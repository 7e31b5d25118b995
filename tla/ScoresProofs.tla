---------------------------- MODULE ScoresProofs ----------------------------
(***************************************************************************)
(* Lemmas used by the proofs of the retrieval modules: about finite sets   *)
(* in order, about scores as fractions, and about the order of neighbours. *)
(* What would be an induction over a finite set is here an argument about  *)
(* the least number for which a statement fails.                           *)
(***************************************************************************)
EXTENDS Scores, FiniteSetTheorems, TLAPS

(* A nonempty set of natural numbers has a least one.                      *)
LEMMA LeastNatural ==
  ASSUME NEW T \in SUBSET Nat, T # {}
  PROVE  \E n \in T : \A m \in T : n <= m
<1> DEFINE R == OpToRel(<, Nat)
<1>1. IsWellFoundedOn(R, Nat)
  BY NatLessThanWellFounded
<1>2. \A m, n \in Nat : <<m, n>> \in R <=> m < n
  BY DEF OpToRel
<1> HIDE DEF R
<1>3. PICK x \in T : \A y \in T : ~ (<<y, x>> \in R)
  BY <1>1, WFMin
<1>4. \A y \in T : y \in Nat /\ x \in Nat /\ ~(y < x)
  BY <1>2, <1>3
<1> QED
  BY <1>4

----------------------------------------------------------------------------
(* Finite sets in order.  An order is a set of pairs.                      *)
Strict(R, S) ==
  /\ \A s \in S : <<s, s>> \notin R
  /\ \A s, t, u \in S : <<s, t>> \in R /\ <<t, u>> \in R => <<s, u>> \in R

Total(R, S) == \A s, t \in S : s = t \/ <<s, t>> \in R \/ <<t, s>> \in R

Below(R, S, s) == {t \in S : <<t, s>> \in R}

FirstOnes(R, S, n) == {s \in S : Cardinality(Below(R, S, s)) < n}

(* A nonempty finite set has a minimal element: in a set of the least size *)
(* that had none, an element that is minimal without another one is        *)
(* minimal, or the other one is.                                           *)
LEMMA MinimalElement ==
  ASSUME NEW S, IsFiniteSet(S), S # {}, NEW R, Strict(R, S)
  PROVE  \E s \in S : \A t \in S : <<t, s>> \notin R
<1> DEFINE Lacks(U) == \A s \in U : \E t \in U : <<t, s>> \in R
           Sizes == {n \in Nat : \E U \in SUBSET S : U # {} /\ Cardinality(U) = n /\ Lacks(U)}
<1>1. \A U \in SUBSET S : IsFiniteSet(U) /\ Cardinality(U) \in Nat
  BY FS_Subset, FS_CardinalityType
<1>2. SUFFICES ASSUME Lacks(S) PROVE FALSE
  OBVIOUS
<1>3. Sizes # {} /\ Sizes \in SUBSET Nat
  <2>1. Cardinality(S) \in Sizes
    BY <1>1, <1>2
  <2> QED
    BY <2>1
<1> HIDE DEF Sizes
<1>4. PICK n \in Sizes : \A m \in Sizes : n <= m
  BY <1>3, LeastNatural
<1>5. PICK U \in SUBSET S : U # {} /\ Cardinality(U) = n /\ Lacks(U)
  BY <1>4 DEF Sizes
<1>6. PICK x \in U : TRUE
  BY <1>5
<1> DEFINE V == U \ {x}
<1>7. V \in SUBSET S /\ Cardinality(V) = n - 1 /\ n \in Nat
  BY <1>1, <1>3, <1>5, <1>6, FS_RemoveElement
<1>8. Cardinality(V) \notin Sizes
  BY <1>1, <1>3, <1>4, <1>7
<1>9. V = {} \/ ~Lacks(V)
  BY <1>1, <1>7, <1>8 DEF Sizes
<1>10. \A s \in U : \E t \in U : <<t, s>> \in R
  BY <1>5
<1>11. CASE V = {}
  BY <1>5, <1>6, <1>10, <1>11 DEF Strict
<1>12. CASE \E y \in V : \A t \in V : <<t, y>> \notin R
  <2>1. PICK y \in V : \A t \in V : <<t, y>> \notin R
    BY <1>12
  <2>2. <<x, y>> \in R
    BY <1>10, <2>1
  <2>3. PICK z \in U : <<z, x>> \in R
    BY <1>10
  <2>4. z # x /\ <<z, y>> \in R
    BY <1>5, <2>1, <2>2, <2>3 DEF Strict
  <2> QED
    BY <2>1, <2>3, <2>4
<1> QED
  BY <1>9, <1>11, <1>12

(* The first n elements of a finite set in a total order: there are n of   *)
(* them, or all, and they come before the others.                          *)
LEMMA FirstOnesFacts ==
  ASSUME NEW S, IsFiniteSet(S), NEW R, Strict(R, S), Total(R, S), NEW n \in Nat
  PROVE  /\ FirstOnes(R, S, n) \in SUBSET S
         /\ Cardinality(FirstOnes(R, S, n)) = Smaller(n, Cardinality(S))
         /\ \A s \in FirstOnes(R, S, n), t \in S \ FirstOnes(R, S, n) : <<s, t>> \in R
<1> DEFINE F(m) == FirstOnes(R, S, m)
           B(s) == Below(R, S, s)
<1>1. \A U \in SUBSET S : IsFiniteSet(U) /\ Cardinality(U) \in Nat
  BY FS_Subset, FS_CardinalityType
<1>2. \A s \in S : B(s) \in SUBSET S /\ IsFiniteSet(B(s)) /\ Cardinality(B(s)) \in Nat
  BY <1>1 DEF Below
<1>3. \A m \in Nat : \A s \in S : s \in F(m) <=> Cardinality(B(s)) < m
  BY DEF FirstOnes
<1>4. \A m : F(m) \in SUBSET S
  BY DEF FirstOnes
(* what comes before an element has fewer elements before it               *)
<1>5. ASSUME NEW s \in S, NEW t \in S, <<s, t>> \in R
      PROVE  Cardinality(B(s)) + 1 <= Cardinality(B(t))
  <2>1. B(s) \cup {s} \in SUBSET B(t) /\ s \notin B(s)
    BY <1>5 DEF Below, Strict
  <2>2. Cardinality(B(s) \cup {s}) = Cardinality(B(s)) + 1
    BY <1>2, <2>1, FS_AddElement
  <2> QED
    BY <1>2, <2>1, <2>2, FS_Subset
<1>6. ASSUME NEW m \in Nat, NEW s \in F(m), NEW t \in S \ F(m) PROVE <<s, t>> \in R
  <2>1. s \in S /\ Cardinality(B(s)) < m /\ ~(Cardinality(B(t)) < m)
    BY <1>3, <1>4, <1>6
  <2>2. s # t
    BY <1>6
  <2>3. ASSUME <<t, s>> \in R PROVE FALSE
    BY <1>2, <1>5, <2>1, <2>3
  <2> QED
    BY <2>1, <2>2, <2>3 DEF Total
<1> DEFINE Bad == {m \in Nat : Cardinality(F(m)) # Smaller(m, Cardinality(S))}
<1> HIDE DEF F, B
<1>7. Bad = {}
  <2> SUFFICES ASSUME Bad # {} PROVE FALSE
    OBVIOUS
  <2>1. Bad \in SUBSET Nat
    OBVIOUS
  <2>2. PICK m \in Bad : \A l \in Bad : m <= l
    BY <2>1, LeastNatural
  <2>3. m \in Nat /\ Cardinality(S) \in Nat
    BY <1>1
  <2>4. m # 0
    <3>1. F(0) = {}
      BY <1>2, <1>3, <1>4
    <3>2. Cardinality(F(0)) = 0
      BY <3>1, FS_EmptySet
    <3>3. Smaller(0, Cardinality(S)) = 0
      BY <2>3 DEF Smaller
    <3> QED
      BY <3>2, <3>3
  <2> DEFINE l == m - 1
  <2>5. l \in Nat /\ m = l + 1
    BY <2>3, <2>4
  <2>6. Cardinality(F(l)) = Smaller(l, Cardinality(S))
    BY <2>2, <2>5
  <2>7. F(l) \in SUBSET F(m)
    BY <1>2, <1>3, <1>4, <2>5
  <2> HIDE DEF l
  <2>8. CASE Cardinality(S) <= l
    <3>1. F(l) = S
      BY <1>4, <2>3, <2>5, <2>6, <2>8, FS_Subset DEF Smaller
    <3>2. F(m) = S
      BY <1>4, <2>7, <3>1
    <3> QED
      BY <2>2, <2>3, <2>5, <2>8, <3>2 DEF Smaller
  <2>9. CASE l < Cardinality(S)
    <3>1. Cardinality(F(l)) = l /\ IsFiniteSet(F(l)) /\ F(l) \in SUBSET S
      BY <1>1, <1>4, <2>3, <2>5, <2>6, <2>9 DEF Smaller
    <3> DEFINE Rest == S \ F(l)
    <3>2. Rest # {}
      <4>1. Rest = {} => F(l) = S
        BY <3>1
      <4> QED
        BY <2>3, <2>5, <2>9, <3>1, <4>1
    <3>3. IsFiniteSet(Rest) /\ Strict(R, Rest)
      BY <1>1 DEF Strict
    <3>4. PICK x \in Rest : \A t \in Rest : <<t, x>> \notin R
      BY <3>2, <3>3, MinimalElement
    <3>5. x \in S /\ x \notin F(l) /\ \A t \in Rest \ {x} : <<x, t>> \in R
      BY <3>4 DEF Total
    <3>6. B(x) = F(l)
      <4>1. \A s \in F(l) : <<s, x>> \in R
        BY <1>6, <2>5, <3>5
      <4> QED
        BY <3>1, <3>4, <4>1 DEF B, Below
    <3>7. x \in F(m)
      BY <1>3, <2>3, <2>5, <3>1, <3>5, <3>6
    <3>8. ASSUME NEW t \in Rest \ {x} PROVE t \notin F(m)
      <4>1. t \in S /\ <<x, t>> \in R
        BY <3>5
      <4>2. Cardinality(B(x)) + 1 <= Cardinality(B(t)) /\ Cardinality(B(t)) \in Nat
        BY <1>2, <1>5, <3>5, <4>1
      <4>3. ~(Cardinality(B(t)) < m)
        BY <2>3, <2>5, <3>1, <3>6, <4>2
      <4> QED
        BY <1>3, <2>3, <4>1, <4>3
    <3>9. F(m) = F(l) \cup {x}
      BY <1>4, <2>7, <3>7, <3>8
    <3>10. Cardinality(F(m)) = m
      BY <2>5, <3>1, <3>5, <3>9, FS_AddElement
    <3> QED
      BY <2>2, <2>3, <2>5, <2>9, <3>10 DEF Smaller
  <2> QED
    BY <2>3, <2>5, <2>8, <2>9
<1>8. Cardinality(F(n)) = Smaller(n, Cardinality(S))
  BY <1>7
<1> QED
  BY <1>4, <1>6, <1>8 DEF F
----------------------------------------------------------------------------
(* Scores.                                                                 *)

(* Multiplying both sides of an inequality by a natural number.            *)
LEMMA MulMono ==
  ASSUME NEW x \in Nat, NEW y \in Nat, NEW z \in Nat, x <= y
  PROVE  x * z <= y * z
  OBVIOUS

(* Cancelling a positive factor.                                           *)
LEMMA MulCancel ==
  ASSUME NEW x \in Nat, NEW y \in Nat, NEW z \in Nat \ {0}, x * z <= y * z
  PROVE  x <= y
<1> SUFFICES ASSUME y < x PROVE FALSE
  OBVIOUS
<1>1. y + 1 <= x
  OBVIOUS
<1>2. (y + 1) * z <= x * z
  BY <1>1, MulMono
<1>3. (y + 1) * z = y * z + z
  OBVIOUS
<1> QED
  BY <1>2, <1>3

(* Scores are totally preordered: comparing two of them as the sort does   *)
(* is comparing two integers.                                              *)
LEMMA LeqTotal ==
  ASSUME NEW a \in Fraction, NEW b \in Fraction
  PROVE  /\ Leq(a, b) <=> ~Lt(b, a)
         /\ Lt(a, b) => Leq(a, b)
         /\ Same(a, b) <=> Leq(a, b) /\ Leq(b, a)
         /\ Leq(a, a)
<1>1. /\ a[1] \in Int /\ a[2] \in Int
      /\ b[1] \in Int /\ b[2] \in Int
  BY DEF Fraction
<1>2. /\ a[1] * b[2] \in Int /\ b[1] * a[2] \in Int
      /\ a[1] * a[2] \in Int
  BY <1>1
<1> QED
  BY <1>2 DEF Leq, Lt, Same

LEMMA LeqTransitive ==
  ASSUME NEW a \in Fraction, NEW b \in Fraction, NEW c \in Fraction,
         Leq(a, b), Leq(b, c)
  PROVE  Leq(a, c)
<1> DEFINE p == a[1]  q == a[2]  r == b[1]  s == b[2]  t == c[1]  u == c[2]
<1>1. p \in Nat /\ q \in Nat /\ r \in Nat /\ s \in Nat \ {0} /\ t \in Nat /\ u \in Nat
  BY DEF Fraction
<1>2. p * s <= r * q /\ r * u <= t * s
  BY DEF Leq
<1> HIDE DEF p, q, r, s, t, u
<1>3. (p * s) * u <= (r * q) * u
  <2>1. p * s \in Nat /\ r * q \in Nat
    BY <1>1
  <2> QED
    BY <2>1, <1>1, <1>2, MulMono
<1>4. (r * u) * q <= (t * s) * q
  <2>1. r * u \in Nat /\ t * s \in Nat
    BY <1>1
  <2> QED
    BY <2>1, <1>1, <1>2, MulMono
<1>5. /\ (p * s) * u = (p * u) * s
      /\ (r * q) * u = (r * u) * q
      /\ (t * s) * q = (t * q) * s
  BY <1>1
<1>6. (p * u) * s <= (t * q) * s
  <2>1. (p * u) * s \in Nat /\ (r * u) * q \in Nat /\ (t * q) * s \in Nat
    BY <1>1
  <2> QED
    BY <1>3, <1>4, <1>5, <2>1
<1>7. p * u <= t * q
  <2>1. p * u \in Nat /\ t * q \in Nat
    BY <1>1
  <2> QED
    BY <2>1, <1>1, <1>6, MulCancel
<1> QED
  BY <1>7 DEF Leq, p, q, t, u

LEMMA LtTransitive ==
  ASSUME NEW a \in Fraction, NEW b \in Fraction, NEW c \in Fraction
  PROVE  /\ Lt(a, b) /\ Leq(b, c) => Lt(a, c)
         /\ Leq(a, b) /\ Lt(b, c) => Lt(a, c)
  BY LeqTotal, LeqTransitive

(* A finite set of scores has a largest one.                               *)
LEMMA GreatestScore ==
  ASSUME NEW F \in SUBSET Fraction, IsFiniteSet(F), F # {}
  PROVE  \E f \in F : \A g \in F : Leq(g, f)
<1> DEFINE R == {p \in F \X F : Lt(p[2], p[1])}
<1>1. \A f, g \in F : <<f, g>> \in R <=> Lt(g, f)
  OBVIOUS
<1> HIDE DEF R
<1>2. Strict(R, F)
  BY <1>1, LeqTotal, LtTransitive DEF Strict
<1>3. PICK f \in F : \A g \in F : <<g, f>> \notin R
  BY <1>2, MinimalElement
<1> QED
  BY <1>1, <1>3, LeqTotal

(* ... and a least one.                                                    *)
LEMMA LeastScore ==
  ASSUME NEW F \in SUBSET Fraction, IsFiniteSet(F), F # {}
  PROVE  \E f \in F : \A g \in F : Leq(f, g)
<1> DEFINE R == {p \in F \X F : Lt(p[1], p[2])}
<1>1. \A f, g \in F : <<f, g>> \in R <=> Lt(f, g)
  OBVIOUS
<1> HIDE DEF R
<1>2. Strict(R, F)
  BY <1>1, LeqTotal, LtTransitive DEF Strict
<1>3. PICK f \in F : \A g \in F : <<g, f>> \notin R
  BY <1>2, MinimalElement
<1> QED
  BY <1>1, <1>3, LeqTotal

----------------------------------------------------------------------------
(* The order of neighbours.                                                *)
AnyNeighbour == Nat \X Fraction \X BOOLEAN

(* Neighbours of different documents are strictly ordered.                 *)
LEMMA RanksOrder ==
  ASSUME NEW m \in AnyNeighbour, NEW n \in AnyNeighbour
  PROVE  /\ ~(Ranks(m, n) /\ Ranks(n, m))
         /\ m[1] # n[1] => Ranks(m, n) \/ Ranks(n, m)
         /\ Ranks(m, n) => Leq(n[2], m[2])
<1>1. /\ m[1] \in Nat /\ n[1] \in Nat
      /\ m[2] \in Fraction /\ n[2] \in Fraction
  BY DEF AnyNeighbour
<1> QED
  BY <1>1, LeqTotal DEF Ranks

LEMMA RanksTransitive ==
  ASSUME NEW m \in AnyNeighbour, NEW n \in AnyNeighbour, NEW p \in AnyNeighbour,
         Ranks(m, n), Ranks(n, p)
  PROVE  Ranks(m, p)
<1>1. /\ m[1] \in Nat /\ n[1] \in Nat /\ p[1] \in Nat
      /\ m[2] \in Fraction /\ n[2] \in Fraction /\ p[2] \in Fraction
  BY DEF AnyNeighbour
<1>2. Leq(n[2], m[2]) /\ Leq(p[2], n[2])
  BY RanksOrder
<1>3. Leq(p[2], m[2])
  BY <1>1, <1>2, LeqTransitive
<1>4. CASE Lt(p[2], m[2])
  BY <1>4 DEF Ranks
<1>5. CASE ~Lt(p[2], m[2])
  <2>1. Leq(m[2], p[2])
    BY <1>1, <1>5, LeqTotal
  <2>2. Leq(m[2], n[2]) /\ Leq(n[2], p[2])
    BY <1>1, <1>2, <2>1, LeqTransitive
  <2>3. m[1] < n[1] /\ n[1] < p[1]
    BY <1>1, <2>2, LeqTotal DEF Ranks
  <2>4. m[1] < p[1]
    BY <1>1, <2>3
  <2>5. Same(p[2], m[2])
    BY <1>1, <1>3, <2>1, LeqTotal
  <2> QED
    BY <2>4, <2>5 DEF Ranks
<1> QED
  BY <1>4, <1>5

(* A list of neighbours names no document twice.                           *)
Distinct(S) == \A m, n \in S : m[1] = n[1] => m = n

RankPairs(S) == {p \in S \X S : Ranks(p[1], p[2])}

LEMMA NeighboursOrdered ==
  ASSUME NEW S \in SUBSET AnyNeighbour, Distinct(S)
  PROVE  /\ \A m, n \in S : <<m, n>> \in RankPairs(S) <=> Ranks(m, n)
         /\ Strict(RankPairs(S), S)
         /\ Total(RankPairs(S), S)
<1>1. \A m, n \in S : <<m, n>> \in RankPairs(S) <=> Ranks(m, n)
  BY DEF RankPairs
<1>2. \A m \in S : ~Ranks(m, m)
  BY RanksOrder
<1>3. \A m, n, p \in S : Ranks(m, n) /\ Ranks(n, p) => Ranks(m, p)
  BY RanksTransitive
<1>4. \A m, n \in S : m = n \/ Ranks(m, n) \/ Ranks(n, m)
  BY RanksOrder DEF Distinct
<1> QED
  BY <1>1, <1>2, <1>3, <1>4 DEF Strict, Total

(* Sorting and truncating is possible, and so is naming the first one.     *)
LEMMA TruncationExists ==
  ASSUME NEW S \in SUBSET AnyNeighbour, IsFiniteSet(S), Distinct(S), NEW n \in Nat
  PROVE  Truncation(S, n) # {}
<1> DEFINE T == FirstOnes(RankPairs(S), S, n)
<1>1. /\ T \in SUBSET S
      /\ Cardinality(T) = Smaller(n, Cardinality(S))
      /\ \A s \in T, t \in S \ T : <<s, t>> \in RankPairs(S)
  BY NeighboursOrdered, FirstOnesFacts
<1> HIDE DEF T
<1>2. \A s \in T, t \in S \ T : Ranks(s, t)
  BY <1>1, NeighboursOrdered
<1>3. T \in Truncation(S, n)
  BY <1>1, <1>2 DEF Truncation
<1> QED
  BY <1>3

LEMMA FirstNeighbour ==
  ASSUME NEW S \in SUBSET AnyNeighbour, IsFiniteSet(S), Distinct(S), S # {}
  PROVE  \E n \in S : \A m \in S \ {n} : Ranks(n, m)
<1>1. PICK n \in S : \A m \in S : <<m, n>> \notin RankPairs(S)
  BY NeighboursOrdered, MinimalElement
<1>2. \A m \in S \ {n} : Ranks(n, m)
  BY <1>1, NeighboursOrdered DEF Total
<1> QED
  BY <1>2
=============================================================================
