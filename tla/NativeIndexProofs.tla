------------------------- MODULE NativeIndexProofs -------------------------
(***************************************************************************)
(* Whatever was stored, an index that passes the checks of a load is one   *)
(* that exact retrieval may run on; and an index that is built and stored  *)
(* passes them.                                                            *)
(***************************************************************************)
EXTENDS NativeIndex, ScoresProofs, FunctionTheorems, SequenceTheorems

(* A strictly increasing list has as many values as entries                *)
(* (is_strictly_increasing_u32).                                           *)
LEMMA IncreasingCount ==
  ASSUME NEW list \in Seq(Nat), Increasing(list)
  PROVE  /\ IsFiniteSet(Values(list))
         /\ Cardinality(Values(list)) = Len(list)
<1>1. DOMAIN list = 1..Len(list) /\ Len(list) \in Nat /\ \A i \in DOMAIN list : list[i] \in Nat
  OBVIOUS
<1>2. list \in Bijection(DOMAIN list, Values(list))
  <2>1. list \in [DOMAIN list -> Values(list)]
    BY <1>1 DEF Values
  <2>2. ASSUME NEW i \in DOMAIN list, NEW j \in DOMAIN list, list[i] = list[j]
        PROVE  i = j
    <3>1. i \in Nat /\ j \in Nat /\ list[i] \in Nat /\ list[j] \in Nat
      BY <1>1
    <3>2. ~(list[i] < list[j]) /\ ~(list[j] < list[i])
      BY <2>2, <3>1
    <3>3. ~(i < j) /\ ~(j < i)
      BY <3>2 DEF Increasing
    <3> QED BY <3>1, <3>3
  <2>3. \A y \in Values(list) : \E i \in DOMAIN list : list[i] = y
    BY DEF Values
  <2> QED BY <2>1, <2>2, <2>3 DEF Bijection, Injection, Surjection, IsInjective
<1>3. IsFiniteSet(DOMAIN list) /\ Cardinality(DOMAIN list) = Len(list)
  <2>1. /\ IsFiniteSet(1..Len(list))
        /\ Cardinality(1..Len(list)) = IF 1 > Len(list) THEN 0 ELSE Len(list) - 1 + 1
    BY <1>1, FS_Interval
  <2> QED BY <1>1, <2>1
<1>4. ExistsBijection(DOMAIN list, Values(list))
  BY <1>2 DEF ExistsBijection
<1> QED BY <1>3, <1>4, FS_Bijection

(* The checks on load imply what exact retrieval takes for granted:        *)
(* comparing lengths is enough to make the two tables inverse to each      *)
(* other (validate_invariants).                                            *)
THEOREM AcceptedIsConsistent ==
  ASSUME NEW idx, Decodes(idx), Accepted(idx)
  PROVE  QueryContract(idx)
<1>1. \A d \in DOMAIN idx.gram_sets :
        /\ Increasing(idx.gram_sets[d])
        /\ Values(idx.gram_sets[d]) \subseteq DOMAIN idx.postings
  BY DEF Accepted, GramSetsOK
<1>2. ASSUME NEW g \in DOMAIN idx.postings
      PROVE  Increasing(idx.postings[g]) /\ Values(idx.postings[g]) = Holders(idx, g)
  <2>1. /\ Increasing(idx.postings[g])
        /\ Len(idx.postings[g]) = Cardinality(Holders(idx, g))
        /\ Values(idx.postings[g]) \subseteq Holders(idx, g)
    BY DEF Accepted, PostingsOK, Holders
  <2>2. idx.postings[g] \in Seq(Nat)
    BY DEF Decodes
  <2>3. Cardinality(Values(idx.postings[g])) = Cardinality(Holders(idx, g))
    BY <2>1, <2>2, IncreasingCount
  <2>4. IsFiniteSet(Holders(idx, g))
    BY FS_Subset DEF Decodes, IsVec, Holders
  <2> QED BY <2>1, <2>3, <2>4, FS_Subset
<1> QED BY <1>1, <1>2 DEF QueryContract

(* Queries run only on a consistent index, whatever corpus was built and   *)
(* whatever happened to the stored bytes (NativeNgramIndex::from_bytes).   *)
THEOREM LoadedCorrect == Spec => []LoadedIsConsistent
<1>1. Init => LoadedIsConsistent
  BY DEF Init, LoadedIsConsistent
<1>2. LoadedIsConsistent /\ [Next]_vars => LoadedIsConsistent'
  <2> SUFFICES ASSUME LoadedIsConsistent, [Next]_vars
               PROVE  LoadedIsConsistent'
    OBVIOUS
  <2>1. CASE Load
    <3>1. CASE Decodes(stored) /\ Accepted(stored)
      <4>1. QueryContract(stored)
        BY <3>1, AcceptedIsConsistent
      <4>2. loaded' = stored
        BY <2>1, <3>1 DEF Load
      <4> QED BY <4>1, <4>2 DEF LoadedIsConsistent, QueryContract, Holders
    <3>2. CASE ~(Decodes(stored) /\ Accepted(stored))
      BY <2>1, <3>2 DEF Load, LoadedIsConsistent, QueryContract, Holders
    <3> QED BY <3>1, <3>2
  <2>2. CASE UNCHANGED loaded
    BY <2>2 DEF LoadedIsConsistent, QueryContract, Holders
  <2>3. Load \/ UNCHANGED loaded
    BY DEF Next, vars, Start, AddDocument, RefuseDocument, FinishBuild, Save, Damage
  <2> QED BY <2>1, <2>2, <2>3
<1> QED BY <1>1, <1>2, PTL DEF Spec

----------------------------------------------------------------------------
(***************************************************************************)
(* The invariant of a build.                                               *)
(***************************************************************************)
TypeOK ==
  /\ lines \in Corpora /\ settings \in Settings
  /\ phase = "new" => index = EmptyIndex
  /\ phase \in {"building", "built", "stored"} =>
       SettingsOK(settings) /\ Count(lines) <= DocIdMax
  /\ phase = "stored" => stored = index
  /\ DOMAIN index = DOMAIN EmptyIndex

GramsOf(d) == Grams(lines[d], settings.orders)

(* The two tables describe the documents read so far.                      *)
TablesRight(idx) ==
  /\ IsVec(idx.gram_sets) /\ Count(idx.gram_sets) <= Count(lines)
  /\ \A d \in DOMAIN idx.gram_sets :
       /\ idx.gram_sets[d] \in Seq(Nat) /\ Increasing(idx.gram_sets[d])
       /\ Values(idx.gram_sets[d]) = {idx.gram_to_id[g] : g \in GramsOf(d)}
       /\ GramsOf(d) \subseteq DOMAIN idx.gram_to_id
  /\ IsVec(idx.postings)
  /\ \A n \in DOMAIN idx.postings :
       /\ idx.postings[n] \in Seq(Nat) /\ Increasing(idx.postings[n])
       /\ Values(idx.postings[n]) = Holders(idx, n)

(* The n-grams are numbered from 0, each with a number of its own.         *)
NumbersRight(idx) ==
  /\ <<>> \notin DOMAIN idx.gram_to_id
  /\ Values(idx.gram_to_id) = DOMAIN idx.postings
  /\ \A g, h \in DOMAIN idx.gram_to_id : idx.gram_to_id[g] = idx.gram_to_id[h] => g = h

ExactMapRight(idx) ==
  /\ DOMAIN idx.exact_map = {lines[d] : d \in DOMAIN idx.gram_sets}
  /\ \A d \in DOMAIN idx.gram_sets :
       LET hit == idx.exact_map[lines[d]] IN
       hit \in Nat /\ hit <= d /\ lines[hit] = lines[d]

(* No more n-grams than there are numbers, which is one more than the      *)
(* largest number.                                                         *)
NumbersFit(idx) == Count(idx.postings) <= GramIdMax + 1

BuildInv ==
  /\ TypeOK
  /\ NumbersFit(index)
  /\ TablesRight(index)
  /\ NumbersRight(index)
  /\ ExactMapRight(index)

----------------------------------------------------------------------------
(***************************************************************************)
(* Lists of numbers.                                                       *)
(***************************************************************************)
(* A finite set of numbers can be listed in order: the n-th entry is the   *)
(* element that n - 1 elements are below.                                  *)
LEMMA AscendingLists ==
  ASSUME NEW S \in SUBSET Nat, IsFiniteSet(S)
  PROVE  /\ Ascending(S) \in Seq(Nat)
         /\ Increasing(Ascending(S))
         /\ Values(Ascending(S)) = S
<1> DEFINE R == {p \in S \X S : p[1] < p[2]}
           k == Cardinality(S)
           B(x) == Cardinality(Below(R, S, x))
           list == [n \in 1..k |-> CHOOSE x \in S : B(x) = n - 1]
<1>1. k \in Nat
  BY FS_CardinalityType
<1>2. \A x, y \in S : <<x, y>> \in R <=> x < y
  OBVIOUS
<1> HIDE DEF R
<1>3. Strict(R, S) /\ Total(R, S)
  BY <1>2 DEF Strict, Total
<1>4. \A x \in S : B(x) \in Nat
  <2> TAKE x \in S
  <2>1. IsFiniteSet(Below(R, S, x))
    BY FS_Subset DEF Below
  <2> QED
    BY <2>1, FS_CardinalityType
<1>5. \A x, y \in S : x <= y => B(x) <= B(y)
  <2> TAKE x \in S, y \in S
  <2> SUFFICES ASSUME x <= y PROVE B(x) <= B(y)
    OBVIOUS
  <2>1. ASSUME NEW t \in Below(R, S, x) PROVE t \in Below(R, S, y)
    <3>1. t \in S /\ t < x
      BY <1>2 DEF Below
    <3>2. t \in Nat /\ x \in Nat /\ y \in Nat /\ t < y
      BY <3>1
    <3> QED
      BY <1>2, <3>1, <3>2 DEF Below
  <2>2. IsFiniteSet(Below(R, S, y)) /\ Below(R, S, x) \in SUBSET Below(R, S, y)
    BY <2>1, FS_Subset DEF Below
  <2> QED
    BY <2>2, FS_Subset
<1> DEFINE F(n) == FirstOnes(R, S, n)
<1>6. \A n \in Nat : \A x : x \in F(n) <=> x \in S /\ B(x) < n
  BY DEF FirstOnes
<1>7. \A n \in Nat : F(n) \in SUBSET S /\ Cardinality(F(n)) = Smaller(n, k)
  BY <1>3, FirstOnesFacts
<1> HIDE DEF F, B, k
<1>8. ASSUME NEW n \in 1..k PROVE \E x \in S : B(x) = n - 1
  <2>1. n \in Nat /\ n - 1 \in Nat
    BY <1>1
  <2>2. Cardinality(F(n)) = n /\ Cardinality(F(n - 1)) = n - 1
    BY <1>1, <1>7, <2>1 DEF Smaller
  <2>3. F(n) \in SUBSET S /\ F(n - 1) \in SUBSET F(n)
    <3>1. ASSUME NEW x \in F(n - 1) PROVE x \in F(n)
      <4>1. x \in S /\ B(x) < n - 1 /\ B(x) \in Nat
        BY <1>4, <1>6, <2>1
      <4>2. B(x) < n
        BY <2>1, <4>1
      <4> QED
        BY <1>6, <2>1, <4>1, <4>2
    <3> QED
      BY <1>7, <2>1, <3>1
  <2>4. F(n) # F(n - 1)
    BY <2>1, <2>2
  <2>5. PICK x \in F(n) : x \notin F(n - 1)
    BY <2>3, <2>4
  <2>6. x \in S /\ B(x) < n /\ ~(B(x) < n - 1) /\ B(x) \in Nat
    BY <1>4, <1>6, <2>1, <2>3, <2>5
  <2>7. B(x) = n - 1
    BY <2>1, <2>6
  <2> QED
    BY <2>6, <2>7
<1>9. list \in [1..k -> S] /\ \A n \in 1..k : B(list[n]) = n - 1
  BY <1>8
<1> HIDE DEF list
<1>10. ASSUME NEW i \in 1..k, NEW j \in 1..k, i < j PROVE list[i] < list[j]
  <2>1. list[i] \in S /\ list[j] \in S /\ list[i] \in Nat /\ list[j] \in Nat
    BY <1>9
  <2>2. ASSUME list[j] <= list[i] PROVE FALSE
    <3>1. B(list[j]) <= B(list[i])
      BY <1>5, <2>1, <2>2
    <3>2. j - 1 <= i - 1 /\ i \in Nat /\ j \in Nat
      BY <1>1, <1>9, <3>1
    <3> QED
      BY <1>10, <3>2
  <2> QED
    BY <2>1, <2>2
<1>11. Increasing(list)
  BY <1>9, <1>10 DEF Increasing
<1>12. Ascending(S) \in [1..k -> S] /\ Increasing(Ascending(S))
  BY <1>9, <1>11 DEF Ascending, k
<1> DEFINE a == Ascending(S)
<1> HIDE DEF a
<1>13. a \in Seq(Nat) /\ Len(a) = k /\ Increasing(a) /\ Values(a) \in SUBSET S
  <2>1. a \in [1..k -> S] /\ Increasing(a)
    BY <1>12 DEF a
  <2>2. a \in [1..k -> Nat]
    BY <2>1
  <2>3. a \in Seq(Nat) /\ Len(a) = k
    BY <1>1, <2>2
  <2> QED
    BY <2>1, <2>3 DEF Values
<1>14. Cardinality(Values(a)) = k
  BY <1>13, IncreasingCount
<1>15. Values(a) = S
  BY <1>13, <1>14, FS_Subset DEF k
<1> QED
  BY <1>13, <1>15 DEF a

(* Sorting a strictly increasing list leaves one with the same values.     *)
LEMMA SortedLists ==
  ASSUME NEW list \in Seq(Nat), Increasing(list)
  PROVE  /\ Sort(list) \in Seq(Nat)
         /\ Increasing(Sort(list))
         /\ Values(Sort(list)) = Values(list)
<1> DEFINE V == Values(list)
           D == DOMAIN list
           At(l, x) == {i \in DOMAIN list : l[i] = x}
           IsSort(s) == /\ \A i, j \in D : i < j => s[i] <= s[j]
                        /\ \A x \in V : Cardinality(At(s, x)) = Cardinality(At(list, x))
           s == Sort(list)
<1>1. D = 1..Len(list) /\ Len(list) \in Nat /\ list \in [D -> V]
      /\ \A i \in D : list[i] \in Nat /\ i \in Nat
  BY DEF Values
<1>2. (\A x \in V : x \in Nat) /\ IsFiniteSet(D)
  <2>1. IsFiniteSet(1..Len(list))
    <3>1. 1 \in Int /\ Len(list) \in Int
      OBVIOUS
    <3> QED
      BY <3>1, FS_Interval
  <2>2. \A x \in V : x \in Nat
    BY <1>1 DEF Values
  <2> QED
    BY <1>1, <2>1, <2>2
<1>3. \A i, j \in D : i < j => list[i] < list[j]
  BY DEF Increasing
<1>4. IsSort(list)
  BY <1>1, <1>3
<1>5. s = CHOOSE t \in [D -> V] : IsSort(t)
  BY DEF Sort
<1>6. \A x \in V : \E i \in D : x = list[i]
  BY DEF Values
<1> HIDE DEF s, V, D
<1>7. s \in [D -> V] /\ IsSort(s)
  BY <1>1, <1>4, <1>5
<1>8. ASSUME NEW x \in V PROVE \E i \in D : At(s, x) = {i}
  <2>1. PICK i \in D : x = list[i]
    BY <1>6
  <2>2. \A j \in D : list[j] = x => j = i
    <3> TAKE j \in D
    <3>1. i < j \/ j < i \/ i = j
      BY <1>1
    <3> QED
      BY <1>1, <1>3, <2>1, <3>1
  <2>3. At(list, x) = {i}
    BY <2>1, <2>2 DEF D
  <2>4. Cardinality(At(list, x)) = 1
    BY <2>3, FS_Singleton
  <2>5. IsFiniteSet(At(s, x)) /\ At(s, x) \in SUBSET D
    BY <1>2, FS_Subset DEF D
  <2>6. Cardinality(At(s, x)) = 1
    BY <1>7, <2>4
  <2> HIDE DEF At
  <2> QED
    BY <2>5, <2>6, FS_Singleton
<1>9. ASSUME NEW i \in D, NEW j \in D, i < j PROVE s[i] < s[j]
  <2>1. s[i] \in V /\ s[j] \in V /\ s[i] <= s[j]
    BY <1>7, <1>9
  <2>2. s[i] # s[j]
    <3> SUFFICES ASSUME s[i] = s[j] PROVE FALSE
      OBVIOUS
    <3>1. i \in At(s, s[i]) /\ j \in At(s, s[i])
      BY DEF D
    <3>2. i = j
      BY <1>8, <2>1, <3>1
    <3> QED
      BY <1>1, <1>9, <3>2
  <2> QED
    BY <1>2, <2>1, <2>2
<1>10. Increasing(s)
  BY <1>7, <1>9 DEF Increasing
<1>11. s \in Seq(Nat)
  <2>1. s \in [1..Len(list) -> Nat]
    BY <1>1, <1>2, <1>7
  <2> QED
    BY <1>1, <2>1
<1>12. Values(s) = V
  <2>1. \A x \in V : \E i \in D : s[i] = x
    BY <1>8
  <2> QED
    BY <1>7, <2>1 DEF Values
<1> QED
  BY <1>10, <1>11, <1>12 DEF s, V

(* A number beyond those of an increasing list may be added at its end.    *)
LEMMA LongerLists ==
  ASSUME NEW list \in Seq(Nat), Increasing(list),
         NEW d \in Nat, \A x \in Values(list) : x < d
  PROVE  /\ list \o <<d>> \in Seq(Nat)
         /\ Increasing(list \o <<d>>)
         /\ Values(list \o <<d>>) = Values(list) \cup {d}
<1> DEFINE l == list \o <<d>>
           n == Len(list)
<1>1. n \in Nat /\ DOMAIN list = 1..n /\ \A i \in 1..n : list[i] \in Nat /\ list[i] < d
  BY DEF Values
<1>2. /\ l \in Seq(Nat) /\ Len(l) = n + 1
      /\ \A i \in 1..(n + 1) : l[i] = IF i <= n THEN list[i] ELSE <<d>>[i - n]
  <2>1. <<d>> \in Seq(Nat) /\ Len(<<d>>) = 1
    OBVIOUS
  <2> QED
    BY <2>1, ConcatProperties
<1> HIDE DEF l, n
<1>3. DOMAIN l = 1..(n + 1) /\ l[n + 1] = d /\ \A i \in 1..n : l[i] = list[i]
  BY <1>1, <1>2
<1>4. Increasing(l)
  <2> SUFFICES ASSUME NEW i \in 1..(n + 1), NEW j \in 1..(n + 1), i < j PROVE l[i] < l[j]
    BY <1>3 DEF Increasing
  <2>1. i \in 1..n
    BY <1>1
  <2>2. CASE j \in 1..n
    BY <1>1, <1>3, <2>1, <2>2 DEF Increasing
  <2>3. CASE j = n + 1
    BY <1>1, <1>3, <2>1, <2>3
  <2> QED
    BY <1>1, <2>2, <2>3
<1>5. Values(l) = Values(list) \cup {d}
  <2>1. \A i \in 1..(n + 1) : l[i] \in Values(list) \cup {d}
    BY <1>1, <1>3 DEF Values
  <2>2. \A x \in Values(list) : \E i \in 1..(n + 1) : x = l[i]
    BY <1>1, <1>3 DEF Values
  <2>3. n + 1 \in 1..(n + 1)
    BY <1>1
  <2> QED
    BY <1>3, <2>1, <2>2, <2>3 DEF Values
<1> QED
  BY <1>2, <1>4, <1>5 DEF l

(* The n-grams of a text are finitely many, and none is empty.             *)
LEMMA GramsFinite ==
  ASSUME NEW A, NEW text \in Seq(A), NEW orders \in SUBSET Nat, IsFiniteSet(orders),
         0 \notin orders
  PROVE  IsFiniteSet(Grams(text, orders)) /\ <<>> \notin Grams(text, orders)
<1> DEFINE G(n) == {SubSeq(text, i, i + n - 1) : i \in 1..(Len(text) - n + 1)}
           All == {G(n) : n \in orders}
<1>1. Len(text) \in Nat /\ \A i \in 1..Len(text) : text[i] \in A
  OBVIOUS
<1>2. ASSUME NEW n \in orders PROVE IsFiniteSet(G(n)) /\ <<>> \notin G(n)
  <2> DEFINE I == 1..(Len(text) - n + 1)
             f == [i \in I |-> SubSeq(text, i, i + n - 1)]
  <2>1. n \in Nat /\ n # 0
    OBVIOUS
  <2>2. IsFiniteSet(I)
    BY <1>1, <2>1, FS_Interval
  <2>3. f \in Surjection(I, G(n))
    BY DEF Surjection
  <2>4. ASSUME NEW i \in I PROVE SubSeq(text, i, i + n - 1) # <<>>
    <3>1. i \in Int /\ i + n - 1 \in Int /\ i <= i + n - 1
          /\ \A j \in i..(i + n - 1) : j \in 1..Len(text)
      BY <1>1, <2>1
    <3>2. Len(SubSeq(text, i, i + n - 1)) = i + n - 1 - i + 1
      BY <1>1, <3>1, SubSeqProperties
    <3>3. Len(SubSeq(text, i, i + n - 1)) # 0
      BY <2>1, <3>1, <3>2
    <3>4. Len(<<>>) = 0
      BY EmptySeq
    <3> QED
      BY <3>3, <3>4
  <2> HIDE DEF I
  <2>5. <<>> \notin G(n)
    BY <2>4 DEF I
  <2> HIDE DEF f, G
  <2> QED
    BY <2>2, <2>3, <2>5, FS_Surjection
<1>3. IsFiniteSet(All)
  <2> DEFINE g == [n \in orders |-> G(n)]
  <2>1. g \in Surjection(orders, All)
    BY DEF Surjection
  <2> HIDE DEF g, All
  <2> QED
    BY <2>1, FS_Surjection
<1>4. IsFiniteSet(UNION All) /\ <<>> \notin UNION All
  <2>1. \A T \in All : IsFiniteSet(T) /\ <<>> \notin T
    BY <1>2
  <2> HIDE DEF All
  <2> QED
    BY <1>3, <2>1, FS_UNION
<1>5. IsFiniteSet({text}) /\ IsFiniteSet({})
  BY FS_Singleton, FS_EmptySet
<1> QED
  BY <1>4, <1>5 DEF Grams

(* Extending one function by another.                                      *)
LEMMA Extended ==
  ASSUME NEW f, NEW h
  PROVE  /\ DOMAIN Extend(f, h) = DOMAIN f \cup DOMAIN h
         /\ \A x \in DOMAIN f : Extend(f, h)[x] = f[x]
         /\ \A x \in DOMAIN h : x \notin DOMAIN f => Extend(f, h)[x] = h[x]
  BY DEF Extend

(* The intervals that are domains of a Vec.                                *)
LEMMA VecDomain ==
  ASSUME NEW vec, NEW n \in Nat, DOMAIN vec = 0..(n - 1)
  PROVE  IsVec(vec) /\ Count(vec) = n
<1>1. IsFiniteSet(0..(n - 1)) /\ Cardinality(0..(n - 1)) = n
  <2>1. 0 \in Int /\ n - 1 \in Int
    OBVIOUS
  <2>2. /\ IsFiniteSet(0..(n - 1))
        /\ Cardinality(0..(n - 1)) = IF 0 > n - 1 THEN 0 ELSE (n - 1) - 0 + 1
    BY <2>1, FS_Interval
  <2> QED
    BY <2>2
<1> QED
  BY <1>1 DEF IsVec, Count

LEMMA VecFacts ==
  ASSUME NEW vec, IsVec(vec)
  PROVE  /\ Count(vec) \in Nat /\ DOMAIN vec = 0..(Count(vec) - 1)
         /\ DOMAIN vec \in SUBSET Nat /\ IsFiniteSet(DOMAIN vec)
<1>1. Count(vec) \in Nat /\ DOMAIN vec = 0..(Count(vec) - 1) /\ IsFiniteSet(DOMAIN vec)
  BY FS_CardinalityType DEF IsVec, Count
<1>2. 0..(Count(vec) - 1) \in SUBSET Nat
  BY <1>1
<1> QED
  BY <1>1, <1>2

(* The next document keeps the two tables, the numbering and the           *)
(* exact-match map as they should be (NativeNgramIndex::new).              *)
LEMMA DocumentAdded ==
  ASSUME BuildInv, phase = "building", Document < Count(lines),
         NEW first, first = Count(index.postings),
         NEW last, last = first + Cardinality(New) - 1,
         NEW ids \in [New -> first..last], Values(ids) = first..last,
         ~TooManyGrams
  PROVE  /\ NumbersFit(WithDocument(ids))
         /\ TablesRight(WithDocument(ids))
         /\ NumbersRight(WithDocument(ids))
         /\ ExactMapRight(WithDocument(ids))
<1> DEFINE d == Document
           text == lines[d]
           old == index.gram_to_id
           G == GramsOf(d)
           N == Extend(old, ids)
           grams == {N[g] : g \in G}
           idx == WithDocument(ids)
           set == Ascending(grams)
           P(n) == IF n \in DOMAIN index.postings THEN index.postings[n] ELSE <<>>
           A(n) == IF n \in grams THEN <<d>> ELSE <<>>
(* what is given *)
<1>1. /\ TypeOK /\ TablesRight(index) /\ NumbersRight(index) /\ ExactMapRight(index)
      /\ SettingsOK(settings) /\ lines \in Corpora /\ settings \in Settings
  BY DEF BuildInv, TypeOK
<1>2. /\ IsVec(lines) /\ Count(lines) \in Nat /\ DOMAIN lines = 0..(Count(lines) - 1)
      /\ \A e \in DOMAIN lines : lines[e] \in Seq(Values(lines[e]))
      /\ settings.orders \in SUBSET Nat /\ IsFiniteSet(settings.orders)
      /\ 0 \notin settings.orders
  BY <1>1, CorpusAssumption, VecFacts DEF SettingsOK
<1>3. /\ IsVec(index.gram_sets) /\ d \in Nat /\ DOMAIN index.gram_sets = 0..(d - 1)
      /\ IsVec(index.postings) /\ first \in Nat /\ DOMAIN index.postings = 0..(first - 1)
  BY <1>1, VecFacts DEF TablesRight, Document
<1>4. IsFiniteSet(G) /\ <<>> \notin G
  <2>1. d \in DOMAIN lines
    BY <1>2, <1>3
  <2> QED
    BY <1>2, <2>1, GramsFinite DEF GramsOf
<1>5. New = G \ DOMAIN old
  BY DEF New, GramsOf
<1>6. /\ idx.gram_sets = Extend(index.gram_sets, [e \in {d} |-> set])
      /\ idx.postings = [n \in Values(N) |-> P(n) \o A(n)]
      /\ idx.gram_to_id = N
      /\ idx.exact_map = Extend(index.exact_map, [t \in {text} |-> d])
  BY Zenon DEF WithDocument, Remember, GramsOf
<1> HIDE DEF idx, set
(* the numbering *)
<1>7. /\ IsFiniteSet(New) /\ Cardinality(New) \in Nat /\ last \in Int /\ first <= last + 1
      /\ IsFiniteSet(first..last) /\ Cardinality(first..last) = Cardinality(New)
  <2>1. IsFiniteSet(New)
    BY <1>4, <1>5, FS_Difference
  <2> DEFINE k == Cardinality(New)
  <2>2. k \in Nat
    BY <2>1, FS_CardinalityType
  <2> HIDE DEF k
  <2>3. last = first + k - 1
    BY DEF k
  <2>4. first \in Int /\ last \in Int
    BY <1>3, <2>2, <2>3
  <2>5. /\ IsFiniteSet(first..last)
        /\ Cardinality(first..last) = IF first > last THEN 0 ELSE last - first + 1
    BY <2>4, FS_Interval
  <2>6. Cardinality(first..last) = k
    BY <1>3, <2>2, <2>3, <2>5
  <2> QED
    BY <1>3, <2>1, <2>2, <2>3, <2>4, <2>5, <2>6 DEF k
<1>8. \A g, h \in New : ids[g] = ids[h] => g = h
  <2>1. ids \in Surjection(New, first..last)
    BY DEF Surjection, Values
  <2>2. ids \in Injection(New, first..last)
    BY <1>7, <2>1, FS_SurjSameCardinalityImpliesInj
  <2> QED
    BY <2>2 DEF Injection, IsInjective
<1>9. /\ DOMAIN N = DOMAIN old \cup G
      /\ \A g \in DOMAIN old : N[g] = old[g]
      /\ \A g \in New : N[g] = ids[g]
  <2>1. DOMAIN ids = New
    OBVIOUS
  <2>2. /\ DOMAIN N = DOMAIN old \cup DOMAIN ids
        /\ \A g \in DOMAIN old : N[g] = old[g]
        /\ \A g \in DOMAIN ids : g \notin DOMAIN old => N[g] = ids[g]
    <3>1. /\ DOMAIN Extend(old, ids) = DOMAIN old \cup DOMAIN ids
          /\ \A g \in DOMAIN old : Extend(old, ids)[g] = old[g]
          /\ \A g \in DOMAIN ids : g \notin DOMAIN old => Extend(old, ids)[g] = ids[g]
      BY ONLY Extended, Zenon
    <3> QED
      BY <3>1, Zenon
  <2> HIDE DEF N, G
  <2>3. DOMAIN N = DOMAIN old \cup G
    BY <1>5, <2>1, <2>2
  <2>4. \A g \in New : g \in DOMAIN ids /\ g \notin DOMAIN old
    BY <1>5, <2>1
  <2>5. \A g \in New : N[g] = ids[g]
    BY <2>2, <2>4
  <2> QED
    BY <2>2, <2>3, <2>5
<1> HIDE DEF N
<1>10. /\ \A g \in DOMAIN old : N[g] \in 0..(first - 1)
       /\ \A g \in New : N[g] \in first..last
       /\ \A n \in 0..(first - 1) : \E g \in DOMAIN old : N[g] = n
       /\ \A n \in first..last : \E g \in New : N[g] = n
  <2>1. Values(old) = 0..(first - 1)
    BY <1>1, <1>3 DEF NumbersRight
  <2>2. Values(ids) = first..last /\ DOMAIN ids = New
    OBVIOUS
  <2> HIDE DEF old
  <2>3. /\ \A g \in DOMAIN old : old[g] \in 0..(first - 1)
        /\ \A n \in 0..(first - 1) : \E g \in DOMAIN old : old[g] = n
    BY <2>1, Zenon DEF Values
  <2>4. /\ \A g \in New : ids[g] \in first..last
        /\ \A n \in first..last : \E g \in New : ids[g] = n
    BY <2>2, Zenon DEF Values
  <2>5. \A g \in DOMAIN old : N[g] \in 0..(first - 1)
    BY <1>9, <2>3
  <2>6. \A g \in New : N[g] \in first..last
    BY <1>9, <2>4
  <2>7. \A n \in 0..(first - 1) : \E g \in DOMAIN old : N[g] = n
    BY <1>9, <2>3
  <2>8. \A n \in first..last : \E g \in New : N[g] = n
    BY <1>9, <2>4
  <2> QED
    BY <2>5, <2>6, <2>7, <2>8
<1>11. Values(N) = 0..last
  <2>1. \A g \in DOMAIN N : g \in DOMAIN old \/ g \in New
    BY <1>5, <1>9
  <2>2. \A g \in DOMAIN N : N[g] \in 0..last
    BY <1>3, <1>7, <1>10, <2>1
  <2>3. \A n \in 0..last : \E g \in DOMAIN N : N[g] = n
    <3> TAKE n \in 0..last
    <3>1. n \in 0..(first - 1) \/ n \in first..last
      BY <1>3, <1>7
    <3> QED
      BY <1>5, <1>9, <1>10, <3>1
  <2> QED
    BY <2>2, <2>3 DEF Values
<1>12. \A g, h \in DOMAIN N : N[g] = N[h] => g = h
  <2> TAKE g \in DOMAIN N, h \in DOMAIN N
  <2> SUFFICES ASSUME N[g] = N[h] PROVE g = h
    OBVIOUS
  <2>1. (g \in DOMAIN old \/ g \in New) /\ (h \in DOMAIN old \/ h \in New)
    BY <1>5, <1>9
  <2>2. CASE g \in DOMAIN old /\ h \in DOMAIN old
    BY <1>1, <1>9, <2>2 DEF NumbersRight
  <2>3. CASE g \in New /\ h \in New
    BY <1>8, <1>9, <2>3
  <2>4. ASSUME NEW x \in DOMAIN old, NEW y \in New, N[x] = N[y] PROVE FALSE
    <3>1. N[x] \in 0..(first - 1) /\ N[y] \in first..last
      BY <1>10
    <3> QED
      BY <1>3, <1>7, <2>4, <3>1
  <2> QED
    BY <2>1, <2>2, <2>3, <2>4
(* the documents *)
<1>13. grams \in SUBSET (0..last) /\ grams \in SUBSET Nat /\ IsFiniteSet(grams)
  <2>1. \A g \in G : N[g] \in 0..last
    BY <1>9, <1>11 DEF Values
  <2>2. IsFiniteSet(0..last)
    <3>1. 0 \in Int /\ last \in Int
      BY <1>7
    <3> QED
      BY <3>1, FS_Interval
  <2>3. grams \in SUBSET (0..last)
    BY <2>1
  <2> HIDE DEF grams
  <2>4. IsFiniteSet(grams)
    BY <2>2, <2>3, FS_Subset
  <2>5. 0..last \in SUBSET Nat
    BY <1>7
  <2> QED
    BY <2>3, <2>4, <2>5
<1>14. set \in Seq(Nat) /\ Increasing(set) /\ Values(set) = grams
  <2> HIDE DEF grams
  <2> QED
    BY <1>13, AscendingLists DEF set
<1>15. /\ DOMAIN idx.gram_sets = 0..d
       /\ \A e \in 0..(d - 1) : idx.gram_sets[e] = index.gram_sets[e]
       /\ idx.gram_sets[d] = set
  <2> DEFINE h == [e \in {d} |-> set]
  <2>1. DOMAIN h = {d} /\ h[d] = set /\ idx.gram_sets = Extend(index.gram_sets, h)
    BY <1>6
  <2> HIDE DEF h, d
  <2> DEFINE f == Extend(index.gram_sets, h)
  <2>2. /\ DOMAIN f = DOMAIN index.gram_sets \cup DOMAIN h
        /\ \A e \in DOMAIN index.gram_sets : f[e] = index.gram_sets[e]
        /\ \A e \in DOMAIN h : e \notin DOMAIN index.gram_sets => f[e] = h[e]
    BY ONLY Extended, Zenon DEF f
  <2>3. idx.gram_sets = f
    BY <2>1
  <2> HIDE DEF f
  <2> QED
    BY <1>3, <2>1, <2>2, <2>3
<1>16. IsVec(idx.gram_sets) /\ Count(idx.gram_sets) = d + 1
  <2> HIDE DEF d
  <2>1. d + 1 \in Nat /\ DOMAIN idx.gram_sets = 0..((d + 1) - 1)
    BY <1>3, <1>15
  <2> QED
    BY <2>1, VecDomain
<1>17. \A e \in 0..d :
         /\ idx.gram_sets[e] \in Seq(Nat) /\ Increasing(idx.gram_sets[e])
         /\ Values(idx.gram_sets[e]) = {N[g] : g \in GramsOf(e)}
         /\ GramsOf(e) \subseteq DOMAIN N
  <2> TAKE e \in 0..d
  <2>1. CASE e = d
    BY <1>9, <1>14, <1>15, <2>1
  <2>2. CASE e \in 0..(d - 1)
    <3>1. /\ index.gram_sets[e] \in Seq(Nat) /\ Increasing(index.gram_sets[e])
          /\ Values(index.gram_sets[e]) = {old[g] : g \in GramsOf(e)}
          /\ GramsOf(e) \subseteq DOMAIN old
      BY <1>1, <1>3, <2>2 DEF TablesRight
    <3>2. {old[g] : g \in GramsOf(e)} = {N[g] : g \in GramsOf(e)}
      BY <1>9, <3>1
    <3> QED
      BY <1>9, <1>15, <2>2, <3>1, <3>2
  <2>3. e = d \/ e \in 0..(d - 1)
    <3> HIDE DEF d
    <3> QED
      BY <1>3
  <2> QED
    BY <2>1, <2>2, <2>3
(* the postings *)
<1>18. /\ DOMAIN idx.postings = 0..last
       /\ \A n \in 0..last : idx.postings[n] = P(n) \o A(n)
  BY <1>6, <1>11
<1>19. ASSUME NEW n \in 0..last
       PROVE  P(n) \in Seq(Nat) /\ Increasing(P(n)) /\ Values(P(n)) = Holders(index, n)
  <2>1. CASE n \in DOMAIN index.postings
    BY <1>1, <2>1 DEF TablesRight
  <2>2. CASE n \notin DOMAIN index.postings
    <3>1. P(n) = <<>>
      BY <2>2
    <3>2. <<>> \in Seq(Nat) /\ Increasing(<<>>) /\ Values(<<>>) = {}
      BY DEF Increasing, Values
    <3>3. \A e \in DOMAIN index.gram_sets : n \notin Values(index.gram_sets[e])
      <4> TAKE e \in DOMAIN index.gram_sets
      <4>1. /\ Values(index.gram_sets[e]) = {old[g] : g \in GramsOf(e)}
            /\ GramsOf(e) \subseteq DOMAIN old
        BY <1>1 DEF TablesRight
      <4>2. \A g \in DOMAIN old : old[g] \in DOMAIN index.postings
        BY <1>1 DEF NumbersRight, Values
      <4> QED
        BY <2>2, <4>1, <4>2
    <3>4. Holders(index, n) = {}
      BY <3>3 DEF Holders
    <3> QED
      BY <3>1, <3>2, <3>4
  <2> QED
    BY <2>1, <2>2
<1>20. ASSUME NEW n \in 0..last
       PROVE  Holders(idx, n) = IF n \in grams THEN Holders(index, n) \cup {d}
                                ELSE Holders(index, n)
  <2> HIDE DEF grams, d
  <2>1. \A e : e \in 0..d <=> e \in 0..(d - 1) \/ e = d
    BY <1>3
  <2>2. \A e : e \in Holders(idx, n) <=> e \in 0..d /\ n \in Values(idx.gram_sets[e])
    BY <1>15 DEF Holders
  <2>3. \A e : e \in Holders(index, n) <=> e \in 0..(d - 1) /\ n \in Values(index.gram_sets[e])
    BY <1>3 DEF Holders
  <2>4. \A e : e \in Holders(idx, n) <=> e \in Holders(index, n) \/ (e = d /\ n \in grams)
    BY <1>14, <1>15, <2>1, <2>2, <2>3
  <2> QED
    BY <2>4
<1>21. ASSUME NEW n \in 0..last
       PROVE  /\ idx.postings[n] \in Seq(Nat) /\ Increasing(idx.postings[n])
              /\ Values(idx.postings[n]) = Holders(idx, n)
  <2> DEFINE p == P(n)
  <2>1. p \in Seq(Nat) /\ Increasing(p) /\ Values(p) = Holders(index, n)
    BY <1>19
  <2>2. idx.postings[n] = p \o A(n)
    BY <1>18
  <2> HIDE DEF p, P, grams, d
  <2>3. CASE n \in grams
    <3>1. \A x \in Values(p) : x < d
      BY <1>3, <2>1 DEF Holders
    <3>2. idx.postings[n] = p \o <<d>>
      BY <2>2, <2>3
    <3> DEFINE q == p \o <<d>>
    <3>3. d \in Nat
      BY <1>3 DEF d
    <3>4. q \in Seq(Nat) /\ Increasing(q) /\ Values(q) = Values(p) \cup {d}
      BY <2>1, <3>1, <3>3, LongerLists
    <3> HIDE DEF q
    <3>5. Holders(idx, n) = Holders(index, n) \cup {d}
      BY <1>20, <2>3
    <3> QED
      BY <2>1, <3>2, <3>4, <3>5 DEF q
  <2>4. CASE n \notin grams
    <3>1. idx.postings[n] = p \o <<>>
      BY <2>2, <2>4
    <3>2. idx.postings[n] = p
      BY <2>1, <3>1, ConcatEmptySeq
    <3> QED
      BY <1>20, <2>1, <2>4, <3>2
  <2> QED
    BY <2>3, <2>4
<1>22. IsVec(idx.postings)
  <2>1. last + 1 \in Nat /\ DOMAIN idx.postings = 0..((last + 1) - 1)
    BY <1>3, <1>7, <1>18
  <2> QED
    BY <2>1, VecDomain
<1>23. TablesRight(idx)
  <2>1. Count(idx.gram_sets) <= Count(lines)
    <3> HIDE DEF d
    <3>1. d < Count(lines)
      BY DEF d
    <3> QED
      BY <1>2, <1>3, <1>16, <3>1
  <2> QED
    <3>1. \A e \in DOMAIN idx.gram_sets :
            /\ idx.gram_sets[e] \in Seq(Nat) /\ Increasing(idx.gram_sets[e])
            /\ Values(idx.gram_sets[e]) = {idx.gram_to_id[g] : g \in GramsOf(e)}
            /\ GramsOf(e) \subseteq DOMAIN idx.gram_to_id
      <4> TAKE e \in DOMAIN idx.gram_sets
      <4>1. idx.gram_to_id = N
        BY <1>6
      <4>2. {idx.gram_to_id[g] : g \in GramsOf(e)} = {N[g] : g \in GramsOf(e)}
        BY <4>1
      <4>3. e \in 0..d
        BY <1>15
      <4> HIDE DEF d
      <4> QED
        BY <1>17, <4>1, <4>2, <4>3
    <3>2. \A n \in DOMAIN idx.postings :
            /\ idx.postings[n] \in Seq(Nat) /\ Increasing(idx.postings[n])
            /\ Values(idx.postings[n]) = Holders(idx, n)
      BY <1>18, <1>21
    <3> QED
      BY <1>16, <1>22, <2>1, <3>1, <3>2 DEF TablesRight
<1>24. NumbersRight(idx)
  <2>1. <<>> \notin DOMAIN N
    BY <1>1, <1>4, <1>9 DEF NumbersRight
  <2> QED
    BY <1>6, <1>11, <1>12, <1>18, <2>1 DEF NumbersRight
(* the exact-match map *)
<1>25. ExactMapRight(idx)
  <2> DEFINE map == index.exact_map
             h == [t \in {text} |-> d]
  <2>1. DOMAIN h = {text} /\ h[text] = d /\ idx.exact_map = Extend(map, h)
    BY <1>6
  <2> HIDE DEF h, d
  <2> DEFINE f == Extend(map, h)
  <2>2. /\ DOMAIN f = DOMAIN map \cup DOMAIN h
        /\ \A t \in DOMAIN map : f[t] = map[t]
        /\ \A t \in DOMAIN h : t \notin DOMAIN map => f[t] = h[t]
    BY ONLY Extended, Zenon DEF map
  <2>3. idx.exact_map = f
    BY <2>1
  <2> HIDE DEF f
  <2>4. /\ DOMAIN idx.exact_map = DOMAIN map \cup {text}
        /\ \A t \in DOMAIN map : idx.exact_map[t] = map[t]
        /\ text \notin DOMAIN map => idx.exact_map[text] = d
    BY <2>1, <2>2, <2>3
  <2>5. /\ DOMAIN map = {lines[e] : e \in 0..(d - 1)}
        /\ \A e \in 0..(d - 1) : /\ map[lines[e]] \in Nat /\ map[lines[e]] <= e
                                /\ lines[map[lines[e]]] = lines[e]
    BY <1>1, <1>3 DEF ExactMapRight
  <2>6. \A e : e \in 0..d <=> e \in 0..(d - 1) \/ e = d
    BY <1>3
  <2>7. DOMAIN idx.exact_map = {lines[e] : e \in 0..d}
    BY <2>4, <2>5, <2>6
  <2>8. ASSUME NEW e \in 0..d
        PROVE  LET hit == idx.exact_map[lines[e]] IN
               hit \in Nat /\ hit <= e /\ lines[hit] = lines[e]
    <3>1. CASE e \in 0..(d - 1)
      BY <2>4, <2>5, <3>1
    <3>2. CASE e = d /\ text \notin DOMAIN map
      BY <1>3, <2>4, <3>2
    <3>3. CASE e = d /\ text \in DOMAIN map
      <4>1. PICK c \in 0..(d - 1) : lines[c] = text
        BY <2>5, <3>3
      <4>2. map[text] \in Nat /\ map[text] <= c /\ lines[map[text]] = text
        BY <2>5, <4>1
      <4>3. map[text] <= e
        BY <1>3, <3>3, <4>2
      <4> QED
        BY <2>4, <3>3, <4>2, <4>3
    <3> QED
      BY <2>6, <3>1, <3>2, <3>3
  <2> QED
    BY <1>15, <2>7, <2>8 DEF ExactMapRight
<1>26. NumbersFit(idx)
  <2> DEFINE k == Cardinality(New)
  <2>1. last + 1 \in Nat /\ DOMAIN idx.postings = 0..((last + 1) - 1)
    BY <1>3, <1>7, <1>18
  <2>2. Count(idx.postings) = last + 1
    BY <2>1, VecDomain
  <2>3. CASE New = {}
    <3>1. k = 0
      BY <2>3, FS_EmptySet
    <3>2. first <= GramIdMax + 1
      BY DEF BuildInv, NumbersFit
    <3> HIDE DEF k
    <3>3. last = first + k - 1
      BY DEF k
    <3> QED
      BY <1>3, <2>2, <3>1, <3>2, <3>3, LimitAssumption DEF NumbersFit
  <2>4. CASE New # {}
    <3>1. ~(first + k - 1 > GramIdMax)
      BY <2>4 DEF TooManyGrams
    <3> HIDE DEF k
    <3>2. last = first + k - 1 /\ k \in Nat
      BY <1>7 DEF k
    <3> QED
      BY <1>3, <2>2, <3>1, <3>2, LimitAssumption DEF NumbersFit
  <2> QED
    BY <2>3, <2>4
<1> QED
  BY <1>23, <1>24, <1>25, <1>26 DEF idx

(* Sorting the posting lists at the end changes nothing.                   *)
LEMMA PostingsSorted ==
  ASSUME BuildInv,
         NEW idx, idx = [index EXCEPT !.postings = [g \in DOMAIN @ |-> Sort(@[g])]]
  PROVE  /\ TablesRight(idx) /\ NumbersRight(idx) /\ ExactMapRight(idx) /\ NumbersFit(idx)
         /\ DOMAIN idx = DOMAIN index
<1> DEFINE p == [g \in DOMAIN index.postings |-> Sort(index.postings[g])]
<1>1. DOMAIN index = {"gram_sets", "postings", "gram_to_id", "exact_map"}
  BY DEF BuildInv, TypeOK, EmptyIndex
<1>2. /\ idx.gram_sets = index.gram_sets /\ idx.gram_to_id = index.gram_to_id
      /\ idx.exact_map = index.exact_map /\ idx.postings = p /\ DOMAIN idx = DOMAIN index
  BY <1>1
<1>3. TablesRight(index) /\ NumbersRight(index) /\ ExactMapRight(index)
  BY DEF BuildInv
<1>4. DOMAIN p = DOMAIN index.postings /\ IsVec(p)
  BY <1>3 DEF TablesRight, IsVec, Count
<1>5. ASSUME NEW n \in DOMAIN p
      PROVE  p[n] \in Seq(Nat) /\ Increasing(p[n]) /\ Values(p[n]) = Holders(idx, n)
  <2>1. /\ index.postings[n] \in Seq(Nat) /\ Increasing(index.postings[n])
        /\ Values(index.postings[n]) = Holders(index, n)
    BY <1>3 DEF TablesRight
  <2>2. /\ Sort(index.postings[n]) \in Seq(Nat) /\ Increasing(Sort(index.postings[n]))
        /\ Values(Sort(index.postings[n])) = Values(index.postings[n])
    BY <2>1, SortedLists
  <2>3. Holders(idx, n) = Holders(index, n)
    BY <1>2 DEF Holders
  <2> QED
    BY <2>1, <2>2, <2>3
<1> HIDE DEF p
<1>6. TablesRight(idx)
  <2>1. IsVec(idx.gram_sets) /\ Count(idx.gram_sets) <= Count(lines)
    BY <1>2, <1>3 DEF TablesRight
  <2>2. ASSUME NEW d \in DOMAIN idx.gram_sets
        PROVE  /\ idx.gram_sets[d] \in Seq(Nat) /\ Increasing(idx.gram_sets[d])
               /\ Values(idx.gram_sets[d]) = {idx.gram_to_id[g] : g \in GramsOf(d)}
               /\ GramsOf(d) \subseteq DOMAIN idx.gram_to_id
    <3>1. {idx.gram_to_id[g] : g \in GramsOf(d)} = {index.gram_to_id[g] : g \in GramsOf(d)}
      BY <1>2
    <3>2. d \in DOMAIN index.gram_sets /\ idx.gram_sets[d] = index.gram_sets[d]
      BY <1>2
    <3> QED
      BY <1>2, <1>3, <3>1, <3>2 DEF TablesRight
  <2>3. IsVec(idx.postings)
    BY <1>2, <1>4
  <2>4. ASSUME NEW n \in DOMAIN idx.postings
        PROVE  /\ idx.postings[n] \in Seq(Nat) /\ Increasing(idx.postings[n])
               /\ Values(idx.postings[n]) = Holders(idx, n)
    BY <1>2, <1>5
  <2> QED
    BY <2>1, <2>2, <2>3, <2>4 DEF TablesRight
<1>7. NumbersRight(idx)
  BY <1>2, <1>3, <1>4 DEF NumbersRight
<1>8. ExactMapRight(idx)
  BY <1>2, <1>3 DEF ExactMapRight
<1>9. NumbersFit(idx)
  BY <1>2, <1>4 DEF BuildInv, NumbersFit, Count
<1> QED
  BY <1>2, <1>6, <1>7, <1>8, <1>9

LEMMA EmptyIsRight ==
  ASSUME lines \in Corpora, index = EmptyIndex
  PROVE  /\ TablesRight(index) /\ NumbersRight(index) /\ ExactMapRight(index)
         /\ NumbersFit(index)
<1>1. /\ index.gram_sets = <<>> /\ index.postings = <<>> /\ index.gram_to_id = <<>>
      /\ index.exact_map = <<>> /\ DOMAIN <<>> = {}
  BY DEF EmptyIndex
<1>2. IsVec(<<>>) /\ Count(<<>>) = 0
  <2>1. DOMAIN <<>> = 0..(0 - 1)
    BY <1>1
  <2>2. 0 \in Nat
    OBVIOUS
  <2> QED
    BY <2>1, <2>2, VecDomain
<1>3. Count(lines) \in Nat
  BY CorpusAssumption, VecFacts
<1> QED
  BY <1>1, <1>2, <1>3, LimitAssumption
     DEF TablesRight, NumbersRight, ExactMapRight, Values, NumbersFit

(* Throughout a build the tables, the numbering and the exact-match map    *)
(* describe the documents read so far (NativeNgramIndex::new).             *)
THEOREM BuildInvariant == Spec => []BuildInv
<1>1. Init => BuildInv
  BY EmptyIsRight DEF Init, BuildInv, TypeOK
<1>2. BuildInv /\ [Next]_vars => BuildInv'
  <2> SUFFICES ASSUME BuildInv, [Next]_vars PROVE BuildInv'
    OBVIOUS
  <2>1. /\ TypeOK /\ TablesRight(index) /\ NumbersRight(index) /\ ExactMapRight(index)
        /\ NumbersFit(index)
    BY DEF BuildInv
  <2>2. UNCHANGED <<lines, settings>>
    BY DEF Next, vars, Start, AddDocument, RefuseDocument, FinishBuild, Save, Damage, Load
  <2>3. ASSUME TablesRight(index'), NumbersRight(index'), ExactMapRight(index'), NumbersFit(index')
        PROVE  /\ TablesRight(index)' /\ NumbersRight(index)' /\ ExactMapRight(index)'
               /\ NumbersFit(index)'
    <3>1. lines' = lines /\ settings' = settings
      BY <2>2
    <3>2. TablesRight(index)'
      BY <2>3, <3>1 DEF TablesRight, GramsOf, Holders
    <3>3. NumbersRight(index)'
      BY <2>3 DEF NumbersRight
    <3>4. ExactMapRight(index)'
      BY <2>3, <3>1 DEF ExactMapRight
    <3>5. NumbersFit(index)'
      BY <2>3 DEF NumbersFit
    <3> QED
      BY <3>2, <3>3, <3>4, <3>5
  <2>4. CASE Start
    <3>1. TypeOK'
      BY <2>1, <2>4 DEF Start, TypeOK, SettingsOK
    <3>2. index' = index
      BY <2>4 DEF Start
    <3> QED
      BY <2>1, <2>3, <3>1, <3>2 DEF BuildInv
  <2>5. CASE AddDocument
    <3> DEFINE first == Count(index.postings)
               last == first + Cardinality(New) - 1
    <3>1. PICK ids \in [New -> first..last] :
            Values(ids) = first..last /\ index' = WithDocument(ids)
      BY <2>5 DEF AddDocument
    <3>2. /\ phase = "building" /\ Document < Count(lines) /\ ~TooManyGrams
          /\ phase' = "building" /\ stored' = stored
      BY <2>5 DEF AddDocument
    <3> HIDE DEF first, last
    <3>3. /\ TablesRight(WithDocument(ids)) /\ NumbersRight(WithDocument(ids))
          /\ ExactMapRight(WithDocument(ids)) /\ NumbersFit(WithDocument(ids))
      BY <3>1, <3>2, DocumentAdded DEF first, last
    <3>4. DOMAIN index' = DOMAIN EmptyIndex
      BY <3>1 DEF WithDocument, EmptyIndex
    <3>5. TypeOK'
      BY <2>1, <2>2, <3>2, <3>4 DEF TypeOK, SettingsOK
    <3> QED
      BY <2>3, <3>1, <3>3, <3>5 DEF BuildInv
  <2>6. CASE FinishBuild
    <3>1. /\ phase = "building" /\ phase' = "built" /\ stored' = stored
          /\ index' = [index EXCEPT !.postings = [g \in DOMAIN @ |-> Sort(@[g])]]
      BY <2>6 DEF FinishBuild
    <3>2. /\ TablesRight(index') /\ NumbersRight(index') /\ ExactMapRight(index')
          /\ NumbersFit(index') /\ DOMAIN index' = DOMAIN index
      BY <3>1, PostingsSorted
    <3>3. TypeOK'
      BY <2>1, <2>2, <3>1, <3>2 DEF TypeOK, SettingsOK
    <3> QED
      BY <2>3, <3>2, <3>3 DEF BuildInv
  <2>7. CASE RefuseDocument \/ Save \/ Damage \/ Load \/ UNCHANGED vars
    <3>1. index' = index
      BY <2>7 DEF RefuseDocument, Save, Damage, Load, vars
    <3>2. TypeOK'
      <4>1. CASE RefuseDocument
        BY <2>1, <4>1 DEF RefuseDocument, TypeOK
      <4>2. CASE Save
        BY <2>1, <4>2 DEF Save, TypeOK, SettingsOK
      <4>3. CASE Damage
        <5>1. phase' = "damaged"
          BY <4>3 DEF Damage
        <5> QED
          BY <2>1, <2>2, <3>1, <5>1 DEF TypeOK
      <4>4. CASE Load
        <5>1. phase' \in {"loaded", "rejected"}
          BY <4>4 DEF Load
        <5> QED
          BY <2>1, <2>2, <3>1, <5>1 DEF TypeOK
      <4>5. CASE UNCHANGED vars
        BY <2>1, <4>5 DEF vars, TypeOK, SettingsOK
      <4> QED
        BY <2>7, <4>1, <4>2, <4>3, <4>4, <4>5
    <3> QED
      BY <2>1, <2>3, <3>1, <3>2 DEF BuildInv
  <2> QED
    BY <2>4, <2>5, <2>6, <2>7 DEF Next
<1> QED
  BY <1>1, <1>2, PTL DEF Spec

(* An index that is built and stored undamaged passes every check of a     *)
(* load unless it uses the last number of an n-gram, and no build goes     *)
(* beyond that one (NativeNgramIndex::from_bytes, validate_invariants).    *)
THEOREM StoredCorrect == Spec => []StoredIndexLoads
<1>1. BuildInv => StoredIndexLoads
  <2> SUFFICES ASSUME BuildInv, phase = "stored"
               PROVE  /\ Count(stored.postings) <= GramIdMax + 1
                      /\ Decodes(stored)
                      /\ Accepted(stored) <=> Count(stored.postings) <= GramIdMax
    BY DEF StoredIndexLoads
  <2>1. /\ stored = index /\ SettingsOK(settings) /\ Count(lines) <= DocIdMax
        /\ lines \in Corpora /\ TablesRight(stored) /\ NumbersRight(stored)
        /\ ExactMapRight(stored) /\ NumbersFit(stored)
    BY DEF BuildInv, TypeOK
  <2> DEFINE S == stored.gram_sets
             P == stored.postings
             M == stored.gram_to_id
             E == stored.exact_map
  <2>2. /\ Count(S) \in Nat /\ DOMAIN S = 0..(Count(S) - 1) /\ IsFiniteSet(DOMAIN S)
        /\ Count(P) \in Nat /\ DOMAIN P = 0..(Count(P) - 1) /\ IsFiniteSet(DOMAIN P)
        /\ Count(lines) \in Nat
    BY <2>1, VecFacts, CorpusAssumption DEF TablesRight
  <2>3. Decodes(stored)
    BY <2>1 DEF Decodes, TablesRight
  <2>4. Count(S) <= DocIdMax
    <3>1. Count(S) <= Count(lines)
      BY <2>1 DEF TablesRight
    <3> HIDE DEF S
    <3> QED
      BY <2>1, <2>2, <3>1, LimitAssumption
  <2>5. GramMapOK(stored)
    <3> DEFINE inv == [n \in DOMAIN P |-> CHOOSE g \in DOMAIN M : M[g] = n]
    <3>1. /\ \A g \in DOMAIN M : M[g] \in DOMAIN P
          /\ \A n \in DOMAIN P : \E g \in DOMAIN M : M[g] = n
          /\ \A g, h \in DOMAIN M : M[g] = M[h] => g = h
      BY <2>1 DEF NumbersRight, Values
    <3>2. \A n \in DOMAIN P : inv[n] \in DOMAIN M /\ M[inv[n]] = n
      BY <3>1
    <3>3. inv \in [DOMAIN P -> DOMAIN M]
      BY <3>2
    <3> HIDE DEF inv, P, M
    <3>4. inv \in Bijection(DOMAIN P, DOMAIN M)
      BY <3>1, <3>2, <3>3 DEF Bijection, Injection, Surjection, IsInjective
    <3>5. Cardinality(DOMAIN M) = Cardinality(DOMAIN P)
      BY <2>2, <3>4, FS_Bijection DEF ExistsBijection
    <3>6. \A g \in DOMAIN M : g # <<>>
      BY <2>1 DEF NumbersRight, M
    <3> QED
      BY <2>1, <3>1, <3>5, <3>6 DEF GramMapOK, NumbersRight, Count, P, M
  <2>6. ExactMapOK(stored)
    <3> DEFINE f == [d \in DOMAIN S |-> lines[d]]
    <3>1. /\ DOMAIN E = {lines[d] : d \in DOMAIN S}
          /\ \A d \in DOMAIN S : E[lines[d]] \in Nat /\ E[lines[d]] <= d
      BY <2>1 DEF ExactMapRight
    <3>2. f \in Surjection(DOMAIN S, DOMAIN E)
      BY <3>1 DEF Surjection
    <3> HIDE DEF f, S, E
    <3>3. Cardinality(DOMAIN E) <= Count(S)
      BY <2>2, <3>2, FS_Surjection DEF Count
    <3>4. \A t \in DOMAIN E : E[t] \in DOMAIN S
      <4> TAKE t \in DOMAIN E
      <4>1. PICK d \in DOMAIN S : t = lines[d]
        BY <3>1
      <4> QED
        BY <2>2, <3>1, <4>1
    <3>5. Values(E) \subseteq DOMAIN S
      BY <3>4 DEF Values
    <3> QED
      BY <3>3, <3>5 DEF ExactMapOK, S, E
  <2>7. GramSetsOK(stored)
    <3> SUFFICES ASSUME NEW d \in DOMAIN S
                 PROVE  Increasing(S[d]) /\ Values(S[d]) \subseteq DOMAIN P
      BY DEF GramSetsOK
    <3>1. /\ Increasing(S[d]) /\ Values(S[d]) = {M[g] : g \in GramsOf(d)}
          /\ GramsOf(d) \subseteq DOMAIN M
      BY <2>1 DEF TablesRight
    <3>2. \A g \in DOMAIN M : M[g] \in DOMAIN P
      BY <2>1 DEF NumbersRight, Values
    <3> QED
      BY <3>1, <3>2
  <2>8. PostingsOK(stored)
    <3> SUFFICES ASSUME NEW n \in DOMAIN P
                 PROVE  /\ Increasing(P[n])
                        /\ Len(P[n]) = Cardinality(Holders(stored, n))
                        /\ Values(P[n]) \subseteq DOMAIN S
                        /\ \A d \in Values(P[n]) : n \in Values(S[d])
      BY DEF PostingsOK
    <3>1. P[n] \in Seq(Nat) /\ Increasing(P[n]) /\ Values(P[n]) = Holders(stored, n)
      BY <2>1 DEF TablesRight
    <3>2. Cardinality(Values(P[n])) = Len(P[n])
      BY <3>1, IncreasingCount
    <3>3. \A d \in Holders(stored, n) : d \in DOMAIN S /\ n \in Values(S[d])
      BY DEF Holders
    <3> QED
      BY <3>1, <3>2, <3>3
  <2> QED
    BY <2>1, <2>3, <2>4, <2>5, <2>6, <2>7, <2>8 DEF Accepted, NumbersFit
<1> QED
  BY BuildInvariant, <1>1, PTL

(* The exact-match map names the first document of every text read so far, *)
(* which has precisely the n-grams of that text                            *)
(* (NativeNgramIndex::new, query_topk_with_mode).                          *)
THEOREM FirstDocumentCorrect == Spec => []FirstDocumentWins
<1>1. BuildInv => FirstDocumentWins
  <2> SUFFICES ASSUME BuildInv PROVE FirstDocumentWins
    OBVIOUS
  <2> DEFINE read == {d \in DOMAIN lines : d < Document}
  <2>1. /\ lines \in Corpora /\ TablesRight(index) /\ ExactMapRight(index)
    BY DEF BuildInv, TypeOK
  <2>2. /\ Document \in Nat /\ DOMAIN index.gram_sets = 0..(Document - 1)
        /\ Document <= Count(lines)
        /\ Count(lines) \in Nat /\ DOMAIN lines = 0..(Count(lines) - 1)
    BY <2>1, VecFacts, CorpusAssumption DEF TablesRight, Document
  <2>3. read = DOMAIN index.gram_sets
    <3>1. \A d : d \in read <=> d \in 0..(Count(lines) - 1) /\ d < Document
      BY <2>2
    <3> HIDE DEF read
    <3>2. \A d : d \in read <=> d \in 0..(Document - 1)
      BY <2>2, <3>1
    <3> QED
      BY <2>2, <3>2
  <2> HIDE DEF read
  <2>4. DOMAIN index.exact_map = {lines[d] : d \in read}
    BY <2>1, <2>3 DEF ExactMapRight
  <2>5. ASSUME NEW d \in read
        PROVE  LET hit == index.exact_map[lines[d]] IN
               /\ hit <= d /\ lines[hit] = lines[d]
               /\ Values(index.gram_sets[hit]) =
                    {index.gram_to_id[g] : g \in Grams(lines[d], settings.orders)}
    <3> DEFINE hit == index.exact_map[lines[d]]
    <3>1. hit \in Nat /\ hit <= d /\ lines[hit] = lines[d]
      BY <2>1, <2>3 DEF ExactMapRight
    <3> HIDE DEF hit
    <3>2. hit \in DOMAIN index.gram_sets
      BY <2>2, <2>3, <3>1
    <3>3. Values(index.gram_sets[hit]) = {index.gram_to_id[g] : g \in GramsOf(hit)}
      BY <2>1, <3>2 DEF TablesRight
    <3>4. GramsOf(hit) = Grams(lines[d], settings.orders)
      BY <3>1 DEF GramsOf
    <3> QED
      BY <3>1, <3>3, <3>4 DEF hit
  <2> QED
    BY <2>4, <2>5 DEF FirstDocumentWins, read
<1> QED
  BY BuildInvariant, <1>1, PTL
=============================================================================
