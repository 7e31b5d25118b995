------------------------------- MODULE Scores -------------------------------
(***************************************************************************)
(* Similarity scores as fractions.  The code computes a score as one       *)
(* correctly rounded division of two integer counts, so two scores compare *)
(* as the fractions <<numerator, denominator>> do; the denominators here   *)
(* are the sizes of sets of n-grams, far below the 2^26 at which two       *)
(* different fractions could round to the same double.                     *)
(***************************************************************************)
EXTENDS Integers, FiniteSets

Fraction == Nat \X (Nat \ {0})

Zero == <<0, 1>>
One  == <<1, 1>>

Leq(a, b) == a[1] * b[2] <= b[1] * a[2]
Lt(a, b)  == a[1] * b[2] < b[1] * a[2]
Same(a, b) == a[1] * b[2] = b[1] * a[2]

Smaller(a, b) == IF a <= b THEN a ELSE b
Larger(a, b)  == IF a <= b THEN b ELSE a

(* The fraction the code stores for an overlap of two n-gram sets.         *)
Ratio(inter, union) == IF union = 0 THEN One ELSE <<inter, union>>

(* Jaccard similarity by its definition on sets, with the convention of    *)
(* the code that two empty sets are identical.                             *)
Jaccard(S, T) == Ratio(Cardinality(S \cap T), Cardinality(S \cup T))

(* No overlap of sets of these sizes can score more than this.             *)
LengthBound(m, n) ==
  IF m = 0 /\ n = 0 THEN One
  ELSE IF m = 0 \/ n = 0 THEN Zero
  ELSE <<Smaller(m, n), Larger(m, n)>>

(***************************************************************************)
(* A neighbour is a triple <<document, score, exact>>.                     *)
(***************************************************************************)
(* The order neighbours are sorted in.                                     *)
Ranks(m, n) ==
  \/ Lt(n[2], m[2])
  \/ Same(n[2], m[2]) /\ m[1] < n[1]

(* What sorting S and truncating it to n leaves.                           *)
Truncation(S, n) ==
  {T \in SUBSET S : /\ Cardinality(T) = Smaller(n, Cardinality(S))
                    /\ \A t \in T, s \in S \ T : Ranks(t, s)}

IsLast(T, n) == n \in T /\ \A t \in T \ {n} : Ranks(t, n)
=============================================================================
