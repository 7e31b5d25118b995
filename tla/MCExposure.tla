----------------------------- MODULE MCExposure -----------------------------
(***************************************************************************)
(* Training corpora of three pairs over four texts, test sets of up to     *)
(* three segments with one or two references, so that batches of two are   *)
(* cut short; texts that occur on both sides, in the same row and in       *)
(* different ones.                                                         *)
(***************************************************************************)
EXTENDS Exposure

CONSTANTS none, empty, a, b, c, z

MCNGrams == [t \in {a, b, c, z} |->
               CASE t = a -> {1, 2} [] t = b -> {1, 2, 3} [] t = c -> {3, 4} [] t = z -> {5}]

Vec2(x, y) == [i \in 0..1 |-> IF i = 0 THEN x ELSE y]
Vec3(x, y, w) == [i \in 0..2 |-> IF i = 0 THEN x ELSE IF i = 1 THEN y ELSE w]

Run(src, tgt, test, refs, reused) ==
  [train_src |-> src, train_tgt |-> tgt, test_src |-> test, refs |-> refs, reused |-> reused]

Corpora == {<<Vec3(a, b, a), Vec3(b, a, c)>>, <<Vec3(a, b, c), Vec3(c, c, a)>>,
            <<Vec3(c, c, b), Vec3(a, b, b)>>}
Tests == {Vec3(x, y, z) : x, y \in {a, b, c}} \cup {Vec2(z, b), [i \in {0} |-> a]}
RefFiles(test) ==
  {[r \in {0} |-> [i \in DOMAIN test |-> x]] : x \in {a, z}}
    \cup {[r \in 0..1 |-> [i \in DOMAIN test |-> IF (i + r) % 2 = 0 THEN x ELSE y]] :
            x \in {a, c}, y \in {b, z}}

MCInputs ==
  UNION {{Run(p[1], p[2], test, refs, FALSE) : refs \in RefFiles(test)} :
           p \in Corpora, test \in Tests}
    \cup {Run(p[1], IF paired THEN p[2] ELSE none, Vec3(a, z, b), none, reused) :
            p \in Corpora, paired, reused \in BOOLEAN}

(* Thresholds of 0.666 and 0.6675 share the name 0.67, and a score of two   *)
(* thirds lies between them.                                               *)
SomeThresholds == {<<1, 2>>, <<333, 500>>, <<267, 400>>, <<9, 10>>}

(* Two decimals of a threshold, as hundredths.                             *)
Rounded(t) == (200 * t[1] + t[2]) \div (2 * t[2])

(* Wide enough for a reference that only comes near to be named.           *)
MCTolerance == <<2, 5>>

MCNear == <<2, 3>>
MCFar == <<1, 3>>
=============================================================================
