--------------------------- MODULE MCNativeIndex ---------------------------
(***************************************************************************)
(* Corpora of up to three documents over the characters 1 and 2: texts     *)
(* that repeat, that are empty, that are too short for a bigram, and that  *)
(* share their n-grams with a different text.                              *)
(***************************************************************************)
EXTENDS NativeIndex

CONSTANT none

Texts == {<<>>, <<1>>, <<1, 2>>, <<1, 1, 2, 1>>, <<1, 2, 1, 1>>, <<2, 2>>}

SomeCorpora ==
  UNION {[0..(n - 1) -> Texts] : n \in 0..2}
    \cup {[d \in 0..2 |-> IF d = 0 THEN <<1, 2>> ELSE IF d = 1 THEN t ELSE u] :
            t \in Texts, u \in {<<1, 2>>, <<2, 1, 2>>}}
    \cup {[d \in 0..3 |-> <<1>>]}

Setting(o, m, r) ==
  [orders |-> o, mode |-> m, candidate_gram_limit |-> 1, posting_limit |-> 1,
   max_candidates |-> 2, rerank_limit |-> r]

SomeSettings == {Setting({2}, "exact", 1), Setting({1, 2}, "fast", 2), Setting({2}, "exact", 3)}

SomeLists == {<<>>, <<0>>, <<1>>, <<0, 1>>, <<1, 0>>, <<0, 0>>, <<0, 3>>}
=============================================================================
