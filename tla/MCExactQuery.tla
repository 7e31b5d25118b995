---------------------------- MODULE MCExactQuery ----------------------------
(***************************************************************************)
(* A small index for TLC: two documents share the best score of a query,   *)
(* one can be ruled out by its length, one query has more n-grams than a   *)
(* counter of CountLimit = 2 holds, and one is a text of the index.        *)
(***************************************************************************)
EXTENDS ExactQuery

CONSTANTS none, noQuery, w1, w2, Documents

AllGramSets == <<{1, 2, 3}, {1, 2}, {3}, {1}, {1, 2}, {1, 2, 3, 4}>>

MCDocs == 0..(Documents - 1)
MCGramSets == [d \in MCDocs |-> AllGramSets[d + 1]]
MCGrams == UNION {MCGramSets[d] : d \in MCDocs}
MCPostings == [g \in MCGrams |-> {d \in MCDocs : g \in MCGramSets[d]}]

MCQueries == 1..3
MCQueryGrams == <<{1, 2, 9}, {1, 2, 3}, {1, 2}>>
MCExactHits == <<none, none, 1>>

ZeroToTwo == 0..2
=============================================================================
