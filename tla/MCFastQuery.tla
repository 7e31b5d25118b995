---------------------------- MODULE MCFastQuery ----------------------------
(***************************************************************************)
(* An index of five documents in which one n-gram is in every document,    *)
(* one is in a single document, and the others are in between; limits from *)
(* the smallest allowed to ones the data never reach.                      *)
(***************************************************************************)
EXTENDS FastQuery

CONSTANT none

AllGramSets == <<{1, 2, 3}, {1, 2}, {1, 3}, {1}, {1, 2, 4}>>

MCDocs == 0..4
MCGramSets == [d \in MCDocs |-> AllGramSets[d + 1]]
MCGrams == UNION {MCGramSets[d] : d \in MCDocs}
MCPostings == [g \in MCGrams |-> {d \in MCDocs : g \in MCGramSets[d]}]

MCQueryGrams == <<{1, 2, 9}, {1, 2, 3, 9}, {1, 9}, {2, 3, 4}, {9}, {1, 2}>>
MCExactHits == <<none, none, none, none, none, 1>>
MCQueries == 1..6

SomeKs == {0, 1, 2, 5}

SomeSettings ==
  {s \in [candidate_gram_limit : {1, 2, 4}, posting_limit : {1, 3, 5},
          max_candidates : {1, 2, 3, 6}, rerank_limit : {1, 2, 6}] :
     s.rerank_limit <= s.max_candidates}
=============================================================================
