----------------------------- MODULE IndexData -----------------------------
(***************************************************************************)
(* What a query sees: an index, a batch of query texts, and the neighbours *)
(* that the sets of n-grams alone define.  Texts are their sets of         *)
(* n-grams, except that the exact-match map tells texts themselves apart.  *)
(***************************************************************************)
EXTENDS Scores

CONSTANTS
  Docs,        \* document numbers of the index
  Grams,       \* n-gram ids of the index
  GramSets,    \* gram_sets: the n-grams of each document
  Postings,    \* postings: the documents of each n-gram
  Queries,     \* positions in the batch
  QueryGrams,  \* n-grams of each query text, also those unknown to the index
  ExactHit,    \* what the exact-match map holds for each query text
  NoDoc,       \* ... when it holds nothing
  Ks           \* the values of k a caller may ask for

(* What a built index satisfies, and what loading one checks               *)
IndexAssumption ==
  /\ Docs \subseteq Nat /\ IsFiniteSet(Docs)
  /\ Grams \subseteq Nat /\ IsFiniteSet(Grams)
  /\ GramSets \in [Docs -> SUBSET Grams]
  /\ Postings \in [Grams -> SUBSET Docs]
  /\ \A g \in Grams, d \in Docs : d \in Postings[g] => g \in GramSets[d]
  /\ \A g \in Grams : Cardinality(Postings[g]) =
                        Cardinality({d \in Docs : g \in GramSets[d]})

(* Equal texts have equal n-grams, and only the empty text has none.       *)
QueryAssumption ==
  /\ Ks \subseteq Nat
  /\ \A q \in Queries : IsFiniteSet(QueryGrams[q])
  /\ NoDoc \notin Docs
  /\ ExactHit \in [Queries -> Docs \cup {NoDoc}]
  /\ \A q \in Queries : ExactHit[q] # NoDoc => GramSets[ExactHit[q]] = QueryGrams[q]
  /\ \A q \in Queries, d \in Docs :
       QueryGrams[q] = {} /\ GramSets[d] = {} => ExactHit[q] # NoDoc

ASSUME Index == IndexAssumption
ASSUME Query == QueryAssumption
----------------------------------------------------------------------------
(* The n-grams of a query that the index knows, and the overlap of a       *)
(* document with them, counted over the postings.                          *)
QueryIds(q) == QueryGrams[q] \cap Grams

Overlap(q, d) == Cardinality({g \in QueryIds(q) : d \in Postings[g]})

(* (mutant) the union counts the overlap twice                              *)
NeighbourBySum(q, d, inter) ==
  <<d, Ratio(inter, Cardinality(QueryGrams[q]) + Cardinality(GramSets[d])), FALSE>>

(* The neighbour a candidate becomes, from its counted overlap: document,  *)
(* score, and whether it came from the exact-match map.                    *)
Neighbour(q, d, inter) ==
  <<d, Ratio(inter, Cardinality(QueryGrams[q]) + Cardinality(GramSets[d]) - inter), FALSE>>

(* Rarer n-grams are walked first.                                         *)
WalkedBefore(g, h) ==
  \/ Cardinality(Postings[g]) < Cardinality(Postings[h])
  \/ Cardinality(Postings[g]) = Cardinality(Postings[h]) /\ g <= h

(* The similarity the answers promise, from the sets of n-grams alone.     *)
Similarity(q, d) == Jaccard(QueryGrams[q], GramSets[d])

Similar(q) ==
  {<<d, Similarity(q, d), FALSE>> :
     d \in {e \in Docs : QueryGrams[q] \cap GramSets[e] # {}}}
=============================================================================
