----------------------------- MODULE FastQuery -----------------------------
(***************************************************************************)
(* One approximate query: a bounded number of rare n-grams is selected, a  *)
(* bounded part of their postings is walked until enough candidates are    *)
(* found, the candidates with the most hits are kept, and these are ranked *)
(* by their true similarity.  The queries of a batch share nothing.        *)
(*                                                                         *)
(* Abstraction.  As in ExactQuery, an answer is the set of its neighbours, *)
(* which Ranks orders; a hash map is walked in any order.                  *)
(***************************************************************************)
EXTENDS IndexData

CONSTANT
  Settings  \* settings of fast mode: records of the four limits

ASSUME SettingsAssumption ==
  /\ Settings \subseteq [candidate_gram_limit : Nat \ {0}, posting_limit : Nat \ {0},
                         max_candidates : Nat \ {0}, rerank_limit : Nat \ {0}]
  /\ \A s \in Settings : s.rerank_limit <= s.max_candidates

VARIABLES
  query,      \* position of the query
  topk,       \* k, how many neighbours it asks for
  limits,     \* the settings of the index
  stage,      \* new, walk, rank, done
  unwalked,   \* entries <<n-gram, document>> of postings still to be walked
  hits,       \* counts: hits of each candidate found
  neighbours  \* the neighbours returned

fastVars == <<query, topk, limits, stage, unwalked, hits, neighbours>>
----------------------------------------------------------------------------
(* The first n elements of S in a given order.                             *)
First(S, n, Before(_, _)) ==
  {s \in S : Cardinality({t \in S : Before(t, s) /\ t # s}) < n}

UpTo(a, b) == a <= b

Hits(g) == Cardinality(Postings[g])

(* (mutant) an n-gram with exactly posting_limit documents is left out      *)
RareStrict(q) == {g \in QueryIds(q) : Hits(g) > 0 /\ Hits(g) < limits.posting_limit}

Rare(q) == {g \in QueryIds(q) : Hits(g) > 0 /\ Hits(g) <= limits.posting_limit}

Present(q) == {g \in QueryIds(q) : Hits(g) > 0}

(* (mutant) a query whose n-grams are all frequent selects none             *)
SelectedRareOnly(q) == First(Rare(q), limits.candidate_gram_limit, WalkedBefore)

Selected(q) ==
  First(IF Rare(q) # {} THEN Rare(q) ELSE Present(q),
        limits.candidate_gram_limit, WalkedBefore)

Listed(g) == First(Postings[g], limits.posting_limit, UpTo)

EntryBefore(e, f) ==
  IF e[1] = f[1] THEN e[2] <= f[2] ELSE WalkedBefore(e[1], f[1])

FastCandidates == DOMAIN hits
----------------------------------------------------------------------------
FastInit ==
  /\ query \in Queries
  /\ topk \in Ks
  /\ limits \in Settings
  /\ stage = "new"
  /\ unwalked = {}
  /\ hits = <<>>
  /\ neighbours = {}

(* Nothing is asked for, the text is that of a document, or it shares no   *)
(* n-gram with the index.                                                  *)
AnswerFastDirectly ==
  /\ stage = "new"
  /\ topk = 0 \/ ExactHit[query] # NoDoc \/ QueryIds(query) = {}
  /\ neighbours' = IF topk # 0 /\ ExactHit[query] # NoDoc
               THEN {<<ExactHit[query], One, TRUE>>} ELSE {}
  /\ stage' = "done"
  /\ UNCHANGED <<query, topk, limits, unwalked, hits>>

Select ==
  /\ stage = "new"
  /\ topk # 0 /\ ExactHit[query] = NoDoc /\ QueryIds(query) # {}
  /\ unwalked' = UNION {{<<g, d>> : d \in Listed(g)} : g \in Selected(query)}
  /\ stage' = "walk"
  /\ UNCHANGED <<query, topk, limits, hits, neighbours>>

Full(n) == n >= limits.max_candidates

WalkEntry ==
  /\ stage = "walk"
  /\ \E e \in unwalked :
       /\ \A f \in unwalked : EntryBefore(e, f)
       /\ hits' = [d \in FastCandidates \cup {e[2]} |->
                     (IF d \in FastCandidates THEN hits[d] ELSE 0)
                       + (IF d = e[2] THEN 1 ELSE 0)]
       /\ unwalked' = IF Full(Cardinality(FastCandidates \cup {e[2]}))
                      THEN {} ELSE unwalked \ {e}
  /\ UNCHANGED <<query, topk, limits, stage, neighbours>>

MoreHits(c, d) ==
  \/ hits[c] > hits[d]
  \/ hits[c] = hits[d] /\ c <= d

(* (mutant) the candidates with the lowest numbers are kept                 *)
KeptByNumber == First(FastCandidates, limits.rerank_limit, UpTo)

Kept == First(FastCandidates, limits.rerank_limit, MoreHits)

Trim ==
  /\ stage = "walk" /\ unwalked = {}
  /\ hits' = [d \in Kept |-> hits[d]]
  /\ stage' = "rank"
  /\ UNCHANGED <<query, topk, limits, unwalked, neighbours>>

Reranked(d) == Neighbour(query, d, Cardinality(QueryIds(query) \cap GramSets[d]))

Rank ==
  /\ stage = "rank"
  /\ LET ranked == {n \in {Reranked(d) : d \in FastCandidates} : Lt(Zero, n[2])}
     IN neighbours' \in Truncation(ranked, topk)
  /\ stage' = "done"
  /\ UNCHANGED <<query, topk, limits, unwalked, hits>>

FastDone == stage = "done" /\ UNCHANGED fastVars

FastNext == AnswerFastDirectly \/ Select \/ WalkEntry \/ Trim \/ Rank \/ FastDone

FastSpec == FastInit /\ [][FastNext]_fastVars
----------------------------------------------------------------------------
(* An approximate answer lists neighbours the exact search could give,     *)
(* with the same scores, and a query that shares an n-gram with the index  *)
(* gets one even when all its n-grams are more frequent than the posting   *)
(* limit: approximation may understate an exposure, but neither overstates *)
(* it nor turns an exposed segment into one without any neighbour          *)
(* (candidate_counts_fast, rank_fast_candidates).                          *)
FastOnlyUnderstates ==
  stage = "done" /\ ExactHit[query] = NoDoc =>
    /\ neighbours \subseteq Similar(query) /\ Cardinality(neighbours) <= topk
    /\ topk > 0 /\ Similar(query) # {} => neighbours # {}

(* Limits that the data never reach make no difference.                    *)
Unlimited(q) ==
  /\ Cardinality(QueryIds(q)) <= limits.candidate_gram_limit
  /\ \A g \in QueryIds(q) : Hits(g) <= limits.posting_limit
  /\ Cardinality(Similar(q)) <= limits.max_candidates
  /\ Cardinality(Similar(q)) <= limits.rerank_limit

(* Where no limit bites, the approximate answer is the exact one           *)
(* (query_topk_with_mode: both modes end in the same ranking).             *)
FastIsExactWhenUnlimited ==
  stage = "done" /\ ExactHit[query] = NoDoc /\ Unlimited(query) =>
    neighbours \in Truncation(Similar(query), topk)

(* How many entries of the selection name a document.                      *)
HitsOf(d) == Cardinality({g \in Selected(query) : d \in Listed(g)})

Reachable == {d \in Docs : HitsOf(d) > 0}

(* With room for every candidate, those ranked are the ones most selected  *)
(* n-grams list, ties going to the lower number (candidate_counts_fast).   *)
KeepsMostHits ==
  stage = "rank" /\ Cardinality(Reachable) < limits.max_candidates =>
    /\ Cardinality(FastCandidates) = Smaller(limits.rerank_limit, Cardinality(Reachable))
    /\ \A c \in FastCandidates, d \in Reachable \ FastCandidates :
         \/ HitsOf(c) > HitsOf(d)
         \/ HitsOf(c) = HitsOf(d) /\ c < d
=============================================================================
