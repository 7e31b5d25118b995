----------------------------- MODULE ExactQuery -----------------------------
(***************************************************************************)
(* Exact top-k retrieval for a batch of queries, as the native index runs  *)
(* it: a pool of workers takes the queries of one batch call, each worker  *)
(* with a workspace it reuses from query to query (per-document overlap    *)
(* counters of a bounded width and the list of counters it has touched).   *)
(* A query walks the postings of its n-grams, then ranks the documents it  *)
(* touched, skipping those whose length alone keeps them out of the top k. *)
(*                                                                         *)
(* Abstractions.  Texts are their sets of n-grams.  A result list is the   *)
(* set of its documents: Ranks orders it completely.  Documents are ranked *)
(* in any order (the counters path follows the order of first touch, the   *)
(* hash-map path the order of a hash map).                                 *)
(***************************************************************************)
EXTENDS IndexData

CONSTANTS
  NoQuery,     \* no position
  Workers,     \* threads of the pool
  CountLimit   \* largest value of an overlap counter (u16::MAX)

BoundAssumption == NoQuery \notin Queries /\ CountLimit \in Nat

ASSUME Bound == BoundAssumption

VARIABLES
  k,          \* how many neighbours the batch call asks for
  phase,      \* what each worker is doing
  task,       \* the query each worker has taken
  counts,     \* workspace.counts of each worker
  touched,    \* workspace.touched
  unread,     \* query n-grams whose postings are still to be walked
  unranked,   \* candidates still to be ranked
  results,    \* the neighbours kept so far
  kth,        \* the score of the k-th one at the last truncation
  answered,   \* the queries whose neighbours are collected
  answer      \* ... and those neighbours

workspace == <<counts, touched>>
vars == <<k, phase, task, workspace, unread, unranked, results, kth, answered, answer>>

----------------------------------------------------------------------------
(* (mutant) the width of the counters is compared off by one               *)
IsLargeLate(q) == Cardinality(QueryIds(q)) > CountLimit + 1

IsLarge(q) == Cardinality(QueryIds(q)) > CountLimit

UpperBound(q, d) ==
  LengthBound(Cardinality(QueryGrams[q]), Cardinality(GramSets[d]))

(* `counts[index] += 1` on a counter of bounded width.                     *)
Bump(c) == IF c = CountLimit THEN 0 ELSE c + 1

(* (mutant) the touched counters keep their values                          *)
ForgetTouched(w) == counts[w]

ResetCounts(w) == [d \in Docs |-> IF d \in touched[w] THEN 0 ELSE counts[w][d]]
----------------------------------------------------------------------------
Init ==
  /\ k \in Ks
  /\ phase = [w \in Workers |-> "idle"]
  /\ task = [w \in Workers |-> NoQuery]
  /\ counts = [w \in Workers |-> [d \in Docs |-> 0]]
  /\ touched = [w \in Workers |-> {}]
  /\ unread = [w \in Workers |-> {}]
  /\ unranked = [w \in Workers |-> {}]
  /\ results = [w \in Workers |-> {}]
  /\ kth = [w \in Workers |-> Zero]
  /\ answered = {}
  /\ answer = [q \in Queries |-> {}]

Open(q) == q \notin answered /\ \A w \in Workers : task[w] # q

(* A query answered without touching the postings: nothing is asked for,   *)
(* its text is that of a document, or it shares no n-gram with the index.  *)
AnswerDirectly(w, q) ==
  /\ phase[w] = "idle" /\ Open(q)
  /\ \/ /\ k = 0
        /\ answer' = [answer EXCEPT ![q] = {}]
     \/ /\ k # 0 /\ ExactHit[q] # NoDoc
        /\ answer' = [answer EXCEPT ![q] = {<<ExactHit[q], One, TRUE>>}]
     \/ /\ k # 0 /\ ExactHit[q] = NoDoc /\ QueryIds(q) = {}
        /\ answer' = [answer EXCEPT ![q] = {}]
  /\ answered' = answered \cup {q}
  /\ UNCHANGED <<k, phase, task, workspace, unread, unranked, results, kth>>

Searches(w, q) ==
  /\ phase[w] = "idle" /\ Open(q)
  /\ k # 0 /\ ExactHit[q] = NoDoc /\ QueryIds(q) # {}
  /\ task' = [task EXCEPT ![w] = q]

(* A query the counters are wide enough for.                               *)
StartCounting(w, q) ==
  /\ Searches(w, q) /\ ~IsLarge(q)
  /\ phase' = [phase EXCEPT ![w] = "count"]
  /\ counts' = [counts EXCEPT ![w] = ResetCounts(w)]
  /\ touched' = [touched EXCEPT ![w] = {}]
  /\ unread' = [unread EXCEPT ![w] = QueryIds(q)]
  /\ UNCHANGED <<k, unranked, results, kth, answered, answer>>

(* A query with more n-grams than a counter can hold is counted in a hash  *)
(* map of its own, and leaves the workspace alone.                         *)
StartLarge(w, q) ==
  /\ Searches(w, q) /\ IsLarge(q)
  /\ phase' = [phase EXCEPT ![w] = "rank"]
  /\ unranked' = [unranked EXCEPT ![w] = {d \in Docs : Overlap(q, d) > 0}]
  /\ results' = [results EXCEPT ![w] = {}]
  /\ kth' = [kth EXCEPT ![w] = Zero]
  /\ UNCHANGED <<k, workspace, unread, answered, answer>>

WalkPosting(w) ==
  /\ phase[w] = "count"
  /\ \E g \in unread[w] :
       /\ \A h \in unread[w] : WalkedBefore(g, h)
       /\ unread' = [unread EXCEPT ![w] = @ \ {g}]
       /\ touched' = [touched EXCEPT ![w] =
                        @ \cup {d \in Postings[g] : counts[w][d] = 0}]
       /\ counts' = [counts EXCEPT ![w] =
                       [d \in Docs |-> IF d \in Postings[g]
                                       THEN Bump(counts[w][d]) ELSE counts[w][d]]]
  /\ UNCHANGED <<k, phase, task, unranked, results, kth, answered, answer>>

StartRanking(w) ==
  /\ phase[w] = "count" /\ unread[w] = {}
  /\ phase' = [phase EXCEPT ![w] = "rank"]
  /\ unranked' = [unranked EXCEPT ![w] = touched[w]]
  /\ results' = [results EXCEPT ![w] = {}]
  /\ kth' = [kth EXCEPT ![w] = Zero]
  /\ UNCHANGED <<k, task, workspace, unread, answered, answer>>

(* What a worker makes of a candidate.                                     *)
Scored(w, d) ==
  Neighbour(task[w], d, IF IsLarge(task[w]) THEN Overlap(task[w], d) ELSE counts[w][d])

Pruned(w, d) ==
  /\ Cardinality(results[w]) >= k
  /\ Lt(UpperBound(task[w], d), kth[w])

SkipCandidate(w, d) ==
  /\ Pruned(w, d) \/ ~Lt(Zero, Scored(w, d)[2])
  /\ UNCHANGED <<results, kth>>

(* The list is cut back to k whenever it outgrows max(2k, k + 1).          *)
PushCandidate(w, d) ==
  LET pushed == results[w] \cup {Scored(w, d)} IN
  /\ ~Pruned(w, d) /\ Lt(Zero, Scored(w, d)[2])
  /\ IF Cardinality(pushed) > Larger(2 * k, k + 1)
     THEN \E T \in Truncation(pushed, k), last \in pushed :
            /\ IsLast(T, last)
            /\ results' = [results EXCEPT ![w] = T]
            /\ kth' = [kth EXCEPT ![w] = last[2]]
     ELSE /\ results' = [results EXCEPT ![w] = pushed]
          /\ UNCHANGED kth

(* (mutant) the loop continues on a skipped candidate without advancing      *)
RankCandidateStuck(w) ==
  /\ phase[w] = "rank"
  /\ \E d \in unranked[w] :
       \/ SkipCandidate(w, d) /\ UNCHANGED unranked
       \/ PushCandidate(w, d) /\ unranked' = [unranked EXCEPT ![w] = @ \ {d}]
  /\ UNCHANGED <<k, phase, task, workspace, unread, answered, answer>>

RankCandidate(w) ==
  /\ phase[w] = "rank"
  /\ \E d \in unranked[w] :
       /\ SkipCandidate(w, d) \/ PushCandidate(w, d)
       /\ unranked' = [unranked EXCEPT ![w] = @ \ {d}]
  /\ UNCHANGED <<k, phase, task, workspace, unread, answered, answer>>

FinishQuery(w) ==
  /\ phase[w] = "rank" /\ unranked[w] = {}
  /\ \E T \in Truncation(results[w], k) :
       answer' = [answer EXCEPT ![task[w]] = T]
  /\ answered' = answered \cup {task[w]}
  /\ IF IsLarge(task[w])
     THEN UNCHANGED workspace
     ELSE /\ counts' = [counts EXCEPT ![w] = ResetCounts(w)]
          /\ touched' = [touched EXCEPT ![w] = {}]
  /\ phase' = [phase EXCEPT ![w] = "idle"]
  /\ task' = [task EXCEPT ![w] = NoQuery]
  /\ UNCHANGED <<k, unread, unranked, results, kth>>

Work(w) ==
  \/ \E q \in Queries : AnswerDirectly(w, q) \/ StartCounting(w, q) \/ StartLarge(w, q)
  \/ WalkPosting(w)
  \/ StartRanking(w)
  \/ RankCandidate(w)
  \/ FinishQuery(w)

(* The batch call returns when every query has its answer.                 *)
Returned == answered = Queries

Return == Returned /\ UNCHANGED vars

Next == (\E w \in Workers : Work(w)) \/ Return

Spec == Init /\ [][Next]_vars

(* The call blocks until the pool has run every query, and a pool thread   *)
(* that can go on does.                                                    *)
FairSpec == Spec /\ \A w \in Workers : WF_vars(Work(w))
----------------------------------------------------------------------------
TypeOK ==
  /\ k \in Ks
  /\ phase \in [Workers -> {"idle", "count", "rank"}]
  /\ task \in [Workers -> Queries \cup {NoQuery}]
  /\ counts \in [Workers -> [Docs -> 0..CountLimit]]
  /\ touched \in [Workers -> SUBSET Docs]
  /\ unread \in [Workers -> SUBSET Grams]
  /\ unranked \in [Workers -> SUBSET Docs]
  /\ results \in [Workers -> SUBSET (Docs \X Fraction \X BOOLEAN)]
  /\ kth \in [Workers -> Fraction]
  /\ answered \subseteq Queries
  /\ answer \in [Queries -> SUBSET (Docs \X Fraction \X BOOLEAN)]

(* A query whose text is not in the index gets the top k of all documents  *)
(* that share an n-gram with it, whatever the workspace was used for       *)
(* before, whichever order the candidates came in and whatever pruning     *)
(* skipped (rank_exact_candidates: "no-false-negative top-k").             *)
AnswersAreTopK ==
  \A q \in answered :
    ExactHit[q] = NoDoc =>
      answer[q] \in Truncation(Similar(q), k)

(* Every answer, exact-match shortcut included, carries true similarities  *)
(* and its best score is the best in the index, so a top-1 exposure never  *)
(* understates (query_topk_with_mode).                                     *)
BestScoreIsExact ==
  \A q \in answered :
    /\ \A n \in answer[q] : Same(n[2], Similarity(q, n[1]))
    /\ k > 0 => \A d \in Docs :
         Lt(Zero, Similarity(q, d)) =>
           \E n \in answer[q] : Leq(Similarity(q, d), n[2])

(* A worker between queries leaves nothing behind for the next one         *)
(* (QueryWorkspace::reset_counts).                                         *)
WorkspaceIsClean ==
  \A w \in Workers :
    phase[w] = "idle" =>
      /\ touched[w] = {}
      /\ \A d \in Docs : counts[w][d] = 0

(***************************************************************************)
(* The inductive invariant.  While ranking, a candidate is never lost for  *)
(* good: it is unranked, kept, or has k kept neighbours that rank above    *)
(* it; and a kth score other than zero is reached by k kept neighbours.    *)
(***************************************************************************)
Candidates(q) == {d \in Docs : Overlap(q, d) > 0}

Found(q, d) == Neighbour(q, d, Overlap(q, d))

Above(S, n) == {m \in S : Ranks(m, n)}

Clean(w) == touched[w] = {} /\ \A d \in Docs : counts[w][d] = 0

Searching(q) ==
  q \in Queries /\ k # 0 /\ ExactHit[q] = NoDoc

IdleInv(w) == phase[w] = "idle" => Clean(w)

CountInv(w) ==
  phase[w] = "count" =>
    /\ Searching(task[w]) /\ ~IsLarge(task[w])
    /\ unread[w] \subseteq QueryIds(task[w])
    /\ \A d \in Docs :
         counts[w][d] = Cardinality({g \in QueryIds(task[w]) \ unread[w] : d \in Postings[g]})
    /\ touched[w] = {d \in Docs : counts[w][d] > 0}

TallyInv(w) ==
  phase[w] = "rank" =>
    IF IsLarge(task[w]) THEN Clean(w)
    ELSE /\ \A d \in Docs : counts[w][d] = Overlap(task[w], d)
         /\ touched[w] = Candidates(task[w])

Ranked(w) == Candidates(task[w]) \ unranked[w]

RankInv(w) ==
  phase[w] = "rank" =>
    /\ Searching(task[w])
    /\ unranked[w] \subseteq Candidates(task[w])
    /\ IsFiniteSet(results[w])
    /\ results[w] \subseteq {Found(task[w], d) : d \in Ranked(w)}
    /\ \A d \in Ranked(w) :
         \/ Found(task[w], d) \in results[w]
         \/ Cardinality(Above(results[w], Found(task[w], d))) >= k
    /\ \/ kth[w] = Zero
       \/ Cardinality({n \in results[w] : Leq(kth[w], n[2])}) >= k

(* A query whose text is in the index is answered with it alone.           *)
HitInv ==
  \A q \in answered :
    ExactHit[q] # NoDoc =>
      answer[q] = IF k = 0 THEN {} ELSE {<<ExactHit[q], One, TRUE>>}

SearchInv ==
  /\ TypeOK
  /\ HitInv
  /\ \A w \in Workers : IdleInv(w) /\ CountInv(w) /\ TallyInv(w) /\ RankInv(w)
  /\ AnswersAreTopK

(* The batch call returns.                                                 *)
BatchReturns == <>Returned
=============================================================================
