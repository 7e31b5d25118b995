--------------------------- MODULE RetrievalProofs ---------------------------
(***************************************************************************)
(* Exact retrieval returns the true top k, for every index, batch, k and   *)
(* number of workers; fast retrieval returns true similarities, the best   *)
(* supported candidates, and the top k where no limit bites.  Both rest on *)
(* the same facts about an index and the order of neighbours.              *)
(***************************************************************************)
EXTENDS ExactQuery, FastQuery, ScoresProofs

Entry == Docs \X Fraction \X BOOLEAN

----------------------------------------------------------------------------
(* The index: postings and document n-grams say the same.                  *)

(* The load-time checks (each posting is backed by a document's n-grams,   *)
(* and has as many members as documents have the n-gram) leave no posting  *)
(* incomplete.                                                             *)
LEMMA PostingsInverse ==
  ASSUME NEW g \in Grams
  PROVE  Postings[g] = {d \in Docs : g \in GramSets[d]}
<1> DEFINE S == {d \in Docs : g \in GramSets[d]}
<1>1. IsFiniteSet(S)
  BY Index, FS_Subset DEF IndexAssumption
<1>2. Postings[g] \in SUBSET S
  BY Index DEF IndexAssumption
<1>3. Cardinality(Postings[g]) = Cardinality(S)
  BY Index DEF IndexAssumption
<1> HIDE DEF S
<1>4. Postings[g] = S
  BY <1>1, <1>2, <1>3, FS_Subset
<1> QED
  BY <1>4 DEF S

LEMMA OverlapIsIntersection ==
  ASSUME NEW q \in Queries, NEW d \in Docs
  PROVE  /\ {g \in QueryIds(q) : d \in Postings[g]} = QueryGrams[q] \cap GramSets[d]
         /\ Overlap(q, d) = Cardinality(QueryGrams[q] \cap GramSets[d])
<1>1. GramSets[d] \subseteq Grams
  BY Index DEF IndexAssumption
<1>2. {g \in QueryIds(q) : d \in Postings[g]} = QueryGrams[q] \cap GramSets[d]
  BY <1>1, PostingsInverse DEF QueryIds
<1> QED
  BY <1>2 DEF Overlap

LEMMA OverlapSizes ==
  ASSUME NEW q \in Queries, NEW d \in Docs
  PROVE  /\ IsFiniteSet(QueryGrams[q]) /\ IsFiniteSet(GramSets[d])
         /\ Cardinality(QueryGrams[q]) \in Nat
         /\ Cardinality(GramSets[d]) \in Nat
         /\ Overlap(q, d) \in Nat
         /\ Overlap(q, d) <= Cardinality(QueryGrams[q])
         /\ Overlap(q, d) <= Cardinality(GramSets[d])
         /\ Overlap(q, d) > 0 <=> QueryGrams[q] \cap GramSets[d] # {}
<1>1. IsFiniteSet(QueryGrams[q])
  BY Query DEF QueryAssumption
<1>2. GramSets[d] \in SUBSET Grams /\ IsFiniteSet(Grams)
  BY Index DEF IndexAssumption
<1>3. IsFiniteSet(GramSets[d])
  BY <1>2, FS_Subset
<1>4. /\ IsFiniteSet(QueryGrams[q] \cap GramSets[d])
      /\ Cardinality(QueryGrams[q] \cap GramSets[d]) <= Cardinality(QueryGrams[q])
      /\ Cardinality(QueryGrams[q] \cap GramSets[d]) <= Cardinality(GramSets[d])
  BY <1>1, <1>3, FS_Intersection
<1>5. /\ Cardinality(QueryGrams[q]) \in Nat
      /\ Cardinality(GramSets[d]) \in Nat
      /\ Cardinality(QueryGrams[q] \cap GramSets[d]) \in Nat
  BY <1>1, <1>3, <1>4, FS_CardinalityType
<1>6. Cardinality(QueryGrams[q] \cap GramSets[d]) = 0 <=> QueryGrams[q] \cap GramSets[d] = {}
  BY <1>4, FS_EmptySet
<1> QED
  BY <1>1, <1>3, <1>4, <1>5, <1>6, OverlapIsIntersection

----------------------------------------------------------------------------
(* Scores: a candidate's counted score is its Jaccard similarity, and its  *)
(* length bounds it.                                                       *)
LEMMA FoundIsSimilar ==
  ASSUME NEW q \in Queries, NEW d \in Docs
  PROVE  /\ Found(q, d) = <<d, Similarity(q, d), FALSE>>
         /\ Found(q, d) \in Entry
         /\ Found(q, d)[1] = d
<1> DEFINE Q == QueryGrams[q]
           D == GramSets[d]
           n == Cardinality(Q) + Cardinality(D) - Overlap(q, d)
<1>1. Overlap(q, d) = Cardinality(Q \cap D)
  BY OverlapIsIntersection
<1>2. n = Cardinality(Q \cup D)
  <2>1. IsFiniteSet(Q) /\ IsFiniteSet(D)
    BY OverlapSizes
  <2>2. Cardinality(Q \cup D) = Cardinality(Q) + Cardinality(D) - Cardinality(Q \cap D)
    BY <2>1, FS_Union
  <2> QED
    BY <1>1, <2>2
<1>3. n \in Nat /\ Overlap(q, d) \in Nat
  BY OverlapSizes
<1>4. Ratio(Overlap(q, d), n) \in Fraction
  BY <1>3 DEF Ratio, Fraction, One
<1>5. Found(q, d) = <<d, Ratio(Overlap(q, d), n), FALSE>>
  BY DEF Found, Neighbour
<1>6. Ratio(Overlap(q, d), n) = Similarity(q, d)
  BY <1>1, <1>2 DEF Similarity, Jaccard
<1>7. Found(q, d) = <<d, Similarity(q, d), FALSE>>
  BY <1>5, <1>6
<1>8. Similarity(q, d) \in Fraction
  BY <1>4, <1>6
<1>9. \A x \in Fraction : <<d, x, FALSE>> \in Entry /\ <<d, x, FALSE>>[1] = d
  BY DEF Entry
<1> QED
  BY <1>7, <1>8, <1>9

LEMMA CandidatesAreSimilar ==
  ASSUME NEW q \in Queries
  PROVE  Similar(q) = {Found(q, d) : d \in Candidates(q)}
<1>1. Candidates(q) = {d \in Docs : QueryGrams[q] \cap GramSets[d] # {}}
  BY OverlapSizes DEF Candidates
<1>2. \A d \in Candidates(q) : Found(q, d) = <<d, Similarity(q, d), FALSE>>
  BY FoundIsSimilar DEF Candidates
<1> QED
  BY <1>1, <1>2 DEF Similar

LEMMA BoundHolds ==
  ASSUME NEW q \in Queries, NEW d \in Candidates(q)
  PROVE  /\ UpperBound(q, d) \in Fraction
         /\ Leq(Found(q, d)[2], UpperBound(q, d))
         /\ Lt(Zero, Found(q, d)[2])
<1> DEFINE m == Cardinality(QueryGrams[q])
           n == Cardinality(GramSets[d])
           i == Overlap(q, d)
<1>1. d \in Docs
  BY DEF Candidates
<1>2. m \in Nat /\ n \in Nat /\ i \in Nat /\ 0 < i /\ i <= m /\ i <= n
  BY <1>1, OverlapSizes DEF Candidates
<1>3. Found(q, d)[2] = Ratio(i, m + n - i)
  BY DEF Found, Neighbour
<1>4. UpperBound(q, d) = LengthBound(m, n)
  BY DEF UpperBound
<1> HIDE DEF m, n, i
<1>5. Ratio(i, m + n - i) = <<i, m + n - i>>
  BY <1>2 DEF Ratio
<1>6. LengthBound(m, n) = <<Smaller(m, n), Larger(m, n)>>
  BY <1>2 DEF LengthBound
<1>7. /\ Smaller(m, n) \in Nat /\ Larger(m, n) \in Nat \ {0}
      /\ i <= Smaller(m, n) /\ Larger(m, n) <= m + n - i
  BY <1>2 DEF Smaller, Larger
<1> DEFINE s == Smaller(m, n)
           l == Larger(m, n)
           u == m + n - i
<1>8. s \in Nat /\ l \in Nat /\ u \in Nat /\ i <= s /\ l <= u
  BY <1>2, <1>7
<1> HIDE DEF s, l, u
<1>9. i * l <= s * u
  <2>1. i * l <= s * l
    BY <1>2, <1>8, MulMono
  <2>2. l * s <= u * s
    BY <1>8, MulMono
  <2>3. /\ l * s = s * l /\ u * s = s * u
        /\ i * l \in Int /\ s * l \in Int /\ s * u \in Int
    BY <1>2, <1>8
  <2> QED
    BY <2>1, <2>2, <2>3
<1>10. Leq(Ratio(i, m + n - i), LengthBound(m, n))
  BY <1>5, <1>6, <1>9 DEF Leq, s, l, u
<1>11. LengthBound(m, n) \in Fraction
  BY <1>6, <1>7 DEF Fraction
<1>12. Lt(Zero, Ratio(i, m + n - i))
  BY <1>2, <1>5 DEF Lt, Zero
<1> QED
  BY <1>3, <1>4, <1>10, <1>11, <1>12

----------------------------------------------------------------------------
(* The order of the neighbours of an index.                                *)
LEMMA EntriesOrder ==
  ASSUME NEW m \in Entry, NEW n \in Entry
  PROVE  /\ m \in AnyNeighbour
         /\ ~(Ranks(m, n) /\ Ranks(n, m))
         /\ m[1] # n[1] => Ranks(m, n) \/ Ranks(n, m)
         /\ Ranks(m, n) => Leq(n[2], m[2])
<1>1. m \in AnyNeighbour /\ n \in AnyNeighbour
  BY Index DEF IndexAssumption, Entry, AnyNeighbour
<1> QED
  BY <1>1, RanksOrder

LEMMA EntriesTransitive ==
  ASSUME NEW m \in Entry, NEW n \in Entry, NEW p \in Entry, Ranks(m, n), Ranks(n, p)
  PROVE  Ranks(m, p)
  BY EntriesOrder, RanksTransitive

----------------------------------------------------------------------------
(* Truncation.                                                             *)

(* Whatever a truncation drops, or had k better neighbours before it, has  *)
(* only better neighbours left.                                            *)
LEMMA TruncationKeeps ==
  ASSUME NEW S, S \subseteq Entry, IsFiniteSet(S),
         NEW n \in Nat \ {0}, n <= Cardinality(S),
         NEW T \in Truncation(S, n),
         NEW e \in Entry,
         \/ e \in S \ T
         \/ /\ \A s \in S : s[1] # e[1]
            /\ Cardinality(Above(S, e)) >= n
  PROVE  /\ T \subseteq S /\ IsFiniteSet(T) /\ Cardinality(T) = n
         /\ \A t \in T : Ranks(t, e)
         /\ Cardinality(Above(T, e)) >= n
<1>1. /\ T \in SUBSET S /\ Cardinality(T) = Smaller(n, Cardinality(S))
      /\ \A t \in T, s \in S \ T : Ranks(t, s)
  BY DEF Truncation
<1>2. IsFiniteSet(T)
  BY <1>1, FS_Subset
<1>3. Cardinality(T) = n
  BY <1>1, FS_CardinalityType DEF Smaller
<1>4. ASSUME NEW t \in T PROVE Ranks(t, e)
  <2>1. CASE e \in S \ T
    BY <1>1, <2>1
  <2>2. CASE /\ \A s \in S : s[1] # e[1]
             /\ Cardinality(Above(S, e)) >= n
    <3> SUFFICES ASSUME ~Ranks(t, e) PROVE FALSE
      OBVIOUS
    <3> DEFINE B == Above(S, e)
    <3>1. t \in Entry /\ t \in S
      BY <1>1
    <3>2. Ranks(e, t)
      BY <2>2, <3>1, EntriesOrder
    <3>3. ASSUME NEW b \in B PROVE b \in T /\ b # t
      <4>1. b \in S /\ b \in Entry /\ Ranks(b, e)
        BY DEF Above
      <4>2. Ranks(b, t)
        BY <3>1, <3>2, <4>1, EntriesTransitive
      <4>3. ~Ranks(t, b)
        BY <3>1, <4>1, <4>2, EntriesOrder
      <4> QED
        BY <1>1, <3>1, <4>1, <4>2, <4>3
    <3>4. B \in SUBSET S /\ IsFiniteSet(B)
      <4>1. B \in SUBSET S
        BY DEF Above
      <4> QED
        BY <4>1, FS_Subset
    <3>5. B \cup {t} \in SUBSET T /\ t \notin B
      BY <3>3
    <3>6. Cardinality(B \cup {t}) = Cardinality(B) + 1
      BY <3>4, <3>5, FS_AddElement
    <3>7. Cardinality(B \cup {t}) <= Cardinality(T)
      BY <1>2, <3>5, FS_Subset
    <3>8. Cardinality(B) \in Nat
      BY <3>4, FS_CardinalityType
    <3> QED
      BY <1>3, <2>2, <3>6, <3>7, <3>8
  <2> QED
    BY <2>1, <2>2
<1>5. Above(T, e) = T
  BY <1>4 DEF Above
<1> QED
  BY <1>1, <1>2, <1>3, <1>4, <1>5

LEMMA FoundFinite ==
  ASSUME NEW q \in Queries
  PROVE  /\ IsFiniteSet({Found(q, d) : d \in Candidates(q)})
         /\ {Found(q, d) : d \in Candidates(q)} \subseteq Entry
<1> DEFINE C == {Found(q, d) : d \in Candidates(q)}
           f == [c \in C |-> c[1]]
<1>1. \A d \in Candidates(q) : d \in Docs /\ Found(q, d)[1] = d /\ Found(q, d) \in Entry
  BY FoundIsSimilar DEF Candidates
<1>2. f \in [C -> Docs]
  BY <1>1
<1>3. \A a, b \in C : f[a] = f[b] => a = b
  BY <1>1
<1>4. f \in Injection(C, Docs)
  BY <1>2, <1>3 DEF Injection, IsInjective
<1>5. IsFiniteSet(Docs)
  BY Index DEF IndexAssumption
<1> HIDE DEF C, f
<1>6. IsFiniteSet(C)
  BY <1>4, <1>5, FS_Injection
<1> QED
  BY <1>1, <1>6 DEF C

(* Where nothing is found, the empty answer is the top k.                  *)
LEMMA NothingIsTop ==
  ASSUME NEW q \in Queries, NEW n \in Ks, n = 0 \/ QueryIds(q) = {}
  PROVE  /\ {} \in Truncation(Similar(q), n)
         /\ n # 0 => Similar(q) = {}
<1>1. IsFiniteSet(Similar(q))
  BY FoundFinite, CandidatesAreSimilar
<1>2. n \in Nat /\ Cardinality(Similar(q)) \in Nat
  BY <1>1, FS_CardinalityType, Query DEF QueryAssumption
<1>3. QueryIds(q) = {} => Similar(q) = {}
  <2> HAVE QueryIds(q) = {}
  <2>1. \A d \in Docs : QueryGrams[q] \cap GramSets[d] = {}
    BY Index DEF QueryIds, IndexAssumption
  <2> QED
    BY <2>1 DEF Similar
<1>4. n = 0 \/ Cardinality(Similar(q)) = 0
  BY <1>3, FS_EmptySet
<1>5. Smaller(n, Cardinality(Similar(q))) = 0
  BY <1>2, <1>4 DEF Smaller
<1> QED
  BY <1>3, <1>5, FS_EmptySet DEF Truncation

LEMMA SimilarCount ==
  ASSUME NEW q \in Queries
  PROVE  Cardinality(Similar(q)) = Cardinality(Candidates(q))
<1> DEFINE C == Candidates(q)
           S == {Found(q, d) : d \in C}
           f == [d \in C |-> Found(q, d)]
<1>1. \A d \in C : Found(q, d)[1] = d
  BY FoundIsSimilar DEF Candidates
<1>2. f \in [C -> S] /\ \A a, b \in C : f[a] = f[b] => a = b
  BY <1>1
<1>3. \A s \in S : \E d \in C : f[d] = s
  OBVIOUS
<1>4. C \in SUBSET Docs /\ IsFiniteSet(C)
  BY Index, FS_Subset DEF IndexAssumption, Candidates
<1>5. f \in Injection(C, S) /\ f \in Surjection(C, S)
  BY <1>2, <1>3 DEF Injection, IsInjective, Surjection
<1>6. Similar(q) = S
  BY CandidatesAreSimilar
<1> HIDE DEF C, S, f
<1> QED
  BY <1>4, <1>5, <1>6, FS_Surjection DEF C

(* When every candidate is kept or has n better kept ones, the top n of    *)
(* the kept ones is the top n of all.                                      *)
LEMMA KeptTopIsTop ==
  ASSUME NEW q \in Queries, NEW n \in Nat \ {0}, NEW R,
         IsFiniteSet(R), R \subseteq {Found(q, d) : d \in Candidates(q)},
         \A d \in Candidates(q) :
            Found(q, d) \in R \/ Cardinality(Above(R, Found(q, d))) >= n,
         NEW T \in Truncation(R, n)
  PROVE  T \in Truncation(Similar(q), n)
<1> DEFINE C == {Found(q, d) : d \in Candidates(q)}
<1>1. IsFiniteSet(C) /\ C \subseteq Entry /\ Similar(q) = C
  BY FoundFinite, CandidatesAreSimilar
<1>2. \A c \in C : c \in R \/ Cardinality(Above(R, c)) >= n
  OBVIOUS
<1>3. \A a, b \in C : a[1] = b[1] => a = b
  <2>1. \A d \in Candidates(q) : Found(q, d)[1] = d
    BY FoundIsSimilar DEF Candidates
  <2> QED
    BY <2>1
<1> HIDE DEF C
<1>4. R \in SUBSET C /\ R \subseteq Entry
  BY <1>1 DEF C
<1>5. Cardinality(R) \in Nat /\ Cardinality(C) \in Nat /\ Cardinality(R) <= Cardinality(C)
  BY <1>1, <1>4, FS_CardinalityType, FS_Subset
<1>6. CASE Cardinality(R) < n
  <2>1. ASSUME NEW c \in C PROVE c \in R
    <3>1. Above(R, c) \in SUBSET R
      BY DEF Above
    <3>2. /\ Cardinality(Above(R, c)) <= Cardinality(R)
          /\ IsFiniteSet(Above(R, c))
      BY <3>1, FS_Subset
    <3>3. Cardinality(Above(R, c)) \in Nat
      BY <3>2, FS_CardinalityType
    <3> QED
      BY <1>2, <1>5, <1>6, <3>2, <3>3
  <2>2. R = C
    BY <1>4, <2>1
  <2> QED
    BY <1>1, <2>2
<1>7. CASE n <= Cardinality(R)
  <2>1. /\ T \in SUBSET R /\ Cardinality(T) = Smaller(n, Cardinality(R))
        /\ \A t \in T, s \in R \ T : Ranks(t, s)
    BY DEF Truncation
  <2>2. Cardinality(T) = Smaller(n, Cardinality(C))
    BY <1>5, <1>7, <2>1 DEF Smaller
  <2>3. ASSUME NEW t \in T, NEW c \in C \ T PROVE Ranks(t, c)
    <3>1. CASE c \in R
      BY <2>1, <3>1
    <3>2. CASE c \notin R
      <4>1. \A s \in R : s[1] # c[1]
        BY <1>3, <1>4, <3>2
      <4>2. Cardinality(Above(R, c)) >= n /\ c \in Entry
        BY <1>1, <1>2, <3>2
      <4> QED
        BY <1>4, <1>7, <4>1, <4>2, TruncationKeeps
    <3> QED
      BY <3>1, <3>2
  <2>4. T \in SUBSET C
    BY <1>4, <2>1
  <2> QED
    BY <1>1, <2>2, <2>3, <2>4 DEF Truncation
<1> QED
  BY <1>5, <1>6, <1>7

----------------------------------------------------------------------------
(* The invariant of one worker.                                            *)
WorkerInv(w) == IdleInv(w) /\ CountInv(w) /\ TallyInv(w) /\ RankInv(w)

(* What the invariant of a worker depends on.                              *)
Own(w) == <<phase[w], task[w], counts[w], touched[w], unread[w], unranked[w],
            results[w], kth[w]>>

LEMMA OwnInvariant ==
  ASSUME NEW w \in Workers, WorkerInv(w), k' = k, Own(w)' = Own(w)
  PROVE  WorkerInv(w)'
<1>1. /\ phase'[w] = phase[w] /\ task'[w] = task[w]
      /\ counts'[w] = counts[w] /\ touched'[w] = touched[w]
      /\ unread'[w] = unread[w] /\ unranked'[w] = unranked[w]
      /\ results'[w] = results[w] /\ kth'[w] = kth[w]
  BY DEF Own
<1>2. IdleInv(w)'
  BY <1>1 DEF WorkerInv, IdleInv, Clean
<1>3. CountInv(w)'
  BY <1>1 DEF WorkerInv, CountInv, Searching
<1>4. TallyInv(w)'
  BY <1>1 DEF WorkerInv, TallyInv, Clean
<1>5. RankInv(w)'
  BY <1>1 DEF WorkerInv, RankInv, Searching, Ranked
<1> QED
  BY <1>2, <1>3, <1>4, <1>5 DEF WorkerInv

(* A step of one worker leaves the others' state alone.                    *)
LEMMA OthersUnmoved ==
  ASSUME TypeOK, NEW w \in Workers, Work(w), NEW v \in Workers \ {w}
  PROVE  k' = k /\ Own(v)' = Own(v)
<1>1. ASSUME NEW q \in Queries, AnswerDirectly(w, q) PROVE k' = k /\ Own(v)' = Own(v)
  BY <1>1 DEF AnswerDirectly, workspace, Own
<1>2. ASSUME NEW q \in Queries, StartCounting(w, q) PROVE k' = k /\ Own(v)' = Own(v)
  BY <1>2 DEF StartCounting, Searches, TypeOK, Own
<1>3. ASSUME NEW q \in Queries, StartLarge(w, q) PROVE k' = k /\ Own(v)' = Own(v)
  BY <1>3 DEF StartLarge, Searches, workspace, TypeOK, Own
<1>4. CASE WalkPosting(w)
  BY <1>4 DEF WalkPosting, TypeOK, Own
<1>5. CASE StartRanking(w)
  BY <1>5 DEF StartRanking, workspace, TypeOK, Own
<1>6. CASE RankCandidate(w)
  BY <1>6 DEF RankCandidate, SkipCandidate, PushCandidate, workspace, TypeOK, Own
<1>7. CASE FinishQuery(w)
  BY <1>7 DEF FinishQuery, workspace, TypeOK, Own
<1> QED
  BY <1>1, <1>2, <1>3, <1>4, <1>5, <1>6, <1>7 DEF Work

----------------------------------------------------------------------------
(* Counting.                                                               *)
LEMMA StartCountingInv ==
  ASSUME TypeOK, NEW w \in Workers, WorkerInv(w), NEW q \in Queries, StartCounting(w, q)
  PROVE  TypeOK' /\ WorkerInv(w)'
<1>1. /\ phase'[w] = "count" /\ task'[w] = q /\ touched'[w] = {}
      /\ unread'[w] = QueryIds(q) /\ k' = k
      /\ counts'[w] = [d \in Docs |-> IF d \in touched[w] THEN 0 ELSE counts[w][d]]
      /\ phase[w] = "idle"
  BY DEF StartCounting, Searches, TypeOK, ResetCounts
<1>2. \A d \in Docs : counts'[w][d] = 0
  BY <1>1 DEF WorkerInv, IdleInv, Clean
<1>3. \A d \in Docs : {g \in QueryIds(q) \ unread'[w] : d \in Postings[g]} = {}
  BY <1>1
<1>4. CountInv(w)'
  <2>1. Searching(q)' /\ ~IsLarge(q)
    BY <1>1 DEF StartCounting, Searches, Searching
  <2>2. \A d \in Docs :
          counts'[w][d] = Cardinality({g \in QueryIds(q) \ unread'[w] : d \in Postings[g]})
    BY <1>2, <1>3, FS_EmptySet
  <2>3. {d \in Docs : counts'[w][d] > 0} = {}
    BY <1>2
  <2> QED
    BY <1>1, <2>1, <2>2, <2>3 DEF CountInv
<1>5. IdleInv(w)' /\ TallyInv(w)' /\ RankInv(w)'
  BY <1>1 DEF IdleInv, TallyInv, RankInv
<1>6. TypeOK'
  <2>1. ResetCounts(w) \in [Docs -> 0..CountLimit]
    BY Bound DEF ResetCounts, TypeOK, BoundAssumption
  <2>2. QueryIds(q) \in SUBSET Grams
    BY DEF QueryIds
  <2> QED
    BY <2>1, <2>2 DEF TypeOK, StartCounting, Searches
<1> QED
  BY <1>4, <1>5, <1>6 DEF WorkerInv

LEMMA WalkPostingInv ==
  ASSUME TypeOK, NEW w \in Workers, WorkerInv(w), WalkPosting(w)
  PROVE  TypeOK' /\ WorkerInv(w)'
<1> DEFINE q == task[w]
<1>1. PICK g \in unread[w] :
        /\ unread' = [unread EXCEPT ![w] = @ \ {g}]
        /\ touched' = [touched EXCEPT ![w] =
                         @ \cup {d \in Postings[g] : counts[w][d] = 0}]
        /\ counts' = [counts EXCEPT ![w] =
                        [d \in Docs |-> IF d \in Postings[g]
                                        THEN Bump(counts[w][d]) ELSE counts[w][d]]]
  BY DEF WalkPosting
<1>2. /\ phase[w] = "count" /\ phase' = phase /\ task' = task /\ k' = k
      /\ unranked' = unranked /\ results' = results /\ kth' = kth
      /\ answered' = answered /\ answer' = answer
  BY DEF WalkPosting
<1>3. /\ Searching(q) /\ ~IsLarge(q) /\ q \in Queries
      /\ unread[w] \subseteq QueryIds(q)
      /\ \A d \in Docs :
           counts[w][d] = Cardinality({h \in QueryIds(q) \ unread[w] : d \in Postings[h]})
      /\ touched[w] = {d \in Docs : counts[w][d] > 0}
  BY <1>2 DEF WorkerInv, CountInv, Searching
<1>4. g \in Grams /\ g \in QueryIds(q) /\ Postings[g] \subseteq Docs
  BY <1>1, <1>3, Index DEF TypeOK, IndexAssumption
<1>5. IsFiniteSet(QueryIds(q)) /\ Cardinality(QueryIds(q)) <= CountLimit
  <2>1. IsFiniteSet(QueryIds(q))
    BY <1>3, Query, FS_Intersection DEF QueryIds, QueryAssumption
  <2>2. Cardinality(QueryIds(q)) \in Nat
    BY <2>1, FS_CardinalityType
  <2> QED
    BY <1>3, <2>1, <2>2, Bound DEF IsLarge, BoundAssumption
<1> DEFINE Seen(d) == {h \in QueryIds(q) \ unread[w] : d \in Postings[h]}
           Now(d) == {h \in QueryIds(q) \ (unread[w] \ {g}) : d \in Postings[h]}
<1>6. ASSUME NEW d \in Docs
      PROVE  /\ counts'[w][d] = Cardinality(Now(d))
             /\ counts'[w][d] \in 0..CountLimit
             /\ counts'[w][d] > 0 <=> d \in Postings[g] \/ counts[w][d] > 0
  <2>1. /\ Seen(d) \in SUBSET QueryIds(q) /\ g \notin Seen(d)
        /\ Now(d) \in SUBSET QueryIds(q)
        /\ d \in Postings[g] => Now(d) = Seen(d) \cup {g}
        /\ d \notin Postings[g] => Now(d) = Seen(d)
    BY <1>1, <1>3, <1>4
  <2>2. /\ IsFiniteSet(Seen(d)) /\ Cardinality(Seen(d)) \in Nat
        /\ Cardinality(Now(d)) <= CountLimit
        /\ Cardinality(Now(d)) \in Nat
    <3>1. /\ IsFiniteSet(Seen(d)) /\ IsFiniteSet(Now(d))
          /\ Cardinality(Now(d)) <= Cardinality(QueryIds(q))
      BY <1>5, <2>1, FS_Subset
    <3>2. /\ Cardinality(Seen(d)) \in Nat /\ Cardinality(Now(d)) \in Nat
          /\ Cardinality(QueryIds(q)) \in Nat
      BY <1>5, <3>1, FS_CardinalityType
    <3> QED
      BY <1>5, <3>1, <3>2, Bound DEF BoundAssumption
  <2>3. counts[w][d] = Cardinality(Seen(d))
    BY <1>3
  <2>4. counts'[w][d] = IF d \in Postings[g] THEN Bump(counts[w][d]) ELSE counts[w][d]
    BY <1>1 DEF TypeOK
  <2>5. CASE d \in Postings[g]
    <3>1. Cardinality(Now(d)) = Cardinality(Seen(d)) + 1
      BY <2>1, <2>2, <2>5, FS_AddElement
    <3> QED
      BY <2>2, <2>3, <2>4, <2>5, <3>1, Bound DEF Bump, BoundAssumption
  <2>6. CASE d \notin Postings[g]
    <3>1. counts'[w][d] = counts[w][d] /\ Cardinality(Now(d)) = Cardinality(Seen(d))
      BY <2>1, <2>4, <2>6
    <3> HIDE DEF Seen, Now
    <3> QED
      BY <2>2, <2>3, <2>6, <3>1, Bound DEF BoundAssumption
  <2> QED
    BY <2>5, <2>6
<1>7. counts'[w] \in [Docs -> 0..CountLimit]
  <2>1. counts'[w] = [d \in Docs |-> IF d \in Postings[g]
                                     THEN Bump(counts[w][d]) ELSE counts[w][d]]
    BY <1>1 DEF TypeOK
  <2> QED
    BY <1>6, <2>1
<1>8. touched'[w] = {d \in Docs : counts'[w][d] > 0}
  <2>1. touched'[w] = touched[w] \cup {d \in Postings[g] : counts[w][d] = 0}
    BY <1>1 DEF TypeOK
  <2>2. touched'[w] = {d \in Docs : d \in Postings[g] \/ counts[w][d] > 0}
    <3>1. \A d \in Docs : counts[w][d] \in Nat
      BY Bound DEF TypeOK, BoundAssumption
    <3> QED
      BY <1>3, <1>4, <2>1, <3>1
  <2>3. \A d \in Docs : counts'[w][d] > 0 <=> d \in Postings[g] \/ counts[w][d] > 0
    BY <1>6
  <2> QED
    BY <2>2, <2>3
<1>9. unread'[w] = unread[w] \ {g}
  BY <1>1 DEF TypeOK
<1>10. CountInv(w)'
  BY <1>2, <1>3, <1>6, <1>8, <1>9 DEF CountInv, Searching
<1>11. IdleInv(w)' /\ TallyInv(w)' /\ RankInv(w)'
  BY <1>2 DEF IdleInv, TallyInv, RankInv
<1>12. TypeOK'
  <2>1. counts' \in [Workers -> [Docs -> 0..CountLimit]]
    BY <1>1, <1>7 DEF TypeOK
  <2>2. touched' \in [Workers -> SUBSET Docs] /\ unread' \in [Workers -> SUBSET Grams]
    BY <1>1, <1>4 DEF TypeOK
  <2> QED
    BY <1>2, <2>1, <2>2 DEF TypeOK
<1> QED
  BY <1>10, <1>11, <1>12 DEF WorkerInv

----------------------------------------------------------------------------
(* Ranking.                                                                *)

(* A search starts ranking with every candidate unranked.                  *)
LEMMA RankInvStarts ==
  ASSUME NEW w \in Workers, Searching(task[w])', phase'[w] = "rank",
         unranked'[w] = Candidates(task'[w]), results'[w] = {}, kth'[w] = Zero
  PROVE  RankInv(w)'
<1>1. Ranked(w)' = {}
  BY DEF Ranked
<1> QED
  BY <1>1, FS_EmptySet DEF RankInv

LEMMA StartRankingInv ==
  ASSUME TypeOK, NEW w \in Workers, WorkerInv(w), StartRanking(w)
  PROVE  TypeOK' /\ WorkerInv(w)'
<1>1. /\ phase[w] = "count" /\ unread[w] = {}
      /\ phase'[w] = "rank" /\ task' = task /\ k' = k
      /\ counts' = counts /\ touched' = touched
      /\ unranked'[w] = touched[w] /\ results'[w] = {} /\ kth'[w] = Zero
  BY DEF StartRanking, workspace, TypeOK
<1>2. /\ Searching(task[w]) /\ ~IsLarge(task[w]) /\ task[w] \in Queries
      /\ \A d \in Docs :
           counts[w][d] = Cardinality({g \in QueryIds(task[w]) \ unread[w] : d \in Postings[g]})
      /\ touched[w] = {d \in Docs : counts[w][d] > 0}
  BY <1>1 DEF WorkerInv, CountInv, Searching
<1>3. \A d \in Docs : counts[w][d] = Overlap(task[w], d)
  <2>1. QueryIds(task[w]) \ unread[w] = QueryIds(task[w])
    BY <1>1
  <2> QED
    BY <1>2, <2>1 DEF Overlap
<1>4. touched[w] = Candidates(task[w])
  BY <1>2, <1>3 DEF Candidates
<1>5. Searching(task[w])'
  BY <1>1, <1>2 DEF Searching
<1>6. RankInv(w)'
  BY <1>1, <1>4, <1>5, RankInvStarts
<1>7. TallyInv(w)'
  BY <1>1, <1>2, <1>3, <1>4 DEF TallyInv
<1>8. IdleInv(w)' /\ CountInv(w)'
  BY <1>1 DEF IdleInv, CountInv
<1>9. TypeOK'
  <2>1. Zero \in Fraction
    BY DEF Zero, Fraction
  <2> QED
    BY <2>1 DEF TypeOK, StartRanking, workspace
<1> QED
  BY <1>6, <1>7, <1>8, <1>9 DEF WorkerInv

LEMMA StartLargeInv ==
  ASSUME TypeOK, NEW w \in Workers, WorkerInv(w), NEW q \in Queries, StartLarge(w, q)
  PROVE  TypeOK' /\ WorkerInv(w)'
<1>1. /\ phase[w] = "idle" /\ phase'[w] = "rank" /\ task'[w] = q /\ k' = k
      /\ counts' = counts /\ touched' = touched /\ IsLarge(q)
      /\ unranked'[w] = Candidates(q) /\ results'[w] = {} /\ kth'[w] = Zero
  BY DEF StartLarge, Searches, workspace, TypeOK, Candidates
<1>2. Searching(task[w])'
  BY <1>1 DEF Searching, StartLarge, Searches
<1>3. RankInv(w)'
  BY <1>1, <1>2, RankInvStarts
<1>4. TallyInv(w)'
  BY <1>1 DEF TallyInv, WorkerInv, IdleInv, Clean
<1>5. IdleInv(w)' /\ CountInv(w)'
  BY <1>1 DEF IdleInv, CountInv
<1>6. TypeOK'
  <2>1. Zero \in Fraction
    BY DEF Zero, Fraction
  <2> QED
    BY <2>1 DEF TypeOK, StartLarge, Searches, workspace
<1> QED
  BY <1>3, <1>4, <1>5, <1>6 DEF WorkerInv

(* The counters hold the overlaps, so a candidate is scored right.         *)
LEMMA ScoredIsFound ==
  ASSUME TypeOK, NEW w \in Workers, WorkerInv(w), phase[w] = "rank",
         NEW d \in unranked[w]
  PROVE  /\ d \in Candidates(task[w]) /\ d \in Docs /\ task[w] \in Queries
         /\ Scored(w, d) = Found(task[w], d)
<1>1. d \in Candidates(task[w]) /\ task[w] \in Queries
  BY DEF WorkerInv, RankInv, Searching
<1>2. d \in Docs
  BY <1>1 DEF Candidates
<1>3. ~IsLarge(task[w]) => counts[w][d] = Overlap(task[w], d)
  BY <1>2 DEF WorkerInv, TallyInv
<1> QED
  BY <1>1, <1>2, <1>3 DEF Scored, Found

(* A skipped candidate has k kept neighbours ranking above it.             *)
LEMMA SkippedIsBeaten ==
  ASSUME TypeOK, NEW w \in Workers, WorkerInv(w), phase[w] = "rank",
         NEW d \in unranked[w], SkipCandidate(w, d)
  PROVE  Cardinality(Above(results[w], Found(task[w], d))) >= k
<1> DEFINE q == task[w]
           R == results[w]
           B == {n \in R : Leq(kth[w], n[2])}
<1>1. /\ d \in Candidates(q) /\ d \in Docs /\ q \in Queries
      /\ Scored(w, d) = Found(q, d)
  BY ScoredIsFound
<1>2. /\ UpperBound(q, d) \in Fraction
      /\ Leq(Found(q, d)[2], UpperBound(q, d))
      /\ Lt(Zero, Found(q, d)[2])
  BY <1>1, BoundHolds
<1>3. Found(q, d) \in Entry /\ Found(q, d)[2] \in Fraction
  BY <1>1, FoundIsSimilar DEF Entry
<1>4. Lt(UpperBound(q, d), kth[w])
  BY <1>1, <1>2 DEF SkipCandidate, Pruned
<1>5. kth[w] \in Fraction
  BY DEF TypeOK
<1>6. kth[w] # Zero
  <2>1. ~Lt(UpperBound(q, d), Zero)
    BY <1>2 DEF Lt, Zero, Fraction
  <2> QED
    BY <1>4, <2>1
<1>7. Cardinality(B) >= k /\ IsFiniteSet(R) /\ R \subseteq Entry
  BY <1>6 DEF WorkerInv, RankInv, TypeOK, Entry
<1>8. ASSUME NEW n \in B PROVE n \in Above(R, Found(q, d))
  <2>1. n \in R /\ n[2] \in Fraction /\ Leq(kth[w], n[2])
    BY <1>7 DEF Entry
  <2>2. Lt(Found(q, d)[2], kth[w])
    BY <1>2, <1>3, <1>4, <1>5, LtTransitive
  <2>3. Lt(Found(q, d)[2], n[2])
    BY <1>3, <1>5, <2>1, <2>2, LtTransitive
  <2> QED
    BY <2>1, <2>3 DEF Above, Ranks
<1>9. B \in SUBSET Above(R, Found(q, d)) /\ Above(R, Found(q, d)) \in SUBSET R
  BY <1>8 DEF Above
<1>10. /\ IsFiniteSet(Above(R, Found(q, d)))
       /\ Cardinality(B) <= Cardinality(Above(R, Found(q, d)))
       /\ IsFiniteSet(B)
  BY <1>7, <1>9, FS_Subset
<1>11. Cardinality(B) \in Nat /\ Cardinality(Above(R, Found(q, d))) \in Nat /\ k \in Nat
  BY <1>10, FS_CardinalityType, Query DEF TypeOK, QueryAssumption
<1> QED
  BY <1>7, <1>10, <1>11

(* Growing a finite set of neighbours keeps what was above an entry above. *)
LEMMA AboveGrows ==
  ASSUME NEW S, NEW T, S \subseteq T, IsFiniteSet(T), NEW n \in Nat, NEW e,
         Cardinality(Above(S, e)) >= n
  PROVE  Cardinality(Above(T, e)) >= n
<1>1. Above(S, e) \in SUBSET Above(T, e) /\ Above(T, e) \in SUBSET T
  BY DEF Above
<1>2. /\ IsFiniteSet(Above(T, e)) /\ IsFiniteSet(Above(S, e))
      /\ Cardinality(Above(S, e)) <= Cardinality(Above(T, e))
  BY <1>1, FS_Subset
<1>3. Cardinality(Above(S, e)) \in Nat /\ Cardinality(Above(T, e)) \in Nat
  BY <1>2, FS_CardinalityType
<1> QED
  BY <1>2, <1>3

(* Ranking one candidate keeps the ranking invariant: nothing is lost that *)
(* k kept neighbours do not beat.                                          *)
LEMMA RankCandidateInv ==
  ASSUME TypeOK, NEW w \in Workers, WorkerInv(w), RankCandidate(w)
  PROVE  TypeOK' /\ WorkerInv(w)'
<1> DEFINE q == task[w]
           R == results[w]
<1>1. PICK d \in unranked[w] :
        /\ SkipCandidate(w, d) \/ PushCandidate(w, d)
        /\ unranked' = [unranked EXCEPT ![w] = @ \ {d}]
  BY DEF RankCandidate
<1>2. /\ phase[w] = "rank" /\ phase' = phase /\ task' = task /\ k' = k
      /\ counts' = counts /\ touched' = touched /\ unread' = unread
      /\ answered' = answered /\ answer' = answer
  BY DEF RankCandidate, workspace
<1>3. /\ d \in Candidates(q) /\ d \in Docs /\ q \in Queries
      /\ Scored(w, d) = Found(q, d)
  BY <1>1, <1>2, ScoredIsFound
<1>4. /\ Searching(q) /\ unranked[w] \subseteq Candidates(q) /\ IsFiniteSet(R)
      /\ R \subseteq {Found(q, c) : c \in Ranked(w)}
      /\ \A c \in Ranked(w) :
           Found(q, c) \in R \/ Cardinality(Above(R, Found(q, c))) >= k
      /\ kth[w] = Zero \/ Cardinality({n \in R : Leq(kth[w], n[2])}) >= k
  BY <1>2 DEF WorkerInv, RankInv
<1>5. k \in Nat \ {0} /\ k' = k
  BY <1>2, <1>4, Query DEF Searching, TypeOK, QueryAssumption
<1>6. unranked'[w] = unranked[w] \ {d} /\ Ranked(w)' = Ranked(w) \cup {d} /\ d \notin Ranked(w)
  <2>1. unranked'[w] = unranked[w] \ {d}
    BY <1>1 DEF TypeOK
  <2> QED
    BY <1>1, <1>2, <1>3, <2>1 DEF Ranked
<1>7. Searching(task[w])' /\ unranked'[w] \subseteq Candidates(q)
  BY <1>2, <1>4, <1>6 DEF Searching
<1>8. /\ \A c \in Candidates(q) : Found(q, c) \in Entry /\ Found(q, c)[1] = c
      /\ R \subseteq Entry
      /\ \A n \in R : n[1] # d
  <2>1. \A c \in Candidates(q) : Found(q, c) \in Entry /\ Found(q, c)[1] = c
    BY <1>3, FoundIsSimilar DEF Candidates
  <2>2. Ranked(w) \subseteq Candidates(q)
    BY DEF Ranked
  <2> QED
    BY <1>4, <1>6, <2>1, <2>2
<1>9. IdleInv(w)' /\ CountInv(w)' /\ TallyInv(w)'
  BY <1>2 DEF IdleInv, CountInv, TallyInv, WorkerInv, Clean
<1>10. ASSUME results' \in [Workers -> SUBSET Entry], kth' \in [Workers -> Fraction]
       PROVE  TypeOK'
  <2>1. unranked' \in [Workers -> SUBSET Docs]
    BY <1>1 DEF TypeOK
  <2> QED
    BY <1>2, <1>10, <2>1 DEF TypeOK, Entry
<1>11. CASE SkipCandidate(w, d)
  <2>1. results' = results /\ kth' = kth
    BY <1>11 DEF SkipCandidate
  <2>2. Cardinality(Above(R, Found(q, d))) >= k
    BY <1>1, <1>2, <1>11, SkippedIsBeaten
  <2>3. R \subseteq {Found(q, c) : c \in Ranked(w) \cup {d}}
    BY <1>4
  <2>4. \A c \in Ranked(w) \cup {d} :
          Found(q, c) \in R \/ Cardinality(Above(R, Found(q, c))) >= k
    BY <1>4, <2>2
  <2>5. RankInv(w)'
    BY <1>2, <1>4, <1>6, <1>7, <2>1, <2>3, <2>4 DEF RankInv
  <2>6. TypeOK'
    BY <1>10, <2>1 DEF TypeOK, Entry
  <2> QED
    BY <1>9, <2>5, <2>6 DEF WorkerInv
<1>12. CASE PushCandidate(w, d)
  <2> DEFINE P == R \cup {Found(q, d)}
  <2>1. /\ IsFiniteSet(P) /\ P \subseteq Entry
        /\ P \subseteq {Found(q, c) : c \in Ranked(w) \cup {d}}
        /\ R \subseteq P
    BY <1>3, <1>4, <1>8, FS_AddElement
  <2>2. \A c \in Ranked(w) \cup {d} :
          Found(q, c) \in P \/ Cardinality(Above(P, Found(q, c))) >= k
    BY <1>4, <1>5, <2>1, AboveGrows
  <2>3. CASE ~(Cardinality(P) > Larger(2 * k, k + 1))
    <3>1. results' = [results EXCEPT ![w] = P] /\ kth' = kth
      BY <1>3, <1>12, <2>3 DEF PushCandidate
    <3>2. results'[w] = P /\ kth'[w] = kth[w]
      BY <3>1 DEF TypeOK
    <3>3. kth[w] = Zero \/ Cardinality({n \in P : Leq(kth[w], n[2])}) >= k
      <4>1. CASE kth[w] # Zero
        <5> DEFINE X == {n \in R : Leq(kth[w], n[2])}
                   Y == {n \in P : Leq(kth[w], n[2])}
        <5>1. X \in SUBSET Y /\ Y \in SUBSET P
          BY <2>1
        <5>2. IsFiniteSet(X) /\ IsFiniteSet(Y) /\ Cardinality(X) <= Cardinality(Y)
          BY <2>1, <5>1, FS_Subset
        <5>3. Cardinality(X) \in Nat /\ Cardinality(Y) \in Nat
          BY <5>2, FS_CardinalityType
        <5>4. Cardinality(X) >= k
          BY <1>4, <4>1
        <5> QED
          BY <1>5, <5>2, <5>3, <5>4
      <4> QED
        BY <4>1
    <3>4. RankInv(w)'
      BY <1>2, <1>6, <1>7, <2>1, <2>2, <3>2, <3>3 DEF RankInv
    <3>5. TypeOK'
      BY <1>10, <2>1, <3>1 DEF TypeOK, Entry
    <3> QED
      BY <1>9, <3>4, <3>5 DEF WorkerInv
  <2>4. CASE Cardinality(P) > Larger(2 * k, k + 1)
    <3>1. PICK T \in Truncation(P, k), last \in P :
            /\ IsLast(T, last)
            /\ results' = [results EXCEPT ![w] = T]
            /\ kth' = [kth EXCEPT ![w] = last[2]]
      BY <1>3, <1>12, <2>4 DEF PushCandidate
    <3>2. results'[w] = T /\ kth'[w] = last[2]
      BY <3>1 DEF TypeOK
    <3>3. k <= Cardinality(P)
      <4>1. Cardinality(P) \in Nat
        BY <2>1, FS_CardinalityType
      <4> QED
        BY <1>5, <2>4, <4>1 DEF Larger
    <3>4. T \subseteq P /\ IsFiniteSet(T) /\ Cardinality(T) = k
      <4>1. T \in SUBSET P /\ Cardinality(T) = Smaller(k, Cardinality(P))
        BY DEF Truncation
      <4>2. Cardinality(P) \in Nat
        BY <2>1, FS_CardinalityType
      <4> QED
        BY <1>5, <2>1, <3>3, <4>1, <4>2, FS_Subset DEF Smaller
    <3>5. ASSUME NEW c \in Ranked(w) \cup {d}
          PROVE  Found(q, c) \in T \/ Cardinality(Above(T, Found(q, c))) >= k
      <4> SUFFICES ASSUME Found(q, c) \notin T
                   PROVE  Cardinality(Above(T, Found(q, c))) >= k
        OBVIOUS
      <4>1. c \in Candidates(q) /\ Found(q, c) \in Entry /\ Found(q, c)[1] = c
        BY <1>3, <1>8 DEF Ranked
      <4>2. CASE Found(q, c) \in P
        BY <1>5, <2>1, <3>3, <4>1, <4>2, TruncationKeeps
      <4>3. CASE Found(q, c) \notin P
        <5>1. Cardinality(Above(P, Found(q, c))) >= k
          BY <2>2, <4>3
        <5>2. \A n \in P : n[1] # Found(q, c)[1]
          <6>1. \A b \in Ranked(w) \cup {d} : b \in Candidates(q)
            BY <1>3 DEF Ranked
          <6>2. \A n \in P : \E b \in Ranked(w) \cup {d} : n = Found(q, b) /\ n[1] = b
            BY <1>8, <2>1, <6>1
          <6> QED
            BY <4>1, <4>3, <6>2
        <5> QED
          BY <1>5, <2>1, <3>3, <4>1, <5>1, <5>2, TruncationKeeps
      <4> QED
        BY <4>2, <4>3
    <3>6. Cardinality({n \in T : Leq(last[2], n[2])}) >= k
      <4>1. ASSUME NEW n \in T PROVE Leq(last[2], n[2])
        <5>1. n \in Entry /\ last \in Entry /\ last[2] \in Fraction
          BY <2>1, <3>4 DEF Entry
        <5>2. CASE n = last
          BY <5>1, <5>2, LeqTotal
        <5>3. CASE n # last
          BY <3>1, <5>1, <5>3, EntriesOrder DEF IsLast
        <5> QED
          BY <5>2, <5>3
      <4> DEFINE L == {n \in T : Leq(last[2], n[2])}
      <4>2. L = T
        BY <4>1
      <4> HIDE DEF L
      <4>3. Cardinality(L) >= k
        BY <1>5, <3>4, <4>2
      <4> QED
        BY <4>3 DEF L
    <3>7. T \subseteq {Found(q, c) : c \in Ranked(w) \cup {d}}
      BY <2>1, <3>4
    <3>8. RankInv(w)'
      BY <1>2, <1>6, <1>7, <3>2, <3>4, <3>5, <3>6, <3>7 DEF RankInv
    <3>9. TypeOK'
      <4>1. last[2] \in Fraction /\ T \subseteq Entry
        BY <2>1, <3>4 DEF Entry
      <4> QED
        BY <1>10, <3>1, <4>1 DEF TypeOK, Entry
    <3> QED
      BY <1>9, <3>8, <3>9 DEF WorkerInv
  <2> QED
    BY <2>3, <2>4
<1> QED
  BY <1>1, <1>11, <1>12

----------------------------------------------------------------------------
(* Answering.                                                              *)
LEMMA FinishQueryInv ==
  ASSUME TypeOK, NEW w \in Workers, WorkerInv(w), AnswersAreTopK, HitInv, FinishQuery(w)
  PROVE  TypeOK' /\ WorkerInv(w)' /\ AnswersAreTopK' /\ HitInv'
<1> DEFINE q == task[w]
<1>1. PICK T \in Truncation(results[w], k) : answer' = [answer EXCEPT ![q] = T]
  BY DEF FinishQuery
<1>2. /\ phase[w] = "rank" /\ unranked[w] = {} /\ phase' = [phase EXCEPT ![w] = "idle"]
      /\ phase'[w] = "idle" /\ task' = [task EXCEPT ![w] = NoQuery]
      /\ answered' = answered \cup {q} /\ k' = k
      /\ unread' = unread /\ unranked' = unranked /\ results' = results /\ kth' = kth
  BY DEF FinishQuery, TypeOK
<1>3. /\ Searching(q) /\ q \in Queries /\ IsFiniteSet(results[w])
      /\ results[w] \subseteq {Found(q, c) : c \in Ranked(w)}
      /\ \A c \in Ranked(w) :
           Found(q, c) \in results[w] \/ Cardinality(Above(results[w], Found(q, c))) >= k
  BY <1>2 DEF WorkerInv, RankInv, Searching
<1>4. Ranked(w) = Candidates(q)
  BY <1>2 DEF Ranked
<1>5. k \in Nat \ {0}
  BY <1>3, Query DEF Searching, TypeOK, QueryAssumption
<1>6. T \in Truncation(Similar(q), k)
  BY <1>3, <1>4, <1>5, KeptTopIsTop
<1>7. AnswersAreTopK'
  <2>1. answer'[q] = T /\ \A p \in Queries \ {q} : answer'[p] = answer[p]
    BY <1>1, <1>3 DEF TypeOK
  <2>2. answered \subseteq Queries
    BY DEF TypeOK
  <2>3. ASSUME NEW p \in answered', ExactHit[p] = NoDoc
        PROVE  answer'[p] \in Truncation(Similar(p), k)
    <3>1. CASE p = q
      BY <1>6, <2>1, <3>1
    <3>2. CASE p # q
      BY <1>2, <2>1, <2>2, <2>3, <3>2 DEF AnswersAreTopK
    <3> QED
      BY <3>1, <3>2
  <2>4. k' = k
    BY <1>2
  <2>5. \A p \in answered' : ExactHit[p] = NoDoc => answer'[p] \in Truncation(Similar(p), k')
    BY <2>3, <2>4
  <2> QED
    BY <2>5 DEF AnswersAreTopK
<1>8. Clean(w)'
  <2>1. CASE IsLarge(q)
    BY <1>2, <2>1 DEF FinishQuery, workspace, WorkerInv, TallyInv, Clean
  <2>2. CASE ~IsLarge(q)
    <3>1. touched[w] = Candidates(q) /\ \A d \in Docs : counts[w][d] = Overlap(q, d)
      BY <1>2, <2>2 DEF WorkerInv, TallyInv
    <3>2. touched'[w] = {} /\ counts'[w] = ResetCounts(w)
      BY <2>2 DEF FinishQuery, TypeOK
    <3>3. ASSUME NEW d \in Docs PROVE counts'[w][d] = 0
      <4>1. Overlap(q, d) \in Nat
        BY <1>3, OverlapSizes
      <4> QED
        BY <3>1, <3>2, <4>1 DEF ResetCounts, Candidates
    <3> QED
      BY <3>2, <3>3 DEF Clean
  <2> QED
    BY <2>1, <2>2
<1>9. WorkerInv(w)'
  BY <1>2, <1>8 DEF WorkerInv, IdleInv, CountInv, TallyInv, RankInv
<1>10. TypeOK'
  <2>1. T \subseteq Docs \X Fraction \X BOOLEAN
    BY DEF Truncation, TypeOK
  <2>2. answer' \in [Queries -> SUBSET (Docs \X Fraction \X BOOLEAN)] /\ answered' \subseteq Queries
    BY <1>1, <1>2, <1>3, <2>1 DEF TypeOK
  <2>3. ResetCounts(w) \in [Docs -> 0..CountLimit]
    BY Bound DEF ResetCounts, TypeOK, BoundAssumption
  <2>4. counts' \in [Workers -> [Docs -> 0..CountLimit]] /\ touched' \in [Workers -> SUBSET Docs]
    <3>0. /\ counts \in [Workers -> [Docs -> 0..CountLimit]]
          /\ touched \in [Workers -> SUBSET Docs]
      BY DEF TypeOK
    <3>1. CASE IsLarge(task[w])
      BY <3>0, <3>1 DEF FinishQuery, workspace
    <3>2. CASE ~IsLarge(task[w])
      <4>1. /\ counts' = [counts EXCEPT ![w] = ResetCounts(w)]
            /\ touched' = [touched EXCEPT ![w] = {}]
        BY <3>2 DEF FinishQuery
      <4> QED
        BY <2>3, <3>0, <4>1
    <3> QED
      BY <3>1, <3>2
  <2>5. phase' \in [Workers -> {"idle", "count", "rank"}] /\ task' \in [Workers -> Queries \cup {NoQuery}]
    BY <1>2 DEF TypeOK
  <2> QED
    BY <1>2, <2>2, <2>4, <2>5 DEF TypeOK
<1>11. HitInv'
  <2>1. ExactHit[q] = NoDoc
    BY <1>3 DEF Searching
  <2>2. \A p \in answered : p # q => answer'[p] = answer[p]
    BY <1>1, <1>3 DEF TypeOK
  <2> QED
    BY <1>2, <2>1, <2>2 DEF HitInv
<1> QED
  BY <1>7, <1>9, <1>10, <1>11

(* A query answered without a search has no similar document at all.       *)
LEMMA AnswerDirectlyInv ==
  ASSUME TypeOK, NEW w \in Workers, WorkerInv(w), AnswersAreTopK, HitInv,
         NEW q \in Queries, AnswerDirectly(w, q)
  PROVE  TypeOK' /\ WorkerInv(w)' /\ AnswersAreTopK' /\ HitInv'
<1>1. /\ answered' = answered \cup {q} /\ k' = k /\ phase' = phase /\ task' = task
      /\ counts' = counts /\ touched' = touched /\ unread' = unread
      /\ unranked' = unranked /\ results' = results /\ kth' = kth
  BY DEF AnswerDirectly, workspace
<1>2. WorkerInv(w)'
  BY <1>1, OwnInvariant DEF Own
<1>3. <<ExactHit[q], One, TRUE>> \in Entry \/ ExactHit[q] = NoDoc
  <2>1. ExactHit[q] \in Docs \cup {NoDoc}
    BY Query DEF QueryAssumption
  <2>2. \A d \in Docs, x \in Fraction : <<d, x, TRUE>> \in Entry
    BY DEF Entry
  <2>3. One \in Fraction
    BY DEF One, Fraction
  <2> QED
    BY <2>1, <2>2, <2>3
<1>4. TypeOK'
  <2>1. answer' \in [Queries -> SUBSET Entry]
    <3>1. CASE answer' = [answer EXCEPT ![q] = {}]
      BY <3>1 DEF TypeOK, Entry
    <3>2. CASE /\ ExactHit[q] # NoDoc
               /\ answer' = [answer EXCEPT ![q] = {<<ExactHit[q], One, TRUE>>}]
      <4>1. {<<ExactHit[q], One, TRUE>>} \in SUBSET Entry
        BY <1>3, <3>2
      <4>2. answer \in [Queries -> SUBSET Entry]
        BY DEF TypeOK, Entry
      <4> QED
        BY <3>2, <4>1, <4>2
    <3> QED
      BY <3>1, <3>2 DEF AnswerDirectly
  <2> QED
    BY <1>1, <2>1 DEF TypeOK, Entry
<1>5. ASSUME ExactHit[q] = NoDoc
      PROVE  answer'[q] = {} /\ (k = 0 \/ QueryIds(q) = {})
  BY <1>5 DEF AnswerDirectly, TypeOK
<1>6. ASSUME ExactHit[q] = NoDoc
      PROVE  answer'[q] \in Truncation(Similar(q), k)
  BY <1>5, <1>6, NothingIsTop DEF TypeOK
<1>7. AnswersAreTopK'
  <2>1. \A p \in Queries \ {q} : answer'[p] = answer[p]
    BY DEF AnswerDirectly, TypeOK
  <2>2. \A p \in answered' : ExactHit[p] = NoDoc => answer'[p] \in Truncation(Similar(p), k)
    BY <1>1, <1>6, <2>1 DEF AnswersAreTopK, TypeOK
  <2> QED
    BY <1>1, <2>2 DEF AnswersAreTopK
<1>8. HitInv'
  <2>1. \A p \in answered : p # q => answer'[p] = answer[p]
    BY DEF AnswerDirectly, TypeOK
  <2>2. ExactHit[q] # NoDoc =>
          answer'[q] = IF k = 0 THEN {} ELSE {<<ExactHit[q], One, TRUE>>}
    BY DEF AnswerDirectly, TypeOK
  <2> QED
    BY <1>1, <2>1, <2>2 DEF HitInv
<1> QED
  BY <1>2, <1>4, <1>7, <1>8

----------------------------------------------------------------------------
(* The specification.                                                      *)

LEMMA SearchInvInit ==
  ASSUME Init
  PROVE  SearchInv
<1>1. TypeOK
  <2>1. Zero \in Fraction
    BY DEF Zero, Fraction
  <2> QED
    BY <2>1, Bound DEF Init, TypeOK, BoundAssumption
<1>2. \A w \in Workers : WorkerInv(w)
  BY DEF Init, WorkerInv, IdleInv, Clean, CountInv, TallyInv, RankInv
<1>3. AnswersAreTopK /\ HitInv
  BY DEF Init, AnswersAreTopK, HitInv
<1> QED
  BY <1>1, <1>2, <1>3 DEF SearchInv, WorkerInv

LEMMA SearchInvStep ==
  ASSUME SearchInv, [Next]_vars
  PROVE  SearchInv'
<1>1. TypeOK /\ HitInv /\ AnswersAreTopK /\ \A w \in Workers : WorkerInv(w)
  BY DEF SearchInv, WorkerInv
<1> SUFFICES TypeOK' /\ HitInv' /\ AnswersAreTopK' /\ \A w \in Workers : WorkerInv(w)'
  BY DEF SearchInv, WorkerInv
<1>2. CASE UNCHANGED vars
  <2>1. TypeOK'
    BY <1>1, <1>2 DEF TypeOK, vars, workspace
  <2>2. HitInv' /\ AnswersAreTopK'
    BY <1>1, <1>2 DEF HitInv, AnswersAreTopK, vars
  <2>3. \A w \in Workers : k' = k /\ Own(w)' = Own(w)
    BY <1>2 DEF Own, vars, workspace
  <2> QED
    BY <1>1, <2>1, <2>2, <2>3, OwnInvariant
<1>3. ASSUME NEW w \in Workers, Work(w)
      PROVE  TypeOK' /\ HitInv' /\ AnswersAreTopK' /\ \A v \in Workers : WorkerInv(v)'
  <2>1. \A v \in Workers \ {w} : WorkerInv(v)'
    BY <1>1, <1>3, OthersUnmoved, OwnInvariant
  <2>2. ASSUME k' = k, answered' = answered, answer' = answer
        PROVE  HitInv' /\ AnswersAreTopK'
    BY <1>1, <2>2 DEF HitInv, AnswersAreTopK
  <2>3. ASSUME NEW q \in Queries, AnswerDirectly(w, q)
        PROVE  TypeOK' /\ HitInv' /\ AnswersAreTopK' /\ WorkerInv(w)'
    BY <1>1, <2>3, AnswerDirectlyInv
  <2>4. ASSUME NEW q \in Queries, StartCounting(w, q)
        PROVE  TypeOK' /\ HitInv' /\ AnswersAreTopK' /\ WorkerInv(w)'
    <3>1. k' = k /\ answered' = answered /\ answer' = answer
      BY <2>4 DEF StartCounting
    <3> QED
      BY <1>1, <2>2, <2>4, <3>1, StartCountingInv
  <2>5. ASSUME NEW q \in Queries, StartLarge(w, q)
        PROVE  TypeOK' /\ HitInv' /\ AnswersAreTopK' /\ WorkerInv(w)'
    <3>1. k' = k /\ answered' = answered /\ answer' = answer
      BY <2>5 DEF StartLarge
    <3> QED
      BY <1>1, <2>2, <2>5, <3>1, StartLargeInv
  <2>6. CASE WalkPosting(w)
    <3>1. k' = k /\ answered' = answered /\ answer' = answer
      BY <2>6 DEF WalkPosting
    <3> QED
      BY <1>1, <2>1, <2>2, <2>6, <3>1, WalkPostingInv
  <2>7. CASE StartRanking(w)
    <3>1. k' = k /\ answered' = answered /\ answer' = answer
      BY <2>7 DEF StartRanking
    <3> QED
      BY <1>1, <2>1, <2>2, <2>7, <3>1, StartRankingInv
  <2>8. CASE RankCandidate(w)
    <3>1. k' = k /\ answered' = answered /\ answer' = answer
      BY <2>8 DEF RankCandidate
    <3> QED
      BY <1>1, <2>1, <2>2, <2>8, <3>1, RankCandidateInv
  <2>9. CASE FinishQuery(w)
    BY <1>1, <2>1, <2>9, FinishQueryInv
  <2> QED
    BY <1>3, <2>1, <2>3, <2>4, <2>5, <2>6, <2>7, <2>8, <2>9 DEF Work
<1>4. CASE Return
  BY <1>2, <1>4 DEF Return
<1> QED
  BY <1>2, <1>3, <1>4 DEF Next

(* The inductive invariant holds for every index, batch, k and pool.       *)
THEOREM SearchCorrect == Spec => []SearchInv
<1>1. Init => SearchInv
  BY SearchInvInit
<1>2. SearchInv /\ [Next]_vars => SearchInv'
  BY SearchInvStep
<1> QED
  BY <1>1, <1>2, PTL DEF Spec

(* Every variable keeps its type; in particular no overlap counter ever    *)
(* exceeds the width of a counter (QueryWorkspace.counts: Vec<u16>).       *)
THEOREM TypeCorrect == Spec => []TypeOK
<1>1. SearchInv => TypeOK
  BY DEF SearchInv
<1> QED
  BY <1>1, SearchCorrect, PTL

(* Answers to queries whose text is not in the index are the true top k    *)
(* (rank_exact_candidates and rank_large_query_candidates).                *)
THEOREM TopKCorrect == Spec => []AnswersAreTopK
<1>1. SearchInv => AnswersAreTopK
  BY DEF SearchInv
<1> QED
  BY <1>1, SearchCorrect, PTL

(* A worker between queries has a clean workspace (reset_counts).          *)
THEOREM WorkspaceCorrect == Spec => []WorkspaceIsClean
<1>1. SearchInv => WorkspaceIsClean
  BY DEF SearchInv, IdleInv, Clean, WorkspaceIsClean
<1> QED
  BY <1>1, SearchCorrect, PTL

(* A similarity is a fraction, and no similarity is larger than one.       *)
LEMMA SimilarityFacts ==
  ASSUME NEW q \in Queries, NEW d \in Docs
  PROVE  /\ Similarity(q, d) \in Fraction
         /\ Leq(Similarity(q, d), One)
         /\ GramSets[d] = QueryGrams[q] => Same(One, Similarity(q, d))
         /\ /\ Lt(Zero, Similarity(q, d))
            /\ QueryGrams[q] \cap GramSets[d] = {}
            => QueryGrams[q] = {} /\ GramSets[d] = {}
<1> DEFINE Q == QueryGrams[q]
           D == GramSets[d]
           i == Cardinality(Q \cap D)
           u == Cardinality(Q \cup D)
<1>1. IsFiniteSet(Q) /\ IsFiniteSet(D)
  BY OverlapSizes
<1>2. IsFiniteSet(Q \cup D) /\ (Q \cap D) \in SUBSET (Q \cup D)
  BY <1>1, FS_Union
<1>3. i \in Nat /\ u \in Nat /\ i <= u
  BY <1>2, FS_Subset, FS_CardinalityType
<1>4. Similarity(q, d) = Ratio(i, u)
  BY DEF Similarity, Jaccard
<1>5. D = Q => i = u
  <2>1. D = Q => Q \cap D = Q \cup D
    OBVIOUS
  <2> QED
    BY <2>1
<1>6. Q \cap D = {} => i = 0
  BY FS_EmptySet
<1>7. u = 0 => Q = {} /\ D = {}
  <2>1. u = 0 => Q \cup D = {}
    BY <1>2, FS_EmptySet
  <2> QED
    BY <2>1
<1> HIDE DEF i, u
<1>8. Ratio(i, u) \in Fraction
  BY <1>3 DEF Ratio, One, Fraction
<1>9. Leq(Ratio(i, u), One)
  BY <1>3 DEF Ratio, One, Leq
<1>10. i = u => Same(One, Ratio(i, u))
  BY <1>3 DEF Ratio, One, Same
<1>11. i = 0 /\ Lt(Zero, Ratio(i, u)) => u = 0
  BY <1>3 DEF Ratio, Zero, Lt
<1> QED
  BY <1>4, <1>5, <1>6, <1>7, <1>8, <1>9, <1>10, <1>11

(* Every answer carries true similarities and the best score of the index, *)
(* exact-match shortcut included (query_topk_with_mode).                   *)
THEOREM BestScoreCorrect == Spec => []BestScoreIsExact
<1>1. ASSUME SearchInv PROVE BestScoreIsExact
  <2>1. TypeOK /\ AnswersAreTopK /\ HitInv /\ answered \subseteq Queries
    BY <1>1 DEF SearchInv, TypeOK
  <2>2. k \in Nat
    BY <2>1, Query DEF TypeOK, QueryAssumption
  <2>3. ASSUME NEW q \in answered
        PROVE  /\ \A n \in answer[q] : Same(n[2], Similarity(q, n[1]))
               /\ k > 0 => \A d \in Docs :
                    Lt(Zero, Similarity(q, d)) =>
                      \E n \in answer[q] : Leq(Similarity(q, d), n[2])
    <3>1. q \in Queries
      BY <2>1
    <3>2. CASE ExactHit[q] # NoDoc
      <4>1. ExactHit[q] \in Docs /\ GramSets[ExactHit[q]] = QueryGrams[q]
        BY <3>1, <3>2, Query DEF QueryAssumption
      <4>2. answer[q] = IF k = 0 THEN {} ELSE {<<ExactHit[q], One, TRUE>>}
        BY <2>1, <3>2 DEF HitInv
      <4>3. Same(One, Similarity(q, ExactHit[q]))
        BY <3>1, <4>1, SimilarityFacts
      <4>4. \A d \in Docs : Leq(Similarity(q, d), One)
        BY <3>1, SimilarityFacts
      <4>5. ASSUME NEW n \in answer[q] PROVE n[1] = ExactHit[q] /\ n[2] = One
        <5>1. n = <<ExactHit[q], One, TRUE>>
          BY <4>2
        <5> QED
          BY <5>1
      <4>6. k > 0 => \E n \in answer[q] : n[2] = One
        <5>0. k > 0 => k # 0
          BY <2>2
        <5>1. k > 0 => <<ExactHit[q], One, TRUE>> \in answer[q]
          BY <4>2, <5>0
        <5>2. <<ExactHit[q], One, TRUE>>[2] = One
          OBVIOUS
        <5> QED
          BY <5>1, <5>2
      <4> QED
        BY <4>3, <4>4, <4>5, <4>6
    <3>3. CASE ExactHit[q] = NoDoc
      <4>1. answer[q] \in Truncation(Similar(q), k)
        BY <2>1, <3>3 DEF AnswersAreTopK
      <4>2. /\ answer[q] \in SUBSET Similar(q)
            /\ Cardinality(answer[q]) = Smaller(k, Cardinality(Similar(q)))
            /\ \A t \in answer[q], s \in Similar(q) \ answer[q] : Ranks(t, s)
        BY <4>1 DEF Truncation
      <4>3. IsFiniteSet(Similar(q)) /\ Similar(q) \subseteq Entry
        BY <3>1, FoundFinite, CandidatesAreSimilar
      <4>4. \A n \in Similar(q) : n[1] \in Docs /\ n[2] = Similarity(q, n[1])
        <5>1. ASSUME NEW n \in Similar(q) PROVE n[1] \in Docs /\ n[2] = Similarity(q, n[1])
          <6>1. PICK d \in Docs : n = <<d, Similarity(q, d), FALSE>>
            BY DEF Similar
          <6>2. n[1] = d /\ n[2] = Similarity(q, d)
            BY <6>1
          <6> QED
            BY <6>2
        <5> QED
          BY <5>1
      <4>5. \A n \in answer[q] : Same(n[2], Similarity(q, n[1]))
        <5>1. \A n \in answer[q] : n[1] \in Docs /\ n[2] = Similarity(q, n[1])
          BY <4>2, <4>4
        <5> QED
          BY <3>1, <5>1, SimilarityFacts, LeqTotal
      <4>6. ASSUME k > 0, NEW d \in Docs, Lt(Zero, Similarity(q, d))
            PROVE  \E n \in answer[q] : Leq(Similarity(q, d), n[2])
        <5> DEFINE m == <<d, Similarity(q, d), FALSE>>
        <5>1. QueryGrams[q] \cap GramSets[d] # {}
          BY <3>1, <3>3, <4>6, SimilarityFacts, Query DEF QueryAssumption
        <5>2. m \in Similar(q)
          BY <5>1 DEF Similar
        <5>3. Similarity(q, d) \in Fraction
          BY <3>1, SimilarityFacts
        <5>4. CASE m \in answer[q]
          BY <5>3, <5>4, LeqTotal
        <5>5. CASE m \notin answer[q]
          <6>1. Cardinality(Similar(q)) \in Nat /\ Cardinality(Similar(q)) # 0
            BY <4>3, <5>2, FS_CardinalityType, FS_EmptySet
          <6>2. Cardinality(answer[q]) # 0
            BY <2>2, <4>2, <4>6, <6>1 DEF Smaller
          <6>3. answer[q] # {}
            BY <6>2, FS_EmptySet
          <6>4. PICK t \in answer[q] : TRUE
            BY <6>3
          <6>5. Ranks(t, m) /\ t \in Entry /\ m \in Entry
            BY <4>2, <4>3, <5>2, <5>5
          <6>6. Leq(m[2], t[2])
            BY <6>5, EntriesOrder
          <6> QED
            BY <6>6
        <5> QED
          BY <5>4, <5>5
      <4> QED
        BY <4>5, <4>6
    <3> QED
      BY <3>2, <3>3
  <2> QED
    BY <2>3 DEF BestScoreIsExact
<1> QED
  BY <1>1, SearchCorrect, PTL
----------------------------------------------------------------------------
(* Fast retrieval.  Until the candidates are full, a candidate's hits are  *)
(* those among the entries walked, and every document of a walked entry is *)
(* a candidate; once they are full, nothing more is walked.                *)
Entries == {e \in Grams \X Docs : e[1] \in Selected(query) /\ e[2] \in Listed(e[1])}

Walked(d) == {g \in Grams : <<g, d>> \in Entries \ unwalked}

IsFull == Full(Cardinality(FastCandidates))

WalkInv ==
  /\ FastCandidates \subseteq Reachable
  /\ \A d \in FastCandidates : hits[d] \in Nat
  /\ IsFull => unwalked = {}
  /\ ~IsFull =>
       /\ unwalked \subseteq Entries
       /\ FastCandidates = {d \in Docs : Walked(d) # {}}
       /\ \A d \in FastCandidates : hits[d] = Cardinality(Walked(d))

(* What is left to be ranked: documents of the selection, one at least if  *)
(* any shares an n-gram with the query, and all that do if no limit bites. *)
RankedInv ==
  /\ FastCandidates \subseteq Reachable
  /\ Reachable # {} => FastCandidates # {}
  /\ Unlimited(query) => FastCandidates = Reachable
  /\ KeepsMostHits

FastInv ==
  /\ query \in Queries /\ topk \in Ks /\ limits \in Settings
  /\ stage \in {"new", "walk", "rank", "done"}
  /\ stage = "new" => hits = <<>>
  /\ stage \in {"walk", "rank"} => topk # 0 /\ ExactHit[query] = NoDoc
  /\ stage = "walk" => WalkInv
  /\ stage = "rank" => RankedInv
  /\ FastOnlyUnderstates /\ FastIsExactWhenUnlimited

(* The first n elements of a set in one of the orders the walk uses.       *)
GramPairs(S) == {p \in S \X S : WalkedBefore(p[1], p[2]) /\ p[1] # p[2]}
DocPairs(S) == {p \in S \X S : UpTo(p[1], p[2]) /\ p[1] # p[2]}
HitPairs(S) == {p \in S \X S : MoreHits(p[1], p[2]) /\ p[1] # p[2]}

LEMMA PostingsFinite ==
  ASSUME NEW g \in Grams
  PROVE  Postings[g] \in SUBSET Docs /\ IsFiniteSet(Postings[g]) /\ Hits(g) \in Nat
<1>1. Postings[g] \in SUBSET Docs /\ IsFiniteSet(Docs)
  BY Index DEF IndexAssumption
<1> QED
  BY <1>1, FS_Subset, FS_CardinalityType DEF Hits

LEMMA FirstGrams ==
  ASSUME NEW S \in SUBSET Grams, NEW n \in Nat
  PROVE  /\ First(S, n, WalkedBefore) \in SUBSET S
         /\ IsFiniteSet(S) /\ Cardinality(S) \in Nat
         /\ Cardinality(First(S, n, WalkedBefore)) = Smaller(n, Cardinality(S))
<1>1. IsFiniteSet(S) /\ Cardinality(S) \in Nat
  BY Index, FS_Subset, FS_CardinalityType DEF IndexAssumption
<1>2. S \subseteq Nat /\ \A g \in S : Cardinality(Postings[g]) \in Nat
  BY Index, PostingsFinite DEF IndexAssumption, Hits
<1>3. Strict(GramPairs(S), S) /\ Total(GramPairs(S), S)
  BY <1>2 DEF Strict, Total, GramPairs, WalkedBefore
<1>4. First(S, n, WalkedBefore) = FirstOnes(GramPairs(S), S, n)
  <2>1. \A s \in S : {t \in S : WalkedBefore(t, s) /\ t # s} = Below(GramPairs(S), S, s)
    BY DEF GramPairs, Below
  <2> QED
    BY <2>1 DEF First, FirstOnes
<1> QED
  BY <1>1, <1>3, <1>4, FirstOnesFacts

LEMMA FirstDocs ==
  ASSUME NEW S \in SUBSET Docs, NEW n \in Nat
  PROVE  /\ First(S, n, UpTo) \in SUBSET S
         /\ IsFiniteSet(S) /\ Cardinality(S) \in Nat
         /\ Cardinality(First(S, n, UpTo)) = Smaller(n, Cardinality(S))
<1>1. IsFiniteSet(S) /\ Cardinality(S) \in Nat /\ S \subseteq Nat
  BY Index, FS_Subset, FS_CardinalityType DEF IndexAssumption
<1>2. Strict(DocPairs(S), S) /\ Total(DocPairs(S), S)
  BY <1>1 DEF Strict, Total, DocPairs, UpTo
<1>3. First(S, n, UpTo) = FirstOnes(DocPairs(S), S, n)
  <2>1. \A s \in S : {t \in S : UpTo(t, s) /\ t # s} = Below(DocPairs(S), S, s)
    BY DEF DocPairs, Below
  <2> QED
    BY <2>1 DEF First, FirstOnes
<1> QED
  BY <1>1, <1>2, <1>3, FirstOnesFacts

(* What the cut by hits keeps.                                             *)
LEMMA KeptFacts ==
  ASSUME FastCandidates \in SUBSET Docs, \A d \in FastCandidates : hits[d] \in Nat,
         limits \in Settings
  PROVE  /\ Kept \in SUBSET FastCandidates
         /\ Cardinality(Kept) = Smaller(limits.rerank_limit, Cardinality(FastCandidates))
         /\ \A c \in Kept, d \in FastCandidates \ Kept : MoreHits(c, d) /\ c # d
<1> DEFINE S == FastCandidates
           n == limits.rerank_limit
<1>1. IsFiniteSet(S) /\ S \subseteq Nat /\ n \in Nat
  BY Index, FS_Subset, SettingsAssumption DEF IndexAssumption
<1>2. \A c, d \in S : <<c, d>> \in HitPairs(S) <=> MoreHits(c, d) /\ c # d
  BY DEF HitPairs
<1>3. Strict(HitPairs(S), S) /\ Total(HitPairs(S), S)
  BY <1>1, <1>2 DEF Strict, Total, MoreHits
<1>4. Kept = FirstOnes(HitPairs(S), S, n)
  <2>1. \A s \in S : {t \in S : MoreHits(t, s) /\ t # s} = Below(HitPairs(S), S, s)
    BY DEF HitPairs, Below
  <2> QED
    BY <2>1 DEF Kept, First, FirstOnes
<1> HIDE DEF S, n
<1>5. /\ Kept \in SUBSET S
      /\ Cardinality(Kept) = Smaller(n, Cardinality(S))
      /\ \A c \in Kept, d \in S \ Kept : <<c, d>> \in HitPairs(S)
  BY <1>1, <1>3, <1>4, FirstOnesFacts
<1>6. \A c \in Kept, d \in S \ Kept : MoreHits(c, d) /\ c # d
  BY <1>2, <1>5
<1> QED
  BY <1>5, <1>6 DEF S, n

(* What a selection reaches: documents that share an n-gram with the       *)
(* query, some if there are any, and all where no limit bites.             *)
LEMMA SelectionFacts ==
  ASSUME query \in Queries, limits \in Settings
  PROVE  /\ \A g \in Selected(query) : g \in Grams /\ Listed(g) \subseteq Postings[g]
         /\ Reachable = {d \in Docs : \E g \in Grams : <<g, d>> \in Entries}
         /\ \A d \in Docs : HitsOf(d) = Cardinality({g \in Grams : <<g, d>> \in Entries})
         /\ Reachable \subseteq Candidates(query)
         /\ Candidates(query) # {} => Reachable # {}
         /\ Unlimited(query) => Reachable = Candidates(query)
<1> DEFINE Q == QueryIds(query)
           P == IF Rare(query) # {} THEN Rare(query) ELSE Present(query)
           n == limits.candidate_gram_limit
           m == limits.posting_limit
<1>1. n \in Nat \ {0} /\ m \in Nat \ {0}
  BY SettingsAssumption
<1>2. P \in SUBSET Q /\ P \in SUBSET Grams /\ Q \in SUBSET Grams
  BY DEF Rare, Present, QueryIds
<1>3. \A g \in P : Hits(g) > 0
  BY DEF Rare, Present
<1>4. Selected(query) = First(P, n, WalkedBefore)
  BY DEF Selected
<1>5. Present(query) # {} => P # {}
  OBVIOUS
<1> HIDE DEF P, n, m
<1>6. /\ Selected(query) \in SUBSET P
      /\ IsFiniteSet(P) /\ Cardinality(P) \in Nat
      /\ Cardinality(Selected(query)) = Smaller(n, Cardinality(P))
  BY <1>1, <1>2, <1>4, FirstGrams
<1>7. ASSUME NEW g \in Grams
      PROVE  /\ Listed(g) \in SUBSET Postings[g]
             /\ Hits(g) > 0 => Listed(g) # {}
             /\ Hits(g) <= m => Listed(g) = Postings[g]
  <2>1. Postings[g] \in SUBSET Docs /\ IsFiniteSet(Postings[g]) /\ Hits(g) \in Nat
    BY PostingsFinite
  <2>2. Listed(g) = First(Postings[g], m, UpTo)
    BY DEF Listed, m
  <2>3. /\ Listed(g) \in SUBSET Postings[g]
        /\ Cardinality(Listed(g)) = Smaller(m, Hits(g))
    BY <1>1, <2>1, <2>2, FirstDocs DEF Hits
  <2>4. Hits(g) > 0 => Cardinality(Listed(g)) # 0
    BY <1>1, <2>1, <2>3 DEF Smaller
  <2>5. Hits(g) <= m => Cardinality(Listed(g)) = Cardinality(Postings[g])
    BY <1>1, <2>1, <2>3 DEF Smaller, Hits
  <2> QED
    BY <2>1, <2>3, <2>4, <2>5, FS_EmptySet, FS_Subset
<1>8. \A g \in Selected(query) : g \in Grams /\ Listed(g) \subseteq Postings[g]
  BY <1>2, <1>6, <1>7
<1>9. \A d \in Docs : {g \in Selected(query) : d \in Listed(g)} = {g \in Grams : <<g, d>> \in Entries}
  BY <1>8 DEF Entries
<1>10. \A d \in Docs : HitsOf(d) = Cardinality({g \in Grams : <<g, d>> \in Entries})
  BY <1>9 DEF HitsOf
<1>11. \A d \in Docs : HitsOf(d) > 0 <=> \E g \in Grams : <<g, d>> \in Entries
  <2> TAKE d \in Docs
  <2> DEFINE S == {g \in Grams : <<g, d>> \in Entries}
  <2>1. S \in SUBSET Grams /\ IsFiniteSet(Grams)
    BY Index DEF IndexAssumption
  <2>2. IsFiniteSet(S) /\ Cardinality(S) \in Nat
    BY <2>1, FS_Subset, FS_CardinalityType
  <2>3. HitsOf(d) = Cardinality(S) /\ (S # {} <=> \E g \in Grams : <<g, d>> \in Entries)
    BY <1>10
  <2> HIDE DEF S
  <2>4. Cardinality(S) > 0 <=> S # {}
    BY <2>2, FS_EmptySet
  <2> QED
    BY <2>3, <2>4
<1>12. Reachable = {d \in Docs : \E g \in Grams : <<g, d>> \in Entries}
  BY <1>11 DEF Reachable
<1>13. \A d \in Docs : d \in Candidates(query) <=> \E g \in Q : d \in Postings[g]
  <2> TAKE d \in Docs
  <2> DEFINE S == {g \in Q : d \in Postings[g]}
  <2>1. S \in SUBSET Grams /\ IsFiniteSet(Grams)
    BY <1>2, Index DEF IndexAssumption
  <2>2. IsFiniteSet(S) /\ Cardinality(S) \in Nat
    BY <2>1, FS_Subset, FS_CardinalityType
  <2>3. Cardinality(S) > 0 <=> S # {}
    BY <2>2, FS_EmptySet
  <2>4. Overlap(query, d) = Cardinality(S)
    BY DEF Overlap
  <2> QED
    BY <2>3, <2>4 DEF Candidates
<1>14. Reachable \subseteq Candidates(query)
  BY <1>2, <1>6, <1>8, <1>12, <1>13 DEF Entries
<1>15. ASSUME Candidates(query) # {} PROVE Reachable # {}
  <2>1. PICK d \in Docs, g \in Q : d \in Postings[g]
    BY <1>13, <1>15 DEF Candidates
  <2>2. Hits(g) > 0
    BY <1>2, <2>1, PostingsFinite, FS_EmptySet DEF Hits
  <2>3. P # {}
    BY <1>5, <2>2 DEF Present
  <2>4. Cardinality(Selected(query)) # 0
    BY <1>1, <1>6, <2>3, FS_EmptySet DEF Smaller
  <2>5. PICK h \in Selected(query) : TRUE
    BY <2>4, FS_EmptySet
  <2>6. h \in P /\ h \in Grams /\ Listed(h) # {} /\ Listed(h) \subseteq Docs
    BY <1>2, <1>3, <1>6, <1>7, <2>5, PostingsFinite
  <2> QED
    BY <1>12, <2>5, <2>6 DEF Entries
<1>16. ASSUME Unlimited(query) PROVE Reachable = Candidates(query)
  <2>1. Cardinality(Q) <= n /\ \A g \in Q : Hits(g) <= m
    BY <1>16 DEF Unlimited, n, m
  <2>2. IsFiniteSet(Q)
    BY <1>2, Index, FS_Subset DEF IndexAssumption
  <2>3. Cardinality(P) <= n
    BY <1>1, <1>2, <1>6, <2>1, <2>2, FS_Subset, FS_CardinalityType
  <2>4. Cardinality(Selected(query)) = Cardinality(P)
    BY <1>1, <1>6, <2>3 DEF Smaller
  <2>5. Selected(query) = P
    BY <1>6, <2>4, FS_Subset
  <2>6. \A g \in Q : Hits(g) > 0 => g \in P
    BY <2>1 DEF P, Rare, Present, m
  <2>7. ASSUME NEW d \in Candidates(query) PROVE d \in Reachable
    <3>1. PICK g \in Q : d \in Postings[g]
      BY <1>13 DEF Candidates
    <3>2. Hits(g) > 0
      BY <1>2, <3>1, PostingsFinite, FS_EmptySet DEF Hits
    <3>3. g \in Selected(query) /\ g \in Grams /\ d \in Listed(g) /\ d \in Docs
      BY <1>2, <1>7, <2>1, <2>5, <2>6, <3>1, <3>2 DEF Candidates
    <3> QED
      BY <1>12, <3>3 DEF Entries
  <2> QED
    BY <1>14, <2>7
<1> QED
  BY <1>8, <1>10, <1>12, <1>14, <1>15, <1>16

(* What fixes the selection stays the same in every step.                  *)
LEMMA SelectionStays ==
  ASSUME query' = query, limits' = limits
  PROVE  /\ Reachable' = Reachable /\ Entries' = Entries
         /\ \A d : HitsOf(d)' = HitsOf(d)
         /\ Unlimited(query)' = Unlimited(query)
<1>1. Rare(query)' = Rare(query) /\ Present(query)' = Present(query)
  BY DEF Rare, Present
<1>2. Selected(query)' = Selected(query)
  BY <1>1 DEF Selected, First
<1>3. \A g : Listed(g)' = Listed(g)
  BY DEF Listed, First
<1>4. \A d : HitsOf(d)' = HitsOf(d)
  BY <1>2, <1>3 DEF HitsOf
<1>5. Reachable' = Reachable
  BY <1>4 DEF Reachable
<1>6. Entries' = Entries
  BY <1>2, <1>3 DEF Entries
<1>7. Unlimited(query)' = Unlimited(query)
  BY DEF Unlimited
<1> QED
  BY <1>4, <1>5, <1>6, <1>7

(* A reranked candidate has its true similarity.                           *)
LEMMA RerankedIsFound ==
  ASSUME query \in Queries, NEW d \in Candidates(query)
  PROVE  Reranked(d) = Found(query, d) /\ Lt(Zero, Reranked(d)[2])
<1>1. d \in Docs /\ GramSets[d] \subseteq Grams
  BY Index DEF Candidates, IndexAssumption
<1>2. QueryIds(query) \cap GramSets[d] = QueryGrams[query] \cap GramSets[d]
  BY <1>1 DEF QueryIds
<1>3. Reranked(d) = Found(query, d)
  BY <1>1, <1>2, OverlapIsIntersection DEF Reranked, Found
<1> QED
  BY <1>3, BoundHolds

LEMMA SelectKeeps ==
  ASSUME FastInv, Select
  PROVE  FastInv'
<1>1. /\ query \in Queries /\ topk \in Ks /\ limits \in Settings
      /\ query' = query /\ topk' = topk /\ limits' = limits
      /\ stage' = "walk" /\ hits' = <<>>
  BY DEF FastInv, Select
<1>2. topk' # 0 /\ ExactHit[query'] = NoDoc
  BY DEF Select
<1>3. unwalked' = Entries'
  <2>1. unwalked' = Entries
    BY <1>1, SelectionFacts, PostingsFinite DEF Select, Entries
  <2> QED
    BY <1>1, <2>1, SelectionStays
<1>4. FastCandidates' = {}
  BY <1>1 DEF FastCandidates
<1>5. ~IsFull'
  BY <1>1, <1>4, FS_EmptySet, SettingsAssumption DEF IsFull, Full
<1>6. \A d \in Docs : Walked(d)' = {}
  BY <1>3 DEF Walked
<1>7. WalkInv'
  BY <1>3, <1>4, <1>5, <1>6 DEF WalkInv
<1> QED
  BY <1>1, <1>2, <1>7 DEF FastInv, FastOnlyUnderstates, FastIsExactWhenUnlimited

LEMMA WalkEntryKeeps ==
  ASSUME FastInv, WalkEntry
  PROVE  FastInv'
<1>1. /\ query \in Queries /\ topk \in Ks /\ limits \in Settings
      /\ query' = query /\ topk' = topk /\ limits' = limits
      /\ stage = "walk" /\ stage' = "walk"
      /\ topk # 0 /\ ExactHit[query] = NoDoc /\ WalkInv
  BY DEF FastInv, WalkEntry
<1>2. PICK e \in unwalked :
        /\ hits' = [d \in FastCandidates \cup {e[2]} |->
                      (IF d \in FastCandidates THEN hits[d] ELSE 0)
                        + (IF d = e[2] THEN 1 ELSE 0)]
        /\ unwalked' = IF Full(Cardinality(FastCandidates \cup {e[2]}))
                       THEN {} ELSE unwalked \ {e}
  BY DEF WalkEntry
<1>3. /\ unwalked \subseteq Entries
      /\ FastCandidates = {d \in Docs : Walked(d) # {}}
      /\ \A d \in FastCandidates : hits[d] = Cardinality(Walked(d))
  BY <1>1, <1>2 DEF WalkInv
<1>4. PICK g \in Grams, c \in Docs : e = <<g, c>> /\ e[1] = g /\ e[2] = c /\ <<g, c>> \in Entries
  BY <1>2, <1>3 DEF Entries
<1>5. FastCandidates' = FastCandidates \cup {c}
  BY <1>2, <1>4 DEF FastCandidates
<1>6. Reachable' = Reachable /\ Entries' = Entries
  BY <1>1, SelectionStays
<1>7. FastCandidates' \subseteq Reachable'
  BY <1>1, <1>4, <1>5, <1>6, SelectionFacts DEF WalkInv
<1>8. IsFull' <=> Full(Cardinality(FastCandidates \cup {c}))
  BY <1>1, <1>5 DEF IsFull, Full
<1>9. ASSUME IsFull' PROVE unwalked' = {}
  BY <1>2, <1>4, <1>8, <1>9
<1>10. ASSUME ~IsFull'
       PROVE  /\ unwalked' \subseteq Entries'
              /\ FastCandidates' = {d \in Docs : Walked(d)' # {}}
              /\ \A d \in FastCandidates' : hits'[d] = Cardinality(Walked(d)')
  <2>1. unwalked' = unwalked \ {<<g, c>>}
    BY <1>2, <1>4, <1>8, <1>10
  <2>2. ASSUME NEW d \in Docs, d # c PROVE Walked(d)' = Walked(d)
    BY <1>6, <2>1, <2>2 DEF Walked
  <2>3. Walked(c)' = Walked(c) \cup {g} /\ g \notin Walked(c)
    BY <1>2, <1>4, <1>6, <2>1 DEF Walked
  <2>4. IsFiniteSet(Walked(c))
    BY Index, FS_Subset DEF Walked, IndexAssumption
  <2>5. Cardinality(Walked(c)') = Cardinality(Walked(c)) + 1
    BY <2>3, <2>4, FS_AddElement
  <2>6. Walked(c) = {} => Cardinality(Walked(c)) = 0
    BY FS_EmptySet
  <2>7. hits'[c] = Cardinality(Walked(c)')
    <3>1. CASE c \in FastCandidates
      BY <1>2, <1>3, <1>4, <2>5, <3>1
    <3>2. CASE c \notin FastCandidates
      <4>1. hits'[c] = 1
        BY <1>2, <1>4, <3>2
      <4>2. Walked(c) = {}
        BY <1>3, <3>2
      <4> QED
        BY <2>5, <2>6, <4>1, <4>2
    <3> QED
      BY <3>1, <3>2
  <2>8. ASSUME NEW d \in FastCandidates' PROVE hits'[d] = Cardinality(Walked(d)')
    <3>1. CASE d = c
      BY <2>7, <3>1
    <3>2. CASE d # c
      <4>1. d \in FastCandidates /\ d \in Docs
        BY <1>3, <1>5, <3>2
      <4>2. hits[d] = Cardinality(Walked(d)) /\ Walked(d)' = Walked(d)
        BY <1>3, <2>2, <3>2, <4>1
      <4>3. Walked(d) \in SUBSET Grams /\ IsFiniteSet(Grams)
        BY Index DEF Walked, IndexAssumption
      <4>4. hits[d] \in Nat
        BY <4>2, <4>3, FS_Subset, FS_CardinalityType
      <4>5. hits'[d] = hits[d]
        BY <1>2, <1>4, <3>2, <4>1, <4>4
      <4> QED
        BY <4>2, <4>5
    <3> QED
      BY <3>1, <3>2
  <2>9. FastCandidates' = {d \in Docs : Walked(d)' # {}}
    BY <1>3, <1>5, <2>2, <2>3
  <2>10. unwalked' \subseteq Entries'
    BY <1>3, <1>6, <2>1
  <2> QED
    BY <2>8, <2>9, <2>10
<1>11. \A d \in FastCandidates' : hits'[d] \in Nat
  <2>1. \A d \in FastCandidates : hits[d] \in Nat
    BY <1>1 DEF WalkInv
  <2> QED
    BY <1>2, <1>4, <1>5, <2>1
<1>12. WalkInv'
  BY <1>7, <1>9, <1>10, <1>11 DEF WalkInv
<1> QED
  BY <1>1, <1>12 DEF FastInv, FastOnlyUnderstates, FastIsExactWhenUnlimited

LEMMA TrimKeeps ==
  ASSUME FastInv, Trim
  PROVE  FastInv'
<1> DEFINE C == FastCandidates
<1>1. /\ query \in Queries /\ topk \in Ks /\ limits \in Settings
      /\ query' = query /\ topk' = topk /\ limits' = limits
      /\ stage = "walk" /\ stage' = "rank" /\ unwalked = {}
      /\ topk # 0 /\ ExactHit[query] = NoDoc /\ WalkInv
      /\ hits' = [d \in Kept |-> hits[d]]
  BY DEF FastInv, Trim
<1>2. /\ limits.rerank_limit \in Nat \ {0} /\ limits.max_candidates \in Nat \ {0}
      /\ limits.rerank_limit <= limits.max_candidates
  BY <1>1, SettingsAssumption
<1>3. C \subseteq Reachable /\ Reachable \in SUBSET Docs /\ C \in SUBSET Docs
  BY <1>1 DEF WalkInv, Reachable
<1>4. /\ IsFiniteSet(C) /\ Cardinality(C) \in Nat
      /\ IsFiniteSet(Reachable) /\ Cardinality(Reachable) \in Nat
      /\ Cardinality(C) <= Cardinality(Reachable)
      /\ Cardinality(C) = Cardinality(Reachable) => C = Reachable
  BY <1>3, Index, FS_Subset, FS_CardinalityType DEF IndexAssumption
<1>5. ~IsFull => C = Reachable
  BY <1>1, SelectionFacts DEF WalkInv, Walked
<1>6. IsFull <=> Cardinality(C) >= limits.max_candidates
  BY DEF IsFull, Full
<1>7. \A d \in C : hits[d] \in Nat
  BY <1>1 DEF WalkInv
<1>8. /\ Kept \in SUBSET C
      /\ Cardinality(Kept) = Smaller(limits.rerank_limit, Cardinality(C))
      /\ \A c \in Kept, d \in C \ Kept : MoreHits(c, d) /\ c # d
  BY <1>1, <1>3, <1>7, KeptFacts
<1>9. FastCandidates' = Kept
  BY <1>1 DEF FastCandidates
<1>10. /\ Reachable' = Reachable /\ Unlimited(query)' = Unlimited(query)
       /\ \A d : HitsOf(d)' = HitsOf(d)
  BY <1>1, SelectionStays
<1> HIDE DEF C
<1>11. ASSUME Reachable # {} PROVE Kept # {}
  <2>1. Cardinality(C) # 0
    BY <1>2, <1>4, <1>5, <1>6, <1>11, FS_EmptySet
  <2>2. Cardinality(Kept) # 0
    BY <1>2, <1>4, <1>8, <2>1 DEF Smaller
  <2> QED
    BY <2>2, FS_EmptySet
<1>12. ASSUME Unlimited(query) PROVE Kept = Reachable
  <2>1. /\ Cardinality(Similar(query)) <= limits.max_candidates
        /\ Cardinality(Similar(query)) <= limits.rerank_limit
    BY <1>12 DEF Unlimited
  <2>2. Reachable = Candidates(query)
    BY <1>1, <1>12, SelectionFacts
  <2>3. Cardinality(Similar(query)) = Cardinality(Reachable)
    BY <1>1, <2>2, SimilarCount
  <2>4. Cardinality(C) = Cardinality(Reachable)
    BY <1>2, <1>4, <1>5, <1>6, <2>1, <2>3
  <2>5. Cardinality(Kept) = Cardinality(C)
    BY <1>2, <1>4, <1>8, <2>1, <2>3, <2>4 DEF Smaller
  <2> QED
    BY <1>4, <1>8, <2>4, <2>5, FS_Subset
<1>13. ASSUME Cardinality(Reachable) < limits.max_candidates
       PROVE  /\ Cardinality(Kept) = Smaller(limits.rerank_limit, Cardinality(Reachable))
              /\ \A c \in Kept, d \in Reachable \ Kept :
                   \/ HitsOf(c) > HitsOf(d)
                   \/ HitsOf(c) = HitsOf(d) /\ c < d
  <2>1. ~IsFull /\ C = Reachable
    BY <1>2, <1>4, <1>5, <1>6, <1>13
  <2>2. \A d \in C : hits[d] = Cardinality(Walked(d))
    BY <1>1, <2>1 DEF WalkInv, C
  <2>3. \A d \in C : hits[d] = HitsOf(d)
    BY <1>1, <1>3, <2>1, <2>2, SelectionFacts DEF Walked
  <2>4. ASSUME NEW c \in Kept, NEW d \in Reachable \ Kept
        PROVE  HitsOf(c) > HitsOf(d) \/ (HitsOf(c) = HitsOf(d) /\ c < d)
    <3>1. c \in C /\ d \in C /\ c \in Nat /\ d \in Nat
      BY <1>3, <1>8, <2>1, Index DEF IndexAssumption
    <3>2. MoreHits(c, d) /\ c # d
      BY <1>8, <2>1
    <3> QED
      BY <2>3, <3>1, <3>2 DEF MoreHits
  <2> QED
    BY <1>8, <2>1, <2>4
<1>14. KeepsMostHits'
  BY <1>1, <1>9, <1>10, <1>13 DEF KeepsMostHits
<1>15. RankedInv'
  BY <1>1, <1>3, <1>8, <1>9, <1>10, <1>11, <1>12, <1>14 DEF RankedInv, C
<1> QED
  BY <1>1, <1>15 DEF FastInv, FastOnlyUnderstates, FastIsExactWhenUnlimited

LEMMA AnswerFastDirectlyKeeps ==
  ASSUME FastInv, AnswerFastDirectly
  PROVE  FastInv'
<1>1. /\ query \in Queries /\ topk \in Ks /\ limits \in Settings
      /\ query' = query /\ topk' = topk /\ limits' = limits /\ stage' = "done"
      /\ topk = 0 \/ ExactHit[query] # NoDoc \/ QueryIds(query) = {}
  BY DEF FastInv, AnswerFastDirectly
<1>2. ASSUME ExactHit[query] = NoDoc
      PROVE  /\ neighbours' = {}
             /\ {} \in Truncation(Similar(query), topk)
             /\ topk # 0 => Similar(query) = {}
  BY <1>1, <1>2, NothingIsTop DEF AnswerFastDirectly
<1>3. topk \in Nat
  BY <1>1, Query DEF QueryAssumption
<1>4. FastOnlyUnderstates'
  BY <1>1, <1>2, <1>3, FS_EmptySet DEF FastOnlyUnderstates
<1>5. FastIsExactWhenUnlimited'
  BY <1>1, <1>2 DEF FastIsExactWhenUnlimited
<1> QED
  BY <1>1, <1>4, <1>5 DEF FastInv

LEMMA RankKeeps ==
  ASSUME FastInv, Rank
  PROVE  FastInv'
<1> DEFINE C == FastCandidates
           ranked == {n \in {Reranked(d) : d \in C} : Lt(Zero, n[2])}
<1>1. /\ query \in Queries /\ topk \in Ks /\ limits \in Settings
      /\ query' = query /\ topk' = topk /\ limits' = limits
      /\ stage = "rank" /\ stage' = "done"
      /\ topk # 0 /\ ExactHit[query] = NoDoc /\ RankedInv
      /\ neighbours' \in Truncation(ranked, topk)
  BY DEF FastInv, Rank
<1>2. topk \in Nat \ {0}
  BY <1>1, Query DEF QueryAssumption
<1>3. C \subseteq Reachable /\ Reachable \subseteq Candidates(query)
  BY <1>1, SelectionFacts DEF RankedInv
<1>4. \A d \in C : Reranked(d) = Found(query, d) /\ Lt(Zero, Reranked(d)[2])
  BY <1>1, <1>3, RerankedIsFound
<1>5. ranked = {Found(query, d) : d \in C}
  BY <1>4
<1> HIDE DEF ranked
<1>6. /\ Similar(query) = {Found(query, d) : d \in Candidates(query)}
      /\ IsFiniteSet(Similar(query))
  BY <1>1, FoundFinite, CandidatesAreSimilar
<1>7. ranked \in SUBSET Similar(query)
  BY <1>3, <1>5, <1>6
<1>8. IsFiniteSet(ranked) /\ Cardinality(ranked) \in Nat
  BY <1>6, <1>7, FS_Subset, FS_CardinalityType
<1>9. /\ neighbours' \subseteq Similar(query)
      /\ Cardinality(neighbours') = Smaller(topk, Cardinality(ranked))
  BY <1>1, <1>7 DEF Truncation
<1>10. Cardinality(neighbours') <= topk
  BY <1>2, <1>8, <1>9 DEF Smaller
<1>11. ASSUME Similar(query) # {} PROVE neighbours' # {}
  <2>1. C # {}
    BY <1>1, <1>6, <1>11, SelectionFacts DEF RankedInv
  <2>2. Cardinality(ranked) # 0
    BY <1>5, <1>8, <2>1, FS_EmptySet
  <2>3. Cardinality(neighbours') # 0
    BY <1>2, <1>8, <1>9, <2>2 DEF Smaller
  <2> QED
    BY <2>3, FS_EmptySet
<1>12. ASSUME Unlimited(query) PROVE neighbours' \in Truncation(Similar(query), topk)
  <2>1. C = Candidates(query)
    BY <1>1, <1>12, SelectionFacts DEF RankedInv
  <2> QED
    BY <1>1, <1>5, <1>6, <2>1
<1>13. Unlimited(query)' = Unlimited(query)
  BY <1>1, SelectionStays
<1>14. FastOnlyUnderstates'
  BY <1>1, <1>9, <1>10, <1>11 DEF FastOnlyUnderstates
<1>15. FastIsExactWhenUnlimited'
  BY <1>1, <1>12, <1>13 DEF FastIsExactWhenUnlimited
<1> QED
  BY <1>1, <1>14, <1>15 DEF FastInv

LEMMA FastInvStep ==
  ASSUME FastInv, [FastNext]_fastVars
  PROVE  FastInv'
<1>1. CASE UNCHANGED fastVars
  <2>1. /\ query' = query /\ topk' = topk /\ limits' = limits /\ stage' = stage
        /\ unwalked' = unwalked /\ hits' = hits /\ neighbours' = neighbours
    BY <1>1 DEF fastVars
  <2>2. /\ Reachable' = Reachable /\ Entries' = Entries
        /\ \A d : HitsOf(d)' = HitsOf(d)
        /\ Unlimited(query)' = Unlimited(query)
    BY <2>1, SelectionStays
  <2>3. FastCandidates' = FastCandidates /\ IsFull' = IsFull
    BY <2>1 DEF FastCandidates, IsFull, Full
  <2>4. \A d : Walked(d)' = Walked(d)
    BY <2>1, <2>2 DEF Walked
  <2>5. stage = "walk" => WalkInv'
    BY <2>1, <2>2, <2>3, <2>4 DEF FastInv, WalkInv
  <2>6. stage = "rank" => RankedInv'
    BY <2>1, <2>2, <2>3 DEF FastInv, RankedInv, KeepsMostHits
  <2>7. FastOnlyUnderstates' /\ FastIsExactWhenUnlimited'
    BY <2>1, <2>2 DEF FastInv, FastOnlyUnderstates, FastIsExactWhenUnlimited
  <2> QED
    BY <2>1, <2>5, <2>6, <2>7 DEF FastInv
<1>2. CASE FastDone
  BY <1>1, <1>2 DEF FastDone
<1> QED
  BY <1>1, <1>2, AnswerFastDirectlyKeeps, SelectKeeps, WalkEntryKeeps, TrimKeeps, RankKeeps
     DEF FastNext

(* The invariant of fast retrieval holds for every index, query, k and     *)
(* limits.                                                                 *)
THEOREM FastCorrect == FastSpec => []FastInv
<1>1. FastInit => FastInv
  BY DEF FastInit, FastInv, FastOnlyUnderstates, FastIsExactWhenUnlimited
<1>2. FastInv /\ [FastNext]_fastVars => FastInv'
  BY FastInvStep
<1> QED
  BY <1>1, <1>2, PTL DEF FastSpec

(* A fast answer has true similarities and is not empty when some document *)
(* shares an n-gram with the query (rank_fast_candidates).                 *)
THEOREM FastUnderstatesCorrect == FastSpec => []FastOnlyUnderstates
<1>1. FastInv => FastOnlyUnderstates
  BY DEF FastInv
<1> QED
  BY <1>1, FastCorrect, PTL

(* Where no limit bites, fast retrieval is exact (query_topk_with_mode).   *)
THEOREM FastExactCorrect == FastSpec => []FastIsExactWhenUnlimited
<1>1. FastInv => FastIsExactWhenUnlimited
  BY DEF FastInv
<1> QED
  BY <1>1, FastCorrect, PTL

(* Candidates are cut to those most selected n-grams list                  *)
(* (candidate_counts_fast).                                                *)
THEOREM KeepsMostHitsCorrect == FastSpec => []KeepsMostHits
<1>1. FastInv => KeepsMostHits
  BY DEF FastInv, RankedInv, KeepsMostHits
<1> QED
  BY <1>1, FastCorrect, PTL
=============================================================================
