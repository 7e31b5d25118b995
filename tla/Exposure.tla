------------------------------ MODULE Exposure ------------------------------
(***************************************************************************)
(* The exposure of a test set to a training corpus, batch by batch: exact  *)
(* retrieval on the source side and, when there are references, on the     *)
(* target side; reranking of training pairs; exact-pair lookups and        *)
(* threshold flags; one row per test segment; and the translation-memory   *)
(* baseline built from the rows.                                           *)
(*                                                                         *)
(* Abstractions.  Texts are already normalised; NGrams gives the n-grams   *)
(* of each.  Retrieval is exact and what ExactQuery shows it to return;    *)
(* the list it returns is the set of its neighbours, which Ranks orders.   *)
(* Lists indexed by document, segment or reference are functions on        *)
(* 0..n-1.  A pair key is the pair (128 bits of BLAKE2b).                  *)
(***************************************************************************)
EXTENDS Scores, Sequences

CONSTANTS
  NGrams,       \* the n-grams of each text
  Inputs,       \* runs: training corpus, test set, references, indexes reused
  TopKs,        \* index.topk
  BatchSizes,   \* index.batch_size
  Thresholds,   \* bins.leak_thresholds
  Label(_),     \* the two-decimal name of a threshold
  Tolerance,    \* what a reference may miss the score of its pair by: 1e-12
  Near, Far,    \* bins.near_threshold, bins.far_threshold
  ZeroPolicies, \* tm.zero_policy: "empty", "nearest"
  NoText,       \* the empty translation
  None          \* Python's None

Texts == DOMAIN NGrams
Lists(n) == [0..(n - 1) -> Texts]
Names == {Label(t) : t \in Thresholds}

(* What the settings allow (BinConfig, IndexConfig, TMConfig).             *)
ASSUME ExposureAssumption ==
  /\ \A s \in Texts : IsFiniteSet(NGrams[s])
  /\ \A s, t \in Texts : NGrams[s] = {} /\ NGrams[t] = {} => s = t
  /\ BatchSizes \subseteq Nat \ {0} /\ TopKs \subseteq Nat \ {0}
  /\ ZeroPolicies \subseteq {"empty", "nearest"}
  /\ Thresholds # {} /\ Thresholds \subseteq Fraction /\ IsFiniteSet(Thresholds)
  /\ \A t \in Thresholds : Leq(t, One)
  /\ Near \in Fraction /\ Far \in Fraction /\ Leq(Far, Near)
  /\ Tolerance \in Fraction

(* What validate_corpus_inputs lets through, with one reference at least   *)
(* when there are references.                                              *)
ASSUME InputAssumption ==
  \A run \in Inputs :
    LET n == Cardinality(DOMAIN run.test_src)
        m == Cardinality(DOMAIN run.train_src)
    IN /\ n \in Nat \ {0} /\ run.test_src \in Lists(n)
       /\ m \in Nat \ {0} /\ run.train_src \in Lists(m)
       /\ run.train_tgt # None => run.train_tgt \in Lists(m)
       /\ run.refs # None =>
            \E r \in {Cardinality(DOMAIN run.refs)} \cap (Nat \ {0}) :
              run.refs \in [0..(r - 1) -> Lists(n)]

ASSUME NoneAssumption ==
  /\ None \notin Nat
  /\ None \notin (Nat \cup {None}) \X Fraction \X BOOLEAN

VARIABLES
  input,            \* the run
  topk, batch_size, zero_policy,
  exact_thresholds, \* pair.exact_thresholds
  phase,            \* retrieve, emit, tm, done
  batch_start,      \* first segment of the batch
  batch,            \* what was retrieved for the batch
  exposures,        \* the rows so far
  tm_results        \* the translation-memory baseline

vars == <<input, topk, batch_size, zero_policy, exact_thresholds, phase,
          batch_start, batch, exposures, tm_results>>
----------------------------------------------------------------------------
Values(f) == {f[x] : x \in DOMAIN f}

Lowest(S) == CHOOSE s \in S : \A t \in S : s <= t
Lesser(a, b) == IF Leq(a, b) THEN a ELSE b
Greatest(F) == CHOOSE f \in F : \A g \in F : Leq(g, f)

Similarity(text, other) == Jaccard(NGrams[text], NGrams[other])

Pairs == input.refs # None /\ input.train_tgt # None

(* A reused bundle brings its target index whether or not there are        *)
(* references; a fresh run builds one only for references.                 *)
HasTargetIndex == Pairs \/ (input.reused /\ input.train_tgt # None)

NoNeighbour == <<None, Zero, FALSE>>

RetrievalK == Larger(1, IF Pairs THEN topk ELSE 1)

Related(train, text) ==
  {<<d, Similarity(text, train[d]), FALSE>> :
     d \in {e \in DOMAIN train : NGrams[text] \cap NGrams[train[e]] # {}}}

(* batch_query_topk_normalized, for one text                               *)
Top(train, text) ==
  LET same == {d \in DOMAIN train : train[d] = text} IN
  IF same # {} THEN {<<Lowest(same), One, TRUE>>}
  ELSE CHOOSE T \in Truncation(Related(train, text), RetrievalK) : TRUE

FirstOf(top) ==
  IF top = {} THEN NoNeighbour
  ELSE CHOOSE n \in top : \A m \in top \ {n} : Ranks(n, m)

Offsets == 0..(Smaller(batch_size, Cardinality(DOMAIN input.test_src) - batch_start) - 1)

(* (mutant) references are taken from the start of the file in every batch  *)
RefOfBatchUnsliced(r, o) == input.refs[r][o]

RefOfBatch(r, o) == input.refs[r][batch_start + o]

SourceOfBatch(o) == input.test_src[batch_start + o]

References == IF Pairs THEN DOMAIN input.refs ELSE {}
----------------------------------------------------------------------------
(* A training pair as a neighbour of a segment.                            *)
TargetScore(o, d) ==
  Greatest({Similarity(RefOfBatch(r, o), input.train_tgt[d]) : r \in References})

PairScore(o, d) ==
  Lesser(Similarity(SourceOfBatch(o), input.train_src[d]), TargetScore(o, d))

Indices(top) == {n[1] : n \in top}

(* The best of the candidates either side brought, if any scores at all.   *)
PairNeighbour(o, tops) ==
  LET candidates == UNION {Indices(top) : top \in tops}
      scored == {<<d, PairScore(o, d), Same(PairScore(o, d), One)>> : d \in candidates}
  IN FirstOf({n \in scored : Lt(Zero, n[2])})

(* pair_threshold_flags_exact_normalized: the training pairs whose source   *)
(* reaches the least threshold,                                            *)
SourceCandidates(o) ==
  LET least == CHOOSE t \in Thresholds : \A u \in Thresholds : Leq(t, u)
  IN {d \in DOMAIN input.train_src : Leq(least, Similarity(SourceOfBatch(o), input.train_src[d]))}

(* ... the flags one reference raises with them,                           *)
RaisedBy(o, r) ==
  {Label(t) : t \in {u \in Thresholds : \E d \in SourceCandidates(o) :
     Leq(u, Lesser(Similarity(SourceOfBatch(o), input.train_src[d]),
                   Similarity(RefOfBatch(r, o), input.train_tgt[d])))}}

RaisedBefore(o, r) == UNION {RaisedBy(o, q) : q \in {s \in References : s < r}}

(* (mutant) reading stops as soon as one flag is raised                     *)
ReferencesReadTillOne(o) == {r \in References : RaisedBefore(o, r) = {}}

(* ... and the references read: no more once all flags are raised.         *)
ReferencesRead(o) == {r \in References : RaisedBefore(o, r) # Names}

Flags(o) ==
  [l \in Names |-> \E r \in ReferencesRead(o) : l \in RaisedBy(o, r)]
----------------------------------------------------------------------------
Init ==
  /\ input \in Inputs
  /\ topk \in TopKs /\ batch_size \in BatchSizes /\ zero_policy \in ZeroPolicies
  /\ exact_thresholds \in BOOLEAN
  /\ phase = "retrieve"
  /\ batch_start = 0
  /\ batch = None
  /\ exposures = <<>>
  /\ tm_results = <<>>

SourceTop(o) == Top(input.train_src, SourceOfBatch(o))
TargetTop(r, o) == Top(input.train_tgt, RefOfBatch(r, o))

Retrieved ==
  [source_tops |-> [o \in Offsets |-> SourceTop(o)],
   target_tops |-> [r \in References |-> [o \in Offsets |-> TargetTop(r, o)]],
   pairs |-> [o \in Offsets |->
                IF Pairs
                THEN PairNeighbour(o, {SourceTop(o)} \cup {TargetTop(r, o) : r \in References})
                ELSE None],
   flags |-> [o \in Offsets |-> IF exact_thresholds /\ Pairs THEN Flags(o) ELSE None]]

RetrieveBatch ==
  /\ phase = "retrieve" /\ batch_start \in DOMAIN input.test_src
  /\ batch' = Retrieved
  /\ phase' = "emit"
  /\ UNCHANGED <<input, topk, batch_size, zero_policy, exact_thresholds,
                 batch_start, exposures, tm_results>>

Offset == Len(exposures) - batch_start

(* _best_target_neighbor: the best first neighbour over the references,    *)
(* ties going to the lower document, then to the lower reference.          *)
BestTarget ==
  LET tops == [r \in References |-> batch.target_tops[r][Offset]]
      found == {r \in References : tops[r] # {}}
      Precedes(r, s) == LET m == FirstOf(tops[r]) n == FirstOf(tops[s]) IN
                        Ranks(m, n) \/ (~Ranks(n, m) /\ r < s)
  IN IF References = {} THEN <<None, None>>
     ELSE IF found = {} THEN <<NoNeighbour, None>>
     ELSE LET best == CHOOSE r \in found : \A s \in found \ {r} : Precedes(r, s)
          IN <<FirstOf(tops[best]), best>>

(* (mutant) the two sides of an exact pair may come from different rows     *)
ExactPairAcross(source, target) ==
  source \in Values(input.train_src) /\ target \in Values(input.train_tgt)

ExactPair(source, target) ==
  \E d \in DOMAIN input.train_src : input.train_src[d] = source /\ input.train_tgt[d] = target

(* (mutant) the first reference is named, however far it is                 *)
PairReferenceFirst(o, n) == Lowest(References)

TargetSimilarity(o, r, d) == Similarity(RefOfBatch(r, o), input.train_tgt[d])

(* score + 1e-12 >= wanted                                                 *)
ComesNear(score, wanted) ==
  Leq(wanted, <<score[1] * Tolerance[2] + Tolerance[1] * score[2], score[2] * Tolerance[2]>>)

(* _best_pair_ref_index: the first reference close enough to the training  *)
(* target of the pair, or else the closest.                                *)
PairReference(o, n) ==
  LET near == {r \in References : ComesNear(TargetSimilarity(o, r, n[1]), n[2])}
      closest == {r \in References : \A q \in References :
                    Leq(TargetSimilarity(o, q, n[1]), TargetSimilarity(o, r, n[1]))}
  IN Lowest(IF near # {} THEN near ELSE closest)

Bin(neighbour) ==
  IF neighbour[3] THEN "source_exact"
  ELSE IF Leq(Near, neighbour[2]) THEN "near"
  ELSE IF Leq(Far, neighbour[2]) THEN "medium" ELSE "far"

Row ==
  LET o == Offset
      source == FirstOf(batch.source_tops[o])
      target == BestTarget
      pair == batch.pairs[o]
  IN [index |-> batch_start + o,
      source_exposure |-> source[2], source_nn_index |-> source[1], source_exact |-> source[3],
      target_exposure |-> IF target[1] = None THEN None ELSE target[1][2],
      target_nn_index |-> IF target[1] = None THEN None ELSE target[1][1],
      target_ref_index |-> target[2],
      target_exact |-> IF HasTargetIndex
                       THEN \E r \in References : FirstOf(batch.target_tops[r][o])[3]
                       ELSE None,
      pair_exposure |-> IF pair = None THEN None ELSE pair[2],
      pair_nn_index |-> IF pair = None THEN None ELSE pair[1],
      pair_ref_index |-> IF pair = None THEN None
                         ELSE IF pair[1] = None THEN None ELSE PairReference(o, pair),
      pair_exact |-> IF Pairs
                     THEN \E r \in References : ExactPair(SourceOfBatch(o), RefOfBatch(r, o))
                     ELSE None,
      pair_exact_at_threshold |-> batch.flags[o],
      bin |-> Bin(source)]

EmitSegment ==
  /\ phase = "emit" /\ Offset \in Offsets
  /\ exposures' = Append(exposures, Row)
  /\ UNCHANGED <<input, topk, batch_size, zero_policy, exact_thresholds, phase,
                 batch_start, batch, tm_results>>

NextBatch ==
  /\ phase = "emit" /\ Offset \notin Offsets
  /\ phase' = IF batch_start + batch_size \in DOMAIN input.test_src
              THEN "retrieve" ELSE "tm"
  /\ batch_start' = batch_start + batch_size
  /\ batch' = None
  /\ UNCHANGED <<input, topk, batch_size, zero_policy, exact_thresholds,
                 exposures, tm_results>>

(* (mutant) the translation of a segment without a neighbour is the first   *)
(* one whatever the policy                                                  *)
TmIndexAlwaysNearest(s) == IF s.source_nn_index = None THEN 0 ELSE s.source_nn_index

TmIndex(s) ==
  IF s.source_nn_index # None THEN s.source_nn_index
  ELSE IF zero_policy = "nearest" THEN 0 ELSE None

TmResult(s) ==
  [index |-> s.index,
   tm_hyp |-> IF TmIndex(s) = None THEN NoText ELSE input.train_tgt[TmIndex(s)],
   tm_source_index |-> TmIndex(s),
   tm_source_similarity |-> s.source_exposure]

BuildTm ==
  /\ phase = "tm"
  /\ tm_results' = IF input.train_tgt = None THEN <<>>
                   ELSE [i \in DOMAIN exposures |-> TmResult(exposures[i])]
  /\ phase' = "done"
  /\ UNCHANGED <<input, topk, batch_size, zero_policy, exact_thresholds,
                 batch_start, batch, exposures>>

Done == phase = "done" /\ UNCHANGED vars

Next == RetrieveBatch \/ EmitSegment \/ NextBatch \/ BuildTm \/ Done

Spec == Init /\ [][Next]_vars
----------------------------------------------------------------------------
Docs == DOMAIN input.train_src

Closest(train, text) == Greatest({Zero} \cup {Similarity(text, train[d]) : d \in DOMAIN train})

Rows == {exposures[i] : i \in DOMAIN exposures}

(* However the test set is cut into batches, row i speaks of segment i:    *)
(* its exposures are the largest similarities of that source, and of its   *)
(* references, to the training corpus, and the indices it names attain     *)
(* them (compute_exposure_result, _best_target_neighbor).                  *)
ExposuresAreMaxima ==
  \A i \in DOMAIN exposures :
    LET s == exposures[i] IN
    /\ s.index = i - 1
    /\ Same(s.source_exposure, Closest(input.train_src, input.test_src[i - 1]))
    /\ s.source_nn_index # None =>
         Same(s.source_exposure,
              Similarity(input.test_src[i - 1], input.train_src[s.source_nn_index]))
    /\ Pairs =>
         /\ Same(s.target_exposure,
                 Greatest({Closest(input.train_tgt, input.refs[r][i - 1]) : r \in References}))
         /\ s.target_nn_index # None =>
              Same(s.target_exposure,
                   Similarity(input.refs[s.target_ref_index][i - 1],
                              input.train_tgt[s.target_nn_index]))

(* A pair is never more exposed than either of its sides.  When a training *)
(* pair is named, it attains the exposure with some reference; the one     *)
(* recorded is looked for afterwards, from the score alone, and misses it  *)
(* by no more than the tolerance, if at all (_batch_pair_neighbors,        *)
(* _best_pair_ref_index).                                                  *)
PairWithinSides ==
  \A s \in Rows :
    Pairs =>
      /\ Leq(s.pair_exposure, s.source_exposure)
      /\ Leq(s.pair_exposure, s.target_exposure)
      /\ s.pair_nn_index # None =>
           LET source == Similarity(input.test_src[s.index], input.train_src[s.pair_nn_index])
               target(r) == Similarity(input.refs[r][s.index], input.train_tgt[s.pair_nn_index])
           IN /\ \E r \in References : Same(s.pair_exposure, Lesser(source, target(r)))
              /\ Leq(Lesser(source, target(s.pair_ref_index)), s.pair_exposure)
              /\ ComesNear(target(s.pair_ref_index), s.pair_exposure)

PairReaches(i, t) ==
  \E d \in Docs, r \in References :
    /\ Leq(t, Similarity(input.test_src[i], input.train_src[d]))
    /\ Leq(t, Similarity(input.refs[r][i], input.train_tgt[d]))

HasOwnName(t) == \A u \in Thresholds : Label(u) = Label(t) => u = t

(* Though sources are tried against the least threshold only and reading   *)
(* of references stops when every flag is up, no pair that reaches a       *)
(* threshold is missed, and a flag whose name belongs to one threshold is  *)
(* raised by nothing else; so exact flags dominate the exposure found by   *)
(* reranking, segment by segment and threshold by threshold                *)
(* (pair_threshold_flags_exact_normalized, docs/method_spec.md).           *)
FlagsMeanThresholds ==
  \A s \in Rows : s.pair_exact_at_threshold # None =>
    \A t \in Thresholds :
      LET flag == s.pair_exact_at_threshold[Label(t)] IN
      /\ PairReaches(s.index, t) => flag
      /\ flag /\ HasOwnName(t) => PairReaches(s.index, t)
      /\ Leq(t, s.pair_exposure) => flag

(* An exact pair is exact on both sides and reaches every threshold,       *)
(* although the three facts are found in three ways: by pair keys, by the  *)
(* exact-match maps and by scoring (contains_exact_pair_key).              *)
ExactPairIsExactEverywhere ==
  \A s \in Rows : Pairs =>
    (s.pair_exact =>
       /\ s.source_exact /\ s.target_exact /\ s.bin = "source_exact"
       /\ Same(s.source_exposure, One) /\ Same(s.target_exposure, One)
       /\ s.pair_exact_at_threshold # None =>
            \A t \in Thresholds : s.pair_exact_at_threshold[Label(t)])

(* The baseline translation of a segment is the target of the training     *)
(* pair it names, recorded with the similarity of that pair's source to    *)
(* the segment; a segment without a neighbour is translated only when the  *)
(* zero policy asks for it (build_tm_hypotheses).                          *)
TmFollowsExposure ==
  \A i \in DOMAIN tm_results :
    LET m == tm_results[i] IN
    /\ m.index = i - 1
    /\ IF m.tm_source_index = None
       THEN zero_policy = "empty" /\ m.tm_hyp = NoText
       ELSE /\ m.tm_hyp = input.train_tgt[m.tm_source_index]
            /\ Same(m.tm_source_similarity,
                    Similarity(input.test_src[i - 1], input.train_src[m.tm_source_index]))
            /\ zero_policy = "empty" => Lt(Zero, m.tm_source_similarity)
----------------------------------------------------------------------------
(* What method_spec.md says of every leak threshold: its exact flag is     *)
(* true if there is a training pair that reaches it, and only then.  The   *)
(* flags are named by two decimals, which two thresholds may share.        *)
EveryFlagIsItsThresholds ==
  \A s \in Rows : s.pair_exact_at_threshold # None =>
    \A t \in Thresholds : s.pair_exact_at_threshold[Label(t)] <=> PairReaches(s.index, t)
=============================================================================
