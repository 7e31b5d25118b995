--------------------------- MODULE ExposureProofs ---------------------------
(***************************************************************************)
(* Proofs of the properties of the exposure pipeline, for every training   *)
(* corpus, test set, batch size and setting: whatever a batch retrieves is *)
(* the best there is for its segments, each row keeps that of its segment, *)
(* and the translation-memory baseline is built from the rows.             *)
(***************************************************************************)
EXTENDS Exposure, ScoresProofs

(***************************************************************************)
(* Scores again: replacing a score by an equal one, the lesser of two, and *)
(* the greatest of finitely many.                                          *)
(***************************************************************************)
LEMMA SameScores ==
  ASSUME NEW a \in Fraction, NEW b \in Fraction, NEW c \in Fraction, Same(a, b)
  PROVE  /\ Same(b, a)
         /\ Leq(a, c) <=> Leq(b, c)
         /\ Leq(c, a) <=> Leq(c, b)
         /\ Lt(a, c) <=> Lt(b, c)
         /\ Lt(c, a) <=> Lt(c, b)
         /\ Same(a, c) <=> Same(b, c)
<1>1. Leq(a, b) /\ Leq(b, a)
  BY LeqTotal
<1>2. Leq(a, c) <=> Leq(b, c)
  BY <1>1, LeqTransitive
<1>3. Leq(c, a) <=> Leq(c, b)
  BY <1>1, LeqTransitive
<1> QED
  BY <1>1, <1>2, <1>3, LeqTotal

LEMMA ZeroIsLeast ==
  /\ Zero \in Fraction /\ One \in Fraction
  /\ Lt(Zero, One)
  /\ \A f \in Fraction : Leq(Zero, f)
  /\ \A f \in Fraction : Leq(f, Zero) => \A g \in Fraction : Leq(f, g)
<1>1. Zero \in Fraction /\ One \in Fraction /\ Lt(Zero, One)
  BY DEF Zero, One, Fraction, Lt
<1>2. ASSUME NEW f \in Fraction PROVE Leq(Zero, f)
  <2>1. f[1] \in Nat /\ f[2] \in Nat
    BY DEF Fraction
  <2>2. 0 * f[2] = 0 /\ f[1] * 1 = f[1]
    BY <2>1
  <2> QED
    BY <2>1, <2>2 DEF Leq, Zero
<1> QED
  BY <1>1, <1>2, LeqTransitive

LEMMA LesserScore ==
  ASSUME NEW a \in Fraction, NEW b \in Fraction, NEW c \in Fraction
  PROVE  /\ Lesser(a, b) \in Fraction
         /\ Lesser(a, b) = a \/ Lesser(a, b) = b
         /\ Leq(Lesser(a, b), a) /\ Leq(Lesser(a, b), b)
         /\ Leq(c, Lesser(a, b)) <=> Leq(c, a) /\ Leq(c, b)
  BY LeqTotal, LeqTransitive DEF Lesser

LEMMA GreatestFacts ==
  ASSUME NEW F \in SUBSET Fraction, IsFiniteSet(F), F # {}
  PROVE  /\ Greatest(F) \in F
         /\ \A f \in F : Leq(f, Greatest(F))
         /\ \A x \in Fraction :
              (\A f \in F : Leq(f, x)) /\ (\E f \in F : Leq(x, f)) => Same(x, Greatest(F))
<1>1. \E f \in F : \A g \in F : Leq(g, f)
  BY GreatestScore
<1>2. Greatest(F) \in F /\ \A f \in F : Leq(f, Greatest(F))
  BY <1>1 DEF Greatest
<1> HIDE DEF Greatest
<1>3. ASSUME NEW x \in Fraction, \A f \in F : Leq(f, x), NEW f \in F, Leq(x, f)
      PROVE  Same(x, Greatest(F))
  <2>1. Leq(f, Greatest(F)) /\ Leq(Greatest(F), x) /\ Greatest(F) \in Fraction /\ f \in Fraction
    BY <1>2, <1>3
  <2>2. Leq(x, Greatest(F))
    BY <1>3, <2>1, LeqTransitive
  <2> QED
    BY <2>1, <2>2, LeqTotal
<1> QED
  BY <1>2, <1>3

(* A score that reaches another comes near it.                             *)
LEMMA ReachingComesNear ==
  ASSUME NEW f \in Fraction, NEW g \in Fraction, Leq(g, f)
  PROVE  ComesNear(f, g)
<1> DEFINE a == f[1]  b == f[2]  c == g[1]  d == g[2]  s == Tolerance[1]  t == Tolerance[2]
<1>1. a \in Nat /\ b \in Nat /\ c \in Nat /\ d \in Nat /\ s \in Nat /\ t \in Nat
  BY ExposureAssumption DEF Fraction
<1>2. c * b <= a * d
  BY DEF Leq
<1>3. ComesNear(f, g) <=> c * (b * t) <= (a * t + s * b) * d
  BY DEF ComesNear, Leq
<1> HIDE DEF a, b, c, d, s, t
<1>4. (c * b) * t <= (a * d) * t
  <2>1. c * b \in Nat /\ a * d \in Nat
    BY <1>1
  <2> QED
    BY <1>1, <1>2, <2>1, MulMono
<1>5. /\ (a * t + s * b) * d = (a * t) * d + (s * b) * d
      /\ (a * t) * d = (a * d) * t
      /\ c * (b * t) = (c * b) * t
  <2>1. a * t \in Nat /\ s * b \in Nat
    BY <1>1
  <2> QED
    BY <1>1, <2>1
<1>6. (s * b) * d \in Nat /\ (a * d) * t \in Nat /\ (c * b) * t \in Nat
  <2>1. s * b \in Nat /\ a * d \in Nat /\ c * b \in Nat
    BY <1>1
  <2> QED
    BY <1>1, <2>1
<1> QED
  BY <1>3, <1>4, <1>5, <1>6

(* A finite set has finitely many images.                                  *)
LEMMA FiniteImages ==
  ASSUME NEW S, IsFiniteSet(S), NEW f \in [S -> Fraction]
  PROVE  /\ IsFiniteSet({f[x] : x \in S})
         /\ {f[x] : x \in S} \in SUBSET Fraction
<1> DEFINE I == {f[x] : x \in S}
<1>1. f \in Surjection(S, I)
  BY DEF Surjection
<1> HIDE DEF I
<1>2. IsFiniteSet(I)
  BY <1>1, FS_Surjection
<1> QED
  BY <1>2 DEF I

(***************************************************************************)
(* The similarity of two texts.                                            *)
(***************************************************************************)
LEMMA SimilarityFacts ==
  ASSUME NEW s \in Texts, NEW t \in Texts
  PROVE  /\ Similarity(s, t) \in Fraction
         /\ Leq(Similarity(s, t), One)
         /\ s = t => Same(Similarity(s, t), One)
         /\ NGrams[s] \cap NGrams[t] # {} => Lt(Zero, Similarity(s, t))
         /\ NGrams[s] \cap NGrams[t] = {} /\ s # t => Same(Similarity(s, t), Zero)
<1> DEFINE I == NGrams[s] \cap NGrams[t]
           U == NGrams[s] \cup NGrams[t]
           i == Cardinality(I)
           u == Cardinality(U)
<1>1. IsFiniteSet(NGrams[s]) /\ IsFiniteSet(NGrams[t])
  BY ExposureAssumption
<1>2. IsFiniteSet(I) /\ IsFiniteSet(U)
  BY <1>1, FS_Intersection, FS_Union
<1>3. I \subseteq U /\ (s = t => I = U) /\ (NGrams[s] \cap NGrams[t] = I)
  OBVIOUS
<1>4. U = {} => s = t
  BY ExposureAssumption
<1>5. Similarity(s, t) = IF u = 0 THEN One ELSE <<i, u>>
  BY DEF Similarity, Jaccard, Ratio
<1> HIDE DEF I, U
<1>6. i \in Nat /\ u \in Nat /\ i <= u /\ (i = 0 <=> I = {}) /\ (u = 0 <=> U = {})
  BY <1>2, <1>3, FS_CardinalityType, FS_Subset, FS_EmptySet
<1>7. I = U => i = u
  OBVIOUS
<1> HIDE DEF i, u
<1>8. CASE u = 0
  BY <1>3, <1>4, <1>5, <1>6, <1>8, ZeroIsLeast, LeqTotal
<1>9. CASE u # 0
  <2>1. Similarity(s, t) = <<i, u>> /\ u > 0
    BY <1>5, <1>6, <1>9
  <2>2. /\ <<i, u>> \in Fraction
        /\ Leq(<<i, u>>, One) <=> i <= u
        /\ Same(<<i, u>>, One) <=> i = u
        /\ Lt(Zero, <<i, u>>) <=> 0 < i
        /\ Same(<<i, u>>, Zero) <=> i = 0
    BY <1>6, <2>1 DEF Fraction, Leq, Lt, Same, One, Zero
  <2> QED
    BY <1>3, <1>6, <1>7, <2>1, <2>2
<1> QED
  BY <1>8, <1>9

(***************************************************************************)
(* The invariant.                                                          *)
(***************************************************************************)
(* What the first neighbour of a text says of a list of training texts.    *)
Nearest(f, train, text) ==
  /\ f \in (DOMAIN train \cup {None}) \X Fraction \X BOOLEAN
  /\ \A d \in DOMAIN train : Leq(Similarity(text, train[d]), f[2])
  /\ IF f[1] = None
     THEN f[2] = Zero
     ELSE Same(f[2], Similarity(text, train[f[1]])) /\ Lt(Zero, f[2])
  /\ f[3] <=> \E d \in DOMAIN train : train[d] = text
  /\ f[3] => f[2] = One

(* The retrieved list and the neighbour it starts with.                    *)
NearestTop(top, train, text) ==
  /\ Nearest(FirstOf(top), train, text)
  /\ top = {} <=> FirstOf(top)[1] = None

(* The similarity of a training pair to a segment.                         *)
PairScored(i, d, score) ==
  /\ Leq(score, Similarity(input.test_src[i], input.train_src[d]))
  /\ \E r \in References : Leq(score, Similarity(input.refs[r][i], input.train_tgt[d]))
  /\ \A r \in References :
       Leq(Lesser(Similarity(input.test_src[i], input.train_src[d]),
                  Similarity(input.refs[r][i], input.train_tgt[d])), score)

PairFound(i, p) ==
  /\ p \in (Docs \cup {None}) \X Fraction \X BOOLEAN
  /\ IF p[1] = None THEN p[2] = Zero ELSE PairScored(i, p[1], p[2])

FlagsRight(i, flags) ==
  flags # None =>
    /\ Pairs
    /\ flags \in [Names -> BOOLEAN]
    /\ \A l \in Names : flags[l] <=> \E t \in Thresholds : Label(t) = l /\ PairReaches(i, t)

BatchRight(b) ==
  \A o \in Offsets :
    /\ NearestTop(b.source_tops[o], input.train_src, SourceOfBatch(o))
    /\ \A r \in References :
         NearestTop(b.target_tops[r][o], input.train_tgt, RefOfBatch(r, o))
    /\ IF Pairs THEN PairFound(batch_start + o, b.pairs[o]) ELSE b.pairs[o] = None
    /\ FlagsRight(batch_start + o, b.flags[o])

SourceRight(s) ==
  /\ Nearest(<<s.source_nn_index, s.source_exposure, s.source_exact>>,
             input.train_src, input.test_src[s.index])
  /\ s.source_exact => s.bin = "source_exact"

TargetRight(s) ==
  /\ s.target_exposure \in Fraction
  /\ \A r \in References, d \in Docs :
       Leq(Similarity(input.refs[r][s.index], input.train_tgt[d]), s.target_exposure)
  /\ IF s.target_nn_index = None
     THEN s.target_exposure = Zero
     ELSE /\ s.target_nn_index \in Docs /\ s.target_ref_index \in References
          /\ Same(s.target_exposure,
                  Similarity(input.refs[s.target_ref_index][s.index],
                             input.train_tgt[s.target_nn_index]))
  /\ s.target_exact <=>
       \E r \in References, d \in Docs : input.train_tgt[d] = input.refs[r][s.index]

PairRight(s) ==
  /\ PairFound(s.index, <<s.pair_nn_index, s.pair_exposure, TRUE>>)
  /\ s.pair_nn_index # None =>
       /\ s.pair_ref_index \in References
       /\ ComesNear(Similarity(input.refs[s.pair_ref_index][s.index],
                               input.train_tgt[s.pair_nn_index]), s.pair_exposure)
  /\ s.pair_exact <=>
       \E r \in References : ExactPair(input.test_src[s.index], input.refs[r][s.index])

RowRight(s) ==
  /\ s.index \in DOMAIN input.test_src
  /\ SourceRight(s)
  /\ Pairs => TargetRight(s) /\ PairRight(s)
  /\ FlagsRight(s.index, s.pair_exact_at_threshold)

TypeOK ==
  /\ input \in Inputs
  /\ topk \in TopKs /\ batch_size \in BatchSizes /\ zero_policy \in ZeroPolicies
  /\ exact_thresholds \in BOOLEAN
  /\ phase \in {"retrieve", "emit", "tm", "done"}
  /\ batch_start \in Nat
  /\ exposures \in Seq(Rows)

Segments == Cardinality(DOMAIN input.test_src)

(* The rows are those of the segments before the batch, and in a batch     *)
(* those of the segments emitted so far.                                   *)
Progress ==
  /\ phase = "retrieve" => Len(exposures) = batch_start
  /\ phase = "emit" =>
       /\ batch_start < Segments
       /\ batch_start <= Len(exposures)
       /\ Len(exposures) <= batch_start + Smaller(batch_size, Segments - batch_start)
  /\ phase \in {"tm", "done"} => Len(exposures) = Segments

ExposureInv ==
  /\ TypeOK
  /\ Progress
  /\ phase = "emit" => BatchRight(batch)
  /\ \A i \in DOMAIN exposures : exposures[i].index = i - 1 /\ RowRight(exposures[i])
  /\ tm_results = IF phase # "done" \/ input.train_tgt = None THEN <<>>
                  ELSE [i \in DOMAIN exposures |-> TmResult(exposures[i])]

----------------------------------------------------------------------------
(***************************************************************************)
(* Retrieved lists.                                                        *)
(***************************************************************************)
LEMMA Triples ==
  ASSUME NEW n, NEW x, NEW y, NEW z, n = <<x, y, z>>
  PROVE  n[1] = x /\ n[2] = y /\ n[3] = z /\ n = <<n[1], n[2], n[3]>>
  BY Zenon

LEMMA FirstOfFacts ==
  ASSUME NEW top \in SUBSET AnyNeighbour, IsFiniteSet(top), Distinct(top)
  PROVE  /\ top = {} => FirstOf(top) = NoNeighbour
         /\ top # {} => FirstOf(top) \in top
         /\ \A n \in top : Leq(n[2], FirstOf(top)[2])
<1>1. CASE top = {}
  BY <1>1 DEF FirstOf
<1>2. CASE top # {}
  <2>1. \E n \in top : \A m \in top \ {n} : Ranks(n, m)
    BY <1>2, FirstNeighbour
  <2>2. FirstOf(top) = CHOOSE n \in top : \A m \in top \ {n} : Ranks(n, m)
    BY <1>2 DEF FirstOf
  <2>3. FirstOf(top) \in top /\ \A m \in top \ {FirstOf(top)} : Ranks(FirstOf(top), m)
    BY <2>1, <2>2
  <2> DEFINE f == FirstOf(top)
  <2> HIDE DEF f
  <2>4. f \in top /\ \A m \in top \ {f} : Ranks(f, m)
    BY <2>3 DEF f
  <2>5. ASSUME NEW n \in top PROVE Leq(n[2], f[2])
    <3>1. f \in AnyNeighbour /\ n \in AnyNeighbour
      BY <2>4
    <3>2. f[2] \in Fraction /\ n[2] \in Fraction
      BY <3>1 DEF AnyNeighbour
    <3>3. f = n \/ Ranks(f, n)
      BY <2>4
    <3> QED
      BY <3>1, <3>2, <3>3, RanksOrder, LeqTotal
  <2> QED
    BY <1>2, <2>4, <2>5 DEF f
<1> QED
  BY <1>1, <1>2

(* The documents that share an n-gram with a text, with their scores.      *)
LEMMA RelatedFacts ==
  ASSUME NEW m \in Nat \ {0}, NEW train \in Lists(m), NEW text \in Texts
  PROVE  /\ Related(train, text) \in SUBSET AnyNeighbour
         /\ IsFiniteSet(Related(train, text))
         /\ Distinct(Related(train, text))
         /\ \A n \in Related(train, text) :
              /\ n[1] \in DOMAIN train /\ n[3] = FALSE
              /\ n[2] = Similarity(text, train[n[1]]) /\ Lt(Zero, n[2])
         /\ \A d \in DOMAIN train :
              NGrams[text] \cap NGrams[train[d]] # {} =>
                <<d, Similarity(text, train[d]), FALSE>> \in Related(train, text)
<1> DEFINE D == {e \in DOMAIN train : NGrams[text] \cap NGrams[train[e]] # {}}
           f == [d \in D |-> <<d, Similarity(text, train[d]), FALSE>>]
           R == {<<d, Similarity(text, train[d]), FALSE>> : d \in D}
<1>1. Related(train, text) = R
  BY DEF Related
<1>2. DOMAIN train = 0..(m - 1) /\ \A d \in DOMAIN train : train[d] \in Texts
  BY DEF Lists
<1>3. D \in SUBSET (0..(m - 1)) /\ IsFiniteSet(D)
  <2>1. IsFiniteSet(0..(m - 1))
    BY FS_Interval
  <2> QED
    BY <1>2, <2>1, FS_Subset
<1>4. f \in Surjection(D, R)
  BY DEF Surjection
<1>5. \A d \in D : NGrams[text] \cap NGrams[train[d]] # {}
  OBVIOUS
<1>6. \A d \in DOMAIN train : NGrams[text] \cap NGrams[train[d]] # {} => d \in D
  OBVIOUS
<1>7. \A d \in D : d \in DOMAIN train /\ d \in Nat /\ train[d] \in Texts
  BY <1>2, <1>3
<1> HIDE DEF D
<1>8. \A d \in D : Similarity(text, train[d]) \in Fraction /\ Lt(Zero, Similarity(text, train[d]))
  BY <1>5, <1>7, SimilarityFacts
<1>9. \A n \in R : \E d \in D : n = <<d, Similarity(text, train[d]), FALSE>>
  OBVIOUS
<1>10. \A d \in D : <<d, Similarity(text, train[d]), FALSE>> \in R
  OBVIOUS
<1> HIDE DEF f, R
<1>11. IsFiniteSet(R)
  BY <1>3, <1>4, FS_Surjection
<1>12. \A n \in R : \E d \in D :
         /\ n[1] = d /\ n[2] = Similarity(text, train[d]) /\ n[3] = FALSE
         /\ n = <<n[1], n[2], n[3]>>
  <2> TAKE n \in R
  <2>1. PICK d \in D : n = <<d, Similarity(text, train[d]), FALSE>>
    BY <1>9
  <2> QED
    BY <2>1, Triples, Zenon
<1>13. R \in SUBSET AnyNeighbour /\ Distinct(R)
  <2>1. ASSUME NEW n \in R PROVE n \in AnyNeighbour
    <3>1. n[1] \in Nat /\ n[2] \in Fraction /\ n[3] \in BOOLEAN /\ n = <<n[1], n[2], n[3]>>
      BY <1>7, <1>8, <1>12
    <3> QED
      BY <3>1 DEF AnyNeighbour
  <2>2. \A n, k \in R : n[1] = k[1] => n = k
    BY <1>12
  <2> QED
    BY <2>1, <2>2 DEF Distinct
<1>14. \A n \in R : /\ n[1] \in DOMAIN train /\ n[3] = FALSE
                     /\ n[2] = Similarity(text, train[n[1]]) /\ Lt(Zero, n[2])
  BY <1>7, <1>8, <1>12
<1> QED
  BY <1>1, <1>6, <1>10, <1>11, <1>13, <1>14

(* Exact retrieval brings back what is nearest.                            *)
LEMMA TopIsNearest ==
  ASSUME NEW m \in Nat \ {0}, NEW train \in Lists(m), NEW text \in Texts,
         RetrievalK \in Nat \ {0}
  PROVE  /\ NearestTop(Top(train, text), train, text)
         /\ Indices(Top(train, text)) \subseteq DOMAIN train
<1> DEFINE same == {d \in DOMAIN train : train[d] = text}
           T == Top(train, text)
           f == FirstOf(T)
<1>1. DOMAIN train = 0..(m - 1) /\ \A d \in DOMAIN train : train[d] \in Texts
  BY DEF Lists
<1>2. DOMAIN train \in SUBSET Nat
  BY <1>1
<1>3. \A d \in DOMAIN train :
        /\ Similarity(text, train[d]) \in Fraction
        /\ Leq(Similarity(text, train[d]), One)
        /\ train[d] = text => Same(Similarity(text, train[d]), One)
        /\ NGrams[text] \cap NGrams[train[d]] = {} /\ train[d] # text =>
             Same(Similarity(text, train[d]), Zero)
  BY <1>1, SimilarityFacts
<1>4. CASE same # {}
  <2> DEFINE e == Lowest(same)
             n == <<e, One, TRUE>>
  <2>1. \E d \in same : \A c \in same : d <= c
    BY <1>2, <1>4, LeastNatural
  <2>2. e \in same
    BY <2>1 DEF Lowest
  <2> HIDE DEF e
  <2>3. T = {n}
    BY <1>4 DEF Top, e
  <2> HIDE DEF T
  <2>4. f = n
    <3>1. \A k : k = (CHOOSE j \in {n} : \A i \in {n} \ {j} : Ranks(j, i)) => k = n
      OBVIOUS
    <3> QED
      BY <2>3, <3>1 DEF FirstOf
  <2>5. e \in DOMAIN train /\ train[e] = text /\ e # None
    BY <1>2, <2>2, NoneAssumption
  <2>6. n \in (DOMAIN train \cup {None}) \X Fraction \X BOOLEAN
    BY <2>5, ZeroIsLeast
  <2>7. Same(One, Similarity(text, train[e]))
    BY <1>3, <2>5, ZeroIsLeast, SameScores
  <2>8. Nearest(n, train, text)
    <3>1. n[1] = e /\ n[2] = One /\ n[3] = TRUE
      OBVIOUS
    <3> HIDE DEF n
    <3> QED
      BY <1>3, <2>5, <2>6, <2>7, <3>1, ZeroIsLeast DEF Nearest
  <2>9. NearestTop(T, train, text)
    <3>1. T # {} /\ f[1] # None
      BY <2>3, <2>4, <2>5
    <3>2. Nearest(FirstOf(T), train, text)
      BY <2>4, <2>8
    <3> QED
      BY <3>1, <3>2 DEF NearestTop
  <2>10. Indices(T) \subseteq DOMAIN train
    BY <2>3, <2>5 DEF Indices
  <2> QED
    BY <2>9, <2>10 DEF T
<1>5. CASE same = {}
  <2> DEFINE R == Related(train, text)
             k == RetrievalK
  <2>1. T = CHOOSE U \in Truncation(R, k) : TRUE
    BY <1>5 DEF Top
  <2>2. /\ R \in SUBSET AnyNeighbour /\ IsFiniteSet(R) /\ Distinct(R)
        /\ \A n \in R : /\ n[1] \in DOMAIN train /\ n[3] = FALSE
                         /\ n[2] = Similarity(text, train[n[1]]) /\ Lt(Zero, n[2])
        /\ \A d \in DOMAIN train :
             NGrams[text] \cap NGrams[train[d]] # {} =>
               <<d, Similarity(text, train[d]), FALSE>> \in R
    BY RelatedFacts
  <2>3. k \in Nat \ {0}
    OBVIOUS
  <2> HIDE DEF R, k, T
  <2>4. T \in Truncation(R, k)
    BY <2>1, <2>2, <2>3, TruncationExists
  <2>5. T \in SUBSET R /\ Cardinality(T) = Smaller(k, Cardinality(R))
        /\ \A n \in T, s \in R \ T : Ranks(n, s)
    BY <2>4 DEF Truncation
  <2>6. T \in SUBSET AnyNeighbour /\ IsFiniteSet(T) /\ Distinct(T)
    BY <2>2, <2>5, FS_Subset DEF Distinct
  <2>7. T = {} <=> R = {}
    <3>1. /\ Cardinality(R) \in Nat /\ (Cardinality(R) = 0 <=> R = {})
          /\ Cardinality(T) \in Nat /\ (Cardinality(T) = 0 <=> T = {})
      BY <2>2, <2>6, FS_CardinalityType, FS_EmptySet
    <3> QED
      BY <2>3, <2>5, <3>1 DEF Smaller
  <2>8. /\ T = {} => f = NoNeighbour
        /\ T # {} => f \in T
        /\ \A n \in T : Leq(n[2], f[2])
    BY <2>6, FirstOfFacts
  <2> HIDE DEF f
  <2>9. \A d \in DOMAIN train : train[d] # text
    BY <1>5
  <2>10. Indices(T) \subseteq DOMAIN train
    BY <2>2, <2>5 DEF Indices
  <2>11. CASE T = {}
    <3>1. f[1] = None /\ f[2] = Zero /\ f[3] = FALSE /\ f = <<None, Zero, FALSE>>
      <4>1. f = <<None, Zero, FALSE>>
        BY <2>8, <2>11, Zenon DEF NoNeighbour
      <4> QED
        BY <4>1, Triples, Zenon
    <3>2. \A d \in DOMAIN train : Leq(Similarity(text, train[d]), Zero)
      BY <1>3, <2>2, <2>7, <2>9, <2>11, ZeroIsLeast, LeqTotal
    <3>3. f \in (DOMAIN train \cup {None}) \X Fraction \X BOOLEAN
      BY <3>1, ZeroIsLeast
    <3>4. Nearest(f, train, text)
      BY <2>9, <3>1, <3>2, <3>3 DEF Nearest
    <3> QED
      BY <2>10, <2>11, <3>1, <3>4 DEF NearestTop, f, T
  <2>12. CASE T # {}
    <3>1. f \in T /\ f \in R /\ f \in AnyNeighbour
      BY <2>2, <2>5, <2>8, <2>12
    <3>2. /\ f[1] \in DOMAIN train /\ f[1] # None /\ f[3] = FALSE
          /\ f[2] = Similarity(text, train[f[1]]) /\ Lt(Zero, f[2]) /\ f[2] \in Fraction
      BY <1>2, <1>3, <2>2, <3>1, NoneAssumption
    <3>3. \A n \in R : Leq(n[2], f[2])
      BY <2>2, <2>5, <2>8, <3>1, RanksOrder
    <3>4. ASSUME NEW d \in DOMAIN train PROVE Leq(Similarity(text, train[d]), f[2])
      <4>1. CASE NGrams[text] \cap NGrams[train[d]] # {}
        <5> DEFINE n == <<d, Similarity(text, train[d]), FALSE>>
        <5>1. n \in R /\ n[2] = Similarity(text, train[d])
          BY <2>2, <4>1
        <5> QED
          BY <3>3, <5>1
      <4>2. CASE NGrams[text] \cap NGrams[train[d]] = {}
        <5>1. Same(Similarity(text, train[d]), Zero)
          BY <1>3, <2>9, <4>2
        <5>2. Leq(Zero, f[2])
          BY <3>2, ZeroIsLeast
        <5> QED
          BY <1>3, <3>2, <5>1, <5>2, ZeroIsLeast, SameScores
      <4> QED
        BY <4>1, <4>2
    <3>5. Same(f[2], Similarity(text, train[f[1]]))
      BY <3>2, LeqTotal
    <3>6. f \in (DOMAIN train \cup {None}) \X Fraction \X BOOLEAN
      BY <3>1, <3>2 DEF AnyNeighbour
    <3>7. Nearest(f, train, text)
      BY <2>9, <3>2, <3>4, <3>5, <3>6 DEF Nearest
    <3> QED
      BY <2>10, <2>12, <3>2, <3>7 DEF NearestTop, f, T
  <2> QED
    BY <2>11, <2>12
<1> QED
  BY <1>4, <1>5

(***************************************************************************)
(* What the run gives.                                                     *)
(***************************************************************************)
LEMMA InputFacts ==
  ASSUME TypeOK
  PROVE  /\ Segments \in Nat \ {0} /\ input.test_src \in Lists(Segments)
         /\ DOMAIN input.test_src = 0..(Segments - 1)
         /\ Cardinality(Docs) \in Nat \ {0} /\ input.train_src \in Lists(Cardinality(Docs))
         /\ Docs = 0..(Cardinality(Docs) - 1)
         /\ input.train_tgt # None => input.train_tgt \in Lists(Cardinality(Docs))
         /\ Pairs => /\ References # {} /\ References \in SUBSET Nat
                     /\ IsFiniteSet(References)
                     /\ \A r \in References : input.refs[r] \in Lists(Segments)
         /\ RetrievalK \in Nat \ {0}
<1>1. input \in Inputs
  BY DEF TypeOK
<1>2. /\ Segments \in Nat \ {0} /\ input.test_src \in Lists(Segments)
      /\ Cardinality(Docs) \in Nat \ {0} /\ input.train_src \in Lists(Cardinality(Docs))
      /\ input.train_tgt # None => input.train_tgt \in Lists(Cardinality(Docs))
      /\ input.refs # None =>
           \E r \in {Cardinality(DOMAIN input.refs)} \cap (Nat \ {0}) :
             input.refs \in [0..(r - 1) -> Lists(Segments)]
  BY <1>1, InputAssumption DEF Segments, Docs
<1>3. DOMAIN input.test_src = 0..(Segments - 1) /\ Docs = 0..(Cardinality(Docs) - 1)
  <2>1. \A n : \A f \in Lists(n) : DOMAIN f = 0..(n - 1)
    BY DEF Lists
  <2> QED
    BY <1>2, <2>1 DEF Docs
<1>4. ASSUME Pairs
      PROVE  /\ References # {} /\ References \in SUBSET Nat /\ IsFiniteSet(References)
             /\ \A r \in References : input.refs[r] \in Lists(Segments)
  <2>1. PICK k \in Nat \ {0} : input.refs \in [0..(k - 1) -> Lists(Segments)]
    BY <1>2, <1>4 DEF Pairs
  <2>2. References = 0..(k - 1)
    BY <1>4, <2>1 DEF References
  <2>3. 0 \in 0..(k - 1) /\ 0..(k - 1) \in SUBSET Nat /\ IsFiniteSet(0..(k - 1))
    BY FS_Interval
  <2> QED
    BY <2>1, <2>2, <2>3
<1>5. RetrievalK \in Nat \ {0}
  BY ExposureAssumption DEF TypeOK, RetrievalK, Larger
<1> QED
  BY <1>2, <1>3, <1>4, <1>5

(* The texts of a run.                                                     *)
LEMMA RunTexts ==
  ASSUME TypeOK, NEW i \in DOMAIN input.test_src
  PROVE  /\ input.test_src[i] \in Texts
         /\ \A d \in Docs : input.train_src[d] \in Texts
         /\ Docs # {} /\ Docs \in SUBSET Nat /\ DOMAIN input.train_src = Docs
         /\ Pairs => /\ \A d \in Docs : input.train_tgt[d] \in Texts
                     /\ \A r \in References : input.refs[r][i] \in Texts
                     /\ DOMAIN input.train_tgt = Docs
                     /\ References # {} /\ IsFiniteSet(References)
<1>1. /\ Segments \in Nat /\ input.test_src \in Lists(Segments) /\ i \in 0..(Segments - 1)
      /\ Cardinality(Docs) \in Nat \ {0} /\ input.train_src \in Lists(Cardinality(Docs))
      /\ Docs = 0..(Cardinality(Docs) - 1)
      /\ Pairs => /\ input.train_tgt \in Lists(Cardinality(Docs))
                  /\ References # {} /\ IsFiniteSet(References)
                  /\ \A r \in References : input.refs[r] \in Lists(Segments)
  BY InputFacts DEF Pairs
<1>2. Docs # {} /\ Docs \in SUBSET Nat
  <2>1. 0 \in 0..(Cardinality(Docs) - 1) /\ 0..(Cardinality(Docs) - 1) \in SUBSET Nat
    BY <1>1
  <2> QED
    BY <1>1, <2>1
<1> QED
  BY <1>1, <1>2 DEF Lists

(* A batch lies within the test set.                                       *)
LEMMA OffsetFacts ==
  ASSUME TypeOK, batch_start < Segments, NEW o \in Offsets
  PROVE  /\ o \in Nat /\ batch_start + o \in DOMAIN input.test_src
         /\ SourceOfBatch(o) = input.test_src[batch_start + o]
         /\ SourceOfBatch(o) \in Texts
         /\ \A r \in References : RefOfBatch(r, o) = input.refs[r][batch_start + o]
         /\ Pairs => \A r \in References : RefOfBatch(r, o) \in Texts
<1>1. Segments \in Nat /\ batch_start \in Nat /\ batch_size \in Nat
  BY InputFacts, ExposureAssumption DEF TypeOK
<1>2. o \in 0..(Smaller(batch_size, Segments - batch_start) - 1)
  BY DEF Offsets, Segments
<1>3. o \in Nat /\ batch_start + o \in 0..(Segments - 1)
  BY <1>1, <1>2 DEF Smaller
<1>4. \A f \in Lists(Segments) : f[batch_start + o] \in Texts
  BY <1>3 DEF Lists
<1> QED
  BY <1>3, <1>4, InputFacts DEF SourceOfBatch, RefOfBatch

(***************************************************************************)
(* The best reference.  Equal first neighbours go to the lower reference,  *)
(* so that one reference precedes all others.                              *)
(***************************************************************************)
LEMMA RanksWeakly ==
  ASSUME NEW m \in AnyNeighbour, NEW n \in AnyNeighbour, NEW p \in AnyNeighbour
  PROVE  /\ Ranks(m, n) /\ ~Ranks(p, n) => Ranks(m, p)
         /\ ~Ranks(n, m) /\ Ranks(n, p) => Ranks(m, p)
         /\ ~Ranks(n, m) /\ ~Ranks(p, n) => ~Ranks(p, m)
<1>1. ASSUME NEW i \in AnyNeighbour, NEW j \in AnyNeighbour, NEW k \in AnyNeighbour,
             Ranks(i, j), ~Ranks(k, j)
      PROVE  Ranks(i, k)
  <2>1. CASE Ranks(j, k)
    BY <1>1, <2>1, RanksTransitive
  <2>2. CASE ~Ranks(j, k)
    <3>1. /\ i[1] \in Nat /\ j[1] \in Nat /\ k[1] \in Nat
          /\ i[2] \in Fraction /\ j[2] \in Fraction /\ k[2] \in Fraction
      BY DEF AnyNeighbour
    <3>2. j[1] = k[1]
      BY <1>1, <2>2, RanksOrder
    <3>3. Same(j[2], k[2])
      BY <1>1, <2>2, <3>1, LeqTotal DEF Ranks
    <3> QED
      BY <1>1, <3>1, <3>2, <3>3, SameScores DEF Ranks
  <2> QED
    BY <2>1, <2>2
<1>2. ASSUME ~Ranks(n, m), Ranks(n, p), ~Ranks(m, p) PROVE FALSE
  BY <1>1, <1>2
<1>3. ASSUME ~Ranks(n, m), ~Ranks(p, n), Ranks(p, m) PROVE FALSE
  BY <1>1, <1>3
<1> QED
  BY <1>1, <1>2, <1>3

LEMMA BestReference ==
  ASSUME NEW S \in SUBSET Nat, IsFiniteSet(S), S # {}, NEW g \in [S -> AnyNeighbour]
  PROVE  \E r \in S : \A s \in S \ {r} :
           Ranks(g[r], g[s]) \/ (~Ranks(g[s], g[r]) /\ r < s)
<1> DEFINE P(r, s) == Ranks(g[r], g[s]) \/ (~Ranks(g[s], g[r]) /\ r < s)
           R == {p \in S \X S : P(p[1], p[2])}
<1>1. \A r, s \in S : <<r, s>> \in R <=> P(r, s)
  OBVIOUS
<1>2. \A r \in S : r \in Nat /\ g[r] \in AnyNeighbour
  OBVIOUS
<1>3. \A r \in S : ~P(r, r)
  BY <1>2, RanksOrder
<1>4. ASSUME NEW r \in S, NEW s \in S, NEW t \in S, P(r, s), P(s, t)
      PROVE  P(r, t)
  <2>1. CASE Ranks(g[r], g[s])
    <3>1. ~Ranks(g[t], g[s])
      BY <1>2, <1>4, RanksOrder
    <3> QED
      BY <1>2, <2>1, <3>1, RanksWeakly
  <2>2. CASE ~Ranks(g[r], g[s])
    <3>1. ~Ranks(g[s], g[r]) /\ r < s
      BY <1>4, <2>2
    <3>2. CASE Ranks(g[s], g[t])
      BY <1>2, <3>1, <3>2, RanksWeakly
    <3>3. CASE ~Ranks(g[s], g[t])
      <4>1. ~Ranks(g[t], g[s]) /\ s < t
        BY <1>4, <3>3
      <4>2. ~Ranks(g[t], g[r])
        BY <1>2, <3>1, <4>1, RanksWeakly
      <4>3. r < t
        BY <1>2, <3>1, <4>1
      <4> QED
        BY <4>2, <4>3
    <3> QED
      BY <3>2, <3>3
  <2> QED
    BY <2>1, <2>2
<1>5. \A r, s \in S : r = s \/ P(r, s) \/ P(s, r)
  <2> TAKE r \in S, s \in S
  <2>1. r = s \/ r < s \/ s < r
    BY <1>2
  <2> QED
    BY <1>2, <2>1
<1> HIDE DEF P, R
<1>6. Strict(R, S)
  BY <1>1, <1>3, <1>4 DEF Strict
<1>7. PICK r \in S : \A s \in S : <<s, r>> \notin R
  BY <1>6, MinimalElement
<1>8. \A s \in S \ {r} : P(r, s)
  BY <1>1, <1>5, <1>7
<1> QED
  BY <1>8 DEF P

(* The best neighbour over the references is nearest to the references     *)
(* together.                                                               *)
LEMMA BestTargetRight ==
  ASSUME TypeOK, batch_start < Segments, BatchRight(batch), Offset \in Offsets, Pairs
  PROVE  LET t == BestTarget
             i == batch_start + Offset
         IN /\ t[1] \in (Docs \cup {None}) \X Fraction \X BOOLEAN
            /\ \A r \in References, d \in Docs :
                 Leq(Similarity(input.refs[r][i], input.train_tgt[d]), t[1][2])
            /\ IF t[1][1] = None
               THEN t[1][2] = Zero
               ELSE /\ t[2] \in References
                    /\ Same(t[1][2], Similarity(input.refs[t[2]][i], input.train_tgt[t[1][1]]))
<1> DEFINE o == Offset
           i == batch_start + Offset
           tops == [r \in References |-> batch.target_tops[r][Offset]]
           f(r) == FirstOf(tops[r])
           found == {r \in References : tops[r] # {}}
           Precedes(r, s) == LET m == FirstOf(tops[r]) n == FirstOf(tops[s]) IN
                             Ranks(m, n) \/ (~Ranks(n, m) /\ r < s)
           best == CHOOSE r \in found : \A s \in found \ {r} : Precedes(r, s)
<1>1. /\ References # {} /\ References \in SUBSET Nat /\ IsFiniteSet(References)
      /\ Docs = DOMAIN input.train_tgt /\ Docs \in SUBSET Nat
      /\ \A d \in Docs : input.train_tgt[d] \in Texts
  <2>1. input.train_tgt \in Lists(Cardinality(Docs)) /\ Docs = 0..(Cardinality(Docs) - 1)
        /\ Cardinality(Docs) \in Nat
    BY InputFacts DEF Pairs
  <2> QED
    BY <2>1, InputFacts DEF Lists
<1>2. BestTarget = IF found = {} THEN <<NoNeighbour, None>> ELSE <<f(best), best>>
  BY <1>1 DEF BestTarget
<1>3. \A r \in References : /\ input.refs[r][i] = RefOfBatch(r, o)
                             /\ input.refs[r][i] \in Texts
  BY OffsetFacts
<1>4. \A r \in References : NearestTop(tops[r], input.train_tgt, input.refs[r][i])
  BY <1>3 DEF BatchRight
<1>5. \A r \in found : r \in References /\ tops[r] # {}
  OBVIOUS
<1>6. \A r \in References : tops[r] # {} => r \in found
  OBVIOUS
<1>7. found \in SUBSET Nat /\ IsFiniteSet(found)
  BY <1>1, FS_Subset
<1> HIDE DEF o, i, tops, found
<1>8. \A r \in References :
        /\ f(r) \in (Docs \cup {None}) \X Fraction \X BOOLEAN
        /\ \A d \in Docs : Leq(Similarity(input.refs[r][i], input.train_tgt[d]), f(r)[2])
        /\ IF f(r)[1] = None
           THEN f(r)[2] = Zero
           ELSE Same(f(r)[2], Similarity(input.refs[r][i], input.train_tgt[f(r)[1]]))
        /\ tops[r] = {} <=> f(r)[1] = None
  BY <1>1, <1>4 DEF NearestTop, Nearest
<1> HIDE DEF f
<1>9. CASE found = {}
  <2>1. BestTarget = <<NoNeighbour, None>>
    BY <1>2, <1>9
  <2>2. BestTarget[1] = NoNeighbour
    BY <2>1, Zenon
  <2>3. /\ NoNeighbour \in (Docs \cup {None}) \X Fraction \X BOOLEAN
        /\ NoNeighbour[1] = None /\ NoNeighbour[2] = Zero
    BY ZeroIsLeast DEF NoNeighbour
  <2>4. ASSUME NEW r \in References, NEW d \in Docs
        PROVE  Leq(Similarity(input.refs[r][i], input.train_tgt[d]), Zero)
    <3>1. f(r)[1] = None
      BY <1>6, <1>8, <1>9
    <3>2. f(r)[2] = Zero
      BY <1>8, <3>1
    <3> QED
      BY <1>8, <3>2
  <2> QED
    BY <2>2, <2>3, <2>4 DEF i
<1>10. CASE found # {}
  <2>1. \A r \in found : f(r) \in AnyNeighbour /\ f(r)[1] # None /\ f(r)[1] \in Docs
    <3> TAKE r \in found
    <3>1. f(r) \in (Docs \cup {None}) \X Fraction \X BOOLEAN /\ f(r)[1] # None
      BY <1>5, <1>8
    <3> QED
      BY <1>1, <3>1 DEF AnyNeighbour
  <2> DEFINE g == [r \in found |-> f(r)]
  <2>2. g \in [found -> AnyNeighbour]
    BY <2>1
  <2>3. \E r \in found : \A s \in found \ {r} :
          Ranks(g[r], g[s]) \/ (~Ranks(g[s], g[r]) /\ r < s)
    BY <1>7, <1>10, <2>2, BestReference
  <2>4. \E r \in found : \A s \in found \ {r} : Precedes(r, s)
    BY <2>3 DEF f
  <2>5. best \in found /\ \A s \in found \ {best} : Precedes(best, s)
    BY <2>4
  <2> HIDE DEF best
  <2>6. \A s \in found \ {best} : Ranks(f(best), f(s)) \/ ~Ranks(f(s), f(best))
    BY <2>5 DEF f
  <2> HIDE DEF Precedes, g
  <2>7. ASSUME NEW s \in found PROVE Leq(f(s)[2], f(best)[2])
    <3>1. /\ f(s) \in AnyNeighbour /\ f(best) \in AnyNeighbour
          /\ f(s)[2] \in Fraction /\ f(best)[2] \in Fraction
      BY <2>1, <2>5 DEF AnyNeighbour
    <3>2. CASE s = best
      BY <3>1, <3>2, LeqTotal
    <3>3. CASE s # best
      <4>1. Ranks(f(best), f(s)) \/ ~Ranks(f(s), f(best))
        BY <2>6, <3>3
      <4>2. ~Ranks(f(s), f(best))
        BY <3>1, <4>1, RanksOrder
      <4> QED
        BY <3>1, <4>2, LeqTotal DEF Ranks
    <3> QED
      BY <3>2, <3>3
  <2>8. ASSUME NEW r \in References, NEW d \in Docs
        PROVE  Leq(Similarity(input.refs[r][i], input.train_tgt[d]), f(best)[2])
    <3>1. /\ Similarity(input.refs[r][i], input.train_tgt[d]) \in Fraction
          /\ f(r)[2] \in Fraction /\ f(best)[2] \in Fraction
          /\ Leq(Similarity(input.refs[r][i], input.train_tgt[d]), f(r)[2])
      BY <1>1, <1>3, <1>5, <1>8, <2>5, SimilarityFacts DEF i
    <3>2. Leq(f(r)[2], f(best)[2])
      <4>1. CASE r \in found
        BY <2>7, <4>1
      <4>2. CASE r \notin found
        BY <1>6, <1>8, <3>1, <4>2, ZeroIsLeast
      <4> QED
        BY <4>1, <4>2
    <3> QED
      BY <3>1, <3>2, LeqTransitive
  <2>9. BestTarget = <<f(best), best>>
    BY <1>2, <1>10
  <2>10. BestTarget[1] = f(best) /\ BestTarget[2] = best
    BY <2>9, Zenon
  <2>11. f(best)[1] # None /\ best \in References
    BY <1>5, <2>1, <2>5
  <2> QED
    BY <1>8, <2>8, <2>10, <2>11 DEF i
<1> QED
  BY <1>9, <1>10

(***************************************************************************)
(* Pairs.                                                                  *)
(***************************************************************************)
(* The score of a training pair is the largest over the references of the  *)
(* lesser of its two similarities.                                         *)
LEMMA PairScoreRight ==
  ASSUME TypeOK, batch_start < Segments, NEW o \in Offsets, Pairs, NEW d \in Docs
  PROVE  /\ PairScore(o, d) \in Fraction
         /\ PairScored(batch_start + o, d, PairScore(o, d))
<1> DEFINE i == batch_start + o
           a == Similarity(input.test_src[i], input.train_src[d])
           f == [r \in References |-> Similarity(RefOfBatch(r, o), input.train_tgt[d])]
           F == {f[r] : r \in References}
           x == PairScore(o, d)
<1>1. References # {} /\ IsFiniteSet(References)
  BY InputFacts
<1>2. input.train_src[d] \in Texts /\ input.train_tgt[d] \in Texts
  <2>1. /\ input.train_src \in Lists(Cardinality(Docs))
        /\ input.train_tgt \in Lists(Cardinality(Docs))
        /\ Docs = 0..(Cardinality(Docs) - 1)
    BY InputFacts DEF Pairs
  <2> QED
    BY <2>1 DEF Lists
<1>3. /\ input.test_src[i] \in Texts /\ SourceOfBatch(o) = input.test_src[i]
      /\ \A r \in References : RefOfBatch(r, o) = input.refs[r][i] /\ RefOfBatch(r, o) \in Texts
  BY OffsetFacts
<1>4. a \in Fraction /\ f \in [References -> Fraction]
  BY <1>2, <1>3, SimilarityFacts
<1>5. x = Lesser(a, Greatest(F))
  BY <1>3 DEF PairScore, TargetScore
<1>6. \A r \in References : f[r] = Similarity(input.refs[r][i], input.train_tgt[d])
  BY <1>3
<1> HIDE DEF f, a
<1>7. IsFiniteSet(F) /\ F \in SUBSET Fraction /\ F # {}
  BY <1>1, <1>4, FiniteImages
<1>8. \A y : y \in F <=> \E r \in References : y = f[r]
  OBVIOUS
<1> HIDE DEF F, x
<1>9. Greatest(F) \in F /\ \A y \in F : Leq(y, Greatest(F))
  BY <1>7, GreatestFacts
<1>10. Greatest(F) \in Fraction
  BY <1>7, <1>9
<1>11. x \in Fraction /\ Leq(x, a) /\ Leq(x, Greatest(F))
  BY <1>4, <1>5, <1>10, LesserScore
<1>12. \E r \in References : Leq(x, f[r])
  BY <1>8, <1>9, <1>11
<1>13. ASSUME NEW r \in References PROVE Leq(Lesser(a, f[r]), x)
  <2>1. f[r] \in Fraction /\ Leq(f[r], Greatest(F))
    BY <1>4, <1>8, <1>9
  <2>2. /\ Lesser(a, f[r]) \in Fraction /\ Leq(Lesser(a, f[r]), a)
        /\ Leq(Lesser(a, f[r]), f[r])
    BY <1>4, <2>1, LesserScore
  <2>3. Leq(Lesser(a, f[r]), Greatest(F))
    BY <1>10, <2>1, <2>2, LeqTransitive
  <2> QED
    BY <1>4, <1>5, <1>10, <2>2, <2>3, LesserScore
<1>14. PairScored(i, d, x)
  BY <1>6, <1>11, <1>12, <1>13 DEF PairScored, a
<1> QED
  BY <1>11, <1>14 DEF x, i

(* Reranking names a candidate with its score, or no pair at all.          *)
LEMMA PairNeighbourRight ==
  ASSUME TypeOK, batch_start < Segments, NEW o \in Offsets, Pairs,
         NEW tops, \A top \in tops : Indices(top) \subseteq Docs
  PROVE  PairFound(batch_start + o, PairNeighbour(o, tops))
<1> DEFINE C == UNION {Indices(top) : top \in tops}
           f == [d \in C |-> <<d, PairScore(o, d), Same(PairScore(o, d), One)>>]
           scored == {<<d, PairScore(o, d), Same(PairScore(o, d), One)>> : d \in C}
           S == {n \in scored : Lt(Zero, n[2])}
           p == PairNeighbour(o, tops)
<1>1. p = FirstOf(S)
  BY DEF PairNeighbour
<1>2. Docs \in SUBSET Nat /\ IsFiniteSet(Docs)
  <2>1. Docs = 0..(Cardinality(Docs) - 1) /\ Cardinality(Docs) \in Nat
    BY InputFacts
  <2>2. IsFiniteSet(0..(Cardinality(Docs) - 1)) /\ 0..(Cardinality(Docs) - 1) \in SUBSET Nat
    BY <2>1, FS_Interval
  <2> QED
    BY <2>1, <2>2
<1>3. C \in SUBSET Docs
  OBVIOUS
<1> HIDE DEF C
<1>4. f \in Surjection(C, scored)
  BY DEF Surjection
<1>5. \A n \in scored : \E d \in C : n = <<d, PairScore(o, d), Same(PairScore(o, d), One)>>
  OBVIOUS
<1>6. S \in SUBSET scored
  OBVIOUS
<1> HIDE DEF f, scored, S
<1>7. IsFiniteSet(S)
  BY <1>2, <1>3, <1>4, <1>6, FS_Subset, FS_Surjection
<1>8. \A n \in scored : \E d \in C :
        /\ n[1] = d /\ n[2] = PairScore(o, d) /\ n[3] = Same(PairScore(o, d), One)
        /\ n = <<n[1], n[2], n[3]>>
  <2> TAKE n \in scored
  <2>1. PICK d \in C : n = <<d, PairScore(o, d), Same(PairScore(o, d), One)>>
    BY <1>5
  <2> QED
    BY <2>1, Triples, Zenon
<1>9. \A n \in S : n \in AnyNeighbour /\ n[1] \in Docs /\ n[2] = PairScore(o, n[1])
  <2> TAKE n \in S
  <2>1. PICK d \in Docs :
          /\ n[1] = d /\ n[2] = PairScore(o, d) /\ n[3] = Same(PairScore(o, d), One)
          /\ n = <<n[1], n[2], n[3]>>
    BY <1>3, <1>6, <1>8
  <2>2. n[1] \in Nat /\ n[2] \in Fraction
    BY <1>2, <2>1, PairScoreRight
  <2>3. n[3] \in BOOLEAN
    BY <2>1 DEF Same
  <2> QED
    BY <2>1, <2>2, <2>3 DEF AnyNeighbour
<1>10. Distinct(S)
  BY <1>6, <1>8 DEF Distinct
<1>11. S \in SUBSET AnyNeighbour
  BY <1>9
<1>12. (S = {} => p = NoNeighbour) /\ (S # {} => p \in S)
  BY <1>1, <1>7, <1>10, <1>11, FirstOfFacts
<1> HIDE DEF p
<1>13. CASE S = {}
  <2>1. p = <<None, Zero, FALSE>>
    BY <1>12, <1>13 DEF NoNeighbour
  <2>2. p[1] = None /\ p[2] = Zero
    BY <2>1, Zenon
  <2>3. p \in (Docs \cup {None}) \X Fraction \X BOOLEAN
    BY <2>1, ZeroIsLeast
  <2> QED
    BY <2>2, <2>3 DEF PairFound, p
<1>14. CASE S # {}
  <2>1. p \in AnyNeighbour /\ p[1] \in Docs /\ p[2] = PairScore(o, p[1]) /\ p[1] # None
    BY <1>2, <1>9, <1>12, <1>14, NoneAssumption
  <2>2. PairScored(batch_start + o, p[1], p[2])
    BY <2>1, PairScoreRight
  <2>3. p \in (Docs \cup {None}) \X Fraction \X BOOLEAN
    BY <2>1 DEF AnyNeighbour
  <2> QED
    BY <2>1, <2>2, <2>3 DEF PairFound, p
<1> QED
  BY <1>13, <1>14

(* Trying only sources that reach the least threshold loses no pair.       *)
LEMMA RaisedFacts ==
  ASSUME TypeOK, batch_start < Segments, NEW o \in Offsets, Pairs, NEW r \in References
  PROVE  /\ RaisedBy(o, r) \in SUBSET Names
         /\ \A l : l \in RaisedBy(o, r) <=>
              \E t \in Thresholds, d \in Docs :
                /\ Label(t) = l
                /\ Leq(t, Similarity(input.test_src[batch_start + o], input.train_src[d]))
                /\ Leq(t, Similarity(input.refs[r][batch_start + o], input.train_tgt[d]))
<1> DEFINE i == batch_start + o
           a(d) == Similarity(input.test_src[i], input.train_src[d])
           b(d) == Similarity(input.refs[r][i], input.train_tgt[d])
           least == CHOOSE t \in Thresholds : \A u \in Thresholds : Leq(t, u)
<1>1. /\ SourceOfBatch(o) = input.test_src[i] /\ SourceOfBatch(o) \in Texts
      /\ RefOfBatch(r, o) = input.refs[r][i] /\ RefOfBatch(r, o) \in Texts
  BY OffsetFacts
<1>2. \A d \in Docs : input.train_src[d] \in Texts /\ input.train_tgt[d] \in Texts
  <2>1. /\ input.train_src \in Lists(Cardinality(Docs))
        /\ input.train_tgt \in Lists(Cardinality(Docs))
        /\ Docs = 0..(Cardinality(Docs) - 1)
    BY InputFacts DEF Pairs
  <2> QED
    BY <2>1 DEF Lists
<1>3. \A d \in Docs : a(d) \in Fraction /\ b(d) \in Fraction
  BY <1>1, <1>2, SimilarityFacts
<1>4. /\ Thresholds \in SUBSET Fraction
      /\ least \in Thresholds /\ \A t \in Thresholds : Leq(least, t)
  BY ExposureAssumption, LeastScore
<1> DEFINE raised == RaisedBy(o, r)
<1>5. /\ raised = {Label(t) : t \in {u \in Thresholds : \E d \in SourceCandidates(o) :
                                       Leq(u, Lesser(a(d), b(d)))}}
      /\ \A d : d \in SourceCandidates(o) <=> d \in Docs /\ Leq(least, a(d))
  BY <1>1 DEF RaisedBy, SourceCandidates, Docs
<1> HIDE DEF i, a, b, least, raised
<1>6. ASSUME NEW t \in Thresholds
      PROVE  (\E d \in SourceCandidates(o) : Leq(t, Lesser(a(d), b(d)))) <=>
               \E d \in Docs : Leq(t, a(d)) /\ Leq(t, b(d))
  <2>1. \A d \in Docs : Leq(t, Lesser(a(d), b(d))) <=> Leq(t, a(d)) /\ Leq(t, b(d))
    BY <1>3, <1>4, LesserScore
  <2>2. \A d \in Docs : Leq(t, a(d)) => d \in SourceCandidates(o)
    BY <1>3, <1>4, <1>5, LeqTransitive
  <2> QED
    BY <1>5, <2>1, <2>2
<1>7. raised \in SUBSET Names
  BY <1>5 DEF Names
<1>8. \A l : l \in raised <=>
        \E t \in Thresholds, d \in Docs : Label(t) = l /\ Leq(t, a(d)) /\ Leq(t, b(d))
  BY <1>5, <1>6
<1> QED
  BY <1>7, <1>8 DEF raised, a, b, i

(* Nor does it lose a flag to stop reading references once all are raised: *)
(* those before the first one left out have raised them.  So the scan sets *)
(* the flag of a name just when some pair reaches a threshold of that name.*)
LEMMA FlagsFound ==
  ASSUME TypeOK, batch_start < Segments, NEW o \in Offsets, Pairs
  PROVE  FlagsRight(batch_start + o, Flags(o))
<1> DEFINE i == batch_start + o
           R(r) == RaisedBy(o, r)
           Full == {r \in References : RaisedBefore(o, r) = Names}
<1>1. References \in SUBSET Nat
  BY InputFacts
<1>2. \A r \in References : R(r) \in SUBSET Names
  BY RaisedFacts
<1>3. ASSUME NEW l \in Names, NEW r \in References, l \in R(r)
      PROVE  \E q \in ReferencesRead(o) : l \in R(q)
  <2>1. CASE r \notin Full
    BY <1>3, <2>1 DEF ReferencesRead
  <2>2. CASE r \in Full
    <3>1. Full \in SUBSET Nat /\ Full # {}
      BY <1>1, <2>2
    <3>2. PICK m \in Full : \A n \in Full : m <= n
      BY <3>1, LeastNatural
    <3>3. PICK q \in References : q < m /\ l \in R(q)
      BY <3>2 DEF RaisedBefore
    <3>4. q \notin Full
      BY <1>1, <3>2, <3>3
    <3> QED
      BY <3>3, <3>4 DEF ReferencesRead
  <2> QED
    BY <2>1, <2>2
<1>4. ReferencesRead(o) \in SUBSET References
  BY DEF ReferencesRead
<1> DEFINE flags == Flags(o)
<1>5. /\ flags \in [Names -> BOOLEAN]
      /\ \A l \in Names : flags[l] <=> \E r \in ReferencesRead(o) : l \in R(r)
  BY DEF Flags
<1>6. \A r \in References : \A l : l \in R(r) <=>
        \E t \in Thresholds, d \in Docs :
          /\ Label(t) = l
          /\ Leq(t, Similarity(input.test_src[i], input.train_src[d]))
          /\ Leq(t, Similarity(input.refs[r][i], input.train_tgt[d]))
  BY RaisedFacts
<1> HIDE DEF flags, R, i
<1>7. \A l \in Names : flags[l] <=> \E r \in References : l \in R(r)
  BY <1>3, <1>4, <1>5
<1>8. \A l \in Names : flags[l] <=> \E t \in Thresholds : Label(t) = l /\ PairReaches(i, t)
  BY <1>6, <1>7 DEF PairReaches
<1> QED
  BY <1>5, <1>8 DEF FlagsRight, flags, i

(* Everything retrieved for a batch is right.                              *)
LEMMA RetrievedRight ==
  ASSUME TypeOK, batch_start < Segments
  PROVE  BatchRight(Retrieved)
<1> SUFFICES ASSUME NEW o \in Offsets
             PROVE  /\ NearestTop(Retrieved.source_tops[o], input.train_src, SourceOfBatch(o))
                    /\ \A r \in References :
                         NearestTop(Retrieved.target_tops[r][o], input.train_tgt, RefOfBatch(r, o))
                    /\ IF Pairs THEN PairFound(batch_start + o, Retrieved.pairs[o])
                       ELSE Retrieved.pairs[o] = None
                    /\ FlagsRight(batch_start + o, Retrieved.flags[o])
  BY DEF BatchRight
<1> DEFINE tops == {SourceTop(o)} \cup {TargetTop(r, o) : r \in References}
<1>1. /\ Retrieved.source_tops[o] = SourceTop(o)
      /\ \A r \in References : Retrieved.target_tops[r][o] = TargetTop(r, o)
      /\ Retrieved.pairs[o] = IF Pairs THEN PairNeighbour(o, tops) ELSE None
      /\ Retrieved.flags[o] = IF exact_thresholds /\ Pairs THEN Flags(o) ELSE None
  BY DEF Retrieved
<1>2. /\ SourceOfBatch(o) \in Texts
      /\ Pairs => \A r \in References : RefOfBatch(r, o) \in Texts
      /\ ~Pairs => References = {}
  BY OffsetFacts DEF References
<1>3. /\ NearestTop(SourceTop(o), input.train_src, SourceOfBatch(o))
      /\ Indices(SourceTop(o)) \subseteq Docs
  BY <1>2, InputFacts, TopIsNearest DEF SourceTop, Docs
<1>4. ASSUME NEW r \in References
      PROVE  /\ NearestTop(TargetTop(r, o), input.train_tgt, RefOfBatch(r, o))
             /\ Indices(TargetTop(r, o)) \subseteq Docs
  <2>1. /\ Pairs /\ RefOfBatch(r, o) \in Texts
        /\ input.train_tgt \in Lists(Cardinality(Docs)) /\ Cardinality(Docs) \in Nat \ {0}
        /\ RetrievalK \in Nat \ {0}
    BY <1>2, InputFacts DEF Pairs
  <2>2. DOMAIN input.train_tgt = Docs
    BY <2>1, InputFacts DEF Lists
  <2> QED
    BY <2>1, <2>2, TopIsNearest DEF TargetTop
<1>5. \A top \in tops : Indices(top) \subseteq Docs
  BY <1>3, <1>4
<1> HIDE DEF tops
<1>6. Pairs => PairFound(batch_start + o, Retrieved.pairs[o])
  BY <1>1, <1>5, PairNeighbourRight
<1>7. FlagsRight(batch_start + o, Retrieved.flags[o])
  <2>1. CASE exact_thresholds /\ Pairs
    BY <1>1, <2>1, FlagsFound
  <2>2. CASE ~(exact_thresholds /\ Pairs)
    BY <1>1, <2>2 DEF FlagsRight
  <2> QED
    BY <2>1, <2>2
<1> QED
  BY <1>1, <1>3, <1>4, <1>6, <1>7

(***************************************************************************)
(* Rows.                                                                   *)
(***************************************************************************)
(* The row of a segment keeps what was retrieved for it, and names a       *)
(* reference that comes near the score of its pair.                        *)
LEMMA RowIsRight ==
  ASSUME TypeOK, batch_start < Segments, BatchRight(batch), Offset \in Offsets
  PROVE  Row.index = batch_start + Offset /\ RowRight(Row)
<1> DEFINE o == Offset
           i == batch_start + Offset
           source == FirstOf(batch.source_tops[o])
           target == BestTarget
           pair == batch.pairs[o]
           s == Row
<1>1. /\ s.index = i
      /\ s.source_exposure = source[2]
      /\ s.source_nn_index = source[1]
      /\ s.source_exact = source[3]
      /\ s.target_exposure = IF target[1] = None THEN None ELSE target[1][2]
      /\ s.target_nn_index = IF target[1] = None THEN None ELSE target[1][1]
      /\ s.target_ref_index = target[2]
  BY Zenon DEF Row
<1>2. /\ s.target_exact = IF HasTargetIndex
                          THEN \E r \in References : FirstOf(batch.target_tops[r][o])[3]
                          ELSE None
      /\ s.pair_exposure = IF pair = None THEN None ELSE pair[2]
      /\ s.pair_nn_index = IF pair = None THEN None ELSE pair[1]
      /\ s.pair_ref_index = IF pair = None THEN None
                            ELSE IF pair[1] = None THEN None ELSE PairReference(o, pair)
  BY Zenon DEF Row
<1>3. /\ s.pair_exact = IF Pairs
                        THEN \E r \in References : ExactPair(SourceOfBatch(o), RefOfBatch(r, o))
                        ELSE None
      /\ s.pair_exact_at_threshold = batch.flags[o]
      /\ s.bin = Bin(source)
  BY Zenon DEF Row
<1> HIDE DEF s
<1>4. /\ i \in DOMAIN input.test_src /\ SourceOfBatch(o) = input.test_src[i]
      /\ \A r \in References : RefOfBatch(r, o) = input.refs[r][i]
  BY OffsetFacts
<1>5. /\ Nearest(source, input.train_src, input.test_src[i])
      /\ \A r \in References :
           NearestTop(batch.target_tops[r][o], input.train_tgt, input.refs[r][i])
      /\ Pairs => PairFound(i, pair)
      /\ FlagsRight(i, batch.flags[o])
  BY <1>4 DEF BatchRight, NearestTop
<1>6. SourceRight(s)
  <2>1. source \in (DOMAIN input.train_src \cup {None}) \X Fraction \X BOOLEAN
    BY <1>5 DEF Nearest
  <2> HIDE DEF source
  <2>2. source = <<source[1], source[2], source[3]>>
    BY <2>1
  <2>3. Nearest(<<s.source_nn_index, s.source_exposure, s.source_exact>>,
                input.train_src, input.test_src[i])
    BY <1>1, <1>5, <2>2
  <2>4. s.source_exact => s.bin = "source_exact"
    BY <1>1, <1>3 DEF Bin
  <2> QED
    BY <1>1, <2>3, <2>4 DEF SourceRight
<1>7. ASSUME Pairs PROVE TargetRight(s)
  <2>1. /\ target[1] \in (Docs \cup {None}) \X Fraction \X BOOLEAN
        /\ \A r \in References, d \in Docs :
             Leq(Similarity(input.refs[r][i], input.train_tgt[d]), target[1][2])
        /\ IF target[1][1] = None
           THEN target[1][2] = Zero
           ELSE /\ target[2] \in References
                /\ Same(target[1][2],
                        Similarity(input.refs[target[2]][i], input.train_tgt[target[1][1]]))
    BY <1>7, BestTargetRight
  <2> HIDE DEF target
  <2>2. Docs \in SUBSET Nat /\ DOMAIN input.train_tgt = Docs
    <3>1. /\ Docs = 0..(Cardinality(Docs) - 1) /\ Cardinality(Docs) \in Nat
          /\ input.train_tgt \in Lists(Cardinality(Docs))
      BY <1>7, InputFacts DEF Pairs
    <3> QED
      BY <3>1 DEF Lists
  <2>3. target[1] # None
    <3>1. target[1] \in (Nat \cup {None}) \X Fraction \X BOOLEAN
      BY <2>1, <2>2
    <3> QED
      BY <3>1, NoneAssumption
  <2>4. /\ s.target_exposure = target[1][2] /\ s.target_nn_index = target[1][1]
        /\ s.target_ref_index = target[2]
        /\ target[1][1] \in Docs \cup {None} /\ target[1][2] \in Fraction
    BY <1>1, <2>1, <2>3
  <2>5. s.target_exact <=>
          \E r \in References, d \in Docs : input.train_tgt[d] = input.refs[r][i]
    <3>1. s.target_exact = \E r \in References : FirstOf(batch.target_tops[r][o])[3]
      BY <1>2, <1>7 DEF HasTargetIndex
    <3>2. \A r \in References : FirstOf(batch.target_tops[r][o])[3] <=>
            \E d \in Docs : input.train_tgt[d] = input.refs[r][i]
      BY <1>5, <2>2 DEF NearestTop, Nearest
    <3> QED
      BY <3>1, <3>2
  <2>6. s.index = i
    BY <1>1
  <2> HIDE DEF i
  <2> QED
    BY <2>1, <2>4, <2>5, <2>6 DEF TargetRight
<1>8. ASSUME Pairs PROVE PairRight(s)
  <2>1. PairFound(i, pair)
    BY <1>5, <1>8
  <2>2. pair \in (Docs \cup {None}) \X Fraction \X BOOLEAN
    BY <2>1 DEF PairFound
  <2>3. Docs \in SUBSET Nat
    <3>1. Docs = 0..(Cardinality(Docs) - 1) /\ Cardinality(Docs) \in Nat
      BY InputFacts
    <3> QED
      BY <3>1
  <2>4. pair # None
    <3>1. pair \in (Nat \cup {None}) \X Fraction \X BOOLEAN
      BY <2>2, <2>3
    <3> QED
      BY <3>1, NoneAssumption
  <2>5. s.pair_exposure = pair[2] /\ s.pair_nn_index = pair[1]
    BY <1>2, <2>4
  <2>6. pair[1] \in Docs \cup {None} /\ pair[2] \in Fraction
    BY <2>2
  <2>7. s.pair_exact <=>
          \E r \in References : ExactPair(input.test_src[i], input.refs[r][i])
    BY <1>3, <1>4, <1>8
  <2>8. ASSUME pair[1] # None
        PROVE  /\ s.pair_ref_index \in References
               /\ ComesNear(Similarity(input.refs[s.pair_ref_index][i],
                                       input.train_tgt[pair[1]]), pair[2])
    <3> DEFINE b(r) == Similarity(input.refs[r][i], input.train_tgt[pair[1]])
               Q == {r \in References : ComesNear(b(r), pair[2])}
    <3>1. \A r \in References : TargetSimilarity(o, r, pair[1]) = b(r)
      BY <1>4 DEF TargetSimilarity
    <3>2. PairScored(i, pair[1], pair[2])
      BY <2>1, <2>8 DEF PairFound
    <3>3. \A r \in References : b(r) \in Fraction
      <4>1. /\ \A r \in References : input.refs[r][i] \in Texts
            /\ input.train_tgt[pair[1]] \in Texts
        BY <1>4, <1>8, <2>6, <2>8, RunTexts
      <4> QED
        BY <4>1, SimilarityFacts
    <3>4. Q # {} /\ Q \in SUBSET Nat
      <4>1. PICK r \in References : Leq(pair[2], b(r))
        BY <3>2 DEF PairScored
      <4>2. r \in Q
        BY <2>6, <3>3, <4>1, ReachingComesNear
      <4> QED
        BY <1>8, <4>2, InputFacts
    <3>5. PairReference(o, pair) = Lowest(Q)
      <4>1. {r \in References : ComesNear(TargetSimilarity(o, r, pair[1]), pair[2])} = Q
        BY <3>1
      <4> HIDE DEF Q
      <4> QED
        BY <3>4, <4>1, Zenon DEF PairReference
    <3>6. s.pair_ref_index = Lowest(Q)
      BY <1>2, <2>4, <2>8, <3>5
    <3>7. \A r \in Q : r \in References /\ ComesNear(b(r), pair[2])
      OBVIOUS
    <3> HIDE DEF Q
    <3>8. \E r \in Q : \A t \in Q : r <= t
      BY <3>4, LeastNatural
    <3>9. Lowest(Q) \in Q
      BY <3>8 DEF Lowest
    <3> QED
      BY <3>6, <3>7, <3>9
  <2>9. PairFound(i, <<s.pair_nn_index, s.pair_exposure, TRUE>>)
    <3> DEFINE p == <<s.pair_nn_index, s.pair_exposure, TRUE>>
    <3>1. p[1] = pair[1] /\ p[2] = pair[2]
      BY <2>5
    <3>2. p \in (Docs \cup {None}) \X Fraction \X BOOLEAN
      BY <2>5, <2>6
    <3> HIDE DEF p, pair
    <3> QED
      BY <2>1, <3>1, <3>2 DEF PairFound, p
  <2>10. s.index = i
    BY <1>1
  <2> HIDE DEF i, pair
  <2> QED
    BY <2>5, <2>7, <2>8, <2>9, <2>10 DEF PairRight
<1>9. RowRight(s)
  BY <1>1, <1>3, <1>4, <1>5, <1>6, <1>7, <1>8 DEF RowRight
<1> QED
  BY <1>1, <1>9 DEF s

(***************************************************************************)
(* The invariant is one.                                                   *)
(***************************************************************************)
(* What is right of a row or a batch speaks of the run alone.              *)
LEMMA RightIsStable ==
  ASSUME UNCHANGED <<input, topk, batch_size>>
  PROVE  /\ \A s : RowRight(s)' <=> RowRight(s)
         /\ Segments' = Segments
         /\ UNCHANGED batch_start => \A b : BatchRight(b)' <=> BatchRight(b)
<1>1. Segments' = Segments /\ Docs' = Docs /\ References' = References /\ Pairs' = Pairs
  BY DEF Segments, Docs, References, Pairs
<1>2. \A i, p : PairFound(i, p)' <=> PairFound(i, p)
  BY <1>1 DEF PairFound, PairScored
<1>3. \A i, f : FlagsRight(i, f)' <=> FlagsRight(i, f)
  BY <1>1 DEF FlagsRight, PairReaches
<1>4. \A s : RowRight(s)' <=> RowRight(s)
  <2>1. \A s : SourceRight(s)' <=> SourceRight(s)
    BY <1>1 DEF SourceRight
  <2>2. \A s : TargetRight(s)' <=> TargetRight(s)
    BY <1>1 DEF TargetRight
  <2>3. \A s : PairRight(s)' <=> PairRight(s)
    BY <1>1, <1>2 DEF PairRight, ExactPair
  <2> QED
    BY <1>1, <1>3, <2>1, <2>2, <2>3 DEF RowRight
<1>5. ASSUME UNCHANGED batch_start PROVE \A b : BatchRight(b)' <=> BatchRight(b)
  BY <1>1, <1>2, <1>3, <1>5 DEF BatchRight, Offsets, SourceOfBatch, RefOfBatch
<1> QED
  BY <1>1, <1>4, <1>5

(* A sequence is one over its own elements.                                *)
LEMMA OwnElements ==
  ASSUME NEW S, NEW e \in Seq(S)
  PROVE  e \in Seq({e[i] : i \in DOMAIN e})
<1>1. DOMAIN e = 1..Len(e) /\ Len(e) \in Nat /\ e \in [1..Len(e) -> {e[i] : i \in DOMAIN e}]
  OBVIOUS
<1> DEFINE R == {e[i] : i \in DOMAIN e}
<1> HIDE DEF R
<1>2. e \in Seq(R)
  BY <1>1 DEF R
<1> QED
  BY <1>2 DEF R

LEMMA InitInv ==
  ASSUME Init
  PROVE  ExposureInv
<1>1. exposures = <<>> /\ Len(exposures) = 0 /\ DOMAIN exposures = {}
  BY DEF Init
<1>2. exposures \in Seq(Rows)
  BY <1>1
<1>3. TypeOK
  BY <1>2 DEF Init, TypeOK
<1>4. Progress
  BY <1>1 DEF Init, Progress
<1> QED
  BY <1>1, <1>3, <1>4 DEF Init, ExposureInv

LEMMA RetrieveBatchKeeps ==
  ASSUME ExposureInv, RetrieveBatch
  PROVE  ExposureInv'
<1>1. /\ UNCHANGED <<input, topk, batch_size, zero_policy, exact_thresholds, batch_start,
                     exposures, tm_results>>
      /\ phase = "retrieve" /\ phase' = "emit" /\ batch' = Retrieved
      /\ batch_start \in DOMAIN input.test_src
  BY DEF RetrieveBatch
<1>2. TypeOK /\ Progress /\ Segments \in Nat /\ batch_start \in Nat /\ batch_size \in Nat \ {0}
  BY InputFacts, ExposureAssumption DEF ExposureInv, TypeOK
<1>3. batch_start < Segments
  BY <1>1, <1>2, InputFacts
<1>4. BatchRight(Retrieved)
  BY <1>2, <1>3, RetrievedRight
<1>5. (\A s : RowRight(s)' <=> RowRight(s)) /\ Segments' = Segments
  BY <1>1, RightIsStable
<1>6. BatchRight(batch)'
  <2>1. References' = References /\ Pairs' = Pairs /\ Docs' = Docs /\ Offsets' = Offsets
    BY <1>1 DEF References, Pairs, Docs, Offsets
  <2>2. \A i, p : PairFound(i, p)' <=> PairFound(i, p)
    BY <1>1, <2>1 DEF PairFound, PairScored
  <2>3. \A i, f : FlagsRight(i, f)' <=> FlagsRight(i, f)
    BY <1>1, <2>1 DEF FlagsRight, PairReaches
  <2> QED
    BY <1>1, <1>4, <2>1, <2>2, <2>3 DEF BatchRight, SourceOfBatch, RefOfBatch
<1>7. TypeOK'
  BY <1>1, <1>2 DEF TypeOK, Rows
<1>8. Progress'
  <2>1. Len(exposures) = batch_start
    BY <1>1, <1>2 DEF Progress
  <2> QED
    BY <1>1, <1>2, <1>3, <1>5, <2>1 DEF Progress, Smaller
<1>9. tm_results' = <<>>
  BY <1>1 DEF ExposureInv
<1> QED
  BY <1>1, <1>5, <1>6, <1>7, <1>8, <1>9 DEF ExposureInv

LEMMA EmitSegmentKeeps ==
  ASSUME ExposureInv, EmitSegment
  PROVE  ExposureInv'
<1>1. /\ UNCHANGED <<input, topk, batch_size, zero_policy, exact_thresholds, phase, batch_start,
                     batch, tm_results>>
      /\ phase = "emit" /\ Offset \in Offsets /\ exposures' = Append(exposures, Row)
  BY DEF EmitSegment
<1>2. /\ TypeOK /\ Progress /\ BatchRight(batch) /\ exposures \in Seq(Rows)
      /\ Segments \in Nat /\ batch_start \in Nat /\ batch_size \in Nat \ {0}
  BY <1>1, InputFacts, ExposureAssumption DEF ExposureInv, TypeOK
<1>3. batch_start < Segments
  BY <1>1, <1>2 DEF Progress
<1>4. Row.index = batch_start + Offset /\ RowRight(Row)
  BY <1>1, <1>2, <1>3, RowIsRight
<1>5. /\ \A s : RowRight(s)' <=> RowRight(s)
      /\ \A b : BatchRight(b)' <=> BatchRight(b)
      /\ Segments' = Segments
  BY <1>1, RightIsStable
<1> DEFINE n == Len(exposures)
           S == Rows \cup {Row}
<1>6. /\ n \in Nat /\ DOMAIN exposures = 1..n
      /\ DOMAIN exposures' = 1..(n + 1) /\ Len(exposures') = n + 1
      /\ \A i \in 1..n : exposures'[i] = exposures[i]
      /\ exposures'[n + 1] = Row
      /\ exposures' \in Seq(S)
  <2> HIDE DEF S
  <2>1. Rows \in SUBSET S /\ Row \in S
    BY DEF S
  <2>2. exposures \in Seq(S)
    BY <1>2, <2>1
  <2> HIDE DEF Row
  <2> QED
    BY <1>1, <2>1, <2>2
<1> HIDE DEF S
<1>7. exposures' \in Seq(Rows')
  BY <1>6, OwnElements DEF Rows
<1>8. TypeOK'
  BY <1>1, <1>2, <1>7 DEF TypeOK
<1>9. Progress'
  <2>1. n - batch_start \in 0..(Smaller(batch_size, Segments - batch_start) - 1)
    BY <1>1 DEF Offset, Offsets, Segments
  <2>2. Smaller(batch_size, Segments - batch_start) \in Int
    BY <1>2 DEF Smaller
  <2> DEFINE k == Smaller(batch_size, Segments - batch_start)
  <2>3. Smaller(batch_size, Segments - batch_start)' = k
    BY <1>1, <1>5
  <2> HIDE DEF k
  <2>4. batch_start <= n + 1 /\ n + 1 <= batch_start + k
    BY <1>2, <1>6, <2>1, <2>2 DEF k
  <2> QED
    BY <1>1, <1>3, <1>5, <1>6, <2>3, <2>4 DEF Progress
<1>10. ASSUME NEW i \in DOMAIN exposures'
       PROVE  exposures'[i].index = i - 1 /\ RowRight(exposures'[i])
  <2>1. CASE i \in 1..n
    <3>1. exposures'[i] = exposures[i] /\ i \in DOMAIN exposures
      BY <1>6, <2>1
    <3> QED
      BY <3>1 DEF ExposureInv
  <2>2. CASE i = n + 1
    <3>1. batch_start + Offset = i - 1
      BY <1>2, <1>6, <2>2 DEF Offset
    <3> QED
      BY <1>4, <1>6, <2>2, <3>1
  <2> QED
    BY <1>6, <2>1, <2>2
<1>11. \A i \in DOMAIN exposures' : exposures'[i].index = i - 1 /\ RowRight(exposures[i])'
  <2> TAKE i \in DOMAIN exposures'
  <2> DEFINE s == exposures'[i]
  <2>1. s.index = i - 1 /\ RowRight(s)
    BY <1>10
  <2> QED
    BY <1>5, <2>1
<1>12. tm_results' = <<>>
  BY <1>1 DEF ExposureInv
<1>13. BatchRight(batch)'
  BY <1>1, <1>2, <1>5
<1> QED
  BY <1>1, <1>8, <1>9, <1>11, <1>12, <1>13 DEF ExposureInv

LEMMA NextBatchKeeps ==
  ASSUME ExposureInv, NextBatch
  PROVE  ExposureInv'
<1>1. /\ UNCHANGED <<input, topk, batch_size, zero_policy, exact_thresholds, exposures,
                     tm_results>>
      /\ phase = "emit" /\ Offset \notin Offsets /\ batch_start' = batch_start + batch_size
      /\ phase' = IF batch_start + batch_size \in DOMAIN input.test_src
                  THEN "retrieve" ELSE "tm"
  BY DEF NextBatch
<1>2. /\ TypeOK /\ Progress /\ exposures \in Seq(Rows)
      /\ Segments \in Nat /\ batch_start \in Nat /\ batch_size \in Nat \ {0}
      /\ DOMAIN input.test_src = 0..(Segments - 1)
  BY InputFacts, ExposureAssumption DEF ExposureInv, TypeOK
<1>3. (\A s : RowRight(s)' <=> RowRight(s)) /\ Segments' = Segments
  BY <1>1, RightIsStable
<1>4. TypeOK'
  BY <1>1, <1>2 DEF TypeOK, Rows
<1>5. Progress'
  <2> DEFINE k == Smaller(batch_size, Segments - batch_start)
             n == Len(exposures)
  <2>1. /\ batch_start < Segments /\ batch_start <= n /\ n <= batch_start + k
        /\ n \in Nat /\ n - batch_start \notin 0..(k - 1)
    BY <1>1, <1>2 DEF Progress, Offset, Offsets, Segments
  <2>2. k \in Int /\ k = IF batch_size <= Segments - batch_start THEN batch_size
                         ELSE Segments - batch_start
    BY <1>2 DEF Smaller
  <2> HIDE DEF k, n
  <2>3. n = batch_start + k
    BY <1>2, <2>1, <2>2
  <2>4. n' = n
    BY <1>1 DEF n
  <2>5. CASE batch_start + batch_size < Segments
    <3>1. phase' = "retrieve" /\ n' = batch_start'
      BY <1>1, <1>2, <2>2, <2>3, <2>4, <2>5
    <3> QED
      BY <3>1 DEF Progress, n
  <2>6. CASE ~(batch_start + batch_size < Segments)
    <3>1. phase' = "tm" /\ n' = Segments'
      BY <1>1, <1>2, <1>3, <2>1, <2>2, <2>3, <2>4, <2>6
    <3> QED
      BY <3>1 DEF Progress, n
  <2> QED
    BY <2>5, <2>6
<1>6. tm_results' = <<>> /\ phase' \notin {"emit", "done"}
  BY <1>1 DEF ExposureInv
<1> QED
  BY <1>1, <1>3, <1>4, <1>5, <1>6 DEF ExposureInv

LEMMA BuildTmKeeps ==
  ASSUME ExposureInv, BuildTm
  PROVE  ExposureInv'
<1>1. /\ UNCHANGED <<input, topk, batch_size, zero_policy, exact_thresholds, batch_start, batch,
                     exposures>>
      /\ phase = "tm" /\ phase' = "done"
      /\ tm_results' = IF input.train_tgt = None THEN <<>>
                       ELSE [i \in DOMAIN exposures |-> TmResult(exposures[i])]
  BY DEF BuildTm
<1>2. (\A s : RowRight(s)' <=> RowRight(s)) /\ Segments' = Segments
  BY <1>1, RightIsStable
<1>3. TypeOK' /\ Progress'
  BY <1>1, <1>2 DEF ExposureInv, TypeOK, Progress, Rows
<1>4. \A i : TmResult(exposures[i])' = TmResult(exposures[i])
  BY <1>1 DEF TmResult, TmIndex
<1> QED
  BY <1>1, <1>2, <1>3, <1>4 DEF ExposureInv

LEMMA StutterKeeps ==
  ASSUME ExposureInv, UNCHANGED vars
  PROVE  ExposureInv'
<1>1. UNCHANGED <<input, topk, batch_size, zero_policy, exact_thresholds, phase, batch_start,
                  batch, exposures, tm_results>>
  BY DEF vars
<1>2. /\ \A s : RowRight(s)' <=> RowRight(s)
      /\ \A b : BatchRight(b)' <=> BatchRight(b)
      /\ Segments' = Segments
  BY <1>1, RightIsStable
<1>3. TypeOK' /\ Progress'
  BY <1>1, <1>2 DEF ExposureInv, TypeOK, Progress, Rows
<1>4. \A i : TmResult(exposures[i])' = TmResult(exposures[i])
  BY <1>1 DEF TmResult, TmIndex
<1> QED
  BY <1>1, <1>2, <1>3, <1>4 DEF ExposureInv

(* Every reachable state is as the invariant says: rows are right, and     *)
(* there is one for each segment before the baseline is built.             *)
THEOREM ExposureInvariant == Spec => []ExposureInv
<1>1. ExposureInv /\ [Next]_vars => ExposureInv'
  <2> SUFFICES ASSUME ExposureInv, [Next]_vars PROVE ExposureInv'
    OBVIOUS
  <2>1. CASE RetrieveBatch
    BY <2>1, RetrieveBatchKeeps
  <2>2. CASE EmitSegment
    BY <2>2, EmitSegmentKeeps
  <2>3. CASE NextBatch
    BY <2>3, NextBatchKeeps
  <2>4. CASE BuildTm
    BY <2>4, BuildTmKeeps
  <2>5. CASE UNCHANGED vars
    BY <2>5, StutterKeeps
  <2> QED
    BY <2>1, <2>2, <2>3, <2>4, <2>5 DEF Next, Done
<1> QED
  BY InitInv, <1>1, PTL DEF Spec

----------------------------------------------------------------------------
(***************************************************************************)
(* The properties.                                                         *)
(***************************************************************************)
(* The similarity of a text to a corpus is Zero or that of one of the      *)
(* corpus' texts, and none is larger.                                      *)
LEMMA ClosestFacts ==
  ASSUME NEW m \in Nat \ {0}, NEW train \in Lists(m), NEW text \in Texts
  PROVE  /\ Closest(train, text) \in Fraction
         /\ \A d \in DOMAIN train : Leq(Similarity(text, train[d]), Closest(train, text))
         /\ \A x \in Fraction :
              (\A d \in DOMAIN train : Leq(Similarity(text, train[d]), x))
                => Leq(Closest(train, text), x)
<1> DEFINE f == [d \in DOMAIN train |-> Similarity(text, train[d])]
           I == {f[d] : d \in DOMAIN train}
           F == {Zero} \cup I
<1>1. DOMAIN train = 0..(m - 1) /\ \A d \in DOMAIN train : train[d] \in Texts
  BY DEF Lists
<1>2. f \in [DOMAIN train -> Fraction] /\ IsFiniteSet(DOMAIN train)
  BY <1>1, SimilarityFacts, FS_Interval
<1>3. Closest(train, text) = Greatest(F)
  BY DEF Closest
<1>4. IsFiniteSet(I) /\ I \in SUBSET Fraction
  <2> HIDE DEF f
  <2> QED
    BY <1>2, FiniteImages
<1>5. \A d \in DOMAIN train : Similarity(text, train[d]) \in I
  OBVIOUS
<1>6. \A g \in I : \E d \in DOMAIN train : g = Similarity(text, train[d])
  OBVIOUS
<1> HIDE DEF I
<1>7. IsFiniteSet(F) /\ F \in SUBSET Fraction /\ F # {}
  BY <1>4, FS_AddElement, FS_Union, FS_Singleton, ZeroIsLeast
<1>8. \A g \in F : g = Zero \/ g \in I
  OBVIOUS
<1>9. \A g \in I : g \in F
  OBVIOUS
<1> HIDE DEF F
<1>10. Greatest(F) \in F /\ \A g \in F : Leq(g, Greatest(F))
  BY <1>7, GreatestFacts
<1> QED
  BY <1>3, <1>5, <1>6, <1>7, <1>8, <1>9, <1>10, ZeroIsLeast

(* Row i speaks of segment i, and its exposures are the largest            *)
(* similarities of its source and of its references to the training        *)
(* corpus, attained by what it names (compute_exposure_result).            *)
THEOREM ExposuresCorrect == Spec => []ExposuresAreMaxima
<1>1. ExposureInv => ExposuresAreMaxima
  <2> SUFFICES ASSUME ExposureInv, NEW j \in DOMAIN exposures
               PROVE  LET s == exposures[j] IN
                      /\ s.index = j - 1
                      /\ Same(s.source_exposure, Closest(input.train_src, input.test_src[j - 1]))
                      /\ s.source_nn_index # None =>
                           Same(s.source_exposure,
                                Similarity(input.test_src[j - 1], input.train_src[s.source_nn_index]))
                      /\ Pairs =>
                           /\ Same(s.target_exposure,
                                   Greatest({Closest(input.train_tgt, input.refs[r][j - 1]) :
                                               r \in References}))
                           /\ s.target_nn_index # None =>
                                Same(s.target_exposure,
                                     Similarity(input.refs[s.target_ref_index][j - 1],
                                                input.train_tgt[s.target_nn_index]))
    BY DEF ExposuresAreMaxima
  <2> DEFINE s == exposures[j]
             i == j - 1
  <2>1. TypeOK /\ s.index = i /\ RowRight(s)
    BY DEF ExposureInv
  <2> HIDE DEF s, i
  <2>2. /\ i \in DOMAIN input.test_src /\ SourceRight(s)
        /\ Pairs => TargetRight(s)
    BY <2>1 DEF RowRight
  <2>3. /\ input.test_src[i] \in Texts
        /\ \A d \in Docs : input.train_src[d] \in Texts
        /\ DOMAIN input.train_src = Docs
        /\ Pairs => /\ \A d \in Docs : input.train_tgt[d] \in Texts
                    /\ \A r \in References : input.refs[r][i] \in Texts
                    /\ DOMAIN input.train_tgt = Docs
                    /\ References # {} /\ IsFiniteSet(References)
    BY <2>1, <2>2, RunTexts
  <2>4. /\ Cardinality(Docs) \in Nat \ {0} /\ input.train_src \in Lists(Cardinality(Docs))
        /\ Pairs => input.train_tgt \in Lists(Cardinality(Docs))
    BY <2>1, InputFacts DEF Pairs
  <2>5. /\ s.source_nn_index \in Docs \cup {None} /\ s.source_exposure \in Fraction
        /\ \A d \in Docs : Leq(Similarity(input.test_src[i], input.train_src[d]), s.source_exposure)
        /\ IF s.source_nn_index = None
           THEN s.source_exposure = Zero
           ELSE Same(s.source_exposure,
                     Similarity(input.test_src[i], input.train_src[s.source_nn_index]))
    BY <2>1, <2>2, <2>3 DEF SourceRight, Nearest
  <2>6. Same(s.source_exposure, Closest(input.train_src, input.test_src[i]))
    <3> DEFINE c == Closest(input.train_src, input.test_src[i])
    <3>1. /\ c \in Fraction
          /\ \A d \in Docs : Leq(Similarity(input.test_src[i], input.train_src[d]), c)
          /\ Leq(c, s.source_exposure)
      BY <2>3, <2>4, <2>5, ClosestFacts
    <3> HIDE DEF c
    <3>2. Leq(s.source_exposure, c)
      <4>1. CASE s.source_nn_index = None
        BY <2>5, <3>1, <4>1, ZeroIsLeast
      <4>2. CASE s.source_nn_index # None
        <5>1. s.source_nn_index \in Docs
          BY <2>5, <4>2
        <5> DEFINE y == Similarity(input.test_src[i], input.train_src[s.source_nn_index])
        <5>2. y \in Fraction /\ Leq(y, c) /\ Same(s.source_exposure, y)
          BY <2>3, <2>5, <3>1, <4>2, <5>1, SimilarityFacts
        <5> HIDE DEF y
        <5> QED
          BY <2>5, <3>1, <5>2, SameScores
      <4> QED
        BY <4>1, <4>2
    <3> QED
      BY <2>5, <3>1, <3>2, LeqTotal DEF c
  <2>7. ASSUME Pairs
        PROVE  Same(s.target_exposure,
                    Greatest({Closest(input.train_tgt, input.refs[r][i]) : r \in References}))
    <3> DEFINE f == [r \in References |-> Closest(input.train_tgt, input.refs[r][i])]
               F == {f[r] : r \in References}
               x == s.target_exposure
    <3>1. /\ x \in Fraction
          /\ \A r \in References, d \in Docs :
               Leq(Similarity(input.refs[r][i], input.train_tgt[d]), x)
          /\ IF s.target_nn_index = None
             THEN x = Zero
             ELSE /\ s.target_nn_index \in Docs /\ s.target_ref_index \in References
                  /\ Same(x, Similarity(input.refs[s.target_ref_index][i],
                                        input.train_tgt[s.target_nn_index]))
      BY <2>1, <2>2, <2>7 DEF TargetRight
    <3> HIDE DEF x
    <3>2. \A r \in References :
            /\ f[r] \in Fraction /\ Leq(f[r], x)
            /\ \A d \in Docs : Leq(Similarity(input.refs[r][i], input.train_tgt[d]), f[r])
      BY <2>3, <2>4, <2>7, <3>1, ClosestFacts
    <3>3. f \in [References -> Fraction]
      BY <3>2
    <3>4. F = {Closest(input.train_tgt, input.refs[r][i]) : r \in References}
      OBVIOUS
    <3> HIDE DEF f
    <3>5. IsFiniteSet(F) /\ F \in SUBSET Fraction /\ F # {}
      BY <2>3, <2>7, <3>3, FiniteImages
    <3>6. \A g : g \in F <=> \E r \in References : g = f[r]
      OBVIOUS
    <3> HIDE DEF F
    <3>7. \A g \in F : Leq(g, x)
      BY <3>2, <3>6
    <3>8. \E g \in F : Leq(x, g)
      <4>1. CASE s.target_nn_index = None
        <5>1. PICK r \in References : TRUE
          BY <2>3, <2>7
        <5>2. Leq(x, f[r])
          BY <3>1, <3>2, <4>1, ZeroIsLeast
        <5> QED
          BY <3>6, <5>2
      <4>2. CASE s.target_nn_index # None
        <5> DEFINE r == s.target_ref_index
                   y == Similarity(input.refs[r][i], input.train_tgt[s.target_nn_index])
        <5>1. /\ r \in References /\ y \in Fraction /\ Leq(y, f[r]) /\ Same(x, y)
              /\ f[r] \in Fraction
          BY <2>3, <2>7, <3>1, <3>2, <4>2, SimilarityFacts
        <5> HIDE DEF r, y
        <5>2. Leq(x, f[r])
          BY <3>1, <5>1, SameScores
        <5> QED
          BY <3>6, <5>1, <5>2
      <4> QED
        BY <4>1, <4>2
    <3> QED
      BY <3>1, <3>4, <3>5, <3>7, <3>8, GreatestFacts DEF x
  <2>8. ASSUME Pairs, s.target_nn_index # None
        PROVE  Same(s.target_exposure,
                    Similarity(input.refs[s.target_ref_index][i],
                               input.train_tgt[s.target_nn_index]))
    BY <2>1, <2>2, <2>8 DEF TargetRight
  <2> QED
    BY <2>1, <2>5, <2>6, <2>7, <2>8 DEF s, i
<1> QED
  BY ExposureInvariant, <1>1, PTL

(* What the invariant says of a row, in the terms of its segment.          *)
LEMMA RowFacts ==
  ASSUME ExposureInv, NEW s \in Rows
  PROVE  /\ s.index \in DOMAIN input.test_src
         /\ SourceRight(s)
         /\ s.source_exposure \in Fraction
         /\ Pairs => TargetRight(s) /\ PairRight(s)
         /\ FlagsRight(s.index, s.pair_exact_at_threshold)
         /\ \A d \in Docs :
              /\ Similarity(input.test_src[s.index], input.train_src[d]) \in Fraction
              /\ Leq(Similarity(input.test_src[s.index], input.train_src[d]), s.source_exposure)
         /\ Pairs => \A r \in References, d \in Docs :
              Similarity(input.refs[r][s.index], input.train_tgt[d]) \in Fraction
<1>1. PICK j \in DOMAIN exposures : s = exposures[j]
  BY DEF Rows
<1>2. TypeOK /\ RowRight(s)
  BY <1>1 DEF ExposureInv
<1>3. /\ s.index \in DOMAIN input.test_src /\ SourceRight(s)
      /\ Pairs => TargetRight(s) /\ PairRight(s)
      /\ FlagsRight(s.index, s.pair_exact_at_threshold)
  BY <1>2 DEF RowRight
<1>4. /\ input.test_src[s.index] \in Texts
      /\ \A d \in Docs : input.train_src[d] \in Texts
      /\ DOMAIN input.train_src = Docs
      /\ Pairs => /\ \A d \in Docs : input.train_tgt[d] \in Texts
                  /\ \A r \in References : input.refs[r][s.index] \in Texts
  BY <1>2, <1>3, RunTexts
<1>5. /\ s.source_exposure \in Fraction
      /\ \A d \in Docs :
           Leq(Similarity(input.test_src[s.index], input.train_src[d]), s.source_exposure)
  BY <1>3, <1>4 DEF SourceRight, Nearest
<1> QED
  BY <1>3, <1>4, <1>5, SimilarityFacts

(* A pair is never more exposed than either side, the pair named attains   *)
(* the exposure with some reference, and the reference named comes near it *)
(* (_batch_pair_neighbors, _best_pair_ref_index).                          *)
THEOREM PairsCorrect == Spec => []PairWithinSides
<1>1. ExposureInv => PairWithinSides
  <2> SUFFICES ASSUME ExposureInv, NEW s \in Rows, Pairs
               PROVE  /\ Leq(s.pair_exposure, s.source_exposure)
                      /\ Leq(s.pair_exposure, s.target_exposure)
                      /\ s.pair_nn_index # None =>
                           LET source == Similarity(input.test_src[s.index],
                                                    input.train_src[s.pair_nn_index])
                               target(r) == Similarity(input.refs[r][s.index],
                                                       input.train_tgt[s.pair_nn_index])
                           IN /\ \E r \in References :
                                   Same(s.pair_exposure, Lesser(source, target(r)))
                              /\ Leq(Lesser(source, target(s.pair_ref_index)), s.pair_exposure)
                              /\ ComesNear(target(s.pair_ref_index), s.pair_exposure)
    BY DEF PairWithinSides
  <2> DEFINE p == s.pair_exposure
             d == s.pair_nn_index
             r == s.pair_ref_index
             a(e) == Similarity(input.test_src[s.index], input.train_src[e])
             b(q, e) == Similarity(input.refs[q][s.index], input.train_tgt[e])
  <2>1. /\ s.source_exposure \in Fraction /\ s.target_exposure \in Fraction
        /\ \A e \in Docs : a(e) \in Fraction /\ Leq(a(e), s.source_exposure)
        /\ \A q \in References, e \in Docs :
             b(q, e) \in Fraction /\ Leq(b(q, e), s.target_exposure)
    BY RowFacts DEF TargetRight
  <2>2. /\ PairFound(s.index, <<d, p, TRUE>>)
        /\ d # None => r \in References /\ ComesNear(b(r, d), p)
    BY RowFacts DEF PairRight
  <2>3. p \in Fraction /\ (d = None => p = Zero)
    BY <2>2 DEF PairFound
  <2>4. d # None => /\ d \in Docs /\ Leq(p, a(d))
                   /\ \E w \in References : Leq(p, b(w, d))
                   /\ \A q \in References : Leq(Lesser(a(d), b(q, d)), p)
    BY <2>2 DEF PairFound, PairScored
  <2> HIDE DEF p, d, r, a, b
  <2>5. CASE d = None
    BY <2>1, <2>3, <2>5, ZeroIsLeast DEF p, d
  <2>6. CASE d # None
    <3>1. PICK q \in References : Leq(p, b(q, d))
      BY <2>4, <2>6
    <3>2. Leq(p, s.source_exposure) /\ Leq(p, s.target_exposure)
      BY <2>1, <2>3, <2>4, <2>6, <3>1, LeqTransitive
    <3>3. Lesser(a(d), b(q, d)) \in Fraction /\ Leq(p, Lesser(a(d), b(q, d)))
      BY <2>1, <2>3, <2>4, <2>6, <3>1, LesserScore
    <3>4. Same(p, Lesser(a(d), b(q, d)))
      BY <2>3, <2>4, <2>6, <3>3, LeqTotal
    <3>5. Leq(Lesser(a(d), b(r, d)), p) /\ ComesNear(b(r, d), p)
      BY <2>2, <2>4, <2>6
    <3> QED
      BY <3>2, <3>4, <3>5 DEF p, d, r, a, b
  <2> QED
    BY <2>5, <2>6
<1> QED
  BY ExposureInvariant, <1>1, PTL

(* No pair that reaches a threshold is missed by its flag, a threshold     *)
(* with a name of its own is flagged for nothing else, and the flags       *)
(* dominate the exposure found by reranking                                *)
(* (pair_threshold_flags_exact_normalized).                                *)
THEOREM FlagsCorrect == Spec => []FlagsMeanThresholds
<1>1. ExposureInv => FlagsMeanThresholds
  <2> SUFFICES ASSUME ExposureInv, NEW s \in Rows, s.pair_exact_at_threshold # None,
                      NEW t \in Thresholds
               PROVE  LET flag == s.pair_exact_at_threshold[Label(t)] IN
                      /\ PairReaches(s.index, t) => flag
                      /\ flag /\ HasOwnName(t) => PairReaches(s.index, t)
                      /\ Leq(t, s.pair_exposure) => flag
    BY DEF FlagsMeanThresholds
  <2> DEFINE flags == s.pair_exact_at_threshold
             p == s.pair_exposure
             d == s.pair_nn_index
             a(e) == Similarity(input.test_src[s.index], input.train_src[e])
             b(q, e) == Similarity(input.refs[q][s.index], input.train_tgt[e])
  <2>1. /\ Pairs /\ flags \in [Names -> BOOLEAN]
        /\ \A l \in Names :
             flags[l] <=> \E u \in Thresholds : Label(u) = l /\ PairReaches(s.index, u)
    BY RowFacts DEF FlagsRight
  <2>2. PairReaches(s.index, t) <=>
          \E e \in Docs, q \in References : Leq(t, a(e)) /\ Leq(t, b(q, e))
    BY DEF PairReaches
  <2>3. PairFound(s.index, <<d, p, TRUE>>)
    BY <2>1, RowFacts DEF PairRight
  <2>4. /\ p \in Fraction /\ (d = None => p = Zero)
        /\ d # None => /\ d \in Docs /\ Leq(p, a(d))
                       /\ \E q \in References : Leq(p, b(q, d))
    BY <2>3 DEF PairFound, PairScored
  <2>5. /\ \A e \in Docs : a(e) \in Fraction
        /\ \A q \in References, e \in Docs : b(q, e) \in Fraction
        /\ \E e \in Docs, q \in References : TRUE
    BY <2>1, RowFacts, RunTexts DEF ExposureInv
  <2>6. t \in Fraction /\ Label(t) \in Names
    BY ExposureAssumption DEF Names
  <2> HIDE DEF flags, p, d, a, b
  <2>7. PairReaches(s.index, t) => flags[Label(t)]
    BY <2>1, <2>6
  <2>8. flags[Label(t)] /\ HasOwnName(t) => PairReaches(s.index, t)
    BY <2>1, <2>6 DEF HasOwnName
  <2>9. ASSUME Leq(t, p) PROVE PairReaches(s.index, t)
    <3>1. CASE d = None
      <4>1. PICK e \in Docs, q \in References : TRUE
        BY <2>5
      <4>2. Leq(t, a(e)) /\ Leq(t, b(q, e))
        BY <2>4, <2>5, <2>6, <2>9, <3>1, ZeroIsLeast
      <4> QED
        BY <2>2, <4>2
    <3>2. CASE d # None
      <4>1. PICK q \in References : Leq(p, b(q, d))
        BY <2>4, <3>2
      <4>2. Leq(t, a(d)) /\ Leq(t, b(q, d))
        BY <2>4, <2>5, <2>6, <2>9, <3>2, <4>1, LeqTransitive
      <4> QED
        BY <2>2, <2>4, <3>2, <4>2
    <3> QED
      BY <3>1, <3>2
  <2> QED
    BY <2>7, <2>8, <2>9 DEF flags, p
<1> QED
  BY ExposureInvariant, <1>1, PTL

(* A pair found by its key is exact on both sides, scores One on both, and *)
(* reaches every threshold (contains_exact_pair_key).                      *)
THEOREM ExactPairsCorrect == Spec => []ExactPairIsExactEverywhere
<1>1. ExposureInv => ExactPairIsExactEverywhere
  <2> SUFFICES ASSUME ExposureInv, NEW s \in Rows, Pairs, s.pair_exact
               PROVE  /\ s.source_exact /\ s.target_exact /\ s.bin = "source_exact"
                      /\ Same(s.source_exposure, One) /\ Same(s.target_exposure, One)
                      /\ s.pair_exact_at_threshold # None =>
                           \A t \in Thresholds : s.pair_exact_at_threshold[Label(t)]
    BY DEF ExactPairIsExactEverywhere
  <2> DEFINE i == s.index
  <2>1. TypeOK /\ i \in DOMAIN input.test_src
    BY RowFacts DEF ExposureInv
  <2>2. /\ input.test_src[i] \in Texts /\ DOMAIN input.train_src = Docs
        /\ \A d \in Docs : input.train_src[d] \in Texts /\ input.train_tgt[d] \in Texts
        /\ \A r \in References : input.refs[r][i] \in Texts
    BY <2>1, RunTexts
  <2>3. PICK r \in References, d \in Docs :
          input.train_src[d] = input.test_src[i] /\ input.train_tgt[d] = input.refs[r][i]
    BY RowFacts DEF PairRight, ExactPair, Docs
  <2> DEFINE a == Similarity(input.test_src[i], input.train_src[d])
             b == Similarity(input.refs[r][i], input.train_tgt[d])
  <2>4. a \in Fraction /\ b \in Fraction /\ Same(a, One) /\ Same(b, One)
    BY <2>2, <2>3, SimilarityFacts
  <2>5. s.source_exact /\ s.bin = "source_exact" /\ s.source_exposure = One
    BY <2>2, <2>3, RowFacts DEF SourceRight, Nearest
  <2>6. /\ s.target_exact
        /\ s.target_exposure \in Fraction /\ Leq(b, s.target_exposure)
        /\ IF s.target_nn_index = None
           THEN s.target_exposure = Zero
           ELSE /\ s.target_nn_index \in Docs /\ s.target_ref_index \in References
                /\ Same(s.target_exposure, Similarity(input.refs[s.target_ref_index][i],
                                                      input.train_tgt[s.target_nn_index]))
    BY <2>3, RowFacts DEF TargetRight
  <2>7. Leq(s.target_exposure, One)
    <3>1. CASE s.target_nn_index = None
      BY <2>6, <3>1, ZeroIsLeast
    <3>2. CASE s.target_nn_index # None
      <4> DEFINE y == Similarity(input.refs[s.target_ref_index][i],
                                 input.train_tgt[s.target_nn_index])
      <4>1. y \in Fraction /\ Leq(y, One) /\ Same(s.target_exposure, y)
        BY <2>2, <2>6, <3>2, SimilarityFacts
      <4> HIDE DEF y
      <4> QED
        BY <2>6, <4>1, ZeroIsLeast, SameScores
    <3> QED
      BY <3>1, <3>2
  <2>8. Same(s.source_exposure, One) /\ Same(s.target_exposure, One)
    <3>1. Leq(One, s.target_exposure)
      <4> HIDE DEF b
      <4> QED
        BY <2>4, <2>6, ZeroIsLeast, SameScores
    <3> QED
      BY <2>5, <2>6, <2>7, <3>1, ZeroIsLeast, LeqTotal
  <2>9. ASSUME s.pair_exact_at_threshold # None, NEW t \in Thresholds
        PROVE  s.pair_exact_at_threshold[Label(t)]
    <3>1. t \in Fraction /\ Leq(t, One) /\ Label(t) \in Names
      BY ExposureAssumption DEF Names
    <3>2. Leq(t, a) /\ Leq(t, b)
      <4> HIDE DEF a, b
      <4> QED
        BY <2>4, <3>1, ZeroIsLeast, SameScores
    <3>3. PairReaches(i, t)
      BY <3>2 DEF PairReaches
    <3> QED
      BY <2>9, <3>1, <3>3, RowFacts DEF FlagsRight
  <2> QED
    BY <2>5, <2>6, <2>8, <2>9
<1> QED
  BY ExposureInvariant, <1>1, PTL

(* The baseline translates a segment by the training pair its row names,   *)
(* and one without a neighbour only when the zero policy asks for it       *)
(* (build_tm_hypotheses).                                                  *)
THEOREM TmCorrect == Spec => []TmFollowsExposure
<1>1. ExposureInv => TmFollowsExposure
  <2> SUFFICES ASSUME ExposureInv, NEW j \in DOMAIN tm_results
               PROVE  LET m == tm_results[j] IN
                      /\ m.index = j - 1
                      /\ IF m.tm_source_index = None
                         THEN zero_policy = "empty" /\ m.tm_hyp = NoText
                         ELSE /\ m.tm_hyp = input.train_tgt[m.tm_source_index]
                              /\ Same(m.tm_source_similarity,
                                      Similarity(input.test_src[j - 1],
                                                 input.train_src[m.tm_source_index]))
                              /\ zero_policy = "empty" => Lt(Zero, m.tm_source_similarity)
    BY DEF TmFollowsExposure
  <2> DEFINE m == tm_results[j]
             s == exposures[j]
             i == j - 1
             x == TmIndex(s)
  <2>1. /\ TypeOK /\ j \in DOMAIN exposures /\ m = TmResult(s)
        /\ s.index = i /\ s \in Rows
    BY DEF ExposureInv, Rows
  <2>2. /\ m.index = i /\ m.tm_source_index = x /\ m.tm_source_similarity = s.source_exposure
        /\ m.tm_hyp = IF x = None THEN NoText ELSE input.train_tgt[x]
    BY <2>1 DEF TmResult
  <2>3. zero_policy \in {"empty", "nearest"}
    BY <2>1, ExposureAssumption DEF TypeOK
  <2> HIDE DEF m, s, i
  <2>4. /\ i \in DOMAIN input.test_src
        /\ s.source_exposure \in Fraction
        /\ \A d \in Docs :
             Leq(Similarity(input.test_src[i], input.train_src[d]), s.source_exposure)
        /\ IF s.source_nn_index = None
           THEN s.source_exposure = Zero
           ELSE /\ Same(s.source_exposure,
                        Similarity(input.test_src[i], input.train_src[s.source_nn_index]))
                /\ Lt(Zero, s.source_exposure)
    BY <2>1, RowFacts DEF SourceRight, Nearest
  <2>5. /\ input.test_src[i] \in Texts /\ \A d \in Docs : input.train_src[d] \in Texts
        /\ 0 \in Docs
    <3>1. Docs = 0..(Cardinality(Docs) - 1) /\ Cardinality(Docs) \in Nat \ {0}
      BY <2>1, InputFacts
    <3>2. 0 \in Docs
      BY <3>1
    <3> QED
      BY <2>1, <2>4, <3>2, RunTexts
  <2>6. CASE s.source_nn_index # None
    BY <2>2, <2>4, <2>6 DEF TmIndex, m, i
  <2>7. CASE s.source_nn_index = None /\ zero_policy = "nearest"
    <3>1. x = 0 /\ x # None
      BY <2>7, NoneAssumption DEF TmIndex
    <3> DEFINE y == Similarity(input.test_src[i], input.train_src[0])
    <3>2. y \in Fraction /\ Leq(y, Zero) /\ s.source_exposure = Zero
      BY <2>4, <2>5, <2>7, SimilarityFacts
    <3>3. Same(s.source_exposure, y)
      <4> HIDE DEF y
      <4> QED
        BY <3>2, ZeroIsLeast, LeqTotal
    <3> QED
      BY <2>2, <2>7, <3>1, <3>3 DEF m, i
  <2>8. CASE s.source_nn_index = None /\ zero_policy = "empty"
    BY <2>2, <2>8 DEF TmIndex, m, i
  <2> QED
    BY <2>3, <2>6, <2>7, <2>8
<1> QED
  BY ExposureInvariant, <1>1, PTL
=============================================================================
