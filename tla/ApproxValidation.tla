-------------------------- MODULE ApproxValidation --------------------------
(***************************************************************************)
(* The validation of an approximate run: a sample of its segments is       *)
(* measured again by exact retrieval, and the run fails when neighbours,   *)
(* bins, exposures, threshold decisions or the baseline differ too much.   *)
(*                                                                         *)
(* Abstractions.  Scores are in thousandths; shares and means are compared *)
(* by cross-multiplication.  The BLEU score of a baseline is given by      *)
(* Bleu, in points.                                                        *)
(***************************************************************************)
EXTENDS Integers, Sequences, FiniteSets

CONSTANTS
  LeakThresholds,  \* bins.leak_thresholds, in order
  Name(_),         \* the two-decimal name of a threshold
  Bleu(_, _),      \* the score of translations of a sample of segments
  Absent           \* what a run without references does not measure

ASSUME ThresholdsAssumption == LeakThresholds \in Seq(0..1000) \ {<<>>}
----------------------------------------------------------------------------
(* _sample_indices: as many segments as asked for, in ascending order.     *)
Samples(total, size) ==
  IF size >= total THEN {[n \in 1..total |-> n - 1]}
  ELSE {sample \in [1..size -> 0..(total - 1)] :
          \A m, n \in 1..size : m < n => sample[m] < sample[n]}

(* The exact run sees the sample as its whole test set.                    *)
ExactRows(corpus, sample) ==
  [n \in DOMAIN sample |-> [corpus.exact[sample[n] + 1] EXCEPT !.index = n - 1]]

(* _items_by_index                                                         *)
ItemOf(rows, i) == rows[CHOOSE n \in DOMAIN rows : rows[n].index = i]

(* (mutant) rows are looked up by their place in the sample                 *)
ComparedByPlace(corpus, sample) ==
  [n \in DOMAIN sample |->
     [exact |-> ExactRows(corpus, sample)[n], approx |-> ItemOf(corpus.approx, n - 1)]]

(* Each segment of the sample as both runs saw it.                         *)
Compared(corpus, sample) ==
  [n \in DOMAIN sample |->
     [exact |-> ExactRows(corpus, sample)[n], approx |-> ItemOf(corpus.approx, sample[n])]]

Share(part, whole, percent) == 100 * Cardinality(part) >= percent * Cardinality(whole)

Differ(c, field) == c.approx[field] # c.exact[field]

Error(c) == IF c.approx.score > c.exact.score
            THEN c.approx.score - c.exact.score ELSE c.exact.score - c.approx.score

Reaches(row, t) == row.pair >= t

(* The value of a rank, from 0, when they are sorted.                      *)
Ranked(values, rank) ==
  LET Below(v) == {n \in DOMAIN values : values[n] < v}
      UpTo(v)  == {n \in DOMAIN values : values[n] <= v}
  IN CHOOSE v \in {values[n] : n \in DOMAIN values} :
       Cardinality(Below(v)) <= rank /\ rank < Cardinality(UpTo(v))

(* _percentile: interpolated between the two ranks around it, a hundred    *)
(* times over.                                                             *)
Percentile(values, percent) ==
  LET rank == percent * (Cardinality(DOMAIN values) - 1)
      lower == rank \div 100
      upper == IF lower + 1 < Cardinality(DOMAIN values) THEN lower + 1 ELSE lower
  IN (Ranked(values, lower) * (100 - (rank % 100))) + (Ranked(values, upper) * (rank % 100))

(* The sum of some numbers: what they count, each apart.                   *)
Total(values) == Cardinality(UNION {{n} \X (1..values[n]) : n \in DOMAIN values})

(* Of thresholds with one name the last is reported.                       *)
ReportedThreshold(name) ==
  LET last == CHOOSE n \in DOMAIN LeakThresholds :
                /\ Name(LeakThresholds[n]) = name
                /\ \A m \in DOMAIN LeakThresholds :
                     m > n => Name(LeakThresholds[m]) # name
  IN LeakThresholds[last]

ThresholdNames == {Name(LeakThresholds[n]) : n \in DOMAIN LeakThresholds}

(* The translations of the sample, by an exact run and by this one.        *)
BleuDelta(corpus, c, sample) ==
  LET exact == Bleu([n \in DOMAIN c |-> c[n].exact.tm], sample)
      approx == Bleu([n \in DOMAIN c |-> c[n].approx.tm], sample)
  IN IF approx > exact THEN approx - exact ELSE exact - approx

(* validate_approximate_run, _validation_failures: what is not measured on *)
(* either side does not fail.                                              *)
Failures(corpus, sample) ==
  LET c == Compared(corpus, sample)
      D == DOMAIN c
      errors == [n \in D |-> Error(c[n])]
      targets == {n \in D : c[n].exact.target # Absent /\ c[n].approx.target # Absent}
      pairs == {n \in D : c[n].exact.pair # Absent /\ c[n].approx.pair # Absent}
      Agree(t) == {n \in pairs : Reaches(c[n].exact, t) = Reaches(c[n].approx, t)}
  IN {f \in {"source_top1"} : ~Share({n \in D : ~Differ(c[n], "nn")}, D, 95)}
       \cup {f \in {"source_bin"} : ~Share({n \in D : ~Differ(c[n], "bin")}, D, 99)}
       \cup {f \in {"source_mean_abs_error"} : Total(errors) > 50 * Cardinality(D)}
       \cup {f \in {"source_p95_abs_error"} : Percentile(errors, 95) > 100 * 150}
       \cup {f \in {"target_top1"} : ~Share({n \in targets : ~Differ(c[n], "target")}, targets, 95)}
       \cup {f \in {"pair_threshold"} :
               \E name \in ThresholdNames : ~Share(Agree(ReportedThreshold(name)), pairs, 99)}
       \cup {f \in {"tm_bleu"} : corpus.target /\ corpus.refs /\ BleuDelta(corpus, c, sample) > 1}
=============================================================================
