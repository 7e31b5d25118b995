---------------------------- MODULE GroupScoring ----------------------------
(***************************************************************************)
(* Metric scores of a corpus and of its exposure bins.  A scorer is        *)
(* prepared once for a set of references and of groups, scores the         *)
(* translation-memory baseline, and then any number of systems.  It sums   *)
(* segment statistics it gets from private functions of the metric library *)
(* while they work, and falls back on the public ones, for a whole metric  *)
(* and for good, when they raise.                                          *)
(*                                                                         *)
(* Abstractions.  The output of a system for a segment is the pair of      *)
(* both; a score is the set of <<output, reference line>> it is computed   *)
(* over and the interface used, so that two scores are the same when they  *)
(* measure the same.  The library's functions either answer or raise; what *)
(* they answer is theirs.  A difference of scores is the pair of both.     *)
(***************************************************************************)
EXTENDS Integers, Sequences

CONSTANTS
  Artifacts,  \* segment rows as read: [exposures, tm]
  Systems,    \* names of systems
  TM,         \* the name reserved for the baseline
  Metrics,    \* config.metrics, in order
  None,
  Calls       \* bound: calls made of one scorer

ASSUME NameAssumption == TM \notin Systems

ASSUME ArtifactsAssumption ==
  \A a \in Artifacts :
    /\ a.exposures \in Seq([index : Int, bin : {"source_exact", "near", "medium", "far"}])
    /\ a.tm \in Seq([index : Int])

(* Metrics named twice are refused by the configuration.                   *)
ASSUME MetricsAssumption ==
  /\ Metrics \in Seq(STRING)
  /\ \A m, n \in DOMAIN Metrics : Metrics[m] = Metrics[n] => m = n

ASSUME CallsAssumption == Calls \in Nat

VARIABLES
  scorer,     \* what the scorer was prepared with, and its baseline
  use_stats,  \* per metric: are the private functions used?
  call,       \* the call of score_systems that is running
  reports,    \* what the last call returned, per system
  calls       \* calls made of the scorer

scoringVars == <<scorer, use_stats, call, reports, calls>>
----------------------------------------------------------------------------
All == "__all__"
Bins == {"source_exact", "near", "medium", "far"}
Groups == Bins \cup {All}

MetricNames == {Metrics[m] : m \in DOMAIN Metrics}

(* None is no score, and no table of scores.                               *)
ASSUME NoneAssumption ==
  LET AnyScore == [via : {"stats", "public"},
                   over : SUBSET (((Systems \cup {TM}) \X Int) \X Int)]
  IN /\ None \notin AnyScore
     /\ None \notin [MetricNames -> [Groups -> AnyScore \cup {None}]]

(* Rows in any order, each segment of the corpus once on both sides.       *)
Covers(rows) == \A i \in 0..(Len(rows) - 1) : \E n \in DOMAIN rows : rows[n].index = i

(* validate_segment_artifacts                                              *)
Acceptable(a) ==
  /\ a.exposures # <<>> /\ Len(a.exposures) = Len(a.tm)
  /\ Covers(a.exposures) /\ Covers(a.tm)

(* (mutant) rows are taken in the order of the file                         *)
RowsAsRead(rows) == rows

ByIndex(rows) ==
  [n \in DOMAIN rows |-> rows[CHOOSE m \in DOMAIN rows : rows[m].index = n - 1]]

Output(name, segment) == <<name, segment>>

(* A file of outputs has a line per segment.                               *)
Hyps(name, rows) == [n \in DOMAIN rows |-> Output(name, n - 1)]

(* build_bin_group_index                                                   *)
Group(g) ==
  {scorer.exposures[n].index :
     n \in {m \in DOMAIN scorer.exposures : g \in {All, scorer.exposures[m].bin}}}

Score(via, hyps, g) ==
  IF Group(g) = {} THEN None
  ELSE [via |-> via, over |-> {<<hyps[i + 1], i>> : i \in Group(g)}]

GroupScores(via, hyps) == [g \in Groups |-> Score(via, hyps, g)]

NoScores == [m \in MetricNames |-> [g \in Groups |-> None]]
----------------------------------------------------------------------------
Idle == [phase |-> "idle"]

Scoring == call.phase = "scoring"

(* A call for some systems, of which the active ones can be scored.        *)
NewCall(active, hyps) ==
  [phase |-> "scoring", active |-> active, hyps |-> hyps,
   metric |-> IF active = <<>> THEN Len(Metrics) + 1 ELSE 1,
   partial |-> <<>>,
   results |-> [name \in DOMAIN hyps |-> NoScores]]

Metric == Metrics[call.metric]

AllMetrics == call.metric > Len(Metrics)

ScoringInit ==
  /\ scorer = None
  /\ use_stats = [m \in MetricNames |-> FALSE]
  /\ call = Idle
  /\ reports = None
  /\ calls = 0

(* The constructor of a cached scorer: the private functions are probed    *)
(* for each metric, and the baseline is scored at once.                    *)
Prepare(a) ==
  /\ scorer = None /\ Acceptable(a)
  /\ \E supported \in [MetricNames -> BOOLEAN] : use_stats' = supported
  /\ LET tm_rows == ByIndex(a.tm)
         tm_hyp == [n \in DOMAIN tm_rows |-> Output(TM, tm_rows[n].index)]
     IN /\ scorer' = [artifact |-> a, exposures |-> ByIndex(a.exposures),
                      cached |-> TRUE, baseline |-> None]
        /\ call' = NewCall(<<TM>>, [name \in {TM} |-> tm_hyp])
  /\ reports' = None
  /\ calls' = 0

(* CachedSegmentScorer.score_many                                          *)
ScoreMany(order) ==
  /\ call = Idle /\ scorer # None /\ calls < Calls
  /\ scorer.cached
  /\ order # <<>> /\ \A n \in DOMAIN order : order[n] # TM
  /\ call' = NewCall(order, [name \in {order[n] : n \in DOMAIN order} |->
                               Hyps(name, scorer.exposures)])
  /\ reports' = None
  /\ calls' = calls + 1
  /\ UNCHANGED <<scorer, use_stats>>

(* score_corpus_and_bins: the rows come from the pipeline, in order, and   *)
(* a system and the baseline are scored together.  An audit has no system  *)
(* and may have no references or no baseline; a system needs both          *)
(* (validate_corpus_inputs).                                               *)
ScoreFresh(a, name, missing, has_refs) ==
  /\ scorer = None /\ Acceptable(a)
  /\ a.exposures = ByIndex(a.exposures) /\ a.tm = ByIndex(a.tm)
  /\ name \notin missing => TM \notin missing /\ has_refs
  /\ \E supported \in [MetricNames -> BOOLEAN] : use_stats' = supported
  /\ scorer' = [artifact |-> a, exposures |-> a.exposures,
                cached |-> FALSE, baseline |-> None]
  /\ LET active == IF ~has_refs THEN <<>>
                   ELSE IF name \notin missing THEN <<name, TM>>
                   ELSE IF TM \notin missing THEN <<TM>> ELSE <<>>
     IN call' = NewCall(active, [s \in {name, TM} |-> Hyps(s, a.exposures)])
  /\ reports' = None
  /\ calls' = 0

(* The scores of one system for one metric, by the private functions.      *)
ScoreSystem ==
  /\ Scoring /\ ~AllMetrics /\ use_stats[Metric]
  /\ Len(call.partial) < Len(call.active)
  /\ LET name == call.active[Len(call.partial) + 1]
     IN call' = [call EXCEPT !.partial = Append(@, GroupScores("stats", call.hyps[name]))]
  /\ UNCHANGED <<scorer, use_stats, reports, calls>>

(* Every system has its scores for the metric.                             *)
WithMetric(scores) ==
  [call EXCEPT
     !.metric = @ + 1, !.partial = <<>>,
     !.results = [name \in DOMAIN @ |->
                    IF \E n \in DOMAIN call.active : call.active[n] = name
                    THEN [@[name] EXCEPT ![Metric] = scores[name]] ELSE @[name]]]

Position(name) == CHOOSE n \in DOMAIN call.active : call.active[n] = name

FinishMetric ==
  /\ Scoring /\ ~AllMetrics /\ use_stats[Metric]
  /\ Len(call.partial) = Len(call.active)
  /\ call' = WithMetric([name \in {call.active[n] : n \in DOMAIN call.active} |->
                           call.partial[Position(name)]])
  /\ UNCHANGED <<scorer, use_stats, reports, calls>>

(* A private function raises, at the first system or at a later one.       *)
StatsRaise ==
  /\ Scoring /\ ~AllMetrics /\ use_stats[Metric]
  /\ Len(call.partial) < Len(call.active)
  /\ use_stats' = [use_stats EXCEPT ![Metric] = FALSE]
  /\ UNCHANGED <<scorer, call, reports, calls>>

(* (mutant) what the private functions have answered so far is kept         *)
ScoreTheRestPublicly ==
  /\ Scoring /\ ~AllMetrics /\ ~use_stats[Metric]
  /\ call' = WithMetric([name \in {call.active[n] : n \in DOMAIN call.active} |->
                           IF Position(name) <= Len(call.partial)
                           THEN call.partial[Position(name)]
                           ELSE GroupScores("public", call.hyps[name])])
  /\ UNCHANGED <<scorer, use_stats, reports, calls>>

(* The public functions score all systems, the ones already scored too.    *)
ScorePublicly ==
  /\ Scoring /\ ~AllMetrics /\ ~use_stats[Metric]
  /\ call' = WithMetric([name \in {call.active[n] : n \in DOMAIN call.active} |->
                           GroupScores("public", call.hyps[name])])
  /\ UNCHANGED <<scorer, use_stats, reports, calls>>

(* The public functions raise: the call fails, and with it the constructor *)
(* of a cached scorer or a fresh scoring.  The scorer of a failed call     *)
(* stays usable.                                                           *)
PublicRaise ==
  /\ Scoring /\ ~AllMetrics /\ ~use_stats[Metric]
  /\ call' = Idle
  /\ scorer' = IF scorer.baseline = None THEN None ELSE scorer
  /\ UNCHANGED <<use_stats, reports, calls>>

(* delta_scores, build_bin_reports, compute_generalization_gap             *)
Delta(x, y) == IF x # None /\ y # None THEN <<x, y>> ELSE None

Report(scores, tm_scores) ==
  [system |-> scores, tm |-> tm_scores,
   delta |-> [m \in MetricNames |->
                [g \in Groups |-> Delta(scores[m][g], tm_scores[m][g])]],
   gap |-> [m \in MetricNames |-> Delta(scores[m]["near"], scores[m]["far"])]]

FinishCall ==
  /\ Scoring /\ AllMetrics
  /\ IF ~scorer.cached
     THEN /\ reports' = [name \in DOMAIN call.results \ {TM} |->
                           Report(call.results[name], call.results[TM])]
          /\ scorer' = [scorer EXCEPT !.baseline = call.results[TM]]
     ELSE IF scorer.baseline = None
     THEN scorer' = [scorer EXCEPT !.baseline = call.results[TM]] /\ UNCHANGED reports
     ELSE /\ reports' = [name \in DOMAIN call.results |->
                           Report(call.results[name], scorer.baseline)]
          /\ UNCHANGED scorer
  /\ call' = Idle
  /\ UNCHANGED <<use_stats, calls>>

(* The scorer is dropped, or the process that holds it ends.               *)
Drop ==
  /\ scorer' = None /\ call' = Idle /\ reports' = None
  /\ use_stats' = [m \in MetricNames |-> FALSE]
  /\ calls' = 0

ScoringStep ==
  \/ ScoreSystem \/ FinishMetric \/ StatsRaise
  \/ ScorePublicly \/ PublicRaise
  \/ FinishCall
----------------------------------------------------------------------------
(* The bin of a segment, as the rows say.                                  *)
BinOf(a, i) == LET n == CHOOSE m \in DOMAIN a.exposures : a.exposures[m].index = i
               IN a.exposures[n].bin

(* The outputs of a system in a group, each with its own reference line.   *)
Expected(name, g) ==
  {<<Output(name, i), i>> :
     i \in {j \in 0..(Len(scorer.artifact.exposures) - 1) :
              g \in {All, BinOf(scorer.artifact, j)}}}

Measures(score, name, g) ==
  IF Expected(name, g) = {} THEN score = None
  ELSE score # None => score.over = Expected(name, g)

(* In whatever order the rows were, whichever interface answered, and      *)
(* after any number of earlier calls, every score of a report is over the  *)
(* segments of its bin and no others, each with its own reference, of the  *)
(* system it is reported for and of the baseline; and differences and the  *)
(* generalisation gap are between those two (score_many, bins.py).         *)
ScoresAreTheGroups ==
  reports # None =>
    \A name \in DOMAIN reports, m \in MetricNames :
      LET report == reports[name] IN
      /\ \A g \in Groups :
           /\ Measures(report.system[m][g], name, g)
           /\ Measures(report.tm[m][g], TM, g)
           /\ scorer.cached =>
                /\ report.system[m][g] = None => Expected(name, g) = {}
                /\ report.tm[m][g] = None => Expected(TM, g) = {}
           /\ report.delta[m][g] # None =>
                report.delta[m][g] = <<report.system[m][g], report.tm[m][g]>>
      /\ report.gap[m] # None =>
           /\ report.gap[m][1].over = Expected(name, "near")
           /\ report.gap[m][2].over = Expected(name, "far")

Via(score, interface) == score # None => score.via = interface

(* The systems of one call are compared alike: a metric is computed for    *)
(* all of them, in every group, through one interface, even when the       *)
(* private functions failed after some of them; and once the baseline      *)
(* needed the public one, so do the systems                                *)
(* (PreparedSacreMetricGroupScorer.score_systems).                         *)
ComparedAlike ==
  reports # None =>
    \A m \in MetricNames :
      \E interface \in {"stats", "public"} :
        \A name \in DOMAIN reports, g \in Groups :
          /\ Via(reports[name].system[m][g], interface)
          /\ interface = "stats" => Via(reports[name].tm[m][g], interface)
=============================================================================
