-------------------------- MODULE CommandLineProofs --------------------------
(***************************************************************************)
(* For any segment files, systems, metrics, requests, numbers of threads   *)
(* and file names: what a process reports is scored right, written under   *)
(* its own name, validated as asked, and run on the threads it names.      *)
(* The inductive invariant has one part for each; only the scorer's part   *)
(* needs another one, the batch's.                                         *)
(***************************************************************************)
EXTENDS CommandLine, FiniteSetTheorems, TLAPS

(***************************************************************************)
(* The scorer.  ScoringInv says that a call has the right scores, through  *)
(* the interface its metric is now at, for every metric that is finished,  *)
(* and the right private scores for the systems of the current one.        *)
(***************************************************************************)
AnyName == Systems \cup {TM}

AnyScore == [via : {"stats", "public"}, over : SUBSET ((AnyName \X Int) \X Int)]

AnyGroupScores == [Groups -> AnyScore \cup {None}]

AnyScores == [MetricNames -> AnyGroupScores]

NoGroupScores == [g \in Groups |-> None]

Segments(a) == 0..(Len(a.exposures) - 1)

(* The lines of a system in a group, and its scores when right.            *)
Lines(a, name, g) ==
  {<<Output(name, i), i>> : i \in {j \in Segments(a) : g \in {All, BinOf(a, j)}}}

RightScore(a, via, name, g) ==
  IF Lines(a, name, g) = {} THEN None ELSE [via |-> via, over |-> Lines(a, name, g)]

RightScores(a, via, name) == [g \in Groups |-> RightScore(a, via, name, g)]

RightHyps(a, hyps, name) == \A i \in Segments(a) : hyps[i + 1] = Output(name, i)
----------------------------------------------------------------------------
(* The interface a metric is at.                                           *)
ViaOf(m) == IF use_stats[m] THEN "stats" ELSE "public"

ActiveNames == {call.active[n] : n \in DOMAIN call.active}

ScorerOK ==
  /\ scorer = [artifact |-> scorer.artifact, exposures |-> scorer.exposures,
               cached |-> scorer.cached, baseline |-> scorer.baseline]
  /\ scorer.artifact \in Artifacts /\ Acceptable(scorer.artifact)
  /\ scorer.exposures = ByIndex(scorer.artifact.exposures)

(* A baseline is right, through an interface its metric may have left.     *)
BaselineOK ==
  (scorer # None \/ Scoring) /\ scorer.cached /\ scorer.baseline # None =>
    \A m \in MetricNames :
      \E via \in {"stats", "public"} :
        /\ via = "stats" \/ ~use_stats[m]
        /\ scorer.baseline[m] = RightScores(scorer.artifact, via, TM)

(* Who is scored in a call.                                                *)
RolesOK ==
  IF scorer.cached
  THEN IF scorer.baseline = None THEN DOMAIN call.hyps = {TM} /\ ActiveNames = {TM}
       ELSE ActiveNames = DOMAIN call.hyps
  ELSE TM \in DOMAIN call.hyps

CallShape ==
  /\ call = [phase |-> "scoring", active |-> call.active, hyps |-> call.hyps,
             metric |-> call.metric, partial |-> call.partial,
             results |-> call.results]
  /\ call.active \in Seq(AnyName)
  /\ ActiveNames \subseteq DOMAIN call.hyps /\ DOMAIN call.hyps \subseteq AnyName
  /\ \A name \in ActiveNames : RightHyps(scorer.artifact, call.hyps[name], name)
  /\ call.metric \in 1..(Len(Metrics) + 1)

PartialOK ==
  /\ call.partial \in Seq(AnyGroupScores)
  /\ Len(call.partial) <= Len(call.active)
  /\ \A n \in 1..Len(call.partial) :
       call.partial[n] = RightScores(scorer.artifact, "stats", call.active[n])

ResultsOK ==
  /\ DOMAIN call.results = DOMAIN call.hyps
  /\ \A name \in DOMAIN call.hyps :
       /\ call.results[name] \in AnyScores
       /\ \A j \in 1..Len(Metrics) :
            call.results[name][Metrics[j]] =
              IF j < call.metric /\ name \in ActiveNames
              THEN RightScores(scorer.artifact, ViaOf(Metrics[j]), name)
              ELSE NoGroupScores

(* A metric of a report: the system through v, the baseline through w.     *)
RightReport(a, complete, report, m, name, v, w) ==
  /\ report.system[m] \in {RightScores(a, v, name), NoGroupScores}
  /\ report.tm[m] \in {RightScores(a, w, TM), NoGroupScores}
  /\ complete =>
       /\ report.system[m] = RightScores(a, v, name)
       /\ report.tm[m] = RightScores(a, w, TM)
  /\ report.delta[m] = [g \in Groups |-> Delta(report.system[m][g], report.tm[m][g])]
  /\ report.gap[m] = Delta(report.system[m]["near"], report.system[m]["far"])

MetricRight(report, m, name, v, w) ==
  RightReport(scorer.artifact, scorer.cached, report, m, name, v, w)

ReportsOK ==
  reports # None =>
    /\ DOMAIN reports \subseteq AnyName
    /\ \A m \in MetricNames :
         \E v, w \in {"stats", "public"} :
           /\ v = "stats" => w = "stats"
           /\ \A name \in DOMAIN reports : MetricRight(reports[name], m, name, v, w)

ScoringInv ==
  /\ use_stats \in [MetricNames -> BOOLEAN]
  /\ Scoring => ScorerOK /\ reports = None
  /\ scorer # None => ScorerOK
  /\ reports # None => ScorerOK
  /\ ~Scoring /\ scorer # None => scorer.baseline # None
  /\ BaselineOK
  /\ Scoring => CallShape /\ PartialOK /\ ResultsOK /\ RolesOK
  /\ ReportsOK
----------------------------------------------------------------------------
(* Sorting rows that cover the segments puts each segment at its place.    *)
LEMMA RowsSorted ==
  ASSUME NEW rows, DOMAIN rows = 1..Len(rows), Len(rows) \in Nat, Covers(rows)
  PROVE  /\ DOMAIN ByIndex(rows) = 1..Len(rows)
         /\ \A n \in 1..Len(rows) :
              /\ ByIndex(rows)[n].index = n - 1
              /\ ByIndex(rows)[n] = rows[CHOOSE m \in DOMAIN rows : rows[m].index = n - 1]
<1>1. ASSUME NEW n \in 1..Len(rows) PROVE \E m \in DOMAIN rows : rows[m].index = n - 1
  <2>1. n - 1 \in 0..(Len(rows) - 1) OBVIOUS
  <2> QED BY <2>1 DEF Covers
<1> QED BY <1>1 DEF ByIndex

LEMMA ArtifactRows ==
  ASSUME NEW a \in Artifacts, Acceptable(a)
  PROVE  /\ DOMAIN a.exposures = 1..Len(a.exposures) /\ Len(a.exposures) \in Nat
         /\ DOMAIN a.tm = 1..Len(a.exposures) /\ Len(a.tm) = Len(a.exposures)
         /\ Covers(a.exposures) /\ Covers(a.tm)
<1>1. a.exposures \in Seq([index : Int, bin : {"source_exact", "near", "medium", "far"}])
  BY ArtifactsAssumption
<1>2. a.tm \in Seq([index : Int]) BY ArtifactsAssumption
<1>3. DOMAIN a.exposures = 1..Len(a.exposures) /\ Len(a.exposures) \in Nat BY <1>1
<1>4. DOMAIN a.tm = 1..Len(a.tm) BY <1>2
<1> QED BY <1>3, <1>4 DEF Acceptable

(* build_bin_group_index over sorted rows groups the segments by the bins  *)
(* their rows say.                                                         *)
LEMMA GroupIsBin ==
  ASSUME ScorerOK, NEW g
  PROVE  Group(g) = {j \in Segments(scorer.artifact) : g \in {All, BinOf(scorer.artifact, j)}}
<1> DEFINE a == scorer.artifact
<1>1. /\ DOMAIN a.exposures = 1..Len(a.exposures) /\ Len(a.exposures) \in Nat
      /\ Covers(a.exposures)
  BY ArtifactRows DEF ScorerOK
<1>a. scorer.exposures = ByIndex(a.exposures) BY DEF ScorerOK
<1> HIDE DEF a
<1>2. /\ DOMAIN scorer.exposures = 1..Len(a.exposures)
      /\ \A n \in 1..Len(a.exposures) :
           /\ scorer.exposures[n].index = n - 1
           /\ scorer.exposures[n] =
                a.exposures[CHOOSE m \in DOMAIN a.exposures : a.exposures[m].index = n - 1]
  <2> DEFINE rows == a.exposures
  <2>1. DOMAIN rows = 1..Len(rows) /\ Len(rows) \in Nat /\ Covers(rows) BY <1>1
  <2>2. scorer.exposures = ByIndex(rows) BY <1>a
  <2> HIDE DEF rows
  <2>3. /\ DOMAIN ByIndex(rows) = 1..Len(rows)
        /\ \A n \in 1..Len(rows) :
             /\ ByIndex(rows)[n].index = n - 1
             /\ ByIndex(rows)[n] =
                  rows[CHOOSE m \in DOMAIN rows : rows[m].index = n - 1]
    BY <2>1, RowsSorted
  <2>4. /\ DOMAIN scorer.exposures = 1..Len(rows)
        /\ \A n \in 1..Len(rows) :
             /\ scorer.exposures[n].index = n - 1
             /\ scorer.exposures[n] =
                  rows[CHOOSE m \in DOMAIN rows : rows[m].index = n - 1]
    BY <2>2, <2>3
  <2> QED BY <2>4 DEF rows
<1>3. ASSUME NEW n \in 1..Len(a.exposures)
      PROVE  scorer.exposures[n].bin = BinOf(a, n - 1)
  BY <1>2, <1>3 DEF BinOf
<1>4. ASSUME NEW n \in 1..Len(a.exposures), g \in {All, scorer.exposures[n].bin}
      PROVE  /\ scorer.exposures[n].index \in Segments(a)
             /\ g \in {All, BinOf(a, scorer.exposures[n].index)}
  <2>1. scorer.exposures[n].index = n - 1 BY <1>2
  <2>2. n - 1 \in Segments(a) BY <1>1 DEF Segments
  <2> QED BY <2>1, <2>2, <1>3, <1>4
<1>5. ASSUME NEW j \in Segments(a), g \in {All, BinOf(a, j)}
      PROVE  \E n \in 1..Len(a.exposures) :
               g \in {All, scorer.exposures[n].bin} /\ scorer.exposures[n].index = j
  <2>1. j + 1 \in 1..Len(a.exposures) /\ (j + 1) - 1 = j BY <1>1, <1>5 DEF Segments
  <2> QED BY <2>1, <1>2, <1>3, <1>5
<1>6. Group(g) = {j \in Segments(a) : g \in {All, BinOf(a, j)}}
  BY <1>2, <1>4, <1>5 DEF Group
<1> QED BY <1>6 DEF a

LEMMA LinesTyped ==
  ASSUME NEW a, Len(a.exposures) \in Nat, NEW name \in AnyName, NEW g
  PROVE  Lines(a, name, g) \in SUBSET ((AnyName \X Int) \X Int)
BY DEF Lines, Segments, Output

LEMMA RightScoresTyped ==
  ASSUME NEW a, Len(a.exposures) \in Nat, NEW name \in AnyName, NEW via \in {"stats", "public"}
  PROVE  RightScores(a, via, name) \in AnyGroupScores
<1>1. ASSUME NEW g \in Groups PROVE RightScore(a, via, name, g) \in AnyScore \cup {None}
  BY LinesTyped DEF RightScore, AnyScore
<1> QED BY <1>1 DEF RightScores, AnyGroupScores

(* Outputs that are right give scores that are.                            *)
LEMMA GroupScoresRight ==
  ASSUME ScorerOK, NEW hyps, NEW name, NEW via, RightHyps(scorer.artifact, hyps, name)
  PROVE  GroupScores(via, hyps) = RightScores(scorer.artifact, via, name)
<1>1. ASSUME NEW g \in Groups
      PROVE  Score(via, hyps, g) = RightScore(scorer.artifact, via, name, g)
  <2> DEFINE J == {j \in Segments(scorer.artifact) : g \in {All, BinOf(scorer.artifact, j)}}
  <2>1. Group(g) = J BY GroupIsBin
  <2>2. \A j \in J : hyps[j + 1] = Output(name, j) BY DEF RightHyps
  <2>3. Lines(scorer.artifact, name, g) = {<<Output(name, j), j>> : j \in J} BY DEF Lines
  <2> HIDE DEF J
  <2>4. {<<hyps[j + 1], j>> : j \in J} = {<<Output(name, j), j>> : j \in J} BY <2>2
  <2>5. Lines(scorer.artifact, name, g) = {} <=> J = {} BY <2>3
  <2> QED BY <2>1, <2>3, <2>4, <2>5 DEF Score, RightScore
<1> QED BY <1>1 DEF GroupScores, RightScores

----------------------------------------------------------------------------
(* Reports that are right have the two properties.                         *)
LEMMA ScoresAreOver ==
  ASSUME NEW a, NEW via, NEW name, NEW g \in Groups, NEW scores,
         scores \in {RightScores(a, via, name), NoGroupScores}
  PROVE  /\ Lines(a, name, g) = {} => scores[g] = None
         /\ scores[g] # None => scores[g].over = Lines(a, name, g) /\ scores[g].via = via
BY DEF RightScores, RightScore, NoGroupScores

LEMMA ScoreIsThere ==
  ASSUME NEW a, Len(a.exposures) \in Nat, NEW via \in {"stats", "public"},
         NEW name \in AnyName, NEW g \in Groups, RightScores(a, via, name)[g] = None
  PROVE  Lines(a, name, g) = {}
<1>1. [via |-> via, over |-> Lines(a, name, g)] \in AnyScore
  BY LinesTyped DEF AnyScore
<1>2. None \notin AnyScore BY NoneAssumption DEF AnyScore, AnyName
<1> QED BY <1>1, <1>2 DEF RightScores, RightScore

LEMMA ScoringInvScores == ScoringInv => ScoresAreTheGroups
<1> SUFFICES ASSUME ScoringInv, reports # None,
                    NEW name \in DOMAIN reports, NEW m \in MetricNames
             PROVE  /\ \A g \in Groups :
                         /\ Measures(reports[name].system[m][g], name, g)
                         /\ Measures(reports[name].tm[m][g], TM, g)
                         /\ scorer.cached =>
                              /\ reports[name].system[m][g] = None => Expected(name, g) = {}
                              /\ reports[name].tm[m][g] = None => Expected(TM, g) = {}
                         /\ reports[name].delta[m][g] # None =>
                              reports[name].delta[m][g] =
                                <<reports[name].system[m][g], reports[name].tm[m][g]>>
                    /\ reports[name].gap[m] # None =>
                         /\ reports[name].gap[m][1].over = Expected(name, "near")
                         /\ reports[name].gap[m][2].over = Expected(name, "far")
  BY DEF ScoresAreTheGroups
<1> DEFINE a == scorer.artifact
<1> DEFINE S == reports[name].system[m]
<1> DEFINE T == reports[name].tm[m]
<1>0. ScorerOK /\ Len(a.exposures) \in Nat /\ name \in AnyName /\ TM \in AnyName
  BY ArtifactRows DEF ScoringInv, ReportsOK, ScorerOK, AnyName
<1>1. PICK v \in {"stats", "public"}, w \in {"stats", "public"} :
        MetricRight(reports[name], m, name, v, w)
  BY DEF ScoringInv, ReportsOK
<1>2. /\ S \in {RightScores(a, v, name), NoGroupScores}
      /\ T \in {RightScores(a, w, TM), NoGroupScores}
      /\ scorer.cached => S = RightScores(a, v, name) /\ T = RightScores(a, w, TM)
      /\ reports[name].delta[m] = [g \in Groups |-> Delta(S[g], T[g])]
      /\ reports[name].gap[m] = Delta(S["near"], S["far"])
  BY <1>1 DEF MetricRight, RightReport
<1>3. \A n, g : Expected(n, g) = Lines(a, n, g) BY DEF Expected, Lines, Segments
<1> HIDE DEF a, S, T
<1>4. ASSUME NEW g \in Groups
      PROVE  Measures(S[g], name, g) /\ Measures(T[g], TM, g)
  BY <1>2, <1>3, ScoresAreOver DEF Measures
<1>5. ASSUME NEW g \in Groups, scorer.cached
      PROVE  /\ S[g] = None => Expected(name, g) = {}
             /\ T[g] = None => Expected(TM, g) = {}
  BY <1>0, <1>2, <1>3, <1>5, ScoreIsThere
<1>6. ASSUME NEW g \in Groups, reports[name].delta[m][g] # None
      PROVE  reports[name].delta[m][g] = <<S[g], T[g]>>
  BY <1>2, <1>6 DEF Delta
<1>7. ASSUME reports[name].gap[m] # None
      PROVE  /\ reports[name].gap[m][1].over = Expected(name, "near")
             /\ reports[name].gap[m][2].over = Expected(name, "far")
  <2>1. /\ S["near"] # None /\ S["far"] # None
        /\ reports[name].gap[m] = <<S["near"], S["far"]>>
    BY <1>2, <1>7 DEF Delta
  <2>2. "near" \in Groups /\ "far" \in Groups BY DEF Groups, Bins
  <2>3. S["near"].over = Lines(a, name, "near") /\ S["far"].over = Lines(a, name, "far")
    BY <1>2, <2>1, <2>2, ScoresAreOver
  <2> QED BY <2>1, <2>3, <1>3
<1> QED BY <1>4, <1>5, <1>6, <1>7 DEF S, T

LEMMA ScoringInvAlike == ScoringInv => ComparedAlike
<1> SUFFICES ASSUME ScoringInv, reports # None, NEW m \in MetricNames
             PROVE  \E interface \in {"stats", "public"} :
                      \A name \in DOMAIN reports, g \in Groups :
                        /\ Via(reports[name].system[m][g], interface)
                        /\ interface = "stats" => Via(reports[name].tm[m][g], interface)
  BY DEF ComparedAlike
<1>1. PICK v, w :
        /\ v \in {"stats", "public"} /\ w \in {"stats", "public"}
        /\ v = "stats" => w = "stats"
        /\ \A name \in DOMAIN reports : MetricRight(reports[name], m, name, v, w)
  BY DEF ScoringInv, ReportsOK
<1>2. ASSUME NEW name \in DOMAIN reports, NEW g \in Groups
      PROVE  /\ Via(reports[name].system[m][g], v)
             /\ v = "stats" => Via(reports[name].tm[m][g], v)
  <2> DEFINE S == reports[name].system[m]
  <2> DEFINE T == reports[name].tm[m]
  <2> DEFINE a == scorer.artifact
  <2>1. /\ S \in {RightScores(a, v, name), NoGroupScores}
        /\ T \in {RightScores(a, w, TM), NoGroupScores}
    BY <1>1 DEF MetricRight, RightReport
  <2> HIDE DEF S, T, a
  <2>2. S[g] # None => S[g].via = v BY <2>1, ScoresAreOver
  <2>4. T[g] # None => T[g].via = w BY <2>1, ScoresAreOver
  <2>3. Via(S[g], v) /\ (v = "stats" => Via(T[g], v)) BY <2>2, <2>4, <1>1 DEF Via
  <2> QED BY <2>3 DEF S, T
<1> QED BY <1>1, <1>2

----------------------------------------------------------------------------
LEMMA ScoringInitially == ScoringInit => ScoringInv
BY DEF ScoringInit, ScoringInv, Scoring, Idle, BaselineOK, ReportsOK

LEMMA DropKeeps == Drop => ScoringInv'
<1> SUFFICES ASSUME Drop PROVE ScoringInv'
  OBVIOUS
<1>1. /\ scorer' = None /\ call' = Idle /\ reports' = None
      /\ use_stats' = [m \in MetricNames |-> FALSE]
  BY DEF Drop
<1>2. ~Scoring' BY <1>1 DEF Scoring, Idle
<1>3. use_stats' \in [MetricNames -> BOOLEAN] BY <1>1
<1>4. BaselineOK' BY <1>1, <1>2 DEF BaselineOK
<1>5. ReportsOK' BY <1>1 DEF ReportsOK
<1> QED BY <1>1, <1>2, <1>3, <1>4, <1>5 DEF ScoringInv

LEMMA ScoringStutters == ScoringInv /\ UNCHANGED scoringVars => ScoringInv'
<1> SUFFICES ASSUME ScoringInv, UNCHANGED scoringVars PROVE ScoringInv'
  OBVIOUS
<1>1. /\ scorer' = scorer /\ call' = call /\ reports' = reports /\ use_stats' = use_stats
  BY DEF scoringVars
<1>2. Scoring' = Scoring /\ ScorerOK' = ScorerOK BY <1>1 DEF Scoring, ScorerOK
<1>3. BaselineOK' = BaselineOK BY <1>1, <1>2 DEF BaselineOK
<1>4. ActiveNames' = ActiveNames BY <1>1 DEF ActiveNames
<1>5. CallShape' = CallShape /\ PartialOK' = PartialOK /\ RolesOK' = RolesOK
  BY <1>1, <1>4 DEF CallShape, PartialOK, RolesOK
<1>7. ResultsOK' = ResultsOK BY <1>1, <1>4 DEF ResultsOK, ViaOf
<1>8. ReportsOK' = ReportsOK BY <1>1 DEF ReportsOK, MetricRight
<1> QED BY <1>1, <1>2, <1>3, <1>5, <1>7, <1>8 DEF ScoringInv

LEMMA MetricsAreNames ==
  \A j \in 1..Len(Metrics) : Metrics[j] \in MetricNames
BY MetricsAssumption DEF MetricNames

(* A call begins without scores.                                           *)
LEMMA NewCallOK ==
  ASSUME NEW active \in Seq(AnyName), NEW hyps, call' = NewCall(active, hyps),
         {active[n] : n \in DOMAIN active} \subseteq DOMAIN hyps, DOMAIN hyps \subseteq AnyName,
         \A n \in DOMAIN active : RightHyps(scorer'.artifact, hyps[active[n]], active[n])
  PROVE  /\ CallShape' /\ PartialOK' /\ ResultsOK' /\ Scoring'
         /\ ActiveNames' = {active[n] : n \in DOMAIN active}
         /\ call'.hyps = hyps
<1>1. /\ call'.phase = "scoring" /\ call'.active = active /\ call'.hyps = hyps
      /\ call'.metric = IF active = <<>> THEN Len(Metrics) + 1 ELSE 1
      /\ call'.partial = <<>>
      /\ call'.results = [name \in DOMAIN hyps |-> NoScores]
  BY DEF NewCall
<1>2. call' = [phase |-> "scoring", active |-> call'.active, hyps |-> call'.hyps,
               metric |-> call'.metric, partial |-> call'.partial,
               results |-> call'.results]
  BY DEF NewCall
<1>3. Len(Metrics) \in Nat BY MetricsAssumption
<1>4. ActiveNames' = {active[n] : n \in DOMAIN active} BY <1>1 DEF ActiveNames
<1>5. CallShape' BY <1>1, <1>2, <1>3, <1>4 DEF CallShape
<1>6. PartialOK' BY <1>1 DEF PartialOK
<1>7. /\ NoScores \in AnyScores
      /\ \A j \in 1..Len(Metrics) : NoScores[Metrics[j]] = NoGroupScores
  BY MetricsAreNames DEF NoScores, AnyScores, AnyGroupScores, NoGroupScores
<1>8. ASSUME NEW j \in 1..Len(Metrics), NEW name \in ActiveNames'
      PROVE  ~(j < call'.metric)
  BY <1>1, <1>3, <1>4
<1>9. ResultsOK' BY <1>1, <1>7, <1>8 DEF ResultsOK
<1> QED BY <1>1, <1>4, <1>5, <1>6, <1>9 DEF Scoring

(* The outputs handed to a call are right.                                 *)
LEMMA HypsRight ==
  ASSUME NEW a, NEW name, NEW rows, DOMAIN rows = 1..Len(a.exposures), Len(a.exposures) \in Nat
  PROVE  RightHyps(a, Hyps(name, rows), name)
BY DEF RightHyps, Hyps, Segments

LEMMA SortedDomain ==
  ASSUME NEW a \in Artifacts, Acceptable(a)
  PROVE  /\ DOMAIN ByIndex(a.exposures) = 1..Len(a.exposures)
         /\ DOMAIN ByIndex(a.tm) = 1..Len(a.exposures)
         /\ \A n \in 1..Len(a.exposures) : ByIndex(a.tm)[n].index = n - 1
BY ArtifactRows, RowsSorted

LEMMA PrepareKeeps ==
  ASSUME ScoringInv, NEW a \in Artifacts, Prepare(a)
  PROVE  ScoringInv'
<1> DEFINE tm_rows == ByIndex(a.tm)
<1> DEFINE tm_hyp == [n \in DOMAIN tm_rows |-> Output(TM, tm_rows[n].index)]
<1> DEFINE hyps == [name \in {TM} |-> tm_hyp]
<1>1. /\ Acceptable(a) /\ reports' = None
      /\ use_stats' \in [MetricNames -> BOOLEAN]
      /\ scorer' = [artifact |-> a, exposures |-> ByIndex(a.exposures),
                    cached |-> TRUE, baseline |-> None]
      /\ call' = NewCall(<<TM>>, hyps)
  BY DEF Prepare
<1>2. ScorerOK' /\ scorer'.artifact = a /\ scorer'.cached /\ scorer'.baseline = None
  BY <1>1 DEF ScorerOK
<1>3. RightHyps(a, tm_hyp, TM)
  <2>1. /\ DOMAIN tm_rows = 1..Len(a.exposures) /\ Len(a.exposures) \in Nat
        /\ \A n \in 1..Len(a.exposures) : tm_rows[n].index = n - 1
    BY <1>1, SortedDomain, ArtifactRows
  <2> HIDE DEF tm_rows
  <2> QED BY <2>1 DEF RightHyps, Segments
<1> HIDE DEF tm_hyp
<1> DEFINE active == <<TM>>
<1>4. /\ hyps[TM] = tm_hyp /\ DOMAIN hyps = {TM} /\ TM \in AnyName
      /\ active \in Seq(AnyName) /\ {active[n] : n \in DOMAIN active} = {TM}
      /\ \A n \in DOMAIN active : active[n] = TM
  BY DEF AnyName
<1>a. call' = NewCall(active, hyps) BY <1>1
<1> HIDE DEF hyps, active
<1>5. \A n \in DOMAIN active : RightHyps(scorer'.artifact, hyps[active[n]], active[n])
  <2>1. RightHyps(scorer'.artifact, hyps[TM], TM) BY <1>2, <1>3, <1>4
  <2> QED BY <2>1, <1>4
<1>b. {active[n] : n \in DOMAIN active} \subseteq DOMAIN hyps /\ DOMAIN hyps \subseteq AnyName
  BY <1>4
<1>6. /\ CallShape' /\ PartialOK' /\ ResultsOK' /\ Scoring'
      /\ ActiveNames' = {TM} /\ call'.hyps = hyps
  BY <1>4, <1>5, <1>a, <1>b, NewCallOK
<1>7. RolesOK' BY <1>2, <1>4, <1>6 DEF RolesOK
<1>8. BaselineOK' BY <1>2 DEF BaselineOK
<1>9. ReportsOK' BY <1>1 DEF ReportsOK
<1> QED BY <1>1, <1>2, <1>6, <1>7, <1>8, <1>9 DEF ScoringInv

LEMMA ScoreManyKeeps ==
  ASSUME ScoringInv, NEW order \in Seq(AnyName), ScoreMany(order)
  PROVE  ScoringInv'
<1> DEFINE names == {order[n] : n \in DOMAIN order}
<1> DEFINE hyps == [name \in names |-> Hyps(name, scorer.exposures)]
<1>1. /\ call = Idle /\ scorer # None /\ scorer.cached
      /\ call' = NewCall(order, hyps) /\ reports' = None
      /\ UNCHANGED <<scorer, use_stats>>
  BY DEF ScoreMany
<1>2. ScorerOK /\ ScorerOK' /\ scorer.baseline # None /\ BaselineOK
  BY <1>1 DEF ScoringInv, Scoring, Idle, ScorerOK
<1>3. /\ DOMAIN scorer.exposures = 1..Len(scorer.artifact.exposures)
      /\ Len(scorer.artifact.exposures) \in Nat
  BY <1>2, SortedDomain, ArtifactRows DEF ScorerOK
<1>4. \A n \in DOMAIN order : RightHyps(scorer'.artifact, hyps[order[n]], order[n])
  BY <1>1, <1>3, HypsRight
<1>5. DOMAIN hyps = names /\ names \subseteq AnyName OBVIOUS
<1> HIDE DEF hyps
<1>6. /\ CallShape' /\ PartialOK' /\ ResultsOK' /\ Scoring'
      /\ ActiveNames' = names /\ call'.hyps = hyps
  BY <1>1, <1>4, <1>5, NewCallOK
<1>7. RolesOK' BY <1>1, <1>2, <1>5, <1>6 DEF RolesOK
<1>8. BaselineOK' BY <1>1, <1>2 DEF BaselineOK
<1>9. ReportsOK' BY <1>1 DEF ReportsOK
<1> QED BY <1>1, <1>2, <1>6, <1>7, <1>8, <1>9 DEF ScoringInv

LEMMA ScoreFreshKeeps ==
  ASSUME ScoringInv, NEW a \in Artifacts, NEW name \in Systems,
         NEW missing, NEW has_refs, ScoreFresh(a, name, missing, has_refs)
  PROVE  ScoringInv'
<1> DEFINE active == IF ~has_refs THEN <<>>
                     ELSE IF name \notin missing THEN <<name, TM>>
                     ELSE IF TM \notin missing THEN <<TM>> ELSE <<>>
<1> DEFINE hyps == [s \in {name, TM} |-> Hyps(s, a.exposures)]
<1>1. /\ Acceptable(a) /\ a.exposures = ByIndex(a.exposures) /\ reports' = None
      /\ use_stats' \in [MetricNames -> BOOLEAN]
      /\ scorer' = [artifact |-> a, exposures |-> a.exposures,
                    cached |-> FALSE, baseline |-> None]
      /\ call' = NewCall(active, hyps)
  BY DEF ScoreFresh
<1>2. ScorerOK' /\ scorer'.artifact = a /\ ~scorer'.cached
  BY <1>1 DEF ScorerOK
<1>3. \A s \in {name, TM} : RightHyps(a, hyps[s], s)
  BY <1>1, ArtifactRows, HypsRight
<1>4. /\ active \in Seq({name, TM}) /\ \A n \in DOMAIN active : active[n] \in {name, TM}
      /\ {name, TM} \subseteq AnyName
  <2>1. name \in {name, TM} /\ TM \in {name, TM} /\ {name, TM} \subseteq AnyName BY DEF AnyName
  <2> DEFINE S == {name, TM}
  <2> HIDE DEF S
  <2>a. name \in S /\ TM \in S BY DEF S
  <2>b. <<>> \in Seq(S) /\ <<TM>> \in Seq(S) /\ <<name, TM>> \in Seq(S) BY <2>a
  <2>2. active \in Seq({name, TM}) BY <2>b DEF S
  <2> HIDE DEF active
  <2> QED BY <2>1, <2>2
<1>a. active \in Seq(AnyName) /\ DOMAIN hyps = {name, TM} BY <1>4
<1> HIDE DEF active, hyps
<1>b. /\ {active[n] : n \in DOMAIN active} \subseteq DOMAIN hyps /\ DOMAIN hyps \subseteq AnyName
      /\ \A n \in DOMAIN active : RightHyps(scorer'.artifact, hyps[active[n]], active[n])
  BY <1>2, <1>3, <1>4, <1>a
<1>5. /\ CallShape' /\ PartialOK' /\ ResultsOK' /\ Scoring' /\ call'.hyps = hyps
  BY <1>1, <1>a, <1>b, NewCallOK
<1>6. RolesOK' BY <1>2, <1>4, <1>a, <1>5 DEF RolesOK
<1>7. BaselineOK' BY <1>2 DEF BaselineOK
<1>8. ReportsOK' BY <1>1 DEF ReportsOK
<1> QED BY <1>1, <1>2, <1>5, <1>6, <1>7, <1>8 DEF ScoringInv

----------------------------------------------------------------------------
(* A step inside a call that keeps the scorer and gives up statistics at   *)
(* most.                                                                   *)
LEMMA StepInCall ==
  ASSUME ScoringInv, Scoring, Scoring', scorer' = scorer, reports' = reports,
         use_stats' \in [MetricNames -> BOOLEAN],
         \A m \in MetricNames : use_stats'[m] => use_stats[m],
         CallShape', PartialOK', ResultsOK', RolesOK'
  PROVE  ScoringInv'
<1>1. ScorerOK' /\ reports' = None BY DEF ScoringInv, ScorerOK
<1>2. BaselineOK' BY DEF ScoringInv, BaselineOK
<1>3. ReportsOK' BY <1>1 DEF ReportsOK
<1> QED BY <1>1, <1>2, <1>3 DEF ScoringInv

LEMMA CallFacts ==
  ASSUME ScoringInv, Scoring
  PROVE  /\ ScorerOK /\ CallShape /\ PartialOK /\ ResultsOK /\ RolesOK /\ reports = None
         /\ Len(Metrics) \in Nat /\ call.metric \in Nat /\ Len(scorer.artifact.exposures) \in Nat
         /\ Len(call.partial) \in Nat /\ Len(call.active) \in Nat
         /\ DOMAIN call.active = 1..Len(call.active)
         /\ DOMAIN call.partial = 1..Len(call.partial)
         /\ use_stats \in [MetricNames -> BOOLEAN]
         /\ ~AllMetrics => call.metric \in 1..Len(Metrics) /\ Metric \in MetricNames
<1>1. /\ ScorerOK /\ CallShape /\ PartialOK /\ ResultsOK /\ RolesOK /\ reports = None
      /\ use_stats \in [MetricNames -> BOOLEAN]
  BY DEF ScoringInv
<1>2. Len(Metrics) \in Nat BY MetricsAssumption
<1>3. call.active \in Seq(AnyName) /\ call.metric \in 1..(Len(Metrics) + 1)
  BY <1>1 DEF CallShape
<1>4. call.partial \in Seq(AnyGroupScores) BY <1>1 DEF PartialOK
<1>5. Len(scorer.artifact.exposures) \in Nat BY <1>1, ArtifactRows DEF ScorerOK
<1>6. ~AllMetrics => call.metric \in 1..Len(Metrics) BY <1>2, <1>3 DEF AllMetrics
<1> QED BY <1>1, <1>2, <1>3, <1>4, <1>5, <1>6, MetricsAreNames DEF Metric

LEMMA ScoreSystemKeeps == ScoringInv /\ ScoreSystem => ScoringInv'
<1> SUFFICES ASSUME ScoringInv, ScoreSystem PROVE ScoringInv'
  OBVIOUS
<1> DEFINE n == Len(call.partial) + 1
<1> DEFINE new == GroupScores("stats", call.hyps[call.active[n]])
<1>1. /\ Scoring /\ Len(call.partial) < Len(call.active)
      /\ call' = [call EXCEPT !.partial = Append(call.partial, new)]
      /\ scorer' = scorer /\ use_stats' = use_stats /\ reports' = reports
  BY DEF ScoreSystem
<1> HIDE DEF new
<1>2. /\ call'.phase = "scoring" /\ call'.active = call.active /\ call'.hyps = call.hyps
      /\ call'.metric = call.metric /\ call'.results = call.results
      /\ call'.partial = Append(call.partial, new)
      /\ call' = [phase |-> "scoring", active |-> call'.active, hyps |-> call'.hyps,
                  metric |-> call'.metric, partial |-> call'.partial,
                  results |-> call'.results]
  <2>1. call = [phase |-> "scoring", active |-> call.active, hyps |-> call.hyps,
                metric |-> call.metric, partial |-> call.partial,
                results |-> call.results]
    BY <1>1, CallFacts DEF CallShape
  <2>2. call' = [phase |-> "scoring", active |-> call.active, hyps |-> call.hyps,
                 metric |-> call.metric, partial |-> Append(call.partial, new),
                 results |-> call.results]
    BY <1>1, <2>1
  <2> QED BY <2>2
<1>3. ActiveNames' = ActiveNames BY <1>2 DEF ActiveNames
<1>4. CallShape' BY <1>1, <1>2, <1>3, CallFacts DEF CallShape
<1>5. RolesOK' BY <1>1, <1>2, <1>3, CallFacts DEF RolesOK
<1>6. ResultsOK' BY <1>1, <1>2, <1>3, CallFacts DEF ResultsOK, ViaOf
<1>7. PartialOK'
  <2>1. n \in 1..Len(call.active) BY <1>1, CallFacts
  <2>2. call.active[n] \in ActiveNames BY <2>1, <1>1, CallFacts DEF ActiveNames
  <2>3. call.active[n] \in AnyName
    BY <2>2, <1>1, CallFacts DEF CallShape
  <2>4. new = RightScores(scorer.artifact, "stats", call.active[n])
    BY <2>2, <1>1, CallFacts, GroupScoresRight DEF CallShape, new
  <2>5. new \in AnyGroupScores
    BY <2>3, <2>4, <1>1, CallFacts, RightScoresTyped
  <2>6. /\ call.partial \in Seq(AnyGroupScores)
        /\ \A m \in 1..Len(call.partial) :
             call.partial[m] = RightScores(scorer.artifact, "stats", call.active[m])
    BY <1>1, CallFacts DEF PartialOK
  <2>7. /\ call'.partial \in Seq(AnyGroupScores) /\ Len(call'.partial) = n
        /\ \A m \in 1..Len(call.partial) : call'.partial[m] = call.partial[m]
        /\ call'.partial[n] = new
    BY <2>5, <2>6, <1>2
  <2>8. ASSUME NEW m \in 1..n
        PROVE  call'.partial[m] = RightScores(scorer.artifact, "stats", call.active[m])
    <3>1. m \in 1..Len(call.partial) \/ m = n BY <1>1, CallFacts
    <3> QED BY <3>1, <2>4, <2>6, <2>7
  <2> QED BY <2>1, <2>7, <2>8, <1>1, <1>2 DEF PartialOK
<1>8. Scoring' BY <1>2 DEF Scoring
<1> QED BY <1>1, <1>4, <1>5, <1>6, <1>7, <1>8, StepInCall, CallFacts

LEMMA StatsRaiseKeeps == ScoringInv /\ StatsRaise => ScoringInv'
<1> SUFFICES ASSUME ScoringInv, StatsRaise PROVE ScoringInv'
  OBVIOUS
<1>1. /\ Scoring /\ ~AllMetrics
      /\ use_stats' = [use_stats EXCEPT ![Metric] = FALSE]
      /\ scorer' = scorer /\ call' = call /\ reports' = reports
  BY DEF StatsRaise
<1>2. /\ use_stats' \in [MetricNames -> BOOLEAN]
      /\ \A m \in MetricNames : use_stats'[m] => use_stats[m]
      /\ \A m \in MetricNames : m # Metric => use_stats'[m] = use_stats[m]
  BY <1>1, CallFacts
<1>3. ActiveNames' = ActiveNames /\ Scoring' BY <1>1 DEF ActiveNames, Scoring
<1>4. CallShape' /\ PartialOK' /\ RolesOK'
  BY <1>1, <1>3, CallFacts DEF CallShape, PartialOK, RolesOK
<1>5. ASSUME NEW j \in 1..Len(Metrics), j < call.metric
      PROVE  ViaOf(Metrics[j])' = ViaOf(Metrics[j])
  <2>1. Metrics[j] # Metric
    BY <1>1, <1>5, CallFacts, MetricsAssumption DEF Metric
  <2> QED BY <2>1, <1>2, MetricsAreNames DEF ViaOf
<1>6. ResultsOK' BY <1>1, <1>3, <1>5, CallFacts DEF ResultsOK
<1> QED BY <1>1, <1>2, <1>3, <1>4, <1>6, StepInCall

(* A metric that every active system has right scores for is finished.     *)
LEMMA WithMetricKeeps ==
  ASSUME ScoringInv, Scoring, ~AllMetrics, NEW scores, call' = WithMetric(scores),
         \A name \in ActiveNames :
           scores[name] = RightScores(scorer.artifact, ViaOf(Metric), name),
         scorer' = scorer, use_stats' = use_stats, reports' = reports
  PROVE  ScoringInv'
<1> DEFINE new == [name \in DOMAIN call.results |->
                    IF name \in ActiveNames
                    THEN [call.results[name] EXCEPT ![Metric] = scores[name]]
                    ELSE call.results[name]]
<1>1. call' = [call EXCEPT !.metric = call.metric + 1, !.partial = <<>>, !.results = new]
  BY DEF WithMetric, ActiveNames
<1> HIDE DEF new
<1>2. /\ call'.phase = "scoring" /\ call'.active = call.active /\ call'.hyps = call.hyps
      /\ call'.metric = call.metric + 1 /\ call'.partial = <<>> /\ call'.results = new
      /\ call' = [phase |-> "scoring", active |-> call'.active, hyps |-> call'.hyps,
                  metric |-> call'.metric, partial |-> call'.partial,
                  results |-> call'.results]
  <2>1. call = [phase |-> "scoring", active |-> call.active, hyps |-> call.hyps,
                metric |-> call.metric, partial |-> call.partial,
                results |-> call.results]
    BY CallFacts DEF CallShape
  <2> DEFINE next == call.metric + 1
  <2>2. call' = [call EXCEPT !.metric = next, !.partial = <<>>, !.results = new] BY <1>1
  <2> HIDE DEF next
  <2>3. call' = [phase |-> "scoring", active |-> call.active, hyps |-> call.hyps,
                 metric |-> next, partial |-> <<>>, results |-> new]
    <3>1. /\ DOMAIN call = {"phase", "active", "hyps", "metric", "partial", "results"}
          /\ call.phase = "scoring"
      BY <2>1
    <3>2. call' = [f \in DOMAIN call |-> call'[f]] BY <2>2
    <3>3. call'.phase = call.phase /\ call'.active = call.active /\ call'.hyps = call.hyps
      BY <2>2, <3>1
    <3>4. call'.metric = next BY <2>2, <3>1
    <3>5. call'.partial = <<>> BY <2>2, <3>1
    <3>6. call'.results = new BY <2>2, <3>1
    <3> QED BY <3>1, <3>2, <3>3, <3>4, <3>5, <3>6
  <2>4. /\ call'.phase = "scoring" /\ call'.active = call.active /\ call'.hyps = call.hyps
        /\ call'.metric = next /\ call'.partial = <<>> /\ call'.results = new
        /\ call' = [phase |-> "scoring", active |-> call'.active, hyps |-> call'.hyps,
                    metric |-> call'.metric, partial |-> call'.partial,
                    results |-> call'.results]
    BY <2>3
  <2> QED BY <2>4 DEF next
<1>3. ActiveNames' = ActiveNames BY <1>2 DEF ActiveNames
<1>4. CallShape' BY <1>2, <1>3, CallFacts DEF CallShape
<1>5. RolesOK' BY <1>2, <1>3, CallFacts DEF RolesOK
<1>6. PartialOK' BY <1>2, CallFacts DEF PartialOK
<1>7. Scoring' BY <1>2 DEF Scoring
<1>8. DOMAIN call'.results = DOMAIN call'.hyps
  BY <1>2, CallFacts DEF ResultsOK, new
<1>9. ASSUME NEW name \in DOMAIN call.hyps
      PROVE  /\ new[name] \in AnyScores
             /\ \A j \in 1..Len(Metrics) :
                  new[name][Metrics[j]] =
                    IF j < call.metric + 1 /\ name \in ActiveNames
                    THEN RightScores(scorer.artifact, ViaOf(Metrics[j]), name)
                    ELSE NoGroupScores
  <2> DEFINE old == call.results[name]
  <2>1. /\ old \in AnyScores
        /\ \A j \in 1..Len(Metrics) :
             old[Metrics[j]] = IF j < call.metric /\ name \in ActiveNames
                               THEN RightScores(scorer.artifact, ViaOf(Metrics[j]), name)
                               ELSE NoGroupScores
    BY CallFacts DEF ResultsOK
  <2>2. new[name] = IF name \in ActiveNames THEN [old EXCEPT ![Metric] = scores[name]] ELSE old
    BY CallFacts DEF ResultsOK, new
  <2>3. call.metric \in 1..Len(Metrics) /\ Metric \in MetricNames /\ Metric = Metrics[call.metric]
    BY CallFacts DEF Metric
  <2> HIDE DEF old
  <2>4. CASE name \notin ActiveNames
    BY <2>1, <2>2, <2>4
  <2>5. CASE name \in ActiveNames
    <3>1. name \in AnyName BY <2>5, CallFacts DEF CallShape
    <3>2. ViaOf(Metric) \in {"stats", "public"} BY DEF ViaOf
    <3>3. scores[name] \in AnyGroupScores
      BY <2>5, <3>1, <3>2, CallFacts, RightScoresTyped
    <3>4. new[name] \in AnyScores
      BY <2>1, <2>2, <2>5, <3>3 DEF AnyScores
    <3>5. ASSUME NEW j \in 1..Len(Metrics)
          PROVE  new[name][Metrics[j]] =
                   IF j < call.metric + 1
                   THEN RightScores(scorer.artifact, ViaOf(Metrics[j]), name)
                   ELSE NoGroupScores
      <4>1. Metrics[j] \in MetricNames BY MetricsAreNames
      <4>2. CASE j = call.metric
        <5>1. new[name][Metrics[j]] = scores[name]
          BY <2>1, <2>2, <2>3, <2>5, <4>1, <4>2 DEF AnyScores
        <5>2. j < call.metric + 1 /\ Metric = Metrics[j] BY <4>2, <2>3
        <5> QED BY <5>1, <5>2, <2>5
      <4>3. CASE j # call.metric
        <5>1. Metrics[j] # Metric BY <4>3, <2>3, MetricsAssumption
        <5>2. new[name][Metrics[j]] = old[Metrics[j]]
          BY <5>1, <2>1, <2>2, <2>3, <2>5, <4>1 DEF AnyScores
        <5>3. j < call.metric + 1 <=> j < call.metric BY <4>3, <2>3
        <5> QED BY <5>2, <5>3, <2>1, <2>5
      <4> QED BY <4>2, <4>3
    <3> QED BY <3>4, <3>5, <2>5
  <2> QED BY <2>4, <2>5
<1>10. \A m : (use_stats[m])' = use_stats[m] OBVIOUS
<1>11. ResultsOK'
  BY <1>2, <1>3, <1>8, <1>9 DEF ResultsOK, ViaOf
<1> QED BY <1>4, <1>5, <1>6, <1>7, <1>11, StepInCall, CallFacts

LEMMA FinishMetricKeeps == ScoringInv /\ FinishMetric => ScoringInv'
<1> SUFFICES ASSUME ScoringInv, FinishMetric PROVE ScoringInv'
  OBVIOUS
<1> DEFINE scores == [name \in ActiveNames |-> call.partial[Position(name)]]
<1>1. /\ Scoring /\ ~AllMetrics /\ use_stats[Metric]
      /\ Len(call.partial) = Len(call.active)
      /\ call' = WithMetric(scores)
      /\ scorer' = scorer /\ use_stats' = use_stats /\ reports' = reports
  BY DEF FinishMetric, ActiveNames
<1>2. ASSUME NEW name \in ActiveNames
      PROVE  scores[name] = RightScores(scorer.artifact, ViaOf(Metric), name)
  <2>1. \E n \in DOMAIN call.active : call.active[n] = name BY DEF ActiveNames
  <2>2. Position(name) \in DOMAIN call.active /\ call.active[Position(name)] = name
    BY <2>1 DEF Position
  <2>3. Position(name) \in 1..Len(call.partial) BY <2>2, <1>1, CallFacts
  <2>4. call.partial[Position(name)] = RightScores(scorer.artifact, "stats", name)
    BY <2>2, <2>3, <1>1, CallFacts DEF PartialOK
  <2> QED BY <2>4, <1>1 DEF ViaOf
<1> HIDE DEF scores
<1> QED BY <1>1, <1>2, WithMetricKeeps

LEMMA ScorePubliclyKeeps == ScoringInv /\ ScorePublicly => ScoringInv'
<1> SUFFICES ASSUME ScoringInv, ScorePublicly PROVE ScoringInv'
  OBVIOUS
<1> DEFINE scores == [name \in ActiveNames |-> GroupScores("public", call.hyps[name])]
<1>1. /\ Scoring /\ ~AllMetrics /\ ~use_stats[Metric]
      /\ call' = WithMetric(scores)
      /\ scorer' = scorer /\ use_stats' = use_stats /\ reports' = reports
  BY DEF ScorePublicly, ActiveNames
<1>2. ASSUME NEW name \in ActiveNames
      PROVE  scores[name] = RightScores(scorer.artifact, ViaOf(Metric), name)
  <2>1. RightHyps(scorer.artifact, call.hyps[name], name)
    BY <1>1, CallFacts DEF CallShape
  <2>2. GroupScores("public", call.hyps[name]) = RightScores(scorer.artifact, "public", name)
    BY <2>1, <1>1, CallFacts, GroupScoresRight
  <2> QED BY <2>2, <1>1 DEF ViaOf
<1> HIDE DEF scores
<1> QED BY <1>1, <1>2, WithMetricKeeps

LEMMA PublicRaiseKeeps == ScoringInv /\ PublicRaise => ScoringInv'
<1> SUFFICES ASSUME ScoringInv, PublicRaise PROVE ScoringInv'
  OBVIOUS
<1>1. /\ Scoring /\ call' = Idle
      /\ scorer' = IF scorer.baseline = None THEN None ELSE scorer
      /\ use_stats' = use_stats /\ reports' = reports
  BY DEF PublicRaise
<1>2. ~Scoring' BY <1>1 DEF Scoring, Idle
<1>3. reports' = None BY <1>1, CallFacts
<1>4. ReportsOK' BY <1>3 DEF ReportsOK
<1>5. use_stats' \in [MetricNames -> BOOLEAN] BY <1>1, CallFacts
<1>6. CASE scorer.baseline = None
  <2>1. scorer' = None BY <1>1, <1>6
  <2>2. BaselineOK' BY <2>1, <1>2 DEF BaselineOK
  <2> QED BY <2>1, <2>2, <1>2, <1>3, <1>4, <1>5 DEF ScoringInv
<1>7. CASE scorer.baseline # None
  <2>1. scorer' = scorer BY <1>1, <1>7
  <2>2. ScorerOK' BY <2>1, <1>1, CallFacts DEF ScorerOK
  <2>3. BaselineOK' BY <2>1, <1>1 DEF ScoringInv, BaselineOK
  <2>4. scorer'.baseline # None BY <2>1, <1>7
  <2> QED BY <2>2, <2>3, <2>4, <1>2, <1>3, <1>4, <1>5 DEF ScoringInv
<1> QED BY <1>6, <1>7

----------------------------------------------------------------------------
(* All metrics are finished: the results are those of the interfaces they  *)
(* ended at.                                                               *)
LEMMA ResultsDone ==
  ASSUME ScoringInv, Scoring, AllMetrics, NEW name \in DOMAIN call.hyps
  PROVE  /\ call.results[name] \in AnyScores /\ call.results[name] # None
         /\ \A m \in MetricNames :
              call.results[name][m] = IF name \in ActiveNames
                                      THEN RightScores(scorer.artifact, ViaOf(m), name)
                                      ELSE NoGroupScores
<1>1. call.results[name] \in AnyScores BY CallFacts DEF ResultsOK
<1>2. None \notin AnyScores
  BY NoneAssumption DEF AnyScores, AnyGroupScores, AnyScore, AnyName
<1>3. ASSUME NEW m \in MetricNames
      PROVE  call.results[name][m] = IF name \in ActiveNames
                                     THEN RightScores(scorer.artifact, ViaOf(m), name)
                                     ELSE NoGroupScores
  <2>1. PICK j \in 1..Len(Metrics) : m = Metrics[j] BY MetricsAssumption DEF MetricNames
  <2>2. j < call.metric BY CallFacts DEF AllMetrics
  <2> QED BY <2>1, <2>2, CallFacts DEF ResultsOK
<1> QED BY <1>1, <1>2, <1>3

LEMMA ReportIsRight ==
  ASSUME NEW a, NEW complete, NEW s, NEW t, NEW m \in MetricNames,
         NEW name, NEW v, NEW w,
         s[m] \in {RightScores(a, v, name), NoGroupScores},
         t[m] \in {RightScores(a, w, TM), NoGroupScores},
         complete => s[m] = RightScores(a, v, name) /\ t[m] = RightScores(a, w, TM)
  PROVE  RightReport(a, complete, Report(s, t), m, name, v, w)
<1>1. /\ Report(s, t).system = s /\ Report(s, t).tm = t
      /\ Report(s, t).delta[m] = [g \in Groups |-> Delta(s[m][g], t[m][g])]
      /\ Report(s, t).gap[m] = Delta(s[m]["near"], s[m]["far"])
  BY DEF Report
<1> QED BY <1>1 DEF RightReport

LEMMA FinishCallKeeps == ScoringInv /\ FinishCall => ScoringInv'
<1> SUFFICES ASSUME ScoringInv, FinishCall PROVE ScoringInv'
  OBVIOUS
<1> DEFINE a == scorer.artifact
<1> DEFINE results == call.results
<1>1. /\ Scoring /\ AllMetrics /\ call' = Idle /\ use_stats' = use_stats
  BY DEF FinishCall
<1>2. /\ ~Scoring' /\ use_stats' \in [MetricNames -> BOOLEAN]
      /\ ScorerOK /\ reports = None /\ DOMAIN results = DOMAIN call.hyps
      /\ DOMAIN call.hyps \subseteq AnyName /\ RolesOK
  BY <1>1, CallFacts DEF Scoring, Idle, ResultsOK, CallShape
<1>3. \A m : ViaOf(m)' = ViaOf(m) BY <1>1 DEF ViaOf
<1>4. \A m : ViaOf(m) \in {"stats", "public"} BY DEF ViaOf
<1>5. CASE ~scorer.cached
  <2>1. /\ reports' = [name \in DOMAIN results \ {TM} |-> Report(results[name], results[TM])]
        /\ scorer' = [scorer EXCEPT !.baseline = results[TM]]
    BY <1>5 DEF FinishCall
  <2>2. TM \in DOMAIN call.hyps BY <1>2, <1>5 DEF RolesOK
  <2>3. results[TM] # None BY <1>1, <2>2, ResultsDone
  <2>4. /\ ScorerOK' /\ scorer'.artifact = a /\ scorer'.cached = scorer.cached
        /\ scorer'.baseline = results[TM]
    <3>1. scorer' = [artifact |-> scorer.artifact, exposures |-> scorer.exposures,
                     cached |-> scorer.cached, baseline |-> results[TM]]
      BY <2>1, <1>2 DEF ScorerOK
    <3> QED BY <3>1, <1>2, <1>5 DEF ScorerOK
  <2>5. BaselineOK' BY <2>4, <1>5 DEF BaselineOK
  <2>6. ASSUME NEW m \in MetricNames, NEW name \in DOMAIN reports'
        PROVE  MetricRight(reports[name], m, name, ViaOf(m), ViaOf(m))'
    <3>1. name \in DOMAIN call.hyps /\ reports'[name] = Report(results[name], results[TM])
      BY <2>1, <1>2
    <3>2. /\ results[name][m] \in {RightScores(a, ViaOf(m), name), NoGroupScores}
          /\ results[TM][m] \in {RightScores(a, ViaOf(m), TM), NoGroupScores}
      BY <1>1, <3>1, <2>2, ResultsDone
    <3>3. RightReport(a, scorer.cached, Report(results[name], results[TM]),
                      m, name, ViaOf(m), ViaOf(m))
      BY <3>2, <1>5, ReportIsRight
    <3>4. RightReport(scorer'.artifact, scorer'.cached, reports'[name],
                      m, name, ViaOf(m), ViaOf(m))
      BY <3>1, <3>3, <2>4
    <3> HIDE DEF results, a
    <3> QED BY <3>4, <1>3 DEF MetricRight
  <2>7. ReportsOK'
    <3>1. DOMAIN reports' \subseteq AnyName BY <2>1, <1>2
    <3> QED BY <3>1, <2>6, <1>3, <1>4 DEF ReportsOK
  <2> QED BY <1>2, <2>3, <2>4, <2>5, <2>7 DEF ScoringInv
<1>6. CASE scorer.cached /\ scorer.baseline = None
  <2>1. scorer' = [scorer EXCEPT !.baseline = results[TM]] /\ reports' = None
    BY <1>2, <1>6 DEF FinishCall
  <2>2. TM \in DOMAIN call.hyps /\ TM \in ActiveNames BY <1>2, <1>6 DEF RolesOK
  <2>3. results[TM] # None BY <1>1, <2>2, ResultsDone
  <2>4. ScorerOK' /\ scorer'.artifact = a /\ scorer'.baseline = results[TM]
    <3>1. scorer' = [artifact |-> scorer.artifact, exposures |-> scorer.exposures,
                     cached |-> scorer.cached, baseline |-> results[TM]]
      BY <2>1, <1>2 DEF ScorerOK
    <3> QED BY <3>1, <1>2 DEF ScorerOK
  <2>5. ASSUME NEW m \in MetricNames
        PROVE  /\ ViaOf(m) = "stats" \/ ~(use_stats[m])'
               /\ scorer'.baseline[m] = RightScores(scorer'.artifact, ViaOf(m), TM)
    <3>1. results[TM][m] = RightScores(a, ViaOf(m), TM) BY <1>1, <2>2, ResultsDone
    <3> QED BY <3>1, <2>4, <1>1 DEF ViaOf
  <2>6. BaselineOK' BY <2>5, <1>4 DEF BaselineOK
  <2>7. ReportsOK' BY <2>1 DEF ReportsOK
  <2> QED BY <1>2, <2>1, <2>3, <2>4, <2>6, <2>7 DEF ScoringInv
<1>7. CASE scorer.cached /\ scorer.baseline # None
  <2>1. /\ reports' = [name \in DOMAIN results |-> Report(results[name], scorer.baseline)]
        /\ scorer' = scorer
    BY <1>7 DEF FinishCall
  <2>2. ActiveNames = DOMAIN call.hyps BY <1>2, <1>7 DEF RolesOK
  <2>3. ScorerOK' BY <2>1, <1>2 DEF ScorerOK
  <2>4. BaselineOK BY DEF ScoringInv
  <2>5. BaselineOK' BY <2>1, <2>4, <1>1 DEF BaselineOK
  <2>6. ASSUME NEW m \in MetricNames
        PROVE  \E v, w \in {"stats", "public"} :
                 /\ v = "stats" => w = "stats"
                 /\ \A name \in DOMAIN reports' : MetricRight(reports[name], m, name, v, w)'
    <3>1. PICK w : /\ w \in {"stats", "public"}
                   /\ w = "stats" \/ ~use_stats[m]
                   /\ scorer.baseline[m] = RightScores(a, w, TM)
      BY <2>4, <1>1, <1>7 DEF BaselineOK
    <3>2. ViaOf(m) = "stats" => w = "stats" BY <3>1 DEF ViaOf
    <3>3. ASSUME NEW name \in DOMAIN reports'
          PROVE  MetricRight(reports[name], m, name, ViaOf(m), w)'
      <4>1. name \in DOMAIN call.hyps /\ reports'[name] = Report(results[name], scorer.baseline)
        BY <2>1, <1>2
      <4>2. results[name][m] = RightScores(a, ViaOf(m), name)
        BY <1>1, <4>1, <2>2, ResultsDone
      <4>3. RightReport(a, scorer.cached, Report(results[name], scorer.baseline), m, name, ViaOf(m), w)
        BY <4>2, <3>1, ReportIsRight
      <4>4. RightReport(scorer'.artifact, scorer'.cached, reports'[name], m, name, ViaOf(m), w)
        BY <4>1, <4>3, <2>1
      <4> HIDE DEF results, a
      <4> QED BY <4>4, <1>3 DEF MetricRight
    <3> QED BY <3>1, <3>2, <3>3, <1>3, <1>4
  <2>7. ReportsOK'
    <3>1. DOMAIN reports' \subseteq AnyName BY <2>1, <1>2
    <3> QED BY <3>1, <2>6 DEF ReportsOK
  <2> QED BY <1>2, <1>7, <2>1, <2>3, <2>5, <2>7 DEF ScoringInv
<1> QED BY <1>5, <1>6, <1>7

LEMMA ScoringStepKeeps == ScoringInv /\ ScoringStep => ScoringInv'
BY ScoreSystemKeeps, FinishMetricKeeps, StatsRaiseKeeps, ScorePubliclyKeeps,
   PublicRaiseKeeps, FinishCallKeeps DEF ScoringStep

(***************************************************************************)
(* The processes that hold a scorer.                                       *)
(***************************************************************************)
(* What a batch has written is a prefix of what it was asked for, each     *)
(* report under a name it has used; and the file that is open is none of   *)
(* them.                                                                   *)
WrittenOK ==
  /\ Len(batch.written) <= Len(batch.order)
  /\ \A n \in 1..Len(batch.written) :
       /\ batch.written[n] = batch.order[n]
       /\ Stem(batch.order[n]) \in batch.used \cap Stems
       /\ disk[Stem(batch.order[n])] = [run |-> batch.run, system |-> batch.order[n]]
  /\ batch.open =>
       /\ Len(batch.written) < Len(batch.order)
       /\ Stem(Current) \in batch.used \cap Stems
       /\ \A n \in 1..Len(batch.written) : Stem(batch.order[n]) # Stem(Current)

BatchShape ==
  /\ batch = [phase |-> batch.phase, run |-> batch.run, order |-> batch.order,
              used |-> batch.used, written |-> batch.written, open |-> batch.open]
  /\ batch.order \in Seq(AnyName)
  /\ batch.phase # "prepare" => batch.order \in Seq(Systems)
  /\ batch.written \in Seq(AnyName)
  /\ batch.phase \in {"prepare", "score"} => batch.written = <<>> /\ batch.open = FALSE
  /\ batch.phase = "done" => Len(batch.written) = Len(batch.order)

BatchInv ==
  /\ DOMAIN disk = Stems
  /\ batch.phase \in {"prepare", "score", "write", "done"} => BatchShape /\ WrittenOK

(* A run that was to be validated has its verdict before it goes on.       *)
AuditInv ==
  /\ DOMAIN files = Outputs
  /\ audit.phase \in {"evaluate", "validate", "attach", "write", "done"} =>
       audit = [phase |-> audit.phase, run |-> audit.run, request |-> audit.request,
                ran |-> audit.ran, verdict |-> audit.verdict, written |-> audit.written]
  /\ audit.phase \in {"attach", "write", "done"} /\ audit.request.sample > 0 =>
       /\ audit.verdict.done
       /\ audit.verdict.failures # {} => audit.request.allow
  /\ NoUnmarkedFailure

(* Once built, the pool is the one that was asked for, that is reported    *)
(* and that queries ran on.                                                *)
ThreadsInv ==
  /\ asked # AutoThreads => pool = asked /\ pool # NoPool
  /\ reported # None => pool = reported /\ pool # NoPool
  /\ audit.phase \in {"validate", "attach", "write", "done"} =>
       pool # NoPool /\ audit.ran = {pool}
  /\ audit.phase \in {"write", "done"} => reported = pool
----------------------------------------------------------------------------
(* What a step of the process does to the scorer.                          *)
LEMMA ScorerSteps ==
  ASSUME BatchInv, ScoringInv, [Next]_vars
  PROVE  ScoringInv'
<1>1. Orders \subseteq Seq(AnyName) BY OrdersAssumption DEF AnyName
<1>2. CASE UNCHANGED scoringVars BY <1>2, ScoringStutters
<1>3. CASE ScoringStep BY <1>3, ScoringStepKeeps
<1>4. CASE Drop BY <1>4, DropKeeps
<1>5. CASE \E a \in Artifacts : Prepare(a) BY <1>5, PrepareKeeps
<1>6. CASE \E order \in Orders : ScoreMany(order) BY <1>1, <1>6, ScoreManyKeeps
<1>7. CASE batch.phase = "prepare" /\ ScoreMany(batch.order)
  <2>1. batch.order \in Seq(AnyName) BY <1>7 DEF BatchInv, BatchShape
  <2> QED BY <2>1, <1>7, ScoreManyKeeps
<1>8. CASE \E a \in Artifacts, name \in Systems, missing \in SUBSET (Systems \cup {TM}),
             has_refs \in BOOLEAN : ScoreFresh(a, name, missing, has_refs)
  BY <1>8, ScoreFreshKeeps
<1>9. CASE StartBatch
  <2>1. UNCHANGED scoringVars \/ \E a \in Artifacts : Prepare(a) BY <1>9 DEF StartBatch
  <2> QED BY <2>1, <1>2, <1>5
<1>10. CASE ScoreBatch
  <2>1. (batch.phase = "prepare" /\ ScoreMany(batch.order)) \/ Drop BY <1>10 DEF ScoreBatch
  <2> QED BY <2>1, <1>4, <1>7
<1>11. CASE StartWriting \/ OpenReport \/ WriteReport
  <2>1. UNCHANGED scoringVars BY <1>11 DEF StartWriting, OpenReport, WriteReport
  <2> QED BY <2>1, <1>2
<1>12. CASE RefuseName \/ FinishBatch \/ StopBatch \/ CloseSession
  <2>1. Drop BY <1>12 DEF RefuseName, FinishBatch, StopBatch, CloseSession
  <2> QED BY <2>1, <1>4
<1>13. CASE OpenSession
  <2>1. \/ \E a \in Artifacts : Prepare(a)
        \/ \E a \in Artifacts, name \in Systems, missing \in SUBSET (Systems \cup {TM}),
              has_refs \in BOOLEAN : ScoreFresh(a, name, missing, has_refs)
    BY <1>13 DEF OpenSession
  <2> QED BY <2>1, <1>5, <1>8
<1>14. CASE CallAgain
  <2>1. \E order \in Orders : ScoreMany(order) BY <1>14 DEF CallAgain
  <2> QED BY <2>1, <1>6
<1>15. CASE RefuseThreads \/ StartAudit
  <2>1. UNCHANGED scoringVars BY <1>15 DEF RefuseThreads, StartAudit
  <2> QED BY <2>1, <1>2
<1>16. CASE Evaluate \/ Validate \/ AttachPerformance \/ WriteOutput \/ RefuseClash
            \/ FinishAudit \/ StopAudit
  <2>1. Audits
    BY <1>16 DEF Evaluate, Validate, AttachPerformance, WriteOutput, RefuseClash,
                 FinishAudit, StopAudit
  <2> QED BY <2>1, <1>2 DEF Audits, batchVars
<1>17. CASE BatchSteps BY <1>17, <1>10, <1>11, <1>12, <1>14 DEF BatchSteps
<1>18. CASE OtherQuery BY <1>18, <1>2 DEF OtherQuery, batchVars
<1>19. CASE UNCHANGED vars BY <1>19, <1>2 DEF vars, batchVars
<1> QED
  BY <1>3, <1>9, <1>11, <1>13, <1>15, <1>16, <1>17, <1>18, <1>19
  DEF Next, RunBatch, AttachToBatch, ScoringSteps, Scorers, Session, Done

(* The batch that is running goes on alike when only other state changes.  *)
LEMMA BatchUntouched == BatchInv /\ UNCHANGED <<batch, disk>> => BatchInv'
BY DEF BatchInv, BatchShape, WrittenOK, Current

LEMMA BatchEnds ==
  ASSUME BatchInv, UNCHANGED disk, batch'.phase \in {"none", "refused", "stopped"}
  PROVE  BatchInv'
BY DEF BatchInv

LEMMA StartBatchKeeps == BatchInv /\ StartBatch => BatchInv'
<1> SUFFICES ASSUME BatchInv, StartBatch PROVE BatchInv'
  OBVIOUS
<1>1. CASE batch' = Refused BY <1>1, BatchEnds DEF StartBatch, Refused
<1>2. CASE batch' # Refused
  <2>1. PICK order \in Orders :
          batch' = [phase |-> "prepare", run |-> runs + 1, order |-> order,
                    used |-> {}, written |-> <<>>, open |-> FALSE]
    BY <1>2 DEF StartBatch
  <2>2. order \in Seq(AnyName) /\ Len(order) \in Nat BY <2>1, OrdersAssumption DEF AnyName
  <2> DEFINE run == runs + 1
  <2>3. batch' = [phase |-> "prepare", run |-> run, order |-> order,
                  used |-> {}, written |-> <<>>, open |-> FALSE]
    BY <2>1
  <2> HIDE DEF run
  <2>4. /\ batch'.phase = "prepare" /\ batch'.order = order /\ batch'.written = <<>>
        /\ batch'.open = FALSE
    BY <2>3
  <2>5. BatchShape' BY <2>2, <2>3, <2>4 DEF BatchShape
  <2>6. WrittenOK' BY <2>2, <2>4 DEF WrittenOK
  <2>7. disk' = disk BY DEF StartBatch
  <2> QED BY <2>5, <2>6, <2>7 DEF BatchInv
<1> QED BY <1>1, <1>2

(* The record of a batch in which one field changes.                       *)
LEMMA BatchFacts ==
  ASSUME BatchInv, batch.phase \in {"prepare", "score", "write", "done"}
  PROVE  /\ BatchShape /\ WrittenOK
         /\ Len(batch.order) \in Nat /\ DOMAIN batch.order = 1..Len(batch.order)
         /\ Len(batch.written) \in Nat /\ DOMAIN batch.written = 1..Len(batch.written)
<1>1. BatchShape /\ WrittenOK BY DEF BatchInv
<1>2. batch.order \in Seq(AnyName) /\ batch.written \in Seq(AnyName) BY <1>1 DEF BatchShape
<1> QED BY <1>1, <1>2

LEMMA ScoreBatchKeeps == BatchInv /\ ScoreBatch => BatchInv'
<1> SUFFICES ASSUME BatchInv, ScoreBatch PROVE BatchInv'
  OBVIOUS
<1>1. batch.phase = "prepare" /\ disk' = disk BY DEF ScoreBatch
<1>2. CASE batch' = Refused BY <1>1, <1>2, BatchEnds DEF Refused
<1>3. CASE ScoreMany(batch.order) /\ batch' = [batch EXCEPT !.phase = "score"]
  <2>1. \A n \in 1..Len(batch.order) : batch.order[n] \in Systems
    <3>1. /\ batch.order \in Seq(AnyName)
          /\ \A n \in DOMAIN batch.order : batch.order[n] # TM
      BY <1>1, <1>3, BatchFacts DEF ScoreMany, BatchShape
    <3> QED BY <3>1 DEF AnyName
  <2>2. batch.order \in Seq(Systems)
    <3>1. batch.order \in Seq(AnyName) BY <1>1, BatchFacts DEF BatchShape
    <3> QED BY <3>1, <2>1
  <2>3. batch' = [phase |-> "score", run |-> batch.run, order |-> batch.order,
                  used |-> batch.used, written |-> batch.written, open |-> batch.open]
    BY <1>1, <1>3, BatchFacts DEF BatchShape
  <2>4. /\ batch'.phase = "score" /\ batch'.run = batch.run /\ batch'.order = batch.order
        /\ batch'.used = batch.used /\ batch'.written = batch.written
        /\ batch'.open = batch.open
    BY <2>3
  <2>5. batch.written = <<>> /\ batch.open = FALSE BY <1>1, BatchFacts DEF BatchShape
  <2>6. BatchShape' BY <1>1, <2>2, <2>3, <2>4, <2>5, BatchFacts DEF BatchShape
  <2>7. WrittenOK' BY <1>1, <2>4, <2>5, BatchFacts DEF WrittenOK
  <2> QED BY <1>1, <2>6, <2>7 DEF BatchInv
<1> QED BY <1>2, <1>3 DEF ScoreBatch

LEMMA StartWritingKeeps == BatchInv /\ StartWriting => BatchInv'
<1> SUFFICES ASSUME BatchInv, StartWriting PROVE BatchInv'
  OBVIOUS
<1>1. /\ batch.phase = "score" /\ disk' = disk /\ batch' = [batch EXCEPT !.phase = "write"]
  BY DEF StartWriting
<1>2. batch' = [phase |-> "write", run |-> batch.run, order |-> batch.order,
                used |-> batch.used, written |-> batch.written, open |-> batch.open]
  BY <1>1, BatchFacts DEF BatchShape
<1>3. /\ batch'.phase = "write" /\ batch'.run = batch.run /\ batch'.order = batch.order
      /\ batch'.used = batch.used /\ batch'.written = batch.written /\ batch'.open = batch.open
  BY <1>2
<1>4. batch.written = <<>> /\ batch.open = FALSE BY <1>1, BatchFacts DEF BatchShape
<1>5. BatchShape' BY <1>1, <1>2, <1>3, BatchFacts DEF BatchShape
<1>6. WrittenOK' BY <1>1, <1>3, <1>4, BatchFacts DEF WrittenOK
<1> QED BY <1>1, <1>5, <1>6 DEF BatchInv

LEMMA OpenReportKeeps == BatchInv /\ OpenReport => BatchInv'
<1> SUFFICES ASSUME BatchInv, OpenReport PROVE BatchInv'
  OBVIOUS
<1> DEFINE stem == Stem(Current)
<1>1. /\ batch.phase = "write" /\ Len(batch.written) < Len(batch.order)
      /\ stem # None /\ stem \notin batch.used
      /\ disk' = [disk EXCEPT ![stem] = Torn]
      /\ batch' = [batch EXCEPT !.used = batch.used \cup {stem}, !.open = TRUE]
  BY DEF OpenReport, Writing, Clashes
<1>2. stem \in Stems
  <2>1. batch.order \in Seq(Systems) BY <1>1, BatchFacts DEF BatchShape
  <2>2. Len(batch.written) + 1 \in DOMAIN batch.order BY <1>1, BatchFacts
  <2>3. Current \in Systems BY <2>1, <2>2 DEF Current
  <2> QED BY <2>3, <1>1 DEF Stems
<1> HIDE DEF stem
<1>3. batch' = [phase |-> batch.phase, run |-> batch.run, order |-> batch.order,
                used |-> batch.used \cup {stem}, written |-> batch.written, open |-> TRUE]
  BY <1>1, BatchFacts DEF BatchShape
<1>4. /\ batch'.phase = batch.phase /\ batch'.run = batch.run /\ batch'.order = batch.order
      /\ batch'.used = batch.used \cup {stem} /\ batch'.written = batch.written
      /\ batch'.open = TRUE
  BY <1>3
<1>5. BatchShape' BY <1>1, <1>3, <1>4, BatchFacts DEF BatchShape
<1>6. ASSUME NEW n \in 1..Len(batch.written)
      PROVE  /\ batch.written[n] = batch.order[n]
             /\ Stem(batch.order[n]) \in batch.used /\ Stem(batch.order[n]) \in Stems
             /\ Stem(batch.order[n]) # stem
             /\ disk'[Stem(batch.order[n])] = [run |-> batch.run, system |-> batch.order[n]]
  <2>1. /\ batch.written[n] = batch.order[n]
        /\ Stem(batch.order[n]) \in batch.used /\ Stem(batch.order[n]) \in Stems
        /\ disk[Stem(batch.order[n])] = [run |-> batch.run, system |-> batch.order[n]]
    BY <1>1, BatchFacts DEF WrittenOK
  <2>2. Stem(batch.order[n]) # stem BY <1>1, <2>1
  <2> QED BY <1>1, <2>1, <2>2 DEF BatchInv
<1>7. Stem(Current)' = stem
  <2>1. Current' = Current BY <1>4 DEF Current
  <2> QED BY <2>1 DEF stem
<1>8. WrittenOK'
  <2>1. Len(batch'.written) <= Len(batch'.order) BY <1>1, <1>4, BatchFacts
  <2>2. Stem(Current)' \in batch'.used \cap Stems BY <1>2, <1>4, <1>7
  <2>3. Len(batch'.written) < Len(batch'.order) BY <1>1, <1>4
  <2> QED BY <2>1, <2>2, <2>3, <1>4, <1>6, <1>7 DEF WrittenOK
<1>9. DOMAIN disk' = Stems BY <1>1 DEF BatchInv
<1> QED BY <1>5, <1>8, <1>9 DEF BatchInv

LEMMA WriteReportKeeps == BatchInv /\ WriteReport => BatchInv'
<1> SUFFICES ASSUME BatchInv, WriteReport PROVE BatchInv'
  OBVIOUS
<1> DEFINE stem == Stem(Current)
<1> DEFINE k == Len(batch.written) + 1
<1> DEFINE file == [run |-> batch.run, system |-> Current]
<1>1. /\ batch.phase = "write" /\ Len(batch.written) < Len(batch.order) /\ batch.open
      /\ disk' = [disk EXCEPT ![stem] = file]
      /\ batch' = [batch EXCEPT !.written = Append(batch.written, Current), !.open = FALSE]
  BY DEF WriteReport, Writing
<1>2. /\ k \in 1..Len(batch.order) /\ Current = batch.order[k] /\ Current \in AnyName
      /\ stem = Stem(batch.order[k])
  <2>1. k \in 1..Len(batch.order) BY <1>1, BatchFacts
  <2>2. batch.order \in Seq(AnyName) BY <1>1, BatchFacts DEF BatchShape
  <2> QED BY <2>1, <2>2 DEF Current
<1>3. /\ stem \in Stems /\ stem \in batch.used
      /\ \A n \in 1..Len(batch.written) : Stem(batch.order[n]) # stem
  BY <1>1, BatchFacts DEF WrittenOK
<1> DEFINE new == Append(batch.written, Current)
<1>4. /\ new \in Seq(AnyName) /\ Len(new) = k /\ new[k] = Current
      /\ \A n \in 1..Len(batch.written) : new[n] = batch.written[n]
  <2>1. batch.written \in Seq(AnyName) BY <1>1, BatchFacts DEF BatchShape
  <2> QED BY <2>1, <1>2
<1> HIDE DEF stem, k, file, new
<1>5. batch' = [phase |-> batch.phase, run |-> batch.run, order |-> batch.order,
                used |-> batch.used, written |-> new, open |-> FALSE]
  BY <1>1, BatchFacts DEF BatchShape, new
<1>6. /\ batch'.phase = batch.phase /\ batch'.run = batch.run /\ batch'.order = batch.order
      /\ batch'.used = batch.used /\ batch'.written = new /\ batch'.open = FALSE
  BY <1>5
<1>7. BatchShape' BY <1>1, <1>4, <1>5, <1>6, BatchFacts DEF BatchShape
<1>8. ASSUME NEW n \in 1..k
      PROVE  /\ new[n] = batch.order[n]
             /\ Stem(batch.order[n]) \in batch.used /\ Stem(batch.order[n]) \in Stems
             /\ disk'[Stem(batch.order[n])] = [run |-> batch.run, system |-> batch.order[n]]
  <2>1. CASE n = k
    <3>1. disk'[stem] = file BY <1>1, <1>3 DEF BatchInv
    <3> QED BY <2>1, <3>1, <1>2, <1>3, <1>4 DEF file
  <2>2. CASE n # k
    <3>1. n \in 1..Len(batch.written) BY <2>2, <1>1, BatchFacts DEF k
    <3>2. /\ batch.written[n] = batch.order[n]
          /\ Stem(batch.order[n]) \in batch.used /\ Stem(batch.order[n]) \in Stems
          /\ disk[Stem(batch.order[n])] = [run |-> batch.run, system |-> batch.order[n]]
      BY <1>1, <3>1, BatchFacts DEF WrittenOK
    <3>3. disk'[Stem(batch.order[n])] = disk[Stem(batch.order[n])]
      BY <1>1, <1>3, <3>1, <3>2 DEF BatchInv
    <3> QED BY <3>1, <3>2, <3>3, <1>4
  <2> QED BY <2>1, <2>2
<1>9. k <= Len(batch.order) BY <1>1, BatchFacts DEF k
<1>10. WrittenOK' BY <1>4, <1>6, <1>8, <1>9 DEF WrittenOK
<1>11. DOMAIN disk' = Stems BY <1>1 DEF BatchInv
<1> QED BY <1>7, <1>10, <1>11 DEF BatchInv

LEMMA FinishBatchKeeps == BatchInv /\ FinishBatch => BatchInv'
<1> SUFFICES ASSUME BatchInv, FinishBatch PROVE BatchInv'
  OBVIOUS
<1>1. /\ batch.phase = "write" /\ Len(batch.written) = Len(batch.order) /\ disk' = disk
      /\ batch' = [batch EXCEPT !.phase = "done"]
  BY DEF FinishBatch
<1>2. batch' = [phase |-> "done", run |-> batch.run, order |-> batch.order,
                used |-> batch.used, written |-> batch.written, open |-> batch.open]
  BY <1>1, BatchFacts DEF BatchShape
<1>3. /\ batch'.phase = "done" /\ batch'.run = batch.run /\ batch'.order = batch.order
      /\ batch'.used = batch.used /\ batch'.written = batch.written /\ batch'.open = batch.open
  BY <1>2
<1>4. BatchShape' BY <1>1, <1>2, <1>3, BatchFacts DEF BatchShape
<1>5. Current' = Current BY <1>3 DEF Current
<1>6. WrittenOK' BY <1>1, <1>3, <1>5, BatchFacts DEF WrittenOK
<1> QED BY <1>1, <1>4, <1>6 DEF BatchInv

LEMMA BatchKept == BatchInv /\ [Next]_vars => BatchInv'
<1> SUFFICES ASSUME BatchInv, [Next]_vars PROVE BatchInv'
  OBVIOUS
<1>1. CASE UNCHANGED <<batch, disk>> BY <1>1, BatchUntouched
<1>2. CASE RunBatch \/ AttachToBatch
  BY <1>2, StartBatchKeeps, StartWritingKeeps DEF RunBatch, AttachToBatch
<1>3. CASE RefuseName \/ StopBatch
  BY <1>3, BatchEnds DEF RefuseName, StopBatch, Refused
<1>4. CASE CallAgain \/ CloseSession BY <1>4, <1>1 DEF CallAgain, CloseSession
<1>5. CASE BatchSteps
  BY <1>3, <1>4, <1>5, ScoreBatchKeeps, OpenReportKeeps, WriteReportKeeps, FinishBatchKeeps
  DEF BatchSteps
<1>6. CASE StartAudit BY <1>6, BatchEnds DEF StartAudit
<1>7. CASE RefuseThreads \/ Session \/ ScoringSteps
  BY <1>7, <1>1 DEF RefuseThreads, Session, OpenSession, ScoringSteps, Scorers
<1>8. CASE Evaluate \/ Validate \/ AttachPerformance \/ WriteOutput \/ RefuseClash
            \/ FinishAudit \/ StopAudit
  <2>1. Audits
    BY <1>8 DEF Evaluate, Validate, AttachPerformance, WriteOutput, RefuseClash,
                FinishAudit, StopAudit
  <2> QED BY <2>1, <1>1 DEF Audits, batchVars
<1>9. CASE OtherQuery \/ Done \/ UNCHANGED vars
  BY <1>9, <1>1 DEF OtherQuery, Done, vars, batchVars
<1> QED BY <1>2, <1>5, <1>6, <1>7, <1>8, <1>9 DEF Next

----------------------------------------------------------------------------
AuditPhases == {"evaluate", "validate", "attach", "write", "done"}

LEMMA AuditUntouched == AuditInv /\ UNCHANGED auditVars => AuditInv'
BY DEF AuditInv, NoUnmarkedFailure, auditVars

LEMMA AuditEnds ==
  ASSUME AuditInv, UNCHANGED files, audit'.phase \in {"none", "refused", "stopped"}
  PROVE  AuditInv'
BY DEF AuditInv, NoUnmarkedFailure

(* The steps that write nothing: the request stays.                        *)
LEMMA AuditGoesOn ==
  ASSUME AuditInv, UNCHANGED files, NEW phase, NEW ran, NEW verdict,
         audit' = [phase |-> phase, run |-> audit.run, request |-> audit.request,
                   ran |-> ran, verdict |-> verdict, written |-> audit.written],
         phase \in {"attach", "write", "done"} /\ audit.request.sample > 0 =>
           verdict.done /\ (verdict.failures # {} => audit.request.allow)
  PROVE  AuditInv'
<1>1. /\ audit'.phase = phase /\ audit'.request = audit.request /\ audit'.verdict = verdict
      /\ audit' = [phase |-> audit'.phase, run |-> audit'.run, request |-> audit'.request,
                   ran |-> audit'.ran, verdict |-> audit'.verdict, written |-> audit'.written]
  OBVIOUS
<1>2. NoUnmarkedFailure' BY DEF AuditInv, NoUnmarkedFailure
<1>3. DOMAIN files' = Outputs BY DEF AuditInv
<1> QED BY <1>1, <1>2, <1>3 DEF AuditInv

LEMMA AuditShape ==
  ASSUME AuditInv, audit.phase \in AuditPhases
  PROVE  audit = [phase |-> audit.phase, run |-> audit.run, request |-> audit.request,
                  ran |-> audit.ran, verdict |-> audit.verdict, written |-> audit.written]
BY DEF AuditInv, AuditPhases

LEMMA StartAuditKeeps == AuditInv /\ StartAudit => AuditInv'
<1> SUFFICES ASSUME AuditInv, StartAudit PROVE AuditInv'
  OBVIOUS
<1>1. PICK r \in Requests :
        audit' = [phase |-> "evaluate", run |-> runs + 1, request |-> r,
                  ran |-> {}, verdict |-> NotValidated, written |-> <<>>]
  BY DEF StartAudit
<1> DEFINE run == runs + 1
<1>2. audit' = [phase |-> "evaluate", run |-> run, request |-> r,
                ran |-> {}, verdict |-> NotValidated, written |-> <<>>]
  BY <1>1
<1> HIDE DEF run
<1>3. audit'.phase = "evaluate"
  BY <1>2
<1>4. audit' = [phase |-> audit'.phase, run |-> audit'.run, request |-> audit'.request,
                ran |-> audit'.ran, verdict |-> audit'.verdict, written |-> audit'.written]
  BY <1>2
<1>5. files' = files BY DEF StartAudit
<1>6. NoUnmarkedFailure' BY <1>5 DEF AuditInv, NoUnmarkedFailure
<1> QED BY <1>3, <1>4, <1>5, <1>6 DEF AuditInv

LEMMA EvaluateKeeps == AuditInv /\ Evaluate => AuditInv'
<1> SUFFICES ASSUME AuditInv, Evaluate PROVE AuditInv'
  OBVIOUS
<1>1. /\ audit.phase = "evaluate" /\ files' = files
      /\ audit' = [audit EXCEPT !.phase = "validate", !.ran = {Active}]
  BY DEF Evaluate
<1>2. audit' = [phase |-> "validate", run |-> audit.run, request |-> audit.request,
                ran |-> {Active}, verdict |-> audit.verdict, written |-> audit.written]
  BY <1>1, AuditShape DEF AuditPhases
<1> QED BY <1>1, <1>2, AuditGoesOn

(* How a validation ends.                                                  *)
LEMMA ValidateSteps ==
  ASSUME Validate
  PROVE  \/ RefuseAudit
         \/ ~ValidationAsked(audit.request) /\ audit' = [audit EXCEPT !.phase = "attach"]
         \/ \E verdict :
              /\ verdict.done /\ (verdict.failures # {} => audit.request.allow)
              /\ audit' = [audit EXCEPT !.phase = "attach", !.ran = audit.ran \cup {Active},
                             !.verdict = verdict]
<1> DEFINE r == audit.request
<1>1. \/ RefuseAudit
      \/ ~ValidationAsked(r) /\ audit' = [audit EXCEPT !.phase = "attach"]
      \/ \E sample \in Samples(Len(r.corpus.exact), r.sample) :
           LET failures == Failures(r.corpus, sample) IN
           IF Fatal(r, failures) THEN RefuseAudit
           ELSE audit' = [audit EXCEPT !.phase = "attach", !.ran = audit.ran \cup {Active},
                            !.verdict = Validated(sample, failures)]
  BY DEF Validate
<1>2. ASSUME NEW sample \in Samples(Len(r.corpus.exact), r.sample),
             LET failures == Failures(r.corpus, sample) IN
             IF Fatal(r, failures) THEN RefuseAudit
             ELSE audit' = [audit EXCEPT !.phase = "attach", !.ran = audit.ran \cup {Active},
                              !.verdict = Validated(sample, failures)]
      PROVE  \/ RefuseAudit
             \/ \E verdict :
                  /\ verdict.done /\ (verdict.failures # {} => r.allow)
                  /\ audit' = [audit EXCEPT !.phase = "attach", !.ran = audit.ran \cup {Active},
                                 !.verdict = verdict]
  <2> DEFINE failures == Failures(r.corpus, sample)
  <2>1. CASE Fatal(r, failures) BY <2>1, <1>2
  <2>2. CASE ~Fatal(r, failures)
    <3>1. /\ Validated(sample, failures).done
          /\ Validated(sample, failures).failures # {} => r.allow
      BY <2>2 DEF Validated, Fatal
    <3> QED BY <3>1, <2>2, <1>2
  <2> QED BY <2>1, <2>2
<1> QED BY <1>1, <1>2

LEMMA ValidateKeeps == AuditInv /\ Validate => AuditInv'
<1> SUFFICES ASSUME AuditInv, Validate PROVE AuditInv'
  OBVIOUS
<1> DEFINE r == audit.request
<1>1. audit.phase = "validate" /\ files' = files BY DEF Validate
<1>2. CASE audit'.phase = "refused" BY <1>1, <1>2, AuditEnds
<1>3. CASE ~(r.sample > 0) /\ audit' = [audit EXCEPT !.phase = "attach"]
  <2>1. audit' = [phase |-> "attach", run |-> audit.run, request |-> audit.request,
                  ran |-> audit.ran, verdict |-> audit.verdict, written |-> audit.written]
    BY <1>1, <1>3, AuditShape DEF AuditPhases
  <2> QED BY <1>1, <1>3, <2>1, AuditGoesOn
<1>4. CASE \E verdict :
             /\ verdict.done /\ (verdict.failures # {} => r.allow)
             /\ audit' = [audit EXCEPT !.phase = "attach", !.ran = audit.ran \cup {Active},
                            !.verdict = verdict]
  <2>1. PICK verdict :
          /\ verdict.done /\ (verdict.failures # {} => r.allow)
          /\ audit' = [audit EXCEPT !.phase = "attach", !.ran = audit.ran \cup {Active},
                         !.verdict = verdict]
    BY <1>4
  <2> DEFINE ran == audit.ran \cup {Active}
  <2>2. audit' = [audit EXCEPT !.phase = "attach", !.ran = ran, !.verdict = verdict]
    BY <2>1
  <2> HIDE DEF ran
  <2>3. audit' = [phase |-> "attach", run |-> audit.run, request |-> audit.request,
                  ran |-> ran, verdict |-> verdict, written |-> audit.written]
    <3>1. /\ DOMAIN audit = {"phase", "run", "request", "ran", "verdict", "written"}
          /\ audit' = [f \in DOMAIN audit |-> audit'[f]]
      BY <1>1, <2>2, AuditShape DEF AuditPhases
    <3>2. audit'.phase = "attach" BY <2>2, <3>1
    <3>3. audit'.ran = ran BY <2>2, <3>1
    <3>4. audit'.verdict = verdict BY <2>2, <3>1
    <3>5. /\ audit'.run = audit.run /\ audit'.request = audit.request
          /\ audit'.written = audit.written
      BY <2>2, <3>1
    <3> QED BY <3>1, <3>2, <3>3, <3>4, <3>5
  <2> QED BY <1>1, <2>1, <2>3, AuditGoesOn
<1>5. RefuseAudit => audit'.phase = "refused" BY DEF RefuseAudit
<1> QED BY <1>2, <1>3, <1>4, <1>5, ValidateSteps DEF ValidationAsked

LEMMA WriteOutputKeeps == AuditInv /\ WriteOutput => AuditInv'
<1> SUFFICES ASSUME AuditInv, WriteOutput PROVE AuditInv'
  OBVIOUS
<1> DEFINE output == NextOutput
<1> DEFINE warned == output \in {"report", "text"} /\ Warned
<1> DEFINE file == [run |-> audit.run, request |-> audit.request, verdict |-> audit.verdict,
                    warned |-> warned]
<1>1. /\ audit.phase = "write" /\ files' = [files EXCEPT ![output] = file]
      /\ audit' = [audit EXCEPT !.written = Append(audit.written, output)]
  BY DEF WriteOutput, Writes
<1>2. /\ file.request = audit.request /\ file.verdict = audit.verdict
      /\ file.warned <=> output \in {"report", "text"} /\ audit.verdict.failures # {}
  BY DEF Warned
<1>3. audit.request.sample > 0 =>
        audit.verdict.done /\ (audit.verdict.failures # {} => audit.request.allow)
  BY <1>1 DEF AuditInv
<1> DEFINE new == Append(audit.written, output)
<1> HIDE DEF new, file, warned, output
<1>4. audit' = [phase |-> audit.phase, run |-> audit.run, request |-> audit.request,
                ran |-> audit.ran, verdict |-> audit.verdict, written |-> new]
  BY <1>1, AuditShape DEF AuditPhases, new
<1>5. /\ audit'.phase = audit.phase /\ audit'.request = audit.request
      /\ audit'.verdict = audit.verdict
      /\ audit' = [phase |-> audit'.phase, run |-> audit'.run, request |-> audit'.request,
                   ran |-> audit'.ran, verdict |-> audit'.verdict, written |-> audit'.written]
  BY <1>4
<1>6. DOMAIN files' = Outputs BY <1>1 DEF AuditInv
<1>7. ASSUME NEW o \in Outputs, files'[o] # None, files'[o].request.sample > 0
      PROVE  /\ files'[o].verdict.done
             /\ files'[o].verdict.failures # {} =>
                  files'[o].request.allow /\ (o \in {"report", "text"} => files'[o].warned)
  <2>1. CASE o = output
    <3>1. files'[o] = file BY <1>1, <2>1 DEF AuditInv
    <3> QED BY <3>1, <2>1, <1>2, <1>3, <1>7
  <2>2. CASE o # output
    <3>1. files'[o] = files[o] BY <1>1, <2>2 DEF AuditInv
    <3> QED BY <3>1, <1>7 DEF AuditInv, NoUnmarkedFailure
  <2> QED BY <2>1, <2>2
<1>8. NoUnmarkedFailure' BY <1>7 DEF NoUnmarkedFailure
<1> QED BY <1>1, <1>3, <1>5, <1>6, <1>8 DEF AuditInv

LEMMA AuditKept == AuditInv /\ [Next]_vars => AuditInv'
<1> SUFFICES ASSUME AuditInv, [Next]_vars PROVE AuditInv'
  OBVIOUS
<1>1. CASE UNCHANGED auditVars BY <1>1, AuditUntouched
<1>2. CASE AttachPerformance
  <2>1. /\ audit.phase = "attach" /\ files' = files
        /\ audit' = [audit EXCEPT !.phase = "write"]
    BY <1>2 DEF AttachPerformance
  <2>2. audit' = [phase |-> "write", run |-> audit.run, request |-> audit.request,
                  ran |-> audit.ran, verdict |-> audit.verdict, written |-> audit.written]
    BY <2>1, AuditShape DEF AuditPhases
  <2>3. audit.request.sample > 0 =>
          audit.verdict.done /\ (audit.verdict.failures # {} => audit.request.allow)
    BY <2>1 DEF AuditInv
  <2> QED BY <2>1, <2>2, <2>3, AuditGoesOn
<1>3. CASE FinishAudit
  <2>1. /\ audit.phase = "write" /\ files' = files
        /\ audit' = [audit EXCEPT !.phase = "done"]
    BY <1>3 DEF FinishAudit
  <2>2. audit' = [phase |-> "done", run |-> audit.run, request |-> audit.request,
                  ran |-> audit.ran, verdict |-> audit.verdict, written |-> audit.written]
    BY <2>1, AuditShape DEF AuditPhases
  <2>3. audit.request.sample > 0 =>
          audit.verdict.done /\ (audit.verdict.failures # {} => audit.request.allow)
    BY <2>1 DEF AuditInv
  <2> QED BY <2>1, <2>2, <2>3, AuditGoesOn
<1>4. CASE RefuseClash \/ StopAudit \/ RunBatch
  <2>1. files' = files /\ audit'.phase \in {"none", "refused", "stopped"}
    BY <1>4 DEF RefuseClash, RefuseAudit, StopAudit, RunBatch
  <2> QED BY <2>1, AuditEnds
<1>5. CASE RefuseThreads \/ BatchSteps \/ AttachToBatch \/ ScoringSteps \/ Session
            \/ OtherQuery \/ Done \/ UNCHANGED vars
  <2>1. UNCHANGED auditVars
    BY <1>5 DEF RefuseThreads, BatchSteps, AttachToBatch, ScoringSteps, Session,
                OtherQuery, Done, vars
  <2> QED BY <2>1, <1>1
<1> QED
  BY <1>2, <1>3, <1>4, <1>5, StartAuditKeeps, EvaluateKeeps, ValidateKeeps, WriteOutputKeeps
  DEF Next

----------------------------------------------------------------------------
(***************************************************************************)
(* The validation of an approximate run.                                   *)
(***************************************************************************)
(* A sample lists segments in ascending order, none of them twice.         *)
LEMMA SampleFacts ==
  ASSUME NEW total \in Nat \ {0}, NEW size \in Nat \ {0}, NEW sample \in Samples(total, size)
  PROVE  \E k \in Nat \ {0} :
           /\ DOMAIN sample = 1..k
           /\ \A n \in 1..k : sample[n] \in 0..(total - 1)
           /\ \A m, n \in 1..k : sample[m] = sample[n] => m = n
<1>1. CASE size >= total
  <2>1. sample = [n \in 1..total |-> n - 1]
    BY <1>1 DEF Samples
  <2> QED BY <2>1
<1>2. CASE ~(size >= total)
  <2>1. /\ sample \in [1..size -> 0..(total - 1)]
        /\ \A m, n \in 1..size : m < n => sample[m] < sample[n]
    BY <1>2 DEF Samples
  <2>2. ASSUME NEW m \in 1..size, NEW n \in 1..size, sample[m] = sample[n]
        PROVE  m = n
    <3>1. sample[m] \in Int /\ sample[n] \in Int /\ m \in Int /\ n \in Int
      BY <2>1
    <3>2. ~(m < n) /\ ~(n < m)
      BY <2>1, <2>2, <3>1
    <3> QED BY <3>1, <3>2
  <2> QED BY <2>1, <2>2
<1> QED BY <1>1, <1>2

(* The segments at some places of a sample; there are as many.             *)
SegmentsAt(sample, P) == {sample[n] : n \in P}

LEMMA PlacesCount ==
  ASSUME NEW sample, NEW k \in Nat, DOMAIN sample = 1..k,
         \A m, n \in 1..k : sample[m] = sample[n] => m = n,
         NEW P \in SUBSET (1..k)
  PROVE  Cardinality(SegmentsAt(sample, P)) = Cardinality(P)
<1> DEFINE T == SegmentsAt(sample, P)
           f == [n \in P |-> sample[n]]
<1>1. IsFiniteSet(P)
  <2>1. 1 \in Int /\ k \in Int
    OBVIOUS
  <2> QED BY <2>1, FS_Interval, FS_Subset
<1>2. f \in Bijection(P, T)
  BY DEF Bijection, Injection, Surjection, IsInjective, SegmentsAt
<1>3. ExistsBijection(P, T)
  BY <1>2 DEF ExistsBijection
<1> HIDE DEF T, f
<1>4. Cardinality(T) = Cardinality(P)
  BY <1>1, <1>3, FS_Bijection
<1> QED BY <1>4 DEF T

(* What is asked of a run that is validated.                               *)
Validates(r, sample) ==
  /\ r \in Requests /\ r.sample > 0
  /\ sample \in Samples(Len(r.corpus.exact), r.sample)

LEMMA ValidatedFacts ==
  ASSUME NEW r, NEW sample, Validates(r, sample)
  PROVE  \E k \in Nat \ {0} :
           /\ DOMAIN sample = 1..k
           /\ \A n \in 1..k : sample[n] \in 0..(Len(r.corpus.exact) - 1)
           /\ \A m, n \in 1..k : sample[m] = sample[n] => m = n
<1>1. r.sample \in Nat \ {0} /\ Len(r.corpus.exact) \in Nat \ {0}
  <2>1. r.sample \in Nat /\ r.sample > 0 /\ IsMeasured(r.corpus)
    BY RequestsAssumption DEF Validates
  <2>2. Len(r.corpus.exact) \in Nat \ {0}
    BY <2>1, Zenon DEF IsMeasured
  <2> QED BY <2>1, <2>2
<1>2. sample \in Samples(Len(r.corpus.exact), r.sample)
  BY DEF Validates
<1> QED BY <1>1, <1>2, SampleFacts

LEMMA ComparedPlaces ==
  ASSUME NEW corpus, NEW sample
  PROVE  DOMAIN Compared(corpus, sample) = DOMAIN sample
BY DEF Compared

(* A segment of the sample is compared as both runs measured it.           *)
LEMMA ComparedRows ==
  ASSUME NEW r, NEW sample, Validates(r, sample), NEW n \in DOMAIN sample,
         NEW c, c = Compared(r.corpus, sample),
         NEW truth, truth = Truth(r.corpus, sample[n])
  PROVE  /\ c[n].approx = Found(r.corpus, sample[n])
         /\ c[n].exact.nn = truth.nn /\ c[n].exact.bin = truth.bin
         /\ c[n].exact.score = truth.score /\ truth.score \in 0..1000
         /\ c[n].exact.target = truth.target
         /\ c[n].exact.pair = truth.pair /\ c[n].exact.tm = truth.tm
<1> DEFINE corpus == r.corpus
           i == sample[n]
<1>1. IsMeasured(corpus)
  BY RequestsAssumption DEF Validates
<1>2. i \in 0..(Len(corpus.exact) - 1)
  BY ValidatedFacts
<1>3. /\ c[n].approx = Found(corpus, i)
      /\ c[n].exact = [truth EXCEPT !.index = n - 1]
  BY DEF Compared, ExactRows, Truth, Found
<1> HIDE DEF corpus, i
<1>4. DOMAIN truth = RowFields /\ truth.score \in 0..1000
  <2> DEFINE exact == corpus.exact
  <2>1. /\ Len(exact) \in Nat \ {0} /\ DOMAIN exact = 1..Len(exact)
        /\ \A m \in DOMAIN exact : DOMAIN exact[m] = RowFields /\ exact[m].score \in 0..1000
    BY <1>1, Zenon DEF IsMeasured
  <2>2. truth = exact[i + 1]
    BY DEF Truth, corpus, i
  <2>3. i \in 0..(Len(exact) - 1)
    BY <1>2
  <2> HIDE DEF exact
  <2> DEFINE last == Len(exact)
  <2>4. last \in Nat /\ DOMAIN exact = 1..last /\ i \in 0..(last - 1)
    BY <2>1, <2>3
  <2> HIDE DEF last
  <2>5. i + 1 \in DOMAIN exact
    BY <2>4
  <2>6. DOMAIN exact[i + 1] = RowFields /\ exact[i + 1].score \in 0..1000
    BY ONLY <2>1, <2>5
  <2> QED BY ONLY <2>2, <2>6
<1> DEFINE row == [truth EXCEPT !.index = n - 1]
<1>5. /\ row.nn = truth.nn /\ row.bin = truth.bin /\ row.score = truth.score
      /\ row.target = truth.target /\ row.pair = truth.pair /\ row.tm = truth.tm
  BY <1>4 DEF RowFields
<1>6. c[n].exact = row /\ c[n].approx = Found(r.corpus, sample[n])
  BY <1>3 DEF corpus, i
<1> HIDE DEF row
<1>7. c[n].exact.score = truth.score /\ truth.score \in 0..1000
  BY ONLY <1>4, <1>5, <1>6
<1>8. /\ c[n].exact.nn = truth.nn /\ c[n].exact.bin = truth.bin
      /\ c[n].exact.target = truth.target
      /\ c[n].exact.pair = truth.pair /\ c[n].exact.tm = truth.tm
  BY ONLY <1>5, <1>6
<1> QED BY <1>6, <1>7, <1>8

(* Shares of the places of a sample are shares of its segments.            *)
LEMMA SharesOfSegments ==
  ASSUME NEW sample, NEW k \in Nat, DOMAIN sample = 1..k,
         \A m, n \in 1..k : sample[m] = sample[n] => m = n,
         NEW P \in SUBSET (1..k), NEW W \in SUBSET (1..k), NEW percent
  PROVE  Share(P, W, percent)
           <=> Share(SegmentsAt(sample, P), SegmentsAt(sample, W), percent)
<1>1. /\ Cardinality(SegmentsAt(sample, P)) = Cardinality(P)
      /\ Cardinality(SegmentsAt(sample, W)) = Cardinality(W)
  BY PlacesCount
<1> QED BY <1>1 DEF Share

(* What both runs have at places of the sample, they have at its segments. *)
LEMMA BothHaveAtPlaces ==
  ASSUME NEW corpus, NEW sample, NEW c, NEW field, NEW k \in Nat,
         \A n \in 1..k : /\ c[n].approx = Found(corpus, sample[n])
                         /\ c[n].exact[field] = Truth(corpus, sample[n])[field]
  PROVE  BothHave(corpus, SegmentsAt(sample, 1..k), field)
           = SegmentsAt(sample, {n \in 1..k : /\ c[n].exact[field] # Absent
                                             /\ c[n].approx[field] # Absent})
<1>1. ASSUME NEW n \in 1..k
      PROVE  /\ c[n].approx[field] = Found(corpus, sample[n])[field]
             /\ c[n].exact[field] = Truth(corpus, sample[n])[field]
  BY <1>1, Zenon
<1>2. BothHave(corpus, SegmentsAt(sample, 1..k), field)
        = {i \in SegmentsAt(sample, 1..k) : /\ Truth(corpus, i)[field] # Absent
                                           /\ Found(corpus, i)[field] # Absent}
  BY DEF BothHave
<1> QED BY <1>1, <1>2 DEF SegmentsAt

(* A validation that finds no failure found agreement                      *)
(* (_validation_failures).                                                 *)
LEMMA PassedMeansAgreement ==
  ASSUME NEW r, NEW sample, Validates(r, sample), Failures(r.corpus, sample) = {}
  PROVE  AgreesWithExact(r.corpus, {sample[n] : n \in DOMAIN sample})
<1> DEFINE corpus == r.corpus
           S == {sample[n] : n \in DOMAIN sample}
           c == Compared(corpus, sample)
           D == DOMAIN c
           targets == {n \in D : c[n].exact.target # Absent /\ c[n].approx.target # Absent}
           pairs == {n \in D : c[n].exact.pair # Absent /\ c[n].approx.pair # Absent}
           SameSides(t) == {n \in pairs : Reaches(c[n].exact, t) = Reaches(c[n].approx, t)}
<1>1. PICK k \in Nat \ {0} :
        /\ DOMAIN sample = 1..k
        /\ \A m, n \in 1..k : sample[m] = sample[n] => m = n
  BY ValidatedFacts
<1>2. D = 1..k
  BY <1>1, ComparedPlaces
<1>3. ~(\E f : f \in Failures(corpus, sample))
  OBVIOUS
<1>4. /\ Share({n \in D : ~Differ(c[n], "nn")}, D, 95)
      /\ Share({n \in D : ~Differ(c[n], "bin")}, D, 99)
      /\ Share({n \in targets : ~Differ(c[n], "target")}, targets, 95)
  <2>1. Share({n \in D : ~Differ(c[n], "nn")}, D, 95)
    BY <1>3, Zenon DEF Failures
  <2>2. Share({n \in D : ~Differ(c[n], "bin")}, D, 99)
    BY <1>3, Zenon DEF Failures
  <2>3. Share({n \in targets : ~Differ(c[n], "target")}, targets, 95)
    BY <1>3, Zenon DEF Failures
  <2> QED BY <2>1, <2>2, <2>3
<1>5. ASSUME NEW name \in ThresholdNames
      PROVE  Share(SameSides(ReportedThreshold(name)), pairs, 99)
  BY <1>3, Zenon DEF Failures
<1>6. \A n \in 1..k :
        /\ c[n].approx = Found(corpus, sample[n])
        /\ c[n].exact.nn = Truth(corpus, sample[n]).nn
        /\ c[n].exact.bin = Truth(corpus, sample[n]).bin
        /\ c[n].exact.target = Truth(corpus, sample[n]).target
        /\ c[n].exact.pair = Truth(corpus, sample[n]).pair
  <2> TAKE n \in 1..k
  <2>1. c = Compared(r.corpus, sample) /\ n \in DOMAIN sample
    BY <1>1
  <2> DEFINE truth == Truth(r.corpus, sample[n])
  <2>2. truth = Truth(r.corpus, sample[n])
    OBVIOUS
  <2> HIDE DEF c, truth
  <2>3. /\ c[n].approx = Found(r.corpus, sample[n]) /\ c[n].exact.nn = truth.nn
        /\ c[n].exact.bin = truth.bin /\ c[n].exact.target = truth.target
        /\ c[n].exact.pair = truth.pair
    BY <2>1, <2>2, ComparedRows
  <2> QED BY <2>3 DEF truth
<1>7. targets \in SUBSET (1..k) /\ pairs \in SUBSET (1..k)
  BY <1>2
<1>8. S = SegmentsAt(sample, 1..k)
  BY <1>1 DEF SegmentsAt
<1>9. /\ targets = {n \in 1..k : c[n].exact.target # Absent /\ c[n].approx.target # Absent}
      /\ pairs = {n \in 1..k : c[n].exact.pair # Absent /\ c[n].approx.pair # Absent}
  BY <1>2
<1> HIDE DEF c, D, S, targets, corpus
<1>10. /\ BothHave(corpus, S, "target") = SegmentsAt(sample, targets)
       /\ BothHave(corpus, S, "pair") = SegmentsAt(sample, pairs)
  <2> HIDE DEF pairs
  <2>1. BothHave(corpus, SegmentsAt(sample, 1..k), "target")
          = SegmentsAt(sample, {n \in 1..k : /\ c[n].exact["target"] # Absent
                                            /\ c[n].approx["target"] # Absent})
    BY <1>6, BothHaveAtPlaces
  <2>2. BothHave(corpus, SegmentsAt(sample, 1..k), "pair")
          = SegmentsAt(sample, {n \in 1..k : /\ c[n].exact["pair"] # Absent
                                            /\ c[n].approx["pair"] # Absent})
    BY <1>6, BothHaveAtPlaces
  <2> QED BY <1>8, <1>9, <2>1, <2>2
<1>11. ASSUME NEW field \in {"nn", "bin", "target"}, NEW P \in SUBSET (1..k), NEW percent,
              Share({n \in P : ~Differ(c[n], field)}, P, percent)
       PROVE  Share(Alike(corpus, SegmentsAt(sample, P), field), SegmentsAt(sample, P), percent)
  <2> DEFINE A == {n \in P : ~Differ(c[n], field)}
  <2>1. A \in SUBSET (1..k) /\ Share(A, P, percent)
    BY <1>11
  <2>2. ASSUME NEW n \in P
        PROVE  n \in A <=> Truth(corpus, sample[n])[field] = Found(corpus, sample[n])[field]
    <3>1. /\ c[n].approx = Found(corpus, sample[n])
          /\ c[n].exact[field] = Truth(corpus, sample[n])[field]
      BY <1>6
    <3> QED BY <3>1, Zenon DEF Differ
  <2> HIDE DEF A
  <2>3. Alike(corpus, SegmentsAt(sample, P), field) = SegmentsAt(sample, A)
    <3>1. Alike(corpus, SegmentsAt(sample, P), field)
            = {i \in SegmentsAt(sample, P) : Truth(corpus, i)[field] = Found(corpus, i)[field]}
      BY DEF Alike
    <3>2. A \subseteq P
      BY DEF A
    <3> QED BY <2>2, <3>1, <3>2 DEF SegmentsAt
  <2>4. Share(SegmentsAt(sample, A), SegmentsAt(sample, P), percent)
    BY <1>1, <2>1, SharesOfSegments
  <2> QED BY <2>3, <2>4
<1>12. /\ Share(Alike(corpus, S, "nn"), S, 95)
       /\ Share(Alike(corpus, S, "bin"), S, 99)
       /\ Share(Alike(corpus, SegmentsAt(sample, targets), "target"),
                SegmentsAt(sample, targets), 95)
  <2>1. 1..k \in SUBSET (1..k)
    OBVIOUS
  <2>2. Share(Alike(corpus, SegmentsAt(sample, 1..k), "nn"), SegmentsAt(sample, 1..k), 95)
    BY <1>2, <1>4, <1>11, <2>1
  <2>3. Share(Alike(corpus, SegmentsAt(sample, 1..k), "bin"), SegmentsAt(sample, 1..k), 99)
    BY <1>2, <1>4, <1>11, <2>1
  <2>4. Share(Alike(corpus, SegmentsAt(sample, targets), "target"),
              SegmentsAt(sample, targets), 95)
    BY <1>4, <1>7, <1>11
  <2> QED BY <1>8, <2>2, <2>3, <2>4
<1> DEFINE measured == BothHave(corpus, S, "pair")
<1>13. ASSUME NEW name \in ThresholdNames
       PROVE  Share({i \in measured : SameSide(corpus, i, ReportedThreshold(name))},
                    measured, 99)
  <2> DEFINE t == ReportedThreshold(name)
             A == SameSides(t)
             U == {i \in measured : SameSide(corpus, i, t)}
  <2> HIDE DEF t
  <2>1. \A n \in 1..k : SameSide(corpus, sample[n], t)
                          <=> (Reaches(c[n].exact, t) = Reaches(c[n].approx, t))
    BY <1>6 DEF SameSide, Reaches
  <2>2. measured = SegmentsAt(sample, pairs)
    BY <1>10
  <2> HIDE DEF pairs, measured
  <2>3. A \in SUBSET (1..k)
    BY <1>7
  <2>4. Share(A, pairs, 99)
    BY <1>5 DEF t, pairs
  <2>5. U = SegmentsAt(sample, A)
    BY <1>7, <2>1, <2>2 DEF SegmentsAt
  <2> HIDE DEF A, U
  <2>6. Share(U, measured, 99)
    BY <1>1, <1>7, <2>2, <2>3, <2>4, <2>5, SharesOfSegments
  <2> QED BY <2>6 DEF U, t
<1> QED
  <2>1. AgreesWithExact(corpus, S)
    BY <1>10, <1>12, <1>13, Zenon DEF AgreesWithExact
  <2> QED BY <2>1 DEF S, corpus

(* The percentile of errors that are all zero is zero, whichever ranks it  *)
(* lies between (_percentile).                                             *)
LEMMA PercentileOfZeros ==
  ASSUME NEW values, NEW k \in Nat \ {0}, DOMAIN values = 1..k,
         \A n \in 1..k : values[n] = 0, NEW percent \in 0..100
  PROVE  Percentile(values, percent) = 0
<1>1. Cardinality(DOMAIN values) = k
  <2>1. 1 \in Int /\ k \in Int
    OBVIOUS
  <2> QED BY <2>1, FS_Interval
<1>2. ASSUME NEW rank \in 0..(k - 1)
      PROVE  Ranked(values, rank) = 0
  <2> DEFINE Below(v) == {n \in DOMAIN values : values[n] < v}
             UpTo(v)  == {n \in DOMAIN values : values[n] <= v}
  <2>1. {values[n] : n \in DOMAIN values} = {0}
    OBVIOUS
  <2>2. Below(0) = {} /\ UpTo(0) = DOMAIN values
    OBVIOUS
  <2>3. Cardinality(Below(0)) <= rank /\ rank < Cardinality(UpTo(0))
    <3> HIDE DEF Below, UpTo
    <3>1. Cardinality(Below(0)) = 0 /\ Cardinality(UpTo(0)) = k
      BY <1>1, <2>2, FS_EmptySet
    <3> QED BY <3>1
  <2> HIDE DEF Below, UpTo
  <2>4. \E v \in {0} : Cardinality(Below(v)) <= rank /\ rank < Cardinality(UpTo(v))
    BY <2>3
  <2>5. Ranked(values, rank) =
          CHOOSE v \in {0} : Cardinality(Below(v)) <= rank /\ rank < Cardinality(UpTo(v))
    BY <2>1 DEF Ranked, Below, UpTo
  <2> QED BY <2>4, <2>5
<1> DEFINE place == percent * (k - 1)
           lower == place \div 100
           upper == IF lower + 1 < k THEN lower + 1 ELSE lower
           weight == place % 100
<1>3. place \in 0..(100 * (k - 1))
  <2>1. percent * (k - 1) <= 100 * (k - 1) /\ percent * (k - 1) >= 0
    OBVIOUS
  <2>2. percent * (k - 1) \in Int
    OBVIOUS
  <2> QED BY <2>1, <2>2
<1> HIDE DEF place
<1>4. lower \in 0..(k - 1) /\ weight \in 0..99
  BY <1>3
<1> HIDE DEF lower, weight
<1>5. upper \in 0..(k - 1)
  BY <1>4
<1>6. Percentile(values, percent)
        = (Ranked(values, lower) * (100 - weight)) + (Ranked(values, upper) * weight)
  BY <1>1 DEF Percentile, place, lower, weight
<1> HIDE DEF upper
<1>7. Percentile(values, percent) = (0 * (100 - weight)) + (0 * weight)
  BY <1>2, <1>4, <1>5, <1>6
<1> QED BY <1>4, <1>7

(* A sample on which both runs agree has no failure, with pairs that were  *)
(* measured and without, however few they are (_validation_failures).      *)
LEMMA AgreementPasses ==
  ASSUME NEW r, NEW sample, Validates(r, sample),
         \A n \in DOMAIN sample :
           Truth(r.corpus, sample[n]) = Found(r.corpus, sample[n])
  PROVE  Failures(r.corpus, sample) = {}
<1> DEFINE corpus == r.corpus
           c == Compared(corpus, sample)
           D == DOMAIN c
           errors == [n \in D |-> Error(c[n])]
           targets == {n \in D : c[n].exact.target # Absent /\ c[n].approx.target # Absent}
           pairs == {n \in D : c[n].exact.pair # Absent /\ c[n].approx.pair # Absent}
           SameSides(t) == {n \in pairs : Reaches(c[n].exact, t) = Reaches(c[n].approx, t)}
<1>1. PICK k \in Nat \ {0} : DOMAIN sample = 1..k
  BY ValidatedFacts
<1>2. D = 1..k
  BY <1>1, ComparedPlaces
<1> DEFINE Same(x) ==
      /\ x.exact.nn = x.approx.nn /\ x.exact.bin = x.approx.bin
      /\ x.exact.target = x.approx.target
      /\ x.exact.pair = x.approx.pair /\ x.exact.tm = x.approx.tm
      /\ x.exact.score = x.approx.score
      Scored(x) == x.exact.score \in 0..1000
      Translated(n) == c[n].exact.tm = Truth(corpus, sample[n]).tm
<1>3. \A n \in 1..k : Same(c[n]) /\ Scored(c[n]) /\ Translated(n)
  <2> TAKE n \in 1..k
  <2> DEFINE truth == Truth(corpus, sample[n])
  <2>1. c = Compared(r.corpus, sample) /\ truth = Truth(r.corpus, sample[n])
        /\ n \in DOMAIN sample
    BY <1>1
  <2>2. Found(r.corpus, sample[n]) = truth
    BY <2>1
  <2> HIDE DEF truth, c
  <2>3. /\ c[n].approx = Found(r.corpus, sample[n])
        /\ c[n].exact.nn = truth.nn /\ c[n].exact.bin = truth.bin
        /\ c[n].exact.score = truth.score /\ truth.score \in 0..1000
        /\ c[n].exact.target = truth.target
        /\ c[n].exact.pair = truth.pair /\ c[n].exact.tm = truth.tm
    BY <2>1, ComparedRows
  <2> DEFINE x == c[n]
  <2>4. /\ x.approx = truth /\ x.exact.nn = truth.nn /\ x.exact.bin = truth.bin
        /\ x.exact.score = truth.score /\ x.exact.target = truth.target
        /\ x.exact.pair = truth.pair /\ x.exact.tm = truth.tm
    BY <2>2, <2>3
  <2> HIDE DEF x
  <2>5. Same(x)
    BY ONLY <2>4
  <2>6. Scored(c[n])
    BY <2>3
  <2>7. Translated(n)
    BY <2>3 DEF truth
  <2> HIDE DEF Same, Scored, Translated
  <2> QED BY <2>5, <2>6, <2>7 DEF x
<1> HIDE DEF Same, Scored, Translated
<1>4. \A n \in 1..k : Same(c[n])
  BY <1>3, Zenon
<1>5. IsFiniteSet(1..k)
  <2>1. 1 \in Int /\ k \in Int
    OBVIOUS
  <2> QED BY <2>1, FS_Interval
<1>6. ASSUME NEW S \in SUBSET (1..k), NEW percent \in 0..100
      PROVE  Share(S, S, percent)
  <2>1. Cardinality(S) \in Nat
    BY <1>5, FS_Subset, FS_CardinalityType
  <2> DEFINE m == Cardinality(S)
  <2> HIDE DEF m
  <2>2. m \in Nat => 100 * m >= percent * m
    OBVIOUS
  <2> QED BY <2>1, <2>2 DEF Share, m
<1> HIDE DEF c, D
<1>7. \A n \in 1..k : ~Differ(c[n], "nn") /\ ~Differ(c[n], "bin") /\ ~Differ(c[n], "target")
  <2> TAKE n \in 1..k
  <2>1. /\ c[n].exact.nn = c[n].approx.nn /\ c[n].exact.bin = c[n].approx.bin
        /\ c[n].exact.target = c[n].approx.target
    BY <1>4 DEF Same
  <2> QED BY <2>1 DEF Differ
<1>8. \A n \in 1..k : errors[n] = 0
  <2> TAKE n \in 1..k
  <2> DEFINE x == c[n].exact.score
  <2>1. x \in 0..1000
    <3>1. Scored(c[n])
      BY <1>3, Zenon
    <3> QED BY ONLY <3>1 DEF Scored
  <2>2. c[n].approx.score = x
    BY <1>4 DEF Same
  <2>3. errors[n] = IF x > x THEN x - x ELSE x - x
    BY <1>2, <2>2 DEF Error
  <2> HIDE DEF x, errors
  <2> QED BY <2>1, <2>3
<1>9. Share({n \in D : ~Differ(c[n], "nn")}, D, 95)
  <2> DEFINE same == {n \in D : ~Differ(c[n], "nn")}
  <2>1. same = {n \in 1..k : ~Differ(c[n], "nn")}
    BY <1>2
  <2>2. \A n \in 1..k : n \in same
    BY <1>7, <2>1
  <2>3. same = 1..k
    BY <2>1, <2>2
  <2>4. 1..k \in SUBSET (1..k)
    OBVIOUS
  <2>5. Share(1..k, 1..k, 95)
    BY <1>6, <2>4
  <2> HIDE DEF same
  <2>6. Share(same, D, 95)
    BY <1>2, <2>3, <2>5
  <2> QED BY <2>6 DEF same
<1>10. Share({n \in D : ~Differ(c[n], "bin")}, D, 99)
  <2> DEFINE same == {n \in D : ~Differ(c[n], "bin")}
  <2>1. same = {n \in 1..k : ~Differ(c[n], "bin")}
    BY <1>2
  <2>2. \A n \in 1..k : n \in same
    BY <1>7, <2>1
  <2>3. same = 1..k
    BY <2>1, <2>2
  <2>4. 1..k \in SUBSET (1..k)
    OBVIOUS
  <2>5. Share(1..k, 1..k, 99)
    BY <1>6, <2>4
  <2> HIDE DEF same
  <2>6. Share(same, D, 99)
    BY <1>2, <2>3, <2>5
  <2> QED BY <2>6 DEF same
<1>11. ~(Total(errors) > 50 * Cardinality(D))
  <2>1. DOMAIN errors = 1..k
    BY <1>2
  <2> HIDE DEF errors
  <2>2. UNION {{n} \X (1..errors[n]) : n \in DOMAIN errors} = {}
    BY <1>8, <2>1
  <2>3. Total(errors) = 0
    BY <2>2, FS_EmptySet DEF Total
  <2>4. Cardinality(D) \in Nat
    BY <1>2, <1>5, FS_CardinalityType
  <2> QED BY <2>3, <2>4
<1>12. ~(Percentile(errors, 95) > 100 * 150)
  <2>1. DOMAIN errors = 1..k
    BY <1>2
  <2> HIDE DEF errors
  <2>2. Percentile(errors, 95) = 0
    BY <1>8, <2>1, PercentileOfZeros
  <2> QED BY <2>2
<1>13. Share({n \in targets : ~Differ(c[n], "target")}, targets, 95)
  <2>1. targets \in SUBSET (1..k)
    BY <1>2
  <2> HIDE DEF targets
  <2>2. {n \in targets : ~Differ(c[n], "target")} = targets
    BY <1>7, <2>1
  <2> QED BY <1>6, <2>1, <2>2
<1>14. ASSUME NEW t PROVE Share(SameSides(t), pairs, 99)
  <2>1. pairs \in SUBSET (1..k)
    BY <1>2
  <2> HIDE DEF pairs
  <2>2. \A n \in pairs : c[n].exact.pair = c[n].approx.pair
    BY <1>4, <2>1 DEF Same
  <2>3. \A n \in pairs : Reaches(c[n].exact, t) = Reaches(c[n].approx, t)
    BY <2>2 DEF Reaches
  <2>4. SameSides(t) = pairs
    BY <2>3
  <2> QED BY <1>6, <2>1, <2>4
<1>15. corpus.refs => ~(BleuDelta(corpus, c, sample) > 1)
  <2> SUFFICES ASSUME corpus.refs PROVE ~(BleuDelta(corpus, c, sample) > 1)
    OBVIOUS
  <2> DEFINE one == [n \in DOMAIN c |-> c[n].exact.tm]
             two == [n \in DOMAIN c |-> c[n].approx.tm]
             three == [n \in DOMAIN sample |-> corpus.exact[sample[n] + 1].tm]
  <2>1. \A n \in 1..k : c[n].exact.tm = corpus.exact[sample[n] + 1].tm
    BY <1>3 DEF Truth, Translated
  <2>2. one = two
    <3>1. \A n \in DOMAIN c : c[n].exact.tm = c[n].approx.tm
      BY <1>2, <1>4 DEF D, Same
    <3> QED BY <3>1
  <2>3. one = three
    BY <1>1, <1>2, <2>1 DEF D
  <2>4. Bleu(three, sample) \in Nat
    BY BleuAssumption DEF Validates
  <2> HIDE DEF one, two, three
  <2> DEFINE x == Bleu(one, sample)
  <2>5. x \in Nat
    BY <2>3, <2>4
  <2>6. BleuDelta(corpus, c, sample) = IF x > x THEN x - x ELSE x - x
    BY <2>2 DEF BleuDelta, one, two
  <2> HIDE DEF x
  <2>7. BleuDelta(corpus, c, sample) = 0
    BY <2>5, <2>6
  <2> QED BY <2>7
<1> QED
  BY <1>9, <1>10, <1>11, <1>12, <1>13, <1>14, <1>15 DEF Failures, c, D

(* The verdict of the running command, once it has one, is about a sample  *)
(* of the run that was asked for.                                          *)
VerdictInv ==
  /\ audit.phase \in {"evaluate", "validate"} => audit.verdict = NotValidated
  /\ audit.phase \in AuditPhases => audit.request \in Requests
  /\ audit.phase \in {"attach", "write", "done"} /\ audit.verdict.done =>
       /\ Validates(audit.request, audit.verdict.sample)
       /\ audit.verdict.failures = Failures(audit.request.corpus, audit.verdict.sample)

LEMMA VerdictInvMeans == VerdictInv => VerdictMeansAgreement
<1> SUFFICES ASSUME VerdictInv, audit.phase \in {"attach", "write", "done"},
                    audit.verdict.done
             PROVE  VerdictMeansAgreement
  BY DEF VerdictMeansAgreement
<1> DEFINE r == audit.request
           sample == audit.verdict.sample
           corpus == r.corpus
           S == {sample[n] : n \in DOMAIN sample}
<1>1. Validates(r, sample) /\ audit.verdict.failures = Failures(corpus, sample)
  BY DEF VerdictInv
<1>2. (\A i \in S : Truth(corpus, i) = Found(corpus, i)) => audit.verdict.failures = {}
  <2> SUFFICES ASSUME \A i \in S : Truth(corpus, i) = Found(corpus, i)
               PROVE  Failures(corpus, sample) = {}
    BY <1>1
  <2>1. \A n \in DOMAIN sample : Truth(corpus, sample[n]) = Found(corpus, sample[n])
    OBVIOUS
  <2> HIDE DEF r, sample, S
  <2> QED BY <1>1, <2>1, AgreementPasses
<1>3. audit.verdict.failures = {} => AgreesWithExact(corpus, S)
  <2> SUFFICES ASSUME audit.verdict.failures = {} PROVE AgreesWithExact(corpus, S)
    OBVIOUS
  <2>1. Validates(r, sample) /\ Failures(r.corpus, sample) = {}
    BY <1>1
  <2> HIDE DEF r, sample
  <2>2. AgreesWithExact(r.corpus, {sample[n] : n \in DOMAIN sample})
    BY ONLY <2>1, PassedMeansAgreement, Zenon
  <2> QED BY <2>2
<1> QED
  BY <1>2, <1>3, Zenon DEF VerdictMeansAgreement

(* How a validation ends, and about what.                                  *)
LEMMA ValidateReaches ==
  ASSUME Validate, audit.request \in Requests, AuditInv
  PROVE  /\ audit.phase = "validate"
         /\ \/ audit'.phase = "refused"
            \/ audit' = [audit EXCEPT !.phase = "attach"]
            \/ \E sample :
                 /\ Validates(audit.request, sample)
                 /\ audit'.phase = "attach" /\ audit'.request = audit.request
                 /\ audit'.verdict =
                      Validated(sample, Failures(audit.request.corpus, sample))
<1> DEFINE r == audit.request
<1>1. audit.phase = "validate" /\ AuditPhases = {"evaluate", "validate", "attach", "write", "done"}
  BY DEF Validate, AuditPhases
<1>2. audit = [phase |-> audit.phase, run |-> audit.run, request |-> audit.request,
               ran |-> audit.ran, verdict |-> audit.verdict, written |-> audit.written]
  BY <1>1, AuditShape
<1>3. \/ RefuseAudit
      \/ audit' = [audit EXCEPT !.phase = "attach"]
      \/ /\ ValidationAsked(r)
         /\ \E sample \in Samples(Len(r.corpus.exact), r.sample) :
              LET failures == Failures(r.corpus, sample) IN
              IF Fatal(r, failures) THEN RefuseAudit
              ELSE audit' = [audit EXCEPT !.phase = "attach", !.ran = audit.ran \cup {Active},
                               !.verdict = Validated(sample, failures)]
  BY DEF Validate
<1>4. RefuseAudit => audit'.phase = "refused"
  BY DEF RefuseAudit
<1>5. ASSUME ValidationAsked(r), NEW sample \in Samples(Len(r.corpus.exact), r.sample), NEW ran,
             audit' = [audit EXCEPT !.phase = "attach", !.ran = ran,
                         !.verdict = Validated(sample, Failures(r.corpus, sample))]
      PROVE  /\ Validates(r, sample)
             /\ audit'.phase = "attach" /\ audit'.request = r
             /\ audit'.verdict = Validated(sample, Failures(r.corpus, sample))
  <2>1. Validates(r, sample)
    BY <1>5 DEF Validates, ValidationAsked
  <2> DEFINE verdict == Validated(sample, Failures(r.corpus, sample))
  <2>2. audit' = [audit EXCEPT !.phase = "attach", !.ran = ran, !.verdict = verdict]
    BY <1>5
  <2> HIDE DEF verdict, r
  <2>3. audit'.phase = "attach" /\ audit'.request = audit.request /\ audit'.verdict = verdict
    BY <1>2, <2>2
  <2> QED BY <2>1, <2>3 DEF verdict, r
<1>6. ASSUME ValidationAsked(r), NEW sample \in Samples(Len(r.corpus.exact), r.sample),
             LET failures == Failures(r.corpus, sample) IN
             IF Fatal(r, failures) THEN RefuseAudit
             ELSE audit' = [audit EXCEPT !.phase = "attach", !.ran = audit.ran \cup {Active},
                              !.verdict = Validated(sample, failures)]
      PROVE  \/ audit'.phase = "refused"
             \/ /\ Validates(r, sample)
                /\ audit'.phase = "attach" /\ audit'.request = r
                /\ audit'.verdict = Validated(sample, Failures(r.corpus, sample))
  <2> DEFINE ran == audit.ran \cup {Active}
  <2>1. \/ RefuseAudit
        \/ audit' = [audit EXCEPT !.phase = "attach", !.ran = ran,
                       !.verdict = Validated(sample, Failures(r.corpus, sample))]
    BY <1>6
  <2> HIDE DEF ran, r
  <2> QED BY <1>4, <1>5, <1>6, <2>1
<1> QED BY <1>1, <1>3, <1>4, <1>6

LEMMA VerdictKept == AuditInv /\ VerdictInv /\ [Next]_vars => VerdictInv'
<1> SUFFICES ASSUME AuditInv, VerdictInv, [Next]_vars PROVE VerdictInv'
  OBVIOUS
<1>1. CASE StartAudit
  <2>1. PICK r \in Requests :
          audit' = [phase |-> "evaluate", run |-> runs + 1, request |-> r,
                    ran |-> {}, verdict |-> NotValidated, written |-> <<>>]
    BY <1>1 DEF StartAudit
  <2>2. audit'.phase = "evaluate" /\ audit'.request = r /\ audit'.verdict = NotValidated
    BY <2>1
  <2> QED BY <2>2 DEF VerdictInv
<1>2. CASE Evaluate
  <2>1. /\ audit.phase = "evaluate"
        /\ audit' = [audit EXCEPT !.phase = "validate", !.ran = {Active}]
    BY <1>2 DEF Evaluate
  <2>2. /\ audit'.phase = "validate" /\ audit'.request = audit.request
        /\ audit'.verdict = audit.verdict
    BY <2>1, AuditShape DEF AuditPhases
  <2> QED BY <2>1, <2>2 DEF VerdictInv, AuditPhases
<1>3. CASE Validate
  <2>1. audit.phase = "validate" /\ audit.request \in Requests /\ audit.verdict = NotValidated
    BY <1>3 DEF Validate, VerdictInv, AuditPhases
  <2>2. CASE audit'.phase = "refused"
    BY <2>2 DEF VerdictInv, AuditPhases
  <2>3. CASE audit' = [audit EXCEPT !.phase = "attach"]
    <3>1. /\ audit'.phase = "attach" /\ audit'.request = audit.request
          /\ audit'.verdict = NotValidated
      BY <2>1, <2>3, AuditShape DEF AuditPhases
    <3>2. audit'.verdict.done = FALSE
      BY <3>1 DEF NotValidated
    <3> QED BY <2>1, <3>1, <3>2 DEF VerdictInv
  <2>4. CASE \E sample :
               /\ Validates(audit.request, sample)
               /\ audit'.phase = "attach" /\ audit'.request = audit.request
               /\ audit'.verdict =
                    Validated(sample, Failures(audit.request.corpus, sample))
    <3>1. PICK sample :
            /\ Validates(audit.request, sample)
            /\ audit'.phase = "attach" /\ audit'.request = audit.request
            /\ audit'.verdict = Validated(sample, Failures(audit.request.corpus, sample))
      BY <2>4
    <3>2. /\ audit'.verdict.sample = sample
          /\ audit'.verdict.failures = Failures(audit.request.corpus, sample)
      BY <3>1 DEF Validated
    <3> QED BY <2>1, <3>1, <3>2 DEF VerdictInv
  <2> QED BY <1>3, <2>1, <2>2, <2>3, <2>4, ValidateReaches
<1>4. CASE AttachPerformance \/ WriteOutput \/ FinishAudit
  <2>1. /\ audit.phase \in {"attach", "write"} /\ audit'.phase \in {"write", "done"}
        /\ audit'.request = audit.request /\ audit'.verdict = audit.verdict
    <3>1. CASE AttachPerformance
      <4>1. audit.phase = "attach" /\ audit' = [audit EXCEPT !.phase = "write"]
        BY <3>1 DEF AttachPerformance
      <4> QED BY <4>1, AuditShape DEF AuditPhases
    <3>2. CASE WriteOutput
      <4>1. /\ audit.phase = "write"
            /\ audit' = [audit EXCEPT !.written = Append(audit.written, NextOutput)]
        BY <3>2 DEF WriteOutput, Writes
      <4> QED BY <4>1, AuditShape DEF AuditPhases
    <3>3. CASE FinishAudit
      <4>1. audit.phase = "write" /\ audit' = [audit EXCEPT !.phase = "done"]
        BY <3>3 DEF FinishAudit
      <4> QED BY <4>1, AuditShape DEF AuditPhases
    <3> QED BY <1>4, <3>1, <3>2, <3>3
  <2> QED BY <2>1 DEF VerdictInv, AuditPhases
<1>5. CASE RefuseClash \/ StopAudit \/ RunBatch
  <2>1. audit'.phase \in {"none", "refused", "stopped"}
    BY <1>5 DEF RefuseClash, RefuseAudit, StopAudit, RunBatch
  <2> QED BY <2>1 DEF VerdictInv, AuditPhases
<1>6. CASE RefuseThreads \/ BatchSteps \/ AttachToBatch \/ ScoringSteps \/ Session
            \/ OtherQuery \/ Done \/ UNCHANGED vars
  <2>1. audit' = audit
    BY <1>6 DEF RefuseThreads, BatchSteps, AttachToBatch, ScoringSteps, Session,
                OtherQuery, Done, vars, auditVars
  <2> QED BY <2>1 DEF VerdictInv
<1> QED BY <1>1, <1>2, <1>3, <1>4, <1>5, <1>6 DEF Next
----------------------------------------------------------------------------
(* Using the pool builds it, and a pool that is built stays.               *)
LEMMA PoolIsUsed ==
  /\ Active # NoPool
  /\ pool # NoPool => Active = pool
BY PoolAssumption DEF Active

LEMMA PoolIsConfigured ==
  ASSUME NEW threads \in ThreadOptions, Configure(threads)
  PROVE  /\ pool # NoPool => pool' = pool
         /\ threads # AutoThreads => pool' = threads /\ threads # NoPool
<1>1. threads # AutoThreads => threads # NoPool BY OptionsAssumption, PoolAssumption
<1>2. CASE threads = AutoThreads BY <1>2 DEF Configure
<1>3. CASE threads # AutoThreads
  <2>1. Accepts(threads) /\ pool' = IF Unbuilt THEN threads ELSE pool BY <1>3 DEF Configure
  <2> QED BY <2>1, <1>1, <1>3 DEF Accepts, Unbuilt
<1> QED BY <1>2, <1>3

(* The pool stays or is built, and nothing is said of it.                  *)
LEMMA PoolStays ==
  ASSUME ThreadsInv, UNCHANGED <<asked, reported>>, pool' \in {pool, Active},
         audit' = audit \/ audit'.phase \in {"none", "evaluate", "refused", "stopped"}
  PROVE  ThreadsInv'
BY PoolIsUsed DEF ThreadsInv

(* A command begins, and with it a new report.                             *)
LEMMA BeginKeeps ==
  ASSUME ThreadsInv, NEW threads \in ThreadOptions, Begin(threads),
         audit'.phase \in {"none", "evaluate"}
  PROVE  ThreadsInv'
<1>1. /\ Configure(threads) /\ asked' = threads /\ reported' = None BY DEF Begin
<1> QED BY <1>1, PoolIsConfigured DEF ThreadsInv

LEMMA ThreadsKept == AuditInv /\ ThreadsInv /\ [Next]_vars => ThreadsInv'
<1> SUFFICES ASSUME AuditInv, ThreadsInv, [Next]_vars PROVE ThreadsInv'
  OBVIOUS
<1>1. CASE StartAudit
  <2>1. audit'.phase = "evaluate" BY <1>1 DEF StartAudit
  <2> QED BY <2>1, <1>1, BeginKeeps DEF StartAudit
<1>2. CASE RunBatch
  <2>1. audit'.phase = "none" BY <1>2 DEF RunBatch
  <2> QED BY <2>1, <1>2, BeginKeeps DEF RunBatch
<1>3. CASE Evaluate
  <2>1. /\ audit.phase = "evaluate" /\ pool' = Active /\ UNCHANGED <<asked, reported>>
        /\ audit' = [audit EXCEPT !.phase = "validate", !.ran = {Active}]
    BY <1>3 DEF Evaluate, UsePool
  <2>2. audit'.phase = "validate" /\ audit'.ran = {Active}
    BY <2>1, AuditShape DEF AuditPhases
  <2> QED BY <2>1, <2>2, PoolIsUsed DEF ThreadsInv
<1>4. CASE Validate
  <2>1. /\ audit.phase = "validate" /\ pool' \in {pool, Active} /\ UNCHANGED <<asked, reported>>
    BY <1>4 DEF Validate, UsePool
  <2>2. pool # NoPool /\ audit.ran = {pool} /\ Active = pool
    BY <2>1, PoolIsUsed DEF ThreadsInv
  <2>3. \/ audit'.phase = "refused"
        \/ audit'.phase = "attach" /\ audit'.ran \in {audit.ran, audit.ran \cup {Active}}
    <3>1. audit = [phase |-> audit.phase, run |-> audit.run, request |-> audit.request,
                   ran |-> audit.ran, verdict |-> audit.verdict, written |-> audit.written]
      BY <2>1, AuditShape DEF AuditPhases
    <3>2. ASSUME audit' = [audit EXCEPT !.phase = "attach"]
          PROVE  audit'.phase = "attach" /\ audit'.ran = audit.ran
      BY <3>1, <3>2
    <3>3. ASSUME NEW verdict,
                 audit' = [audit EXCEPT !.phase = "attach", !.ran = audit.ran \cup {Active},
                             !.verdict = verdict]
          PROVE  audit'.phase = "attach" /\ audit'.ran = audit.ran \cup {Active}
      BY <3>1, <3>3
    <3>4. RefuseAudit => audit'.phase = "refused" BY DEF RefuseAudit
    <3>5. \/ RefuseAudit
          \/ audit' = [audit EXCEPT !.phase = "attach"]
          \/ \E verdict :
               audit' = [audit EXCEPT !.phase = "attach", !.ran = audit.ran \cup {Active},
                           !.verdict = verdict]
      BY <1>4, ValidateSteps
    <3> QED BY <3>2, <3>3, <3>4, <3>5
  <2> QED BY <2>1, <2>2, <2>3, PoolStays DEF ThreadsInv
<1>5. CASE AttachPerformance
  <2>1. /\ audit.phase = "attach" /\ pool' = Active /\ reported' = Active /\ asked' = asked
        /\ audit' = [audit EXCEPT !.phase = "write"]
    BY <1>5 DEF AttachPerformance, UsePool
  <2>2. audit'.phase = "write" /\ audit'.ran = audit.ran
    BY <2>1, AuditShape DEF AuditPhases
  <2> QED BY <2>1, <2>2, PoolIsUsed DEF ThreadsInv
<1>6. CASE WriteOutput
  <2>1. /\ audit.phase = "write" /\ UNCHANGED threadVars
        /\ audit' = [audit EXCEPT !.written = Append(audit.written, NextOutput)]
    BY <1>6 DEF WriteOutput, Writes
  <2>2. audit'.phase = "write" /\ audit'.ran = audit.ran
    BY <2>1, AuditShape DEF AuditPhases
  <2> QED BY <2>1, <2>2 DEF ThreadsInv, threadVars
<1>7. CASE FinishAudit
  <2>1. /\ audit.phase = "write" /\ UNCHANGED threadVars
        /\ audit' = [audit EXCEPT !.phase = "done"]
    BY <1>7 DEF FinishAudit
  <2>2. audit'.phase = "done" /\ audit'.ran = audit.ran
    BY <2>1, AuditShape DEF AuditPhases
  <2> QED BY <2>1, <2>2 DEF ThreadsInv, threadVars
<1>8. CASE RefuseClash \/ StopAudit
  <2>1. UNCHANGED threadVars /\ audit'.phase \in {"refused", "stopped"}
    BY <1>8 DEF RefuseClash, RefuseAudit, StopAudit
  <2> QED BY <2>1, PoolStays DEF threadVars
<1>9. CASE AttachToBatch
  <2>1. pool' = Active /\ reported' = Active /\ UNCHANGED <<asked, auditVars>>
    BY <1>9 DEF AttachToBatch, UsePool
  <2> QED BY <2>1, PoolIsUsed DEF ThreadsInv, auditVars
<1>10. CASE RefuseThreads \/ BatchSteps \/ ScoringSteps \/ Session \/ OtherQuery \/ Done
             \/ UNCHANGED vars
  <2>1. pool' \in {pool, Active} /\ UNCHANGED <<asked, reported, audit>>
    BY <1>10 DEF RefuseThreads, BatchSteps, ScoringSteps, Session, OtherQuery, Done,
                 vars, auditVars, threadVars, UsePool
  <2> QED BY <2>1, PoolStays
<1> QED
  BY <1>1, <1>2, <1>3, <1>4, <1>5, <1>6, <1>7, <1>8, <1>9, <1>10 DEF Next
----------------------------------------------------------------------------
IInv == ScoringInv /\ BatchInv /\ AuditInv /\ VerdictInv /\ ThreadsInv

LEMMA Initially == Init => IInv
<1> SUFFICES ASSUME Init PROVE IInv
  OBVIOUS
<1>1. ScoringInv BY ScoringInitially DEF Init, BatchInit
<1>2. BatchInv BY DEF Init, BatchInit, BatchInv
<1>3. AuditInv BY DEF Init, AuditInv, NoUnmarkedFailure
<1>4. VerdictInv BY DEF Init, VerdictInv, AuditPhases
<1>5. ThreadsInv BY DEF Init, ThreadsInv
<1> QED BY <1>1, <1>2, <1>3, <1>4, <1>5 DEF IInv

(* Whatever a process does, in any order, the invariant of the scorer, of  *)
(* the batch, of the validated run and of the pool hold together.          *)
THEOREM CommandsInvariant == Spec => []IInv
<1>1. IInv /\ [Next]_vars => IInv'
  BY ScorerSteps, BatchKept, AuditKept, VerdictKept, ThreadsKept DEF IInv
<1> QED BY Initially, <1>1, PTL DEF Spec

(* Every score of a report is over the segments of its bin, of the system  *)
(* it is reported for, and the differences are between those scores        *)
(* (metrics/sacre.py, bins.py).                                            *)
THEOREM ScoresCorrect == Spec => []ScoresAreTheGroups
<1>1. IInv => ScoresAreTheGroups BY ScoringInvScores DEF IInv
<1> QED BY CommandsInvariant, <1>1, PTL

(* The systems of one call are scored through one interface, and never     *)
(* privately against a baseline scored publicly (metrics/sacre.py).        *)
THEOREM AlikeCorrect == Spec => []ComparedAlike
<1>1. IInv => ComparedAlike BY ScoringInvAlike DEF IInv
<1> QED BY CommandsInvariant, <1>1, PTL

(* A report of a batch stays the one on disk under its name, whatever file *)
(* names the systems have, and a batch that succeeds has one for each      *)
(* (cli.py, _write_batch_reports).                                         *)
THEOREM BatchReportsCorrect == Spec => []BatchReportsAreOwn
<1>1. ASSUME BatchInv PROVE BatchReportsAreOwn
  <2>1. ASSUME batch.phase \in {"write", "done"}, NEW name \in Names(batch.written)
        PROVE  disk[Stem(name)] = [run |-> batch.run, system |-> name]
    <3>1. PICK n \in 1..Len(batch.written) : name = batch.written[n]
      BY <1>1, <2>1, BatchFacts DEF Names
    <3> QED BY <1>1, <2>1, <3>1, BatchFacts DEF WrittenOK
  <2>2. ASSUME batch.phase = "done" PROVE Names(batch.written) = Names(batch.order)
    <3>1. /\ DOMAIN batch.written = DOMAIN batch.order
          /\ \A n \in DOMAIN batch.written : batch.written[n] = batch.order[n]
      BY <2>2, BatchFacts, <1>1 DEF BatchShape, WrittenOK
    <3> QED BY <3>1 DEF Names
  <2> QED BY <2>1, <2>2 DEF BatchReportsAreOwn
<1>2. IInv => BatchReportsAreOwn BY <1>1 DEF IInv
<1> QED BY CommandsInvariant, <1>2, PTL

(* No output of a run that was to be validated is on disk without a        *)
(* verdict, nor after a failure nobody allowed, nor without the warning    *)
(* (cli.py, _maybe_validate_approximate_run).                              *)
THEOREM NoUnmarkedFailureCorrect == Spec => []NoUnmarkedFailure
<1>1. IInv => NoUnmarkedFailure BY DEF IInv, AuditInv
<1> QED BY CommandsInvariant, <1>1, PTL

(* A verdict says what it should: a run that passes agrees with exact      *)
(* retrieval on the shares of its sample that are promised, and one that   *)
(* agrees on all of it passes (approx_validation.py,                       *)
(* validate_approximate_run).                                              *)
THEOREM VerdictCorrect == Spec => []VerdictMeansAgreement
<1>1. IInv => VerdictMeansAgreement BY VerdictInvMeans DEF IInv
<1> QED BY CommandsInvariant, <1>1, PTL

(* The threads a report names are the ones asked for and the ones its      *)
(* queries ran on (cli.py, lib.rs).                                        *)
THEOREM ThreadsCorrect == Spec => []ReportedThreadsRan
<1>1. IInv => ReportedThreadsRan BY DEF IInv, ThreadsInv, ReportedThreadsRan
<1> QED BY CommandsInvariant, <1>1, PTL
=============================================================================
