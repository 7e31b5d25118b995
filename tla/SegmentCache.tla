---------------------------- MODULE SegmentCache ----------------------------
(***************************************************************************)
(* Scoring runs and the files they leave for later ones: an index bundle,  *)
(* the segment rows of an evaluation, and the sidecar that describes them. *)
(* Rows and sidecar are written in place, one after the other, by a        *)
(* process that may be killed; a cached scoring reads them in the same     *)
(* order, row by row, while another run may be rewriting them.             *)
(*                                                                         *)
(* Abstractions.  What retrieval measures for a segment is given by        *)
(* Measured (module Exposure says what it is); scores and thresholds are   *)
(* percentages; normalisation and similarity settings are one setting      *)
(* `text', the limits of fast retrieval are `caps', and topk and the zero  *)
(* policy are `query'.  A hash is the text it is computed from.  Storing a *)
(* bundle is atomic (module BundleStore).  The rows on disk may end in the *)
(* middle of a row; a reader takes a row at once or fails at it.           *)
(***************************************************************************)
EXTENDS Integers, FiniteSets, Sequences

CONSTANTS
  Settings,            \* configurations asked for, valid or not
  Inputs,              \* [train, target, test, refs]: corpora of a run
  Size(_), RefSize(_), \* lines of a test set and of a reference
  Measured(_, _, _, _),\* what a run measures: input, index, query settings, segment
  NoText,              \* the empty translation
  None,
  Torn,                \* a sidecar that is only partly written
  Commands             \* bound: commands run

ASSUME CommandsAssumption == Commands \in Nat

VARIABLES
  bundle,     \* the index bundle on disk
  rows_file,  \* the segment rows on disk
  meta_file,  \* the sidecar on disk
  writer,     \* the evaluation that is writing them, and its report
  reader,     \* the cached scoring that is reading them
  commands    \* commands run so far

vars == <<bundle, rows_file, meta_file, writer, reader, commands>>
----------------------------------------------------------------------------
(* Configurations.                                                         *)
Valid(c) ==
  /\ c.retrieval = "approx" => c.allow_approximate /\ c.mode # "native_exact"
  /\ c.retrieval # "approx" => c.mode # "native_fast"
  /\ c.exact_thresholds => c.retrieval # "approx"
  /\ c.far <= c.near

Normalized(c) ==
  IF c.retrieval = "approx" /\ c.mode = "auto" THEN [c EXCEPT !.mode = "native_fast"] ELSE c

ResolveMode(c) == IF c.mode = "auto" THEN "native_exact" ELSE c.mode

Index(c) == [resolved |-> ResolveMode(c), text |-> c.text, caps |-> c.caps]

(* (mutant) the limits of a fast index are not compared                     *)
FitsAnyCaps(b, c) ==
  /\ b.text = c.text
  /\ c.mode \in {"auto", b.resolved}

(* A bundle is refused for other texts, for another mode than the one      *)
(* asked for by name, and a fast one for other limits.                     *)
Fits(b, c) ==
  /\ b.text = c.text
  /\ c.mode \in {"auto", b.resolved}
  /\ b.resolved = "native_fast" => b.caps = c.caps

Configs == {Normalized(c) : c \in Settings}

Indexes == {Index(c) : c \in Configs}

ASSUME SettingsAssumption ==
  \A c \in Settings :
    /\ c = [mode |-> c.mode, retrieval |-> c.retrieval,
            allow_approximate |-> c.allow_approximate,
            exact_thresholds |-> c.exact_thresholds, text |-> c.text, caps |-> c.caps,
            query |-> c.query, far |-> c.far, near |-> c.near, leak |-> c.leak]
    /\ c.mode \in {"auto", "native_exact", "native_fast"}

(* Corpora that validate_corpus_inputs lets through.                       *)
ASSUME InputAssumption ==
  \A input \in Inputs :
    /\ Size(input.test) \in Nat \ {0}
    /\ input.refs # None => RefSize(input.refs) = Size(input.test)

(* Every segment has a pair exposure when pairs are computed, and exact    *)
(* retrieval does not read the limits of fast retrieval.                   *)
ASSUME MeasuredAssumption ==
  \A input \in Inputs, index \in Indexes, c \in Settings :
    \A i \in 0..(Size(input.test) - 1) :
      /\ Measured(input, index, c.query, i).pair # None
      /\ index.resolved = "native_exact" =>
           Measured(input, [index EXCEPT !.caps = c.caps], c.query, i) =
             Measured(input, index, c.query, i)

(* A run: its settings, its input, its index, and whether its rows hold    *)
(* the translations.                                                       *)
Pairs(run) == run.input.target /\ run.input.refs # None

(* Threshold flags over an approximate index are refused.                  *)
Refused(run) ==
  run.config.exact_thresholds /\ Pairs(run) /\ run.index.resolved = "native_fast"
----------------------------------------------------------------------------
(* Rows and reports.                                                       *)
Bin(exact, score, c) ==
  IF exact THEN "source_exact"
  ELSE IF score >= c.near THEN "near"
  ELSE IF score >= c.far THEN "medium" ELSE "far"

Row(run, i) ==
  LET m == Measured(run.input, run.index, run.config.query, i) IN
  [index |-> i, score |-> m.score, exact |-> m.exact,
   bin |-> Bin(m.exact, m.score, run.config),
   pair |-> IF Pairs(run) THEN m.pair ELSE None,
   flags |-> IF Pairs(run) /\ run.config.exact_thresholds
             THEN [t \in run.config.leak |-> m.best_pair >= t] ELSE None,
   tm |-> IF run.input.target /\ run.tm_text THEN m.tm ELSE NoText]

RowsOf(run) == [n \in 1..Size(run.input.test) |-> Row(run, n - 1)]

TmOf(run) ==
  IF run.input.target
  THEN [n \in 1..Size(run.input.test) |->
          Measured(run.input, run.index, run.config.query, n - 1).tm]
  ELSE <<>>

(* (mutant) only the settings say whether retrieval was approximate         *)
ApproximateBySettings(c, resolved) == c.retrieval = "approx"

Approximate(c, resolved) == c.retrieval = "approx" \/ resolved = "native_fast"

PairMode(c, resolved) ==
  IF Approximate(c, resolved) THEN "approx_topk"
  ELSE IF c.exact_thresholds THEN "topk_rerank+threshold_exact" ELSE "topk_rerank"

(* How a report says it was computed.                                      *)
Semantics(c, resolved, has_pair) ==
  [retrieval |-> c.retrieval,
   approximate |-> Approximate(c, resolved),
   pair_mode |-> IF has_pair THEN PairMode(c, resolved) ELSE "none",
   safe_thresholds |-> IF Approximate(c, resolved) THEN {} ELSE {c.far, c.near} \cup c.leak]

Flagged(rows) == {n \in DOMAIN rows : rows[n].flags # None}

(* The figures at the thresholds, as counts of segments.  Exact flags that *)
(* a row does not hold count as false.                                     *)
Summary(rows, c) ==
  [at_threshold |-> [t \in c.leak |->
     Cardinality({n \in DOMAIN rows : rows[n].pair # None /\ rows[n].pair >= t})],
   exact_at_threshold |->
     IF Flagged(rows) = {} THEN None
     ELSE [t \in c.leak |-> Cardinality(
             {n \in Flagged(rows) : t \in DOMAIN rows[n].flags /\ rows[n].flags[t]})]]

Bins == {"source_exact", "near", "medium", "far"}

BinSizes(rows) == [b \in Bins |-> Cardinality({n \in DOMAIN rows : rows[n].bin = b})]

Report(rows, tm, c, resolved, has_pair) ==
  [semantics |-> Semantics(c, resolved, has_pair), exposure |-> Summary(rows, c),
   bins |-> BinSizes(rows), tm |-> tm]

FreshReport(run) ==
  Report(RowsOf(run), TmOf(run), run.config, run.index.resolved, Pairs(run))

(* The sidecar of a run.                                                   *)
Meta(run) ==
  [by |-> run, config |-> run.config, backend |-> run.index.resolved,
   tm_text_included |-> run.tm_text,
   num_test |-> Size(run.input.test), refs |-> run.input.refs, tm_hyp |-> TmOf(run)]
----------------------------------------------------------------------------
Idle == [phase |-> "idle"]

Init ==
  /\ bundle = None /\ rows_file = None /\ meta_file = None
  /\ writer = Idle /\ reader = Idle
  /\ commands = 0

Command == commands < Commands /\ commands' = commands + 1

BuildIndex ==
  /\ Command
  /\ \E c \in Settings, input \in Inputs :
       /\ Valid(c)
       /\ bundle' = [train |-> input.train, target |-> input.target,
                     index |-> Index(Normalized(c))]
  /\ UNCHANGED <<rows_file, meta_file, writer, reader>>

(* An evaluation, over indexes it builds or over the bundle, up to its     *)
(* report.                                                                 *)
Evaluate ==
  /\ Command /\ writer = Idle
  /\ \E c \in Settings, input \in Inputs, indexed, tm_text \in BOOLEAN :
       LET config == Normalized(c)
           run == [config |-> config, input |-> input, tm_text |-> tm_text,
                   index |-> IF indexed /\ bundle # None THEN bundle.index ELSE Index(config)]
       IN /\ Valid(c)
          /\ indexed => /\ bundle # None
                        /\ bundle.train = input.train /\ bundle.target = input.target
                        /\ Fits(bundle.index, config)
          /\ ~Refused(run)
          /\ writer' = [phase |-> "rows", run |-> run, report |-> FreshReport(run)]
  /\ UNCHANGED <<bundle, rows_file, meta_file, reader>>

OpenRows ==
  /\ writer.phase = "rows"
  /\ rows_file' = [by |-> writer.run, rows |-> <<>>, torn |-> FALSE]
  /\ writer' = [writer EXCEPT !.phase = "writing"]
  /\ UNCHANGED <<bundle, meta_file, reader, commands>>

(* Part of a row reaches the file, or the rest of it.                      *)
WriteRow ==
  /\ writer.phase = "writing"
  /\ Len(rows_file.rows) < Size(writer.run.input.test)
  /\ rows_file' = IF rows_file.torn
                  THEN [rows_file EXCEPT
                          !.rows = Append(@, Row(writer.run, Len(@))), !.torn = FALSE]
                  ELSE [rows_file EXCEPT !.torn = TRUE]
  /\ UNCHANGED <<bundle, meta_file, writer, reader, commands>>

(* (mutant) the sidecar is opened before the last row is written            *)
OpenMetaEarly ==
  /\ writer.phase = "writing"
  /\ Len(rows_file.rows) + 1 >= Size(writer.run.input.test)
  /\ meta_file' = Meta(writer.run)
  /\ writer' = [writer EXCEPT !.phase = "meta"]
  /\ UNCHANGED <<bundle, rows_file, reader, commands>>

OpenMeta ==
  /\ writer.phase = "writing"
  /\ Len(rows_file.rows) = Size(writer.run.input.test)
  /\ meta_file' = Torn
  /\ writer' = [writer EXCEPT !.phase = "meta"]
  /\ UNCHANGED <<bundle, rows_file, reader, commands>>

WriteMeta ==
  /\ writer.phase = "meta"
  /\ meta_file' = Meta(writer.run)
  /\ writer' = Idle
  /\ UNCHANGED <<bundle, rows_file, reader, commands>>

(* The process is killed between two writes.                               *)
Interrupt ==
  /\ writer # Idle
  /\ writer' = Idle
  /\ UNCHANGED <<bundle, rows_file, meta_file, reader, commands>>

----------------------------------------------------------------------------
(* A cached scoring.                                                       *)
Ready == reader.phase \in {"idle", "refused", "scored"}

LoadRows ==
  /\ Command /\ Ready /\ rows_file # None
  /\ \E c \in Settings, refs \in {i.refs : i \in Inputs} \ {None},
        allow_refs, allow_no_metadata \in BOOLEAN :
       /\ Valid(c)
       /\ reader' = [phase |-> "reading",
                     config |-> Normalized(c), refs |-> refs,
                     allow_refs |-> allow_refs, allow_no_metadata |-> allow_no_metadata,
                     by |-> rows_file.by, mixed |-> FALSE, rows |-> <<>>,
                     meta |-> None, report |-> None]
  /\ UNCHANGED <<bundle, rows_file, meta_file, writer>>

(* The file still holds the rows read last, so the next one starts where   *)
(* the reader is; otherwise the reader may be anywhere in the file.        *)
InPlace == reader.rows = <<>> \/ rows_file.by = reader.by

ReadRow ==
  /\ reader.phase = "reading"
  /\ Len(reader.rows) < Len(rows_file.rows)
  /\ reader' = [reader EXCEPT !.rows = Append(@, rows_file.rows[Len(@) + 1]),
                              !.by = rows_file.by,
                              !.mixed = @ \/ ~InPlace]
  /\ UNCHANGED <<bundle, rows_file, meta_file, writer, commands>>

(* Where the file ends, the rows do.                                       *)
EndOfRows ==
  /\ reader.phase = "reading"
  /\ InPlace => Len(reader.rows) >= Len(rows_file.rows)
  /\ ~(InPlace /\ rows_file.torn /\ Len(reader.rows) = Len(rows_file.rows))
  /\ reader' = [reader EXCEPT !.phase = "rows"]
  /\ UNCHANGED <<bundle, rows_file, meta_file, writer, commands>>

(* A line is part of a row, or a row of another place.                     *)
BrokenRow ==
  /\ reader.phase = "reading"
  /\ InPlace => rows_file.torn /\ Len(reader.rows) = Len(rows_file.rows)
  /\ reader' = [reader EXCEPT !.phase = "refused"]
  /\ UNCHANGED <<bundle, rows_file, meta_file, writer, commands>>

(* (mutants) settings compared without those of a query, or with the mode   *)
(* resolved on one side only                                                *)
SettingsAgreeButQuery(m, c) ==
  \A s \in {"text", "retrieval", "allow_approximate", "mode", "caps", "exact_thresholds",
            "far", "near"} : m[s] = c[s]
SettingsAgreeResolved(m, c) ==
  /\ \A s \in {"text", "query", "retrieval", "allow_approximate", "caps",
               "exact_thresholds", "far", "near"} : m[s] = c[s]
  /\ m.mode = ResolveMode(c)

(* All settings but the leak thresholds.                                   *)
SettingsAgree(m, c) ==
  \A s \in {"text", "query", "retrieval", "allow_approximate", "mode", "caps",
            "exact_thresholds", "far", "near"} : m[s] = c[s]

CachedTm(rows) == [n \in DOMAIN rows |-> rows[n].tm]

(* (mutant) the translations are not compared with the sidecar              *)
TmAgreesUnchecked(rows, m) == m.tm_text_included

TmAgrees(rows, m) ==
  m.tm_text_included /\ m.tm_hyp = CachedTm(rows)

(* validate_segment_metadata                                               *)
Describes(m) ==
  /\ TmAgrees(reader.rows, m)
  /\ m.num_test = Len(reader.rows)
  /\ SettingsAgree(m.config, reader.config)
  /\ m.refs # None
  /\ reader.allow_refs \/ m.refs = reader.refs

Accepts(meta) ==
  IF meta = None THEN reader.allow_no_metadata ELSE meta # Torn /\ Describes(meta)

LoadMeta ==
  /\ reader.phase = "rows"
  /\ reader' = [reader EXCEPT !.meta = meta_file,
                              !.phase = IF Accepts(meta_file) THEN "loaded" ELSE "refused"]
  /\ UNCHANGED <<bundle, rows_file, meta_file, writer, commands>>

BinsAgree(rows, c) == \A n \in DOMAIN rows : rows[n].bin = Bin(rows[n].exact, rows[n].score, c)

Backend(meta) == IF meta = None THEN "cached_segments" ELSE meta.backend

Paired(rows) == \E n \in DOMAIN rows : rows[n].pair # None

CachedReport(rows, c, meta) ==
  Report(rows, CachedTm(rows), c, Backend(meta), Paired(rows))

ScoreCached ==
  /\ reader.phase = "loaded"
  /\ IF /\ reader.rows # <<>> /\ Len(reader.rows) = RefSize(reader.refs)
        /\ BinsAgree(reader.rows, reader.config)
     THEN reader' = [reader EXCEPT !.phase = "scored",
            !.report = CachedReport(reader.rows, reader.config, reader.meta)]
     ELSE reader' = [reader EXCEPT !.phase = "refused"]
  /\ UNCHANGED <<bundle, rows_file, meta_file, writer, commands>>

(* The bound is reached and no command is running.                         *)
Done == commands = Commands /\ writer = Idle /\ Ready /\ UNCHANGED vars

Next ==
  \/ BuildIndex
  \/ Evaluate \/ OpenRows \/ WriteRow \/ OpenMeta \/ WriteMeta \/ Interrupt
  \/ LoadRows \/ ReadRow \/ EndOfRows \/ BrokenRow \/ LoadMeta \/ ScoreCached
  \/ Done

Spec == Init /\ [][Next]_vars
----------------------------------------------------------------------------
Scored == reader.phase = "scored"

(* Rows and sidecar of one run.                                            *)
OneRun == reader.meta # None /\ ~reader.mixed /\ reader.meta.by = reader.by

TypeOK ==
  /\ writer.phase \in {"idle", "rows", "writing", "meta"}
  /\ writer.phase = "writing" =>
       /\ rows_file.by = writer.run
       /\ Len(rows_file.rows) + (IF rows_file.torn THEN 1 ELSE 0) <= Size(writer.run.input.test)
  /\ writer.phase = "meta" => meta_file = Torn
  /\ reader.phase \in {"idle", "reading", "rows", "loaded", "refused", "scored"}
  /\ commands \in 0..Commands

(* Whatever an interruption or another run left on disk, a report from     *)
(* rows and sidecar of one run is the report that run would have made with *)
(* the settings of the cached scoring: partial rows are never scored, and  *)
(* the two ways of filling a report agree (load_cached_artifact,           *)
(* CachedSegmentScorer, _build_cached_report).  Exact flags, which are     *)
(* stored for the thresholds of their run, are excepted.                   *)
CachedIsFresh ==
  /\ Scored /\ OneRun
  /\ reader.config.exact_thresholds => reader.config.leak = reader.by.config.leak
  =>
    reader.report = FreshReport([reader.by EXCEPT !.config = reader.config])

(* Rows and sidecar of one finished run, with translations, are not        *)
(* refused to the settings and references that run had                     *)
(* (validate_segment_metadata).                                            *)
FinishedCacheIsAccepted ==
  reader.phase = "refused" =>
    ~(/\ reader.meta \notin {None, Torn} /\ OneRun
      /\ reader.rows = RowsOf(reader.by) /\ reader.by.tm_text /\ reader.by.input.target
      /\ reader.config = reader.by.config /\ reader.refs = reader.by.input.refs)

(* Also when rows and sidecar are of different runs, or the rows of        *)
(* several, the translations scored as baseline are those the sidecar's    *)
(* run made for these references (build_segment_fingerprints).             *)
BaselineIsTheSidecars ==
  Scored /\ reader.meta # None =>
    /\ reader.report.tm = TmOf(reader.meta.by)
    /\ Len(reader.rows) = Size(reader.meta.by.input.test)
    /\ reader.allow_refs \/ reader.refs = reader.meta.by.input.refs

(* No report mixes bins assigned under other thresholds, sidecar or not    *)
(* (_validate_cached_bins).                                                *)
BinsFollowThresholds ==
  Scored => \A b \in Bins :
    reader.report.bins[b] = Cardinality({n \in DOMAIN reader.rows :
      Bin(reader.rows[n].exact, reader.rows[n].score, reader.config) = b})

(* A report over fast retrieval says so and names no threshold as safe,    *)
(* whether it was computed or read back (_retrieval_semantics).            *)
ApproximateSaysSo ==
  LET Honest(report, by) ==
        by.index.resolved = "native_fast" =>
          /\ report.semantics.approximate /\ report.semantics.safe_thresholds = {}
          /\ report.semantics.pair_mode \in {"none", "approx_topk"}
  IN /\ writer # Idle => Honest(writer.report, writer.run)
     /\ Scored /\ OneRun => Honest(reader.report, reader.by)

(* Exact threshold flags reach the disk only from exact retrieval          *)
(* (_require_exact_threshold_backend).                                     *)
ExactFlagsAreExact ==
  rows_file # None =>
    \A n \in DOMAIN rows_file.rows :
      rows_file.rows[n].flags # None => rows_file.by.index.resolved = "native_exact"

(* A report over a reused bundle gives the figures of a fresh build of the *)
(* same mode under the settings asked for                                  *)
(* (_validate_manifest_compatibility).                                     *)
ReuseChangesNoFigure ==
  writer # Idle =>
    writer.report = FreshReport([writer.run EXCEPT !.index =
                      Index([writer.run.config EXCEPT !.mode = writer.run.index.resolved])])
----------------------------------------------------------------------------
(* What json_schema.md says of the backend a cached report names: it is    *)
(* that of the run that created the rows.                                  *)
BackendIsTheRowsOwn ==
  Scored /\ reader.meta # None /\ ~reader.mixed =>
    reader.meta.backend = reader.by.index.resolved

(* What method_spec.md says of exact flags: no false negatives, so no      *)
(* fewer pairs than the reranked exposures show.                           *)
ExactRatesDominate ==
  Scored /\ reader.report.exposure.exact_at_threshold # None =>
    \A t \in reader.config.leak :
      reader.report.exposure.at_threshold[t] <= reader.report.exposure.exact_at_threshold[t]
=============================================================================
