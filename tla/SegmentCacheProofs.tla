------------------------- MODULE SegmentCacheProofs -------------------------
(***************************************************************************)
(* What a cached scoring may rely on, for any settings, inputs, commands   *)
(* and kills: the rows on disk are the first rows of one run, a sidecar is *)
(* torn or that of one run, and a report computed over an index, fresh or  *)
(* reused, is computed over one that fits the settings asked for.          *)
(***************************************************************************)
EXTENDS SegmentCache, SequenceTheorems, TLAPS

USE SettingsAssumption, InputAssumption

(* The runs an evaluation accepts.                                         *)
RunOK(run) ==
  /\ run = [config |-> run.config, input |-> run.input, tm_text |-> run.tm_text,
            index |-> run.index]
  /\ run.config \in Configs /\ run.input \in Inputs
  /\ run.index \in Indexes /\ run.index.text = run.config.text
  /\ run.index.resolved = "native_fast" => run.index.caps = run.config.caps
  /\ ~Refused(run)

(* The first n rows of a run.                                              *)
RowsTo(run, n) == [m \in 1..n |-> Row(run, m - 1)]

FirstRows(rows, run) == \E n \in 0..Size(run.input.test) : rows = RowsTo(run, n)

WriterInv ==
  \/ writer = Idle
  \/ /\ writer = [phase |-> writer.phase, run |-> writer.run, report |-> FreshReport(writer.run)]
     /\ writer.phase \in {"rows", "writing", "meta"}
     /\ RunOK(writer.run)

(* What is in the rows file once it is opened; a torn row is one of those  *)
(* that are left.                                                          *)
RowsFile ==
  /\ rows_file = [by |-> rows_file.by, rows |-> rows_file.rows, torn |-> rows_file.torn]
  /\ rows_file.torn \in BOOLEAN
  /\ RunOK(rows_file.by)
  /\ \E n \in 0..Size(rows_file.by.input.test) :
       /\ rows_file.rows = RowsTo(rows_file.by, n)
       /\ rows_file.torn => n < Size(rows_file.by.input.test)

DiskInv ==
  /\ bundle # None => bundle.index \in Indexes
  /\ rows_file # None => RowsFile
  /\ writer.phase = "writing" => RowsFile /\ rows_file.by = writer.run
  /\ writer.phase = "meta" => meta_file = Torn
  /\ reader.phase = "reading" => RowsFile

OfARun(meta) == RunOK(meta.by) /\ meta = Meta(meta.by)

MetaInv == meta_file \notin {None, Torn} => OfARun(meta_file)

(* The rows a reader holds are the first ones of a run unless the file was *)
(* rewritten under its hands, a sidecar it went on with describes them,    *)
(* and its report is computed from the two.                                *)
ReaderInv ==
  \/ reader = Idle
  \/ /\ reader = [phase |-> reader.phase, config |-> reader.config, refs |-> reader.refs,
                  allow_refs |-> reader.allow_refs,
                  allow_no_metadata |-> reader.allow_no_metadata, by |-> reader.by,
                  mixed |-> reader.mixed, rows |-> reader.rows, meta |-> reader.meta,
                  report |-> reader.report]
     /\ reader.phase \in {"reading", "rows", "loaded", "refused", "scored"}
     /\ reader.phase \in {"reading", "rows"} => reader.meta = None
     /\ reader.config \in Configs /\ reader.refs # None
     /\ RunOK(reader.by)
     /\ ~reader.mixed => FirstRows(reader.rows, reader.by)
     /\ reader.meta \notin {None, Torn} => OfARun(reader.meta)
     /\ reader.phase \in {"loaded", "scored"} => Accepts(reader.meta)
     /\ reader.phase = "scored" =>
          /\ reader.rows # <<>> /\ Len(reader.rows) = RefSize(reader.refs)
          /\ BinsAgree(reader.rows, reader.config)
          /\ reader.report = CachedReport(reader.rows, reader.config, reader.meta)

CacheInv ==
  /\ WriterInv /\ DiskInv /\ MetaInv /\ ReaderInv /\ FinishedCacheIsAccepted
  /\ commands \in 0..Commands
----------------------------------------------------------------------------
(* Settings and runs.                                                      *)

LEMMA ConfigShape ==
  ASSUME NEW c \in Configs
  PROVE  /\ c = [mode |-> c.mode, retrieval |-> c.retrieval,
                 allow_approximate |-> c.allow_approximate,
                 exact_thresholds |-> c.exact_thresholds, text |-> c.text, caps |-> c.caps,
                 query |-> c.query, far |-> c.far, near |-> c.near, leak |-> c.leak]
         /\ c.mode \in {"auto", "native_exact", "native_fast"}
         /\ \E d \in Settings : c.query = d.query /\ c.caps = d.caps
<1>1. PICK d \in Settings : c = Normalized(d)
  BY DEF Configs
<1>2. CASE c = d
  BY <1>2
<1>3. CASE c = [d EXCEPT !.mode = "native_fast"]
  BY <1>3
<1> QED
  BY <1>1, <1>2, <1>3 DEF Normalized

LEMMA IndexShape ==
  ASSUME NEW index \in Indexes
  PROVE  /\ index = [resolved |-> index.resolved, text |-> index.text, caps |-> index.caps]
         /\ index.resolved \in {"native_exact", "native_fast"}
<1>1. PICK c \in Configs : index = Index(c)
  BY DEF Indexes
<1>2. c.mode \in {"auto", "native_exact", "native_fast"}
  BY ConfigShape
<1> QED
  BY <1>1, <1>2 DEF Index, ResolveMode

(* A run over a fresh index, or over a bundle that fits, is accepted.      *)
LEMMA NewRun ==
  ASSUME NEW c \in Settings, NEW input \in Inputs, NEW indexed, NEW tm_text, NEW index,
         index \in Indexes,
         index = Index(Normalized(c)) \/ Fits(index, Normalized(c)),
         ~Refused([config |-> Normalized(c), input |-> input, tm_text |-> tm_text,
                   index |-> index])
  PROVE  RunOK([config |-> Normalized(c), input |-> input, tm_text |-> tm_text,
                index |-> index])
BY DEF RunOK, Configs, Index, Fits

LEMMA RowsToShape ==
  ASSUME NEW run, NEW n \in Nat
  PROVE  /\ DOMAIN RowsTo(run, n) = 1..n /\ Len(RowsTo(run, n)) = n
         /\ Append(RowsTo(run, n), Row(run, n)) = RowsTo(run, n + 1)
         /\ RowsTo(run, 0) = <<>>
<1> DEFINE S == {Row(run, m) : m \in Nat}
<1>1. RowsTo(run, n) \in Seq(S) /\ Len(RowsTo(run, n)) = n
  <2>1. \A m \in 1..n : Row(run, m - 1) \in S
    OBVIOUS
  <2> QED
    BY <2>1 DEF RowsTo
<1>2. Append(RowsTo(run, n), Row(run, n)) = RowsTo(run, n + 1)
  BY <1>1 DEF RowsTo
<1> QED
  BY <1>1, <1>2 DEF RowsTo
----------------------------------------------------------------------------
(* Steps.                                                                  *)

LEMMA InitInv == Init => CacheInv
<1> SUFFICES ASSUME Init PROVE CacheInv
  OBVIOUS
<1> USE DEF Init, Idle
<1>1. WriterInv /\ ReaderInv /\ FinishedCacheIsAccepted
  BY DEF WriterInv, ReaderInv, FinishedCacheIsAccepted
<1>2. DiskInv /\ MetaInv
  BY DEF DiskInv, MetaInv
<1> QED
  BY <1>1, <1>2, CommandsAssumption DEF CacheInv

LEMMA EvaluateStep ==
  ASSUME WriterInv, DiskInv, Evaluate
  PROVE  WriterInv' /\ writer'.phase = "rows"
<1>1. PICK c \in Settings, input \in Inputs, indexed \in BOOLEAN, tm_text \in BOOLEAN :
        LET config == Normalized(c)
            run == [config |-> config, input |-> input, tm_text |-> tm_text,
                    index |-> IF indexed /\ bundle # None THEN bundle.index ELSE Index(config)]
        IN /\ indexed => bundle # None /\ Fits(bundle.index, config)
           /\ ~Refused(run)
           /\ writer' = [phase |-> "rows", run |-> run, report |-> FreshReport(run)]
  BY DEF Evaluate
<1> DEFINE index == IF indexed /\ bundle # None THEN bundle.index ELSE Index(Normalized(c))
           run == [config |-> Normalized(c), input |-> input, tm_text |-> tm_text,
                   index |-> index]
<1>2. index \in Indexes
  BY DEF DiskInv, Indexes, Configs
<1>3. index = Index(Normalized(c)) \/ Fits(index, Normalized(c))
  BY <1>1
<1>4. RunOK(run)
  <2> HIDE DEF index
  <2> QED
    BY <1>1, <1>2, <1>3, NewRun DEF index
<1>5. writer' = [phase |-> "rows", run |-> run, report |-> FreshReport(run)]
  BY <1>1
<1> HIDE DEF run
<1> QED
  BY <1>4, <1>5 DEF WriterInv

LEMMA WriteRowStep ==
  ASSUME WriterInv, DiskInv, WriteRow
  PROVE  RowsFile' /\ rows_file'.by = writer.run
<1> DEFINE run == rows_file.by
<1>1. RowsFile /\ run = writer.run /\ Len(rows_file.rows) < Size(run.input.test)
  BY DEF WriteRow, DiskInv
<1>2. PICK n \in 0..Size(run.input.test) :
        /\ rows_file.rows = RowsTo(run, n)
        /\ rows_file.torn => n < Size(run.input.test)
  BY <1>1 DEF RowsFile
<1>3. Size(run.input.test) \in Nat /\ n \in Nat
  BY <1>1 DEF RowsFile, RunOK
<1>4. Len(rows_file.rows) = n /\ n + 1 \in 0..Size(run.input.test)
  BY <1>1, <1>2, <1>3, RowsToShape
<1>5. CASE rows_file.torn
  <2>1. rows_file' = [rows_file EXCEPT !.rows = Append(@, Row(run, Len(@))), !.torn = FALSE]
    BY <1>1, <1>5 DEF WriteRow
  <2>2. /\ rows_file'.by = run /\ rows_file'.torn = FALSE
        /\ rows_file'.rows = Append(RowsTo(run, n), Row(run, n))
        /\ rows_file' = [by |-> run, rows |-> rows_file'.rows, torn |-> FALSE]
    BY <2>1, <1>1, <1>2, <1>4 DEF RowsFile
  <2>3. rows_file'.rows = RowsTo(run, n + 1)
    BY <2>2, <1>3, RowsToShape
  <2> QED
    BY <1>1, <1>4, <2>2, <2>3 DEF RowsFile
<1>6. CASE ~rows_file.torn
  <2>1. rows_file' = [rows_file EXCEPT !.torn = TRUE]
    BY <1>6 DEF WriteRow
  <2>2. /\ rows_file'.by = run /\ rows_file'.torn = TRUE /\ rows_file'.rows = RowsTo(run, n)
        /\ rows_file' = [by |-> run, rows |-> rows_file'.rows, torn |-> TRUE]
    BY <2>1, <1>1, <1>2 DEF RowsFile
  <2>3. n < Size(run.input.test)
    BY <1>1, <1>4
  <2> QED
    BY <1>1, <1>2, <2>2, <2>3 DEF RowsFile
<1> QED
  BY <1>1, <1>5, <1>6 DEF RowsFile

LEMMA DiskStep ==
  ASSUME CacheInv, [Next]_vars
  PROVE  WriterInv' /\ DiskInv' /\ MetaInv'
<1> USE DEF CacheInv
<1>1. CASE UNCHANGED vars \/ Done
  BY <1>1 DEF vars, Done, WriterInv, DiskInv, MetaInv, RowsFile
<1>2. CASE BuildIndex
  <2>1. /\ bundle'.index \in Indexes
        /\ UNCHANGED <<rows_file, meta_file, writer, reader>>
    BY <1>2 DEF BuildIndex, Indexes, Configs
  <2> QED
    BY <2>1 DEF WriterInv, DiskInv, MetaInv, RowsFile
<1>3. CASE Evaluate
  <2>1. WriterInv' /\ writer'.phase = "rows"
    BY <1>3, EvaluateStep
  <2>2. UNCHANGED <<bundle, rows_file, meta_file, reader>>
    BY <1>3 DEF Evaluate
  <2> QED
    BY <2>1, <2>2 DEF DiskInv, MetaInv, RowsFile
<1>4. CASE OpenRows
  <2>1. /\ rows_file' = [by |-> writer.run, rows |-> <<>>, torn |-> FALSE]
        /\ writer' = [writer EXCEPT !.phase = "writing"] /\ writer.phase = "rows"
        /\ UNCHANGED <<bundle, meta_file, reader>>
    BY <1>4 DEF OpenRows
  <2>2. WriterInv' /\ RunOK(writer.run) /\ writer'.run = writer.run /\ writer'.phase = "writing"
    BY <2>1 DEF WriterInv, Idle
  <2>3. <<>> = RowsTo(writer.run, 0) /\ 0 \in 0..Size(writer.run.input.test)
    BY <2>2, RowsToShape DEF RunOK
  <2>4. RowsFile'
    BY <2>1, <2>2, <2>3 DEF RowsFile
  <2> QED
    BY <2>1, <2>2, <2>4 DEF DiskInv, MetaInv
<1>5. CASE WriteRow
  <2>1. RowsFile' /\ rows_file'.by = writer.run
    BY <1>5, WriteRowStep
  <2>2. UNCHANGED <<bundle, meta_file, writer, reader>>
    BY <1>5 DEF WriteRow
  <2> QED
    BY <2>1, <2>2 DEF WriterInv, DiskInv, MetaInv
<1>6. CASE OpenMeta
  <2>1. /\ meta_file' = Torn /\ writer' = [writer EXCEPT !.phase = "meta"]
        /\ writer.phase = "writing" /\ UNCHANGED <<bundle, rows_file, reader>>
    BY <1>6 DEF OpenMeta
  <2>2. WriterInv' /\ writer'.phase = "meta"
    BY <2>1 DEF WriterInv, Idle
  <2> QED
    BY <2>1, <2>2 DEF DiskInv, MetaInv, RowsFile
<1>7. CASE WriteMeta
  <2>1. /\ meta_file' = Meta(writer.run) /\ writer' = Idle /\ writer.phase = "meta"
        /\ UNCHANGED <<bundle, rows_file, reader>>
    BY <1>7 DEF WriteMeta
  <2>2. RunOK(writer.run)
    BY <2>1 DEF WriterInv, Idle
  <2>3. OfARun(Meta(writer.run))
    BY <2>2 DEF OfARun, Meta
  <2> QED
    BY <2>1, <2>3 DEF WriterInv, DiskInv, MetaInv, RowsFile, Idle
<1>8. CASE Interrupt
  BY <1>8 DEF Interrupt, WriterInv, DiskInv, MetaInv, RowsFile, Idle
<1>9. CASE LoadRows
  BY <1>9 DEF LoadRows, WriterInv, DiskInv, MetaInv, RowsFile
<1>10. CASE ReadRow \/ EndOfRows \/ BrokenRow
  BY <1>10 DEF ReadRow, EndOfRows, BrokenRow, WriterInv, DiskInv, MetaInv, RowsFile
<1>11. CASE LoadMeta \/ ScoreCached
  <2>1. /\ reader.phase \in {"rows", "loaded"} /\ reader'.phase \in {"loaded", "refused", "scored"}
        /\ UNCHANGED <<bundle, rows_file, meta_file, writer>>
    <3>1. reader # Idle
      BY <1>11 DEF LoadMeta, ScoreCached, Idle
    <3> QED
      BY <1>11, <3>1 DEF LoadMeta, ScoreCached, ReaderInv
  <2> QED
    BY <2>1 DEF WriterInv, DiskInv, MetaInv, RowsFile
<1> QED
  BY <1>1, <1>2, <1>3, <1>4, <1>5, <1>6, <1>7, <1>8, <1>9, <1>10, <1>11 DEF Next

(* The cache that one finished run left is accepted by the checks of a     *)
(* cached scoring with the settings of that run.                           *)
LEMMA FinishedDescribes ==
  ASSUME NEW meta, meta \notin {None, Torn}, OfARun(meta), meta.by = reader.by,
         RunOK(reader.by), reader.rows = RowsOf(reader.by), reader.by.tm_text,
         reader.by.input.target, reader.config = reader.by.config,
         reader.refs = reader.by.input.refs, reader.refs # None
  PROVE  /\ Accepts(meta)
         /\ reader.rows # <<>> /\ Len(reader.rows) = RefSize(reader.refs)
         /\ BinsAgree(reader.rows, reader.config)
<1> DEFINE run == reader.by
           size == Size(run.input.test)
<1>1. meta = Meta(run) /\ size \in Nat \ {0} /\ RefSize(reader.refs) = size
  BY DEF OfARun, RunOK
<1>2. reader.rows = RowsTo(run, size)
  BY DEF RowsOf, RowsTo
<1>3. DOMAIN reader.rows = 1..size /\ Len(reader.rows) = size
  BY <1>1, <1>2, RowsToShape
<1>4. \A n \in 1..size : reader.rows[n] = Row(run, n - 1)
  BY <1>2 DEF RowsTo
<1>5. /\ meta.tm_text_included = run.tm_text /\ meta.num_test = size
      /\ meta.refs = run.input.refs /\ meta.config = run.config /\ meta.tm_hyp = TmOf(run)
  BY <1>1 DEF Meta
<1>6. TmOf(run) = [n \in 1..size |->
                     Measured(run.input, run.index, run.config.query, n - 1).tm]
  BY DEF TmOf
<1>7. \A n \in 1..size :
        Row(run, n - 1).tm = Measured(run.input, run.index, run.config.query, n - 1).tm
  BY DEF Row
<1>8. TmOf(run) = CachedTm(reader.rows)
  BY <1>3, <1>4, <1>6, <1>7 DEF CachedTm
<1>9. Accepts(meta)
  <2>1. TmAgrees(reader.rows, meta)
    BY <1>5, <1>8 DEF TmAgrees
  <2>2. SettingsAgree(meta.config, reader.config)
    BY <1>5 DEF SettingsAgree
  <2>3. Describes(meta)
    BY <1>3, <1>5, <2>1, <2>2 DEF Describes
  <2> QED
    BY <2>3 DEF Accepts
<1>10. BinsAgree(reader.rows, reader.config)
  <2>1. \A n \in 1..size : LET r == Row(run, n - 1) IN r.bin = Bin(r.exact, r.score, run.config)
    BY DEF Row
  <2> QED
    BY <1>3, <1>4, <2>1 DEF BinsAgree
<1>11. reader.rows # <<>>
  BY <1>1, <1>3
<1> QED
  BY <1>1, <1>3, <1>9, <1>10, <1>11

(* What a reader found stays so whatever happens to the files.             *)
LEMMA ReaderKept ==
  ASSUME ReaderInv, FinishedCacheIsAccepted, UNCHANGED reader
  PROVE  ReaderInv' /\ FinishedCacheIsAccepted'
BY DEF ReaderInv, FinishedCacheIsAccepted, OneRun, Accepts, Describes

LEMMA LoadRowsStep ==
  ASSUME CacheInv, LoadRows
  PROVE  ReaderInv' /\ FinishedCacheIsAccepted'
<1>1. PICK c \in Settings, refs \in {i.refs : i \in Inputs} \ {None},
           allow_refs \in BOOLEAN, allow_no_metadata \in BOOLEAN :
        reader' = [phase |-> "reading",
                   config |-> Normalized(c), refs |-> refs,
                   allow_refs |-> allow_refs, allow_no_metadata |-> allow_no_metadata,
                   by |-> rows_file.by, mixed |-> FALSE, rows |-> <<>>,
                   meta |-> None, report |-> None]
  BY DEF LoadRows
<1>2. RowsFile
  BY DEF LoadRows, CacheInv, DiskInv
<1>3. RunOK(rows_file.by) /\ FirstRows(<<>>, rows_file.by)
  BY <1>2, RowsToShape DEF RowsFile, RunOK, FirstRows
<1>4. /\ reader'.phase = "reading" /\ reader'.config = Normalized(c)
      /\ reader'.refs = refs /\ reader'.by = rows_file.by /\ reader'.rows = <<>>
      /\ reader'.meta = None
      /\ reader' = [phase |-> reader'.phase, config |-> reader'.config, refs |-> reader'.refs,
                    allow_refs |-> reader'.allow_refs,
                    allow_no_metadata |-> reader'.allow_no_metadata, by |-> reader'.by,
                    mixed |-> reader'.mixed, rows |-> reader'.rows, meta |-> reader'.meta,
                    report |-> reader'.report]
  BY <1>1
<1>5. Normalized(c) \in Configs
  BY DEF Configs
<1> QED
  BY <1>3, <1>4, <1>5 DEF ReaderInv, FinishedCacheIsAccepted, OneRun

(* A row from the file the others came from, or the first, goes on with    *)
(* the rows of its run.                                                    *)
LEMMA ReadRowStep ==
  ASSUME CacheInv, ReadRow
  PROVE  ReaderInv' /\ FinishedCacheIsAccepted'
<1> DEFINE n == Len(reader.rows)
           row == rows_file.rows[n + 1]
           mixed == reader.mixed \/ ~InPlace
<1>1. /\ reader.phase = "reading" /\ n < Len(rows_file.rows)
      /\ reader' = [reader EXCEPT !.rows = Append(@, rows_file.rows[Len(@) + 1]),
                                  !.by = rows_file.by, !.mixed = @ \/ ~InPlace]
  BY DEF ReadRow
<1>2. /\ reader = [phase |-> "reading", config |-> reader.config, refs |-> reader.refs,
                   allow_refs |-> reader.allow_refs,
                   allow_no_metadata |-> reader.allow_no_metadata, by |-> reader.by,
                   mixed |-> reader.mixed, rows |-> reader.rows, meta |-> reader.meta,
                   report |-> reader.report]
      /\ reader.config \in Configs /\ reader.refs # None
      /\ RunOK(reader.by) /\ reader.meta = None
      /\ ~reader.mixed => FirstRows(reader.rows, reader.by)
  BY <1>1 DEF CacheInv, ReaderInv, Idle
<1>3. reader' = [phase |-> "reading", config |-> reader.config, refs |-> reader.refs,
                 allow_refs |-> reader.allow_refs,
                 allow_no_metadata |-> reader.allow_no_metadata, by |-> rows_file.by,
                 mixed |-> mixed, rows |-> Append(reader.rows, row), meta |-> None,
                 report |-> reader.report]
  BY <1>1, <1>2
<1>4. RowsFile
  BY <1>1 DEF CacheInv, DiskInv
<1>5. ASSUME ~mixed
      PROVE  FirstRows(Append(reader.rows, row), rows_file.by)
  <2>1. PICK size \in 0..Size(rows_file.by.input.test) : rows_file.rows = RowsTo(rows_file.by, size)
    BY <1>4 DEF RowsFile
  <2>2. Size(rows_file.by.input.test) \in Nat /\ Size(reader.by.input.test) \in Nat
    BY <1>2, <1>4 DEF RowsFile, RunOK
  <2>3. PICK m \in 0..Size(reader.by.input.test) : reader.rows = RowsTo(reader.by, m)
    BY <1>2, <1>5 DEF FirstRows
  <2>4. n = m /\ m \in Nat /\ Len(rows_file.rows) = size /\ size \in Nat
    BY <2>1, <2>2, <2>3, RowsToShape
  <2>5. reader.rows = RowsTo(rows_file.by, n)
    <3>1. CASE rows_file.by = reader.by
      BY <2>3, <2>4, <3>1
    <3>2. CASE reader.rows = <<>>
      BY <2>4, <3>2, RowsToShape
    <3> QED
      BY <1>5, <3>1, <3>2 DEF InPlace
  <2>6. row = Row(rows_file.by, n)
    BY <1>1, <2>1, <2>4 DEF RowsTo
  <2>7. Append(reader.rows, row) = RowsTo(rows_file.by, n + 1)
    BY <2>4, <2>5, <2>6, RowsToShape
  <2>8. n + 1 \in 0..Size(rows_file.by.input.test)
    BY <1>1, <2>1, <2>2, <2>4
  <2> QED
    BY <2>7, <2>8 DEF FirstRows
<1>6. RunOK(rows_file.by)
  BY <1>4 DEF RowsFile
<1>7. /\ reader'.phase = "reading" /\ reader'.config = reader.config
      /\ reader'.refs = reader.refs /\ reader'.by = rows_file.by /\ reader'.mixed = mixed
      /\ reader'.rows = Append(reader.rows, row) /\ reader'.meta = None
      /\ reader' = [phase |-> reader'.phase, config |-> reader'.config, refs |-> reader'.refs,
                    allow_refs |-> reader'.allow_refs,
                    allow_no_metadata |-> reader'.allow_no_metadata, by |-> reader'.by,
                    mixed |-> reader'.mixed, rows |-> reader'.rows, meta |-> reader'.meta,
                    report |-> reader'.report]
  BY <1>3
<1> HIDE DEF mixed, row
<1> QED
  BY <1>2, <1>5, <1>6, <1>7 DEF ReaderInv, FinishedCacheIsAccepted

(* A reading ends, or fails at a broken row.                               *)
LEMMA EndReadingStep ==
  ASSUME CacheInv, EndOfRows \/ BrokenRow
  PROVE  ReaderInv' /\ FinishedCacheIsAccepted'
<1>1. PICK next \in {"rows", "refused"} :
        reader.phase = "reading" /\ reader' = [reader EXCEPT !.phase = next]
  BY DEF EndOfRows, BrokenRow
<1>2. reader # Idle
  BY <1>1 DEF Idle
<1>3. /\ reader' = [phase |-> next, config |-> reader.config, refs |-> reader.refs,
                    allow_refs |-> reader.allow_refs,
                    allow_no_metadata |-> reader.allow_no_metadata, by |-> reader.by,
                    mixed |-> reader.mixed, rows |-> reader.rows, meta |-> reader.meta,
                    report |-> reader.report]
      /\ reader.config \in Configs /\ reader.refs # None
      /\ RunOK(reader.by)
      /\ ~reader.mixed => FirstRows(reader.rows, reader.by)
      /\ reader.meta = None
  BY <1>1, <1>2 DEF CacheInv, ReaderInv
<1>4. /\ reader'.phase = next /\ reader'.config = reader.config /\ reader'.refs = reader.refs
      /\ reader'.by = reader.by /\ reader'.rows = reader.rows /\ reader'.meta = None
      /\ reader'.mixed = reader.mixed
  BY <1>3
<1> QED
  BY <1>1, <1>3, <1>4 DEF ReaderInv, FinishedCacheIsAccepted

LEMMA LoadMetaStep ==
  ASSUME CacheInv, LoadMeta
  PROVE  ReaderInv' /\ FinishedCacheIsAccepted'
<1> DEFINE next == IF Accepts(meta_file) THEN "loaded" ELSE "refused"
<1>1. /\ reader.phase = "rows"
      /\ reader' = [reader EXCEPT !.meta = meta_file, !.phase = next]
  BY DEF LoadMeta
<1>2. reader # Idle
  BY <1>1 DEF Idle
<1>3. /\ reader' = [phase |-> next, config |-> reader.config, refs |-> reader.refs,
                    allow_refs |-> reader.allow_refs,
                    allow_no_metadata |-> reader.allow_no_metadata, by |-> reader.by,
                    mixed |-> reader.mixed, rows |-> reader.rows, meta |-> meta_file,
                    report |-> reader.report]
      /\ reader.config \in Configs /\ reader.refs # None
      /\ RunOK(reader.by)
      /\ ~reader.mixed => FirstRows(reader.rows, reader.by)
  BY <1>1, <1>2 DEF CacheInv, ReaderInv
<1>4. /\ reader'.phase = next /\ reader'.config = reader.config /\ reader'.refs = reader.refs
      /\ reader'.by = reader.by /\ reader'.rows = reader.rows /\ reader'.meta = meta_file
      /\ reader'.allow_refs = reader.allow_refs
      /\ reader'.allow_no_metadata = reader.allow_no_metadata
  BY <1>3
<1>5. meta_file \notin {None, Torn} => OfARun(meta_file)
  BY DEF CacheInv, MetaInv
<1>6. Accepts(reader.meta)' <=> Accepts(meta_file)
  BY <1>4 DEF Accepts, Describes
<1>7. ReaderInv'
  BY <1>3, <1>4, <1>5, <1>6 DEF ReaderInv
<1>8. FinishedCacheIsAccepted'
  <2> SUFFICES ASSUME ~Accepts(meta_file), meta_file \notin {None, Torn},
                      meta_file.by = reader.by, reader.rows = RowsOf(reader.by),
                      reader.by.tm_text, reader.by.input.target,
                      reader.config = reader.by.config, reader.refs = reader.by.input.refs
               PROVE  FALSE
    BY <1>4 DEF FinishedCacheIsAccepted, OneRun
  <2> QED
    BY <1>3, <1>5, FinishedDescribes
<1> QED
  BY <1>7, <1>8

LEMMA ScoreCachedStep ==
  ASSUME CacheInv, ScoreCached
  PROVE  ReaderInv' /\ FinishedCacheIsAccepted'
<1> DEFINE Fit == /\ reader.rows # <<>> /\ Len(reader.rows) = RefSize(reader.refs)
                  /\ BinsAgree(reader.rows, reader.config)
<1>1. /\ reader.phase = "loaded"
      /\ Fit => reader' = [reader EXCEPT !.phase = "scored",
                  !.report = CachedReport(reader.rows, reader.config, reader.meta)]
      /\ ~Fit => reader' = [reader EXCEPT !.phase = "refused"]
  BY DEF ScoreCached
<1>2. /\ reader = [phase |-> "loaded", config |-> reader.config, refs |-> reader.refs,
                   allow_refs |-> reader.allow_refs,
                   allow_no_metadata |-> reader.allow_no_metadata, by |-> reader.by,
                   mixed |-> reader.mixed, rows |-> reader.rows, meta |-> reader.meta,
                   report |-> reader.report]
      /\ reader.config \in Configs /\ reader.refs # None
      /\ RunOK(reader.by)
      /\ ~reader.mixed => FirstRows(reader.rows, reader.by)
      /\ reader.meta \notin {None, Torn} => OfARun(reader.meta)
      /\ Accepts(reader.meta)
  BY <1>1 DEF CacheInv, ReaderInv, Idle
<1>3. CASE Fit
  <2>1. reader' = [phase |-> "scored", config |-> reader.config, refs |-> reader.refs,
                   allow_refs |-> reader.allow_refs,
                   allow_no_metadata |-> reader.allow_no_metadata, by |-> reader.by,
                   mixed |-> reader.mixed, rows |-> reader.rows, meta |-> reader.meta,
                   report |-> CachedReport(reader.rows, reader.config, reader.meta)]
    BY <1>1, <1>2, <1>3
  <2>2. Accepts(reader.meta)'
    BY <1>2, <2>1 DEF Accepts, Describes
  <2> QED
    BY <1>2, <1>3, <2>1, <2>2 DEF ReaderInv, FinishedCacheIsAccepted
<1>4. CASE ~Fit
  <2>1. reader' = [phase |-> "refused", config |-> reader.config, refs |-> reader.refs,
                   allow_refs |-> reader.allow_refs,
                   allow_no_metadata |-> reader.allow_no_metadata, by |-> reader.by,
                   mixed |-> reader.mixed, rows |-> reader.rows, meta |-> reader.meta,
                   report |-> reader.report]
    BY <1>1, <1>2, <1>4
  <2>2. ReaderInv'
    BY <1>2, <2>1 DEF ReaderInv
  <2>3. FinishedCacheIsAccepted'
    <3> SUFFICES ASSUME reader.meta \notin {None, Torn}, reader.meta.by = reader.by,
                        reader.rows = RowsOf(reader.by),
                        reader.by.tm_text, reader.by.input.target,
                        reader.config = reader.by.config, reader.refs = reader.by.input.refs
                 PROVE  FALSE
      BY <2>1 DEF FinishedCacheIsAccepted, OneRun
    <3> QED
      BY <1>2, <1>4, FinishedDescribes
  <2> QED
    BY <2>2, <2>3
<1> QED
  BY <1>3, <1>4

LEMMA CacheStep == CacheInv /\ [Next]_vars => CacheInv'
<1> SUFFICES ASSUME CacheInv, [Next]_vars PROVE CacheInv'
  OBVIOUS
<1>1. WriterInv' /\ DiskInv' /\ MetaInv'
  BY DiskStep
<1>2. ReaderInv' /\ FinishedCacheIsAccepted'
  <2>1. CASE UNCHANGED reader
    BY <2>1, ReaderKept DEF CacheInv
  <2>2. CASE ~UNCHANGED reader
    BY <2>2, LoadRowsStep, ReadRowStep, EndReadingStep, LoadMetaStep, ScoreCachedStep
       DEF Next, vars, Done, BuildIndex, Evaluate, OpenRows, WriteRow, OpenMeta, WriteMeta,
           Interrupt
  <2> QED
    BY <2>1, <2>2
<1>3. commands' \in 0..Commands
  BY CommandsAssumption
     DEF CacheInv, Next, vars, Done, BuildIndex, Evaluate, OpenRows, WriteRow, OpenMeta,
         WriteMeta, Interrupt, LoadRows, ReadRow, EndOfRows, BrokenRow, LoadMeta, ScoreCached,
         Command
<1> QED
  BY <1>1, <1>2, <1>3 DEF CacheInv
----------------------------------------------------------------------------
(* What follows from the invariant.                                        *)

LEMMA CacheCorrect == Spec => []CacheInv
<1> QED
  BY InitInv, CacheStep, PTL DEF Spec

(* Rows on disk never outgrow the run that writes them (write_segment_jsonl). *)
THEOREM TypeCorrect == Spec => []TypeOK
<1>1. CacheInv => TypeOK
  <2> SUFFICES ASSUME CacheInv PROVE TypeOK
    OBVIOUS
  <2>1. /\ writer.phase \in {"idle", "rows", "writing", "meta"}
        /\ reader.phase \in {"idle", "reading", "rows", "loaded", "refused", "scored"}
        /\ commands \in 0..Commands
        /\ writer.phase = "meta" => meta_file = Torn
    BY DEF CacheInv, WriterInv, ReaderInv, DiskInv, Idle
  <2>2. ASSUME writer.phase = "writing"
        PROVE  /\ rows_file.by = writer.run
               /\ Len(rows_file.rows) + (IF rows_file.torn THEN 1 ELSE 0)
                    <= Size(writer.run.input.test)
    <3>1. RowsFile /\ rows_file.by = writer.run
      BY <2>2 DEF CacheInv, DiskInv
    <3>2. PICK n \in 0..Size(writer.run.input.test) :
            /\ rows_file.rows = RowsTo(writer.run, n)
            /\ rows_file.torn => n < Size(writer.run.input.test)
      BY <3>1 DEF RowsFile
    <3>3. Size(writer.run.input.test) \in Nat /\ n \in Nat /\ Len(rows_file.rows) = n
      BY <3>1, <3>2, RowsToShape DEF RowsFile, RunOK
    <3> QED
      BY <3>1, <3>2, <3>3 DEF RowsFile
  <2> QED
    BY <2>1, <2>2 DEF TypeOK
<1> QED
  BY <1>1, CacheCorrect, PTL

(* A finished cache is accepted by the settings it was made with           *)
(* (validate_segment_metadata).                                            *)
THEOREM FinishedCacheAccepted == Spec => []FinishedCacheIsAccepted
<1>1. CacheInv => FinishedCacheIsAccepted
  BY DEF CacheInv
<1> QED
  BY <1>1, CacheCorrect, PTL

(* What a scored reader knows of the rows and sidecar it read.             *)
LEMMA ScoredFacts ==
  ASSUME CacheInv, Scored
  PROVE  /\ RunOK(reader.by) /\ reader.config \in Configs
         /\ ~reader.mixed => FirstRows(reader.rows, reader.by)
         /\ reader.report = CachedReport(reader.rows, reader.config, reader.meta)
         /\ reader.rows # <<>> /\ BinsAgree(reader.rows, reader.config)
         /\ reader.meta # None => RunOK(reader.meta.by) /\ reader.meta = Meta(reader.meta.by)
         /\ reader.meta # None =>
              /\ TmAgrees(reader.rows, reader.meta) /\ reader.meta.num_test = Len(reader.rows)
              /\ SettingsAgree(reader.meta.config, reader.config)
              /\ reader.allow_refs \/ reader.meta.refs = reader.refs
<1>1. /\ reader.phase = "scored" /\ ReaderInv
      /\ reader.phase # "idle"
  BY DEF Scored, CacheInv
<1>2. Accepts(reader.meta) /\ (reader.meta \notin {None, Torn} => OfARun(reader.meta))
  BY <1>1 DEF ReaderInv, Idle
<1>3. reader.meta # None => reader.meta # Torn /\ Describes(reader.meta)
  BY <1>2 DEF Accepts
<1> QED
  BY <1>1, <1>2, <1>3 DEF ReaderInv, Idle, OfARun, Describes

LEMMA CachedFields ==
  ASSUME NEW rows, NEW c, NEW meta
  PROVE  /\ CachedReport(rows, c, meta).semantics = Semantics(c, Backend(meta), Paired(rows))
         /\ CachedReport(rows, c, meta).bins = BinSizes(rows)
         /\ CachedReport(rows, c, meta).tm = CachedTm(rows)
BY DEF CachedReport, Report

(* The baseline of a cached scoring is the one its sidecar vouches for     *)
(* (build_segment_fingerprints).                                           *)
THEOREM BaselineCorrect == Spec => []BaselineIsTheSidecars
<1>1. CacheInv => BaselineIsTheSidecars
  <2> SUFFICES ASSUME CacheInv, Scored, reader.meta # None
               PROVE  /\ reader.report.tm = TmOf(reader.meta.by)
                      /\ Len(reader.rows) = Size(reader.meta.by.input.test)
                      /\ reader.allow_refs \/ reader.refs = reader.meta.by.input.refs
    BY DEF BaselineIsTheSidecars
  <2>1. /\ reader.meta = Meta(reader.meta.by) /\ TmAgrees(reader.rows, reader.meta)
        /\ reader.meta.num_test = Len(reader.rows)
        /\ reader.allow_refs \/ reader.meta.refs = reader.refs
        /\ reader.report = CachedReport(reader.rows, reader.config, reader.meta)
    BY ScoredFacts
  <2>2. /\ reader.meta.tm_hyp = TmOf(reader.meta.by)
        /\ reader.meta.num_test = Size(reader.meta.by.input.test)
        /\ reader.meta.refs = reader.meta.by.input.refs
    BY <2>1 DEF Meta
  <2>3. reader.report.tm = CachedTm(reader.rows)
    BY <2>1, CachedFields
  <2> QED
    BY <2>1, <2>2, <2>3 DEF TmAgrees
<1> QED
  BY <1>1, CacheCorrect, PTL

(* Bins are those of the thresholds asked for, sidecar or not              *)
(* (_validate_cached_bins).                                                *)
THEOREM BinsCorrect == Spec => []BinsFollowThresholds
<1>1. CacheInv => BinsFollowThresholds
  <2> SUFFICES ASSUME CacheInv, Scored, NEW b \in Bins
               PROVE  reader.report.bins[b] = Cardinality({n \in DOMAIN reader.rows :
                        Bin(reader.rows[n].exact, reader.rows[n].score, reader.config) = b})
    BY DEF BinsFollowThresholds
  <2>1. /\ BinsAgree(reader.rows, reader.config)
        /\ reader.report = CachedReport(reader.rows, reader.config, reader.meta)
    BY ScoredFacts
  <2>2. reader.report.bins = BinSizes(reader.rows)
    BY <2>1, CachedFields
  <2>3. reader.report.bins[b] = Cardinality({n \in DOMAIN reader.rows : reader.rows[n].bin = b})
    BY <2>2 DEF BinSizes
  <2>4. {n \in DOMAIN reader.rows : reader.rows[n].bin = b} =
          {n \in DOMAIN reader.rows :
             Bin(reader.rows[n].exact, reader.rows[n].score, reader.config) = b}
    BY <2>1 DEF BinsAgree
  <2> QED
    BY <2>3, <2>4
<1> QED
  BY <1>1, CacheCorrect, PTL

(* Threshold flags on disk are of exact retrieval                          *)
(* (_require_exact_threshold_backend).                                     *)
THEOREM ExactFlagsCorrect == Spec => []ExactFlagsAreExact
<1>1. CacheInv => ExactFlagsAreExact
  <2> SUFFICES ASSUME CacheInv, rows_file # None, NEW n \in DOMAIN rows_file.rows,
                      rows_file.rows[n].flags # None
               PROVE  rows_file.by.index.resolved = "native_exact"
    BY DEF ExactFlagsAreExact
  <2> DEFINE run == rows_file.by
  <2>1. RowsFile
    BY DEF CacheInv, DiskInv
  <2>2. PICK size \in 0..Size(run.input.test) : rows_file.rows = RowsTo(run, size)
    BY <2>1 DEF RowsFile
  <2>3. rows_file.rows[n] = Row(run, n - 1)
    BY <2>2 DEF RowsTo
  <2>4. Pairs(run) /\ run.config.exact_thresholds
    BY <2>3 DEF Row
  <2>5. run.index \in Indexes /\ ~Refused(run)
    BY <2>1 DEF RowsFile, RunOK
  <2> QED
    BY <2>4, <2>5, IndexShape DEF Refused
<1> QED
  BY <1>1, CacheCorrect, PTL

(* How a report over a fast index is labelled.                             *)
Honest(semantics) ==
  /\ semantics.approximate /\ semantics.safe_thresholds = {}
  /\ semantics.pair_mode \in {"none", "approx_topk"}

LEMMA FastIsApproximate ==
  ASSUME NEW c, NEW resolved, resolved = "native_fast", NEW has_pair
  PROVE  Honest(Semantics(c, resolved, has_pair))
<1>1. Approximate(c, resolved) /\ PairMode(c, resolved) = "approx_topk"
  BY DEF Approximate, PairMode
<1>2. Semantics(c, resolved, has_pair).approximate = Approximate(c, resolved)
  BY DEF Semantics
<1>3. Semantics(c, resolved, has_pair).safe_thresholds = {}
  BY <1>1 DEF Semantics
<1>4. Semantics(c, resolved, has_pair).pair_mode \in {"none", "approx_topk"}
  BY <1>1 DEF Semantics
<1> QED
  BY <1>1, <1>2, <1>3, <1>4 DEF Honest

LEMMA FreshFields ==
  ASSUME NEW run
  PROVE  FreshReport(run).semantics = Semantics(run.config, run.index.resolved, Pairs(run))
BY DEF FreshReport, Report

(* A report over a fast index, fresh, reused or read back, says so         *)
(* (_retrieval_semantics).                                                 *)
THEOREM ApproximateCorrect == Spec => []ApproximateSaysSo
<1>1. ASSUME CacheInv, writer # Idle, writer.run.index.resolved = "native_fast"
      PROVE  Honest(writer.report.semantics)
  <2>1. writer.report = FreshReport(writer.run)
    BY <1>1 DEF CacheInv, WriterInv
  <2>2. Honest(Semantics(writer.run.config, writer.run.index.resolved, Pairs(writer.run)))
    BY <1>1, FastIsApproximate, Zenon
  <2> QED
    BY <2>1, <2>2, FreshFields, Zenon
<1>2. ASSUME CacheInv, Scored, OneRun, reader.by.index.resolved = "native_fast"
      PROVE  Honest(reader.report.semantics)
  <2>1. /\ reader.report = CachedReport(reader.rows, reader.config, reader.meta)
        /\ reader.meta # None /\ reader.meta = Meta(reader.by)
    BY <1>2, ScoredFacts DEF OneRun
  <2>2. Backend(reader.meta) = "native_fast"
    BY <1>2, <2>1 DEF Backend, Meta
  <2>3. Honest(Semantics(reader.config, Backend(reader.meta), Paired(reader.rows)))
    BY <2>2, FastIsApproximate, Zenon
  <2>4. CachedReport(reader.rows, reader.config, reader.meta).semantics =
          Semantics(reader.config, Backend(reader.meta), Paired(reader.rows))
    BY CachedFields
  <2> QED
    BY <2>1, <2>3, <2>4, Zenon
<1>3. CacheInv => ApproximateSaysSo
  BY <1>1, <1>2 DEF ApproximateSaysSo, Honest
<1> QED
  BY <1>3, CacheCorrect, PTL

(* Runs that measure the same and agree on the settings of a row have the  *)
(* same rows.                                                              *)
LEMMA SameRows ==
  ASSUME NEW run, NEW other, other.input = run.input, other.tm_text = run.tm_text,
         other.config.exact_thresholds = run.config.exact_thresholds,
         other.config.far = run.config.far, other.config.near = run.config.near,
         run.config.exact_thresholds => other.config.leak = run.config.leak,
         \A i \in 0..(Size(run.input.test) - 1) :
           Measured(run.input, other.index, other.config.query, i) =
             Measured(run.input, run.index, run.config.query, i),
         Size(run.input.test) \in Nat
  PROVE  RowsOf(other) = RowsOf(run) /\ TmOf(other) = TmOf(run) /\ (Pairs(other) <=> Pairs(run))
<1>1. Pairs(other) <=> Pairs(run)
  BY DEF Pairs
<1>2. ASSUME NEW i \in 0..(Size(run.input.test) - 1) PROVE Row(other, i) = Row(run, i)
  <2>1. Measured(other.input, other.index, other.config.query, i) =
          Measured(run.input, run.index, run.config.query, i)
    OBVIOUS
  <2> DEFINE m == Measured(run.input, run.index, run.config.query, i)
             flags(r) == IF Pairs(r) /\ r.config.exact_thresholds
                         THEN [t \in r.config.leak |-> m.best_pair >= t] ELSE None
  <2>2. flags(other) = flags(run)
    BY <1>1
  <2>3. Bin(m.exact, m.score, other.config) = Bin(m.exact, m.score, run.config)
    BY DEF Bin
  <2> QED
    BY <1>1, <2>1, <2>2, <2>3 DEF Row
<1>3. \A n \in 1..Size(run.input.test) : n - 1 \in 0..(Size(run.input.test) - 1)
  OBVIOUS
<1>4. RowsOf(other) = RowsOf(run)
  BY <1>2, <1>3 DEF RowsOf
<1>5. TmOf(other) = TmOf(run)
  BY <1>3 DEF TmOf
<1> QED
  BY <1>1, <1>4, <1>5

(* A reused bundle gives the figures of a fresh build                      *)
(* (_validate_manifest_compatibility).                                     *)
THEOREM ReuseCorrect == Spec => []ReuseChangesNoFigure
<1>1. CacheInv => ReuseChangesNoFigure
  <2> SUFFICES ASSUME CacheInv, writer # Idle
               PROVE  writer.report = FreshReport([writer.run EXCEPT !.index =
                        Index([writer.run.config EXCEPT !.mode = writer.run.index.resolved])])
    BY DEF ReuseChangesNoFigure
  <2> DEFINE run == writer.run
             c == run.config
             index == Index([c EXCEPT !.mode = run.index.resolved])
             other == [run EXCEPT !.index = index]
  <2>1. writer.report = FreshReport(run) /\ RunOK(run)
    BY DEF CacheInv, WriterInv
  <2>2. /\ c \in Configs /\ run.index \in Indexes /\ run.input \in Inputs
        /\ run.index.text = c.text
        /\ run.index.resolved = "native_fast" => run.index.caps = c.caps
        /\ run = [config |-> c, input |-> run.input, tm_text |-> run.tm_text,
                  index |-> run.index]
    BY <2>1 DEF RunOK
  <2>3. index = [resolved |-> run.index.resolved, text |-> c.text, caps |-> c.caps]
    BY <2>2, ConfigShape, IndexShape DEF Index, ResolveMode
  <2>4. index = [run.index EXCEPT !.caps = c.caps]
    BY <2>2, <2>3, IndexShape
  <2>5. other = [config |-> c, input |-> run.input, tm_text |-> run.tm_text, index |-> index]
    BY <2>2
  <2>6. ASSUME NEW i \in 0..(Size(run.input.test) - 1)
        PROVE  Measured(run.input, index, c.query, i) = Measured(run.input, run.index, c.query, i)
    <3>1. CASE run.index.resolved = "native_fast"
      <4>1. index = run.index
        BY <2>2, <2>3, <3>1, IndexShape
      <4> QED
        BY <4>1
    <3>2. CASE run.index.resolved = "native_exact"
      <4>1. PICK d \in Settings : c.query = d.query /\ c.caps = d.caps
        BY <2>2, ConfigShape
      <4>2. Measured(run.input, [run.index EXCEPT !.caps = d.caps], d.query, i) =
              Measured(run.input, run.index, d.query, i)
        BY <2>2, <2>6, <3>2, MeasuredAssumption
      <4> QED
        BY <2>4, <4>1, <4>2
    <3> QED
      BY <2>2, <3>1, <3>2, IndexShape
  <2>7. RowsOf(other) = RowsOf(run) /\ TmOf(other) = TmOf(run) /\ (Pairs(other) <=> Pairs(run))
    <3> HIDE DEF index
    <3>1. /\ other.input = run.input /\ other.tm_text = run.tm_text /\ other.config = c
          /\ other.index = index /\ Size(run.input.test) \in Nat
      BY <2>2, <2>5
    <3> HIDE DEF other
    <3> QED
      BY <2>6, <3>1, SameRows
  <2>8. other.config = c /\ other.index.resolved = run.index.resolved
    BY <2>3, <2>5
  <2> HIDE DEF other
  <2>9. Semantics(c, run.index.resolved, Pairs(other)) = Semantics(c, run.index.resolved, Pairs(run))
    BY <2>7 DEF Semantics
  <2>10. FreshReport(other) = FreshReport(run)
    BY <2>7, <2>8, <2>9 DEF FreshReport, Report
  <2> QED
    BY <2>1, <2>10 DEF other
<1> QED
  BY <1>1, CacheCorrect, PTL

(* An accepted cache gives the report a fresh run would                    *)
(* (load_cached_artifact, CachedSegmentScorer).                            *)
THEOREM FreshCorrect == Spec => []CachedIsFresh
<1>1. CacheInv => CachedIsFresh
  <2> SUFFICES ASSUME CacheInv, Scored, OneRun,
                      reader.config.exact_thresholds => reader.config.leak = reader.by.config.leak
               PROVE  reader.report = FreshReport([reader.by EXCEPT !.config = reader.config])
    BY DEF CachedIsFresh
  <2> DEFINE run == reader.by
             c == reader.config
             rows == reader.rows
             other == [run EXCEPT !.config = c]
             size == Size(run.input.test)
  <2>1. /\ RunOK(run) /\ FirstRows(rows, run) /\ c \in Configs
        /\ reader.report = CachedReport(rows, c, reader.meta)
        /\ reader.meta # None /\ reader.meta = Meta(run)
        /\ TmAgrees(rows, reader.meta) /\ reader.meta.num_test = Len(rows)
        /\ SettingsAgree(reader.meta.config, c)
    BY ScoredFacts DEF OneRun
  <2>2. /\ reader.meta.config = run.config /\ reader.meta.tm_hyp = TmOf(run)
        /\ reader.meta.num_test = size /\ reader.meta.backend = run.index.resolved
    BY <2>1 DEF Meta
  <2>3. size \in Nat \ {0} /\ run.input \in Inputs /\ run.index \in Indexes
        /\ run.config \in Configs
        /\ run = [config |-> run.config, input |-> run.input, tm_text |-> run.tm_text,
                  index |-> run.index]
    BY <2>1 DEF RunOK
  <2>4. rows = RowsOf(run)
    <3>1. PICK n \in 0..size : rows = RowsTo(run, n)
      BY <2>1 DEF FirstRows
    <3>2. Len(RowsTo(run, n)) = n
      BY <2>3, RowsToShape
    <3>3. n = size
      BY <2>1, <2>2, <3>1, <3>2
    <3> QED
      BY <3>1, <3>3 DEF RowsOf, RowsTo
  <2>5. /\ other = [config |-> c, input |-> run.input, tm_text |-> run.tm_text,
                    index |-> run.index]
        /\ c.query = run.config.query /\ c.exact_thresholds = run.config.exact_thresholds
        /\ c.far = run.config.far /\ c.near = run.config.near
    BY <2>1, <2>2, <2>3 DEF SettingsAgree
  <2>6. RowsOf(other) = rows /\ TmOf(other) = TmOf(run) /\ (Pairs(other) <=> Pairs(run))
    <3>1. /\ other.input = run.input /\ other.tm_text = run.tm_text /\ other.config = c
          /\ other.index = run.index
      BY <2>5
    <3> HIDE DEF other
    <3> QED
      BY <2>3, <2>4, <2>5, <3>1, SameRows
  <2>7. TmOf(run) = CachedTm(rows)
    BY <2>1, <2>2 DEF TmAgrees
  <2>8. Paired(rows) <=> Pairs(run)
    <3>1. /\ DOMAIN rows = 1..size /\ \A n \in 1..size : rows[n] = Row(run, n - 1)
      BY <2>4 DEF RowsOf
    <3>2. ASSUME NEW n \in 1..size
          PROVE  rows[n].pair # None <=> Pairs(run)
      <4>1. n - 1 \in 0..(size - 1)
        BY <2>3
      <4>2. PICK d \in Settings : run.config.query = d.query
        BY <2>3, ConfigShape
      <4>3. Measured(run.input, run.index, d.query, n - 1).pair # None
        BY <2>3, <4>1, MeasuredAssumption
      <4>4. Measured(run.input, run.index, run.config.query, n - 1).pair # None
        BY <4>2, <4>3
      <4>5. Row(run, n - 1).pair =
              IF Pairs(run)
              THEN Measured(run.input, run.index, run.config.query, n - 1).pair ELSE None
        BY DEF Row
      <4> QED
        BY <3>1, <4>4, <4>5
    <3>3. 1 \in 1..size
      BY <2>3
    <3> QED
      BY <3>1, <3>2, <3>3 DEF Paired
  <2>9. Backend(reader.meta) = run.index.resolved
    BY <2>1, <2>2 DEF Backend
  <2>10. Semantics(c, run.index.resolved, Paired(rows)) =
           Semantics(c, run.index.resolved, Pairs(other))
    <3> HIDE DEF other
    <3> QED
      BY <2>6, <2>8 DEF Semantics
  <2>11. other.config = c /\ other.index = run.index
    BY <2>5
  <2> HIDE DEF other
  <2>12. CachedReport(rows, c, reader.meta) = FreshReport(other)
    BY <2>6, <2>7, <2>9, <2>10, <2>11 DEF CachedReport, FreshReport, Report
  <2> QED
    BY <2>1, <2>12 DEF other
<1> QED
  BY <1>1, CacheCorrect, PTL
=============================================================================
