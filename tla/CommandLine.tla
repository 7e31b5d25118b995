---------------------------- MODULE CommandLine ----------------------------
(***************************************************************************)
(* Commands of one process, one after the other, over the shared pool of   *)
(* native threads: batches of cached scoring (BatchScoring), and score,    *)
(* audit and tm-baseline, which retrieve, validate an approximate run and  *)
(* write their outputs.  A library caller on another thread may query at   *)
(* any time.                                                               *)
(*                                                                         *)
(* Abstractions.  Settings are valid ones, and what retrieval measures is  *)
(* given by the corpus.  An output file is written in one step (modules    *)
(* SegmentCache and BatchScoring tell an open file from a whole one).      *)
(***************************************************************************)
EXTENDS BatchScoring, NativeThreads, ApproxValidation

CONSTANTS
  Requests,       \* options of score, audit and tm-baseline
  ThreadOptions   \* values of --threads

ASSUME OptionsAssumption == ThreadOptions \subseteq Nat \cup {AutoThreads}

RowFields == {"index", "nn", "score", "bin", "target", "pair", "tm"}

(* A command refuses an empty test set; exact retrieval and the run itself *)
(* measure each of its segments.                                           *)
IsMeasured(corpus) ==
  LET exact == corpus.exact IN
  /\ Len(exact) \in Nat \ {0} /\ DOMAIN exact = 1..Len(exact)
  /\ \A n \in DOMAIN exact : DOMAIN exact[n] = RowFields /\ exact[n].score \in 0..1000
  /\ \A i \in 0..(Len(exact) - 1) :
       \E n \in DOMAIN corpus.approx : corpus.approx[n].index = i

ASSUME RequestsAssumption ==
  \A r \in Requests : r.sample \in Nat /\ IsMeasured(r.corpus)

(* BLEU gives the translations of a sample a score.                        *)
ASSUME BleuAssumption ==
  \A r \in Requests : r.sample > 0 /\ r.corpus.refs =>
    \A sample \in Samples(Len(r.corpus.exact), r.sample) :
      Bleu([n \in DOMAIN sample |-> r.corpus.exact[sample[n] + 1].tm], sample) \in Nat

VARIABLES
  audit,     \* the command that is running, or how the last one ended
  files,     \* its output files
  asked,     \* --threads of the running command
  reported   \* performance.threads of its reports

auditVars == <<audit, files>>
threadVars == <<pool, asked, reported>>
vars == <<batchVars, auditVars, threadVars>>
----------------------------------------------------------------------------
Outputs == {"tm", "report", "segments", "text"}

AuditEnded == audit.phase \in {"none", "done", "refused", "stopped"}

Init ==
  /\ BatchInit
  /\ audit = [phase |-> "none"]
  /\ files = [o \in Outputs |-> None]
  /\ Unbuilt /\ asked = AutoThreads /\ reported = None

(* What the validation of a run found, if it took place.                   *)
NotValidated == [done |-> FALSE, sample |-> <<>>, failures |-> {}]

Validated(sample, failures) == [done |-> TRUE, sample |-> sample, failures |-> failures]

(* main: the pool is configured before the command is called.              *)
Begin(threads) ==
  /\ AuditEnded /\ Free
  /\ Configure(threads)
  /\ asked' = threads /\ reported' = None

(* A size that is no size, or not the one of the pool.                     *)
RefuseThreads ==
  /\ AuditEnded /\ Free
  /\ \E threads \in ThreadOptions \ {AutoThreads} : ~Accepts(threads)
  /\ runs' = runs + 1
  /\ UNCHANGED <<scoringVars, batch, disk, auditVars, threadVars>>

StartAudit ==
  /\ \E threads \in ThreadOptions : Begin(threads)
  /\ \E r \in Requests :
       audit' = [phase |-> "evaluate", run |-> runs + 1, request |-> r,
                 ran |-> {}, verdict |-> NotValidated, written |-> <<>>]
  /\ batch' = [phase |-> "none"]
  /\ runs' = runs + 1
  /\ UNCHANGED <<scoringVars, disk, files>>

Audits == UNCHANGED batchVars

(* Indexes are built, and every segment is retrieved, on the pool.         *)
Evaluate ==
  /\ audit.phase = "evaluate"
  /\ UsePool
  /\ audit' = [audit EXCEPT !.phase = "validate", !.ran = {Active}]
  /\ Audits /\ UNCHANGED <<files, asked, reported>>

(* (mutant) a source-only run is not validated                              *)
AskedOfPairs(r) == r.sample > 0 /\ r.corpus.refs

ValidationAsked(r) == r.sample > 0

RefuseAudit == audit' = [phase |-> "refused"]

Fatal(r, failures) == failures # {} /\ ~r.allow

(* _maybe_validate_approximate_run                                         *)
Validate ==
  /\ audit.phase = "validate"
  /\ LET r == audit.request IN
     \/ /\ ~ValidationAsked(r)
        /\ audit' = [audit EXCEPT !.phase = "attach"]
        /\ UNCHANGED pool
     \/ /\ ValidationAsked(r) /\ ~r.approx
        /\ RefuseAudit
        /\ UNCHANGED pool
     \/ /\ ValidationAsked(r) /\ r.approx
        /\ UsePool
        /\ \E sample \in Samples(Len(r.corpus.exact), r.sample) :
             LET failures == Failures(r.corpus, sample) IN
             IF Fatal(r, failures) THEN RefuseAudit
             ELSE audit' = [audit EXCEPT !.phase = "attach", !.ran = @ \cup {Active},
                              !.verdict = Validated(sample, failures)]
  /\ Audits /\ UNCHANGED <<files, asked, reported>>

(* _attach_report_performance counts the threads.                          *)
AttachPerformance ==
  /\ audit.phase = "attach"
  /\ UsePool
  /\ reported' = Active
  /\ audit' = [audit EXCEPT !.phase = "write"]
  /\ Audits /\ UNCHANGED <<files, asked>>

Writes == audit.phase = "write" /\ Len(audit.written) < Len(audit.request.outputs)

NextOutput == audit.request.outputs[Len(audit.written) + 1]

(* Only a report, as JSON or as text, holds the warnings.                  *)
Warned == audit.verdict.failures # {}

WriteOutput ==
  /\ Writes
  /\ ~(NextOutput = "segments" /\ audit.request.clash)
  /\ files' = [files EXCEPT ![NextOutput] =
       [run |-> audit.run, request |-> audit.request, verdict |-> audit.verdict,
        warned |-> NextOutput \in {"report", "text"} /\ Warned]]
  /\ audit' = [audit EXCEPT !.written = Append(@, NextOutput)]
  /\ Audits /\ UNCHANGED threadVars

(* Two segment files under one path are refused when they are to be        *)
(* written, after the translations and the report (_segment_artifact_specs).*)
RefuseClash ==
  /\ Writes
  /\ NextOutput = "segments" /\ audit.request.clash
  /\ RefuseAudit
  /\ Audits /\ UNCHANGED <<files, threadVars>>

FinishAudit ==
  /\ audit.phase = "write" /\ Len(audit.written) = Len(audit.request.outputs)
  /\ audit' = [audit EXCEPT !.phase = "done"]
  /\ Audits /\ UNCHANGED <<files, threadVars>>

(* An input cannot be read, a disk is full, or the process is interrupted. *)
StopAudit ==
  /\ ~AuditEnded
  /\ audit' = [phase |-> "stopped"]
  /\ Audits /\ UNCHANGED <<files, threadVars>>
----------------------------------------------------------------------------
(* Batches and library calls, with what they do to the pool.               *)
RunBatch ==
  /\ \E threads \in ThreadOptions : Begin(threads)
  /\ StartBatch
  /\ audit' = [phase |-> "none"]
  /\ UNCHANGED files

BatchSteps ==
  /\ ScoreBatch \/ OpenReport \/ RefuseName \/ WriteReport \/ FinishBatch \/ StopBatch
       \/ CallAgain \/ CloseSession
  /\ UNCHANGED <<auditVars, threadVars>>

AttachToBatch ==
  /\ StartWriting
  /\ UsePool
  /\ reported' = Active
  /\ UNCHANGED <<auditVars, asked>>

(* A report counts the threads when it is built.                           *)
ScoringSteps ==
  /\ Scorers
  /\ IF reports' # None THEN UsePool ELSE UNCHANGED pool
  /\ UNCHANGED <<auditVars, asked, reported>>

(* A fresh scoring has retrieved its rows.                                 *)
Session ==
  /\ AuditEnded /\ OpenSession
  /\ IF scorer'.cached THEN UNCHANGED pool ELSE UsePool
  /\ UNCHANGED <<auditVars, asked, reported>>

OtherQuery ==
  /\ Unbuilt /\ UsePool
  /\ UNCHANGED <<batchVars, auditVars, asked, reported>>

(* The bound is reached and nothing is running.                            *)
Done == runs = Runs /\ Ended /\ AuditEnded /\ scorer = None /\ UNCHANGED vars

Next ==
  \/ RefuseThreads
  \/ StartAudit \/ Evaluate \/ Validate \/ AttachPerformance
  \/ WriteOutput \/ RefuseClash \/ FinishAudit \/ StopAudit
  \/ RunBatch \/ BatchSteps \/ AttachToBatch \/ ScoringSteps
  \/ Session \/ OtherQuery
  \/ Done

Spec == Init /\ [][Next]_vars
----------------------------------------------------------------------------
(* What exact retrieval and the run itself found for a segment.            *)
Truth(corpus, i) == corpus.exact[i + 1]
Found(corpus, i) == ItemOf(corpus.approx, i)

SameSide(corpus, i, t) == Reaches(Truth(corpus, i), t) = Reaches(Found(corpus, i), t)

(* The segments for which both runs have a field that may be absent.       *)
BothHave(corpus, segments, field) ==
  {i \in segments : Truth(corpus, i)[field] # Absent /\ Found(corpus, i)[field] # Absent}

Alike(corpus, segments, field) ==
  {i \in segments : Truth(corpus, i)[field] = Found(corpus, i)[field]}

(* The same source neighbour for 95 of 100 segments and the same bin for   *)
(* 99; the same target neighbour for 95 of 100 with one on both sides, and *)
(* for 99 of 100 whose pairs were measured the same side of each reported  *)
(* threshold.                                                              *)
AgreesWithExact(corpus, segments) ==
  LET targets == BothHave(corpus, segments, "target")
      measured == BothHave(corpus, segments, "pair")
  IN /\ Share(Alike(corpus, segments, "nn"), segments, 95)
     /\ Share(Alike(corpus, segments, "bin"), segments, 99)
     /\ Share(Alike(corpus, targets, "target"), targets, 95)
     /\ \A name \in ThresholdNames :
          Share({i \in measured : SameSide(corpus, i, ReportedThreshold(name))}, measured, 99)

(* A run that passes agrees with exact retrieval on its sample, and on no  *)
(* other segments than these; and one that found what exact retrieval      *)
(* finds passes, however little of it there is to compare                  *)
(* (validate_approximate_run).                                             *)
VerdictMeansAgreement ==
  audit.phase \in {"attach", "write", "done"} /\ audit.verdict.done =>
    LET corpus == audit.request.corpus
        segments == {audit.verdict.sample[n] : n \in DOMAIN audit.verdict.sample}
        passed == audit.verdict.failures = {}
    IN /\ passed => AgreesWithExact(corpus, segments)
       /\ (\A i \in segments : Truth(corpus, i) = Found(corpus, i)) => passed

(* No output of a run that was to be validated reaches the disk before its *)
(* verdict, nor after a failure nobody allowed; and a report of a failed   *)
(* validation says so (docs/json_schema.md, exact_vs_approx.md).           *)
NoUnmarkedFailure ==
  \A o \in Outputs : files[o] # None =>
    LET file == files[o] IN
    file.request.sample > 0 =>
      /\ file.verdict.done
      /\ file.verdict.failures # {} =>
           file.request.allow /\ (o \in {"report", "text"} => file.warned)

(* The threads a report names are the ones asked for and the ones its      *)
(* queries ran on, whatever other commands and library calls of the        *)
(* process did to the pool before (docs/cli.md, performance.threads).      *)
ReportedThreadsRan ==
  /\ reported # None /\ asked # AutoThreads => reported = asked
  /\ audit.phase \in {"write", "done"} => audit.ran = {reported}
=============================================================================
