---------------------------- MODULE Opus100Demo -----------------------------
(***************************************************************************)
(* The public-corpus demo: it downloads an archive for every language      *)
(* pair, or takes the one an earlier run left, audits it, validates an     *)
(* approximate audit if asked to, and writes a report per pair and a       *)
(* summary at the end.  The network fails in every way the code            *)
(* distinguishes, and a run may be killed between any two steps.           *)
(*                                                                         *)
(* Abstractions.  An archive is the number of pieces it has been read in;  *)
(* all of them make a tar file that is_complete_tar accepts, and fewer are *)
(* anything it refuses.  One demo runs at a time in an output directory,   *)
(* where an earlier version may have left an incomplete archive.           *)
(* What an audit measures is module Exposure's subject: here its           *)
(* validation passes or fails.                                             *)
(***************************************************************************)
EXTENDS Integers, Sequences

CONSTANTS
  Pairs,        \* the language pairs of the tier, in order
  Retries,      \* download attempts per pair
  Whole,        \* pieces of a complete archive
  Validations,  \* how a run validates: "off", "strict" or "lenient"
  MaxRuns,      \* bound: runs in one output directory
  None

ASSUME DemoAssumption ==
  /\ Retries \in Nat \ {0} /\ Whole \in Nat \ {0} /\ MaxRuns \in Nat
  /\ Len(Pairs) \in Nat \ {0} /\ DOMAIN Pairs = 1..Len(Pairs)
  /\ None \notin Nat
  /\ Validations \subseteq {"off", "strict", "lenient"}

VARIABLES
  archive,  \* downloads/<pair>.tar.gz
  partial,  \* downloads/<pair>.tar.gz.part
  report,   \* reports/<pair>.audit.json, of run 0 when there is none
  summary,  \* the CSV, JSON and Markdown summaries, of run 0 when there is none
  demo      \* the process

vars == <<archive, partial, report, summary, demo>>
----------------------------------------------------------------------------
Pair == Pairs[demo.pair]

PairNames == {Pairs[n] : n \in DOMAIN Pairs}

(* The summaries, each followed by what is written next.                   *)
After == [csv |-> "json", json |-> "markdown", markdown |-> "done"]

Init ==
  /\ archive \in [PairNames -> {None} \cup 1..Whole]
  /\ partial = [p \in PairNames |-> None]
  /\ report = [p \in PairNames |-> [run |-> 0, outcome |-> None, whole |-> FALSE]]
  /\ summary = [file \in DOMAIN After |-> [run |-> 0, whole |-> FALSE]]
  /\ demo = [phase |-> "ended", run |-> 0, pair |-> 1, attempt |-> 0,
             validation |-> "off", outcome |-> None]

At(phase) == demo.phase = phase
Go(phase) == demo' = [demo EXCEPT !.phase = phase]

StartDemo ==
  /\ At("ended") \/ At("failed") \/ At("done")
  /\ demo.run < MaxRuns
  /\ \E v \in Validations :
       demo' = [phase |-> "find", run |-> demo.run + 1, pair |-> 1, attempt |-> 0,
                validation |-> v, outcome |-> None]
  /\ UNCHANGED <<archive, partial, report, summary>>

(* (mutants) the name is enough, or an archive is always downloaded anew    *)
IsCompleteIfThere(file) == file # None
IsCompleteNever(file) == FALSE

IsComplete(file) == file = Whole

(* An archive of an earlier run is used when it is complete, and removed   *)
(* when it is not; so is what an interrupted download left.                *)
FindArchive ==
  /\ At("find")
  /\ IF IsComplete(archive[Pair])
     THEN Go("load") /\ UNCHANGED <<archive, partial>>
     ELSE /\ archive' = [archive EXCEPT ![Pair] = None]
          /\ partial' = [partial EXCEPT ![Pair] = None]
          /\ demo' = [demo EXCEPT !.phase = "request", !.attempt = 1]
  /\ UNCHANGED <<report, summary>>

OpenPartial ==
  /\ At("request")
  /\ partial' = [partial EXCEPT ![Pair] = 0]
  /\ Go("stream")
  /\ UNCHANGED <<archive, report, summary>>

(* The server does not have the pair: no other attempt is made.            *)
NotFound ==
  /\ At("request")
  /\ Go("failed")
  /\ UNCHANGED <<archive, partial, report, summary>>

ReadPiece ==
  /\ At("stream") /\ partial[Pair] < Whole
  /\ partial' = [partial EXCEPT ![Pair] = @ + 1]
  /\ UNCHANGED <<archive, report, summary, demo>>

(* The stream ends, perhaps early.                                         *)
EndStream ==
  /\ At("stream")
  /\ Go("verify")
  /\ UNCHANGED <<archive, partial, report, summary>>

(* (mutants) the partial file is left, one attempt too many is made, or     *)
(* attempts are not counted                                                 *)
FailAttemptLeavingPart ==
  /\ IF demo.attempt < Retries
     THEN demo' = [demo EXCEPT !.phase = "request", !.attempt = @ + 1]
     ELSE Go("failed")
  /\ UNCHANGED <<archive, partial, report, summary>>
FailAttemptOnceMore ==
  /\ partial' = [partial EXCEPT ![Pair] = None]
  /\ IF demo.attempt <= Retries
     THEN demo' = [demo EXCEPT !.phase = "request", !.attempt = @ + 1]
     ELSE Go("failed")
  /\ UNCHANGED <<archive, report, summary>>
FailAttemptUncounted ==
  /\ partial' = [partial EXCEPT ![Pair] = None]
  /\ Go("request")
  /\ UNCHANGED <<archive, report, summary>>

FailAttempt ==
  /\ partial' = [partial EXCEPT ![Pair] = None]
  /\ IF demo.attempt < Retries
     THEN demo' = [demo EXCEPT !.phase = "request", !.attempt = @ + 1]
     ELSE Go("failed")
  /\ UNCHANGED <<archive, report, summary>>

(* The server answers with an error, the connection breaks or times out,   *)
(* or the disk refuses a write or the renaming.                            *)
TransferError == (At("request") \/ At("stream") \/ At("publish")) /\ FailAttempt

(* An error of the HTTP library that no handler names ends the program.    *)
ProtocolError ==
  /\ At("stream")
  /\ Go("ended")
  /\ UNCHANGED <<archive, partial, report, summary>>

VerifyDownload ==
  /\ At("verify")
  /\ IF IsComplete(partial[Pair])
     THEN Go("publish") /\ UNCHANGED <<archive, partial, report, summary>>
     ELSE FailAttempt

PublishArchive ==
  /\ At("publish")
  /\ archive' = [archive EXCEPT ![Pair] = partial[Pair]]
  /\ partial' = [partial EXCEPT ![Pair] = None]
  /\ Go("load")
  /\ UNCHANGED <<report, summary>>
----------------------------------------------------------------------------
LoadPair ==
  /\ At("load")
  /\ Go("audit")
  /\ UNCHANGED <<archive, partial, report, summary>>

(* The archive does not hold the four files of the pair.                   *)
LoadFails ==
  /\ At("load")
  /\ Go("failed")
  /\ UNCHANGED <<archive, partial, report, summary>>

(* (mutant) a failed validation is only reported                            *)
RefusesNever(outcome) == FALSE

Refuses(outcome) == outcome = "failed" /\ demo.validation # "lenient"

(* The audit and its validation, which ends the demo when it fails.        *)
Audit ==
  /\ At("audit")
  /\ \E outcome \in IF demo.validation = "off" THEN {"none"} ELSE {"passed", "failed"} :
       demo' = [demo EXCEPT !.outcome = outcome,
                            !.phase = IF Refuses(outcome) THEN "failed" ELSE "report"]
  /\ UNCHANGED <<archive, partial, report, summary>>

Report(whole) == [run |-> demo.run, outcome |-> demo.outcome, whole |-> whole]

WriteReport ==
  /\ At("report")
  /\ report' = [report EXCEPT ![Pair] = Report(TRUE)]
  /\ demo' = IF demo.pair < Len(Pairs)
             THEN [demo EXCEPT !.pair = @ + 1, !.phase = "find", !.outcome = None]
             ELSE [demo EXCEPT !.phase = "csv"]
  /\ UNCHANGED <<archive, partial, summary>>

WriteSummary ==
  \E file \in DOMAIN After :
    /\ At(file)
    /\ summary' = [summary EXCEPT ![file] = [run |-> demo.run, whole |-> TRUE]]
    /\ Go(After[file])
    /\ UNCHANGED <<archive, partial, report>>
----------------------------------------------------------------------------
Step ==
  \/ FindArchive \/ OpenPartial \/ NotFound \/ ReadPiece \/ EndStream
  \/ TransferError \/ ProtocolError \/ VerifyDownload \/ PublishArchive
  \/ LoadPair \/ LoadFails \/ Audit \/ WriteReport \/ WriteSummary

Running == demo.phase \notin {"ended", "failed", "done"}

(* The program is killed, perhaps while it writes a report or a summary.   *)
Kill == Running /\ Go("ended") /\ UNCHANGED <<archive, partial, report, summary>>

KillInReport ==
  /\ At("report")
  /\ report' = [report EXCEPT ![Pair] = Report(FALSE)]
  /\ Go("ended")
  /\ UNCHANGED <<archive, partial, summary>>

KillInSummary ==
  \E file \in DOMAIN After :
    /\ At(file)
    /\ summary' = [summary EXCEPT ![file] = [run |-> demo.run, whole |-> FALSE]]
    /\ Go("ended")
    /\ UNCHANGED <<archive, partial, report>>

AllRan == ~Running /\ demo.run = MaxRuns /\ UNCHANGED vars

Next == StartDemo \/ Step \/ Kill \/ KillInReport \/ KillInSummary \/ AllRan

(* A demo that is not killed goes on: every request has a time limit.      *)
Spec == Init /\ [][Next]_vars /\ WF_vars(Step)
----------------------------------------------------------------------------
TypeOK ==
  /\ \A p \in DOMAIN archive :
       /\ archive[p] \in {None} \cup 1..Whole
       /\ partial[p] \in {None} \cup 0..Whole
  /\ At("stream") \/ At("verify") => partial[Pair] # None
  /\ demo.attempt \in 0..Retries /\ demo.pair \in DOMAIN Pairs

(* However downloads broke off before, in this run or in one that was      *)
(* killed, an audit reads a complete archive (download_pair).              *)
AuditsWholeArchives == At("load") \/ At("audit") => archive[Pair] = Whole

(* A complete archive is neither downloaded again nor lost to a download   *)
(* that fails (download_pair).                                             *)
WholeArchiveStays ==
  [][\A p \in DOMAIN archive : archive[p] = Whole => archive'[p] = Whole]_vars

(* A demo that gives a pair up leaves no partial file for it: only runs    *)
(* that were cut off do, and the next run removes it before it asks the    *)
(* server (download_pair).                                                 *)
GivingUpLeavesNoPart == At("failed") \/ At("request") => partial[Pair] = None

(* When a demo is done, its summaries are complete, and every pair has a   *)
(* complete report of this run that passed its validation, unless the run  *)
(* allowed it to fail.  Whatever later runs overwrite or tear, a summary   *)
(* is never ahead of the reports: every report it stands for is of its own *)
(* run or of a later one (run_demo).                                       *)
SummaryIsBacked ==
  /\ At("done") =>
       /\ \A file \in DOMAIN After : summary[file] = [run |-> demo.run, whole |-> TRUE]
       /\ \A p \in PairNames :
            /\ report[p].run = demo.run /\ report[p].whole
            /\ demo.validation = "strict" => report[p].outcome = "passed"
  /\ \A file \in DOMAIN After, p \in PairNames :
       report[p].run >= summary[file].run

(* A demo comes to an end although the server may fail every time:         *)
(* attempts are counted and a server that answers "not found" is not       *)
(* asked again (download_pair).                                            *)
DemoEnds == Running ~> ~Running
=============================================================================
