-------------------------- MODULE Opus100DemoProofs --------------------------
(***************************************************************************)
(* What the demo promises, for any list of pairs, any number of attempts   *)
(* and of runs.  The downloads need three facts that hold between steps:   *)
(* a complete archive has no partial file beside it, no archive exists     *)
(* while one is downloaded, and only a complete file is about to be        *)
(* renamed.  The reports need that those of the earlier pairs are written. *)
(***************************************************************************)
EXTENDS Opus100Demo, TLAPS

Downloading == {"request", "stream", "verify", "publish"}
Auditing == {"load", "audit"}
Summing == {"csv", "json", "markdown"}
Phases == {"ended", "failed", "done", "find", "report"} \cup Downloading \cup Auditing \cup Summing

DownloadInv ==
  /\ archive \in [PairNames -> {None} \cup 1..Whole]
  /\ partial \in [PairNames -> {None} \cup 0..Whole]
  /\ demo.phase \in Phases /\ demo.pair \in DOMAIN Pairs
  /\ \A p \in PairNames : archive[p] = Whole => partial[p] = None
  /\ demo.phase \in Downloading => archive[Pair] = None
  /\ At("request") \/ At("failed") => partial[Pair] = None
  /\ At("stream") \/ At("verify") => partial[Pair] # None
  /\ At("publish") => partial[Pair] = Whole
  /\ demo.phase \in Auditing => archive[Pair] = Whole

DemoType ==
  demo \in [phase : Phases, run : Nat, pair : DOMAIN Pairs, attempt : 0..Retries,
            validation : {"off", "strict", "lenient"},
            outcome : {None, "none", "passed", "failed"}]

Backed(p) ==
  /\ report[p].run = demo.run /\ report[p].whole
  /\ demo.validation = "strict" => report[p].outcome = "passed"

SummaryInv ==
  /\ DOMAIN report = PairNames /\ DOMAIN summary = DOMAIN After
  /\ \A n \in 1..(demo.pair - 1) : Running => Backed(Pairs[n])
  /\ demo.phase \in Summing \cup {"done"} => \A p \in PairNames : Backed(p)
  /\ At("report") /\ demo.validation = "strict" => demo.outcome = "passed"
  /\ \A file \in DOMAIN After : summary[file].run \in 0..demo.run
  /\ \A file \in DOMAIN After, p \in PairNames : report[p].run >= summary[file].run

(* The summaries that this run has left behind it.                         *)
Written ==
  [file \in Summing |-> CASE file = "csv" -> {"json", "markdown", "done"}
                          [] file = "json" -> {"markdown", "done"}
                          [] OTHER -> {"done"}]

WrittenInv ==
  \A file \in Summing :
    demo.phase \in Written[file] => summary[file] = [run |-> demo.run, whole |-> TRUE]

DemoInv == DownloadInv /\ DemoType /\ SummaryInv /\ WrittenInv

USE DemoAssumption

LEMMA PairIsName == DownloadInv => Pair \in PairNames
BY DEF DownloadInv, Pair, PairNames

LEMMA InitInv == Init => DemoInv
<1> SUFFICES ASSUME Init PROVE DemoInv
    OBVIOUS
<1>1. DownloadInv
  BY DEF Init, DownloadInv, At, Phases, Downloading, Auditing
<1>2. DemoType
  BY DEF Init, DemoType, Phases
<1>3. SummaryInv
  BY DEF Init, SummaryInv, At, Running, After, Summing
<1>4. WrittenInv
  BY DEF Init, WrittenInv, Written, Summing
<1> QED
  BY <1>1, <1>2, <1>3, <1>4 DEF DemoInv

LEMMA DownloadStep == DemoInv /\ [Next]_vars => DownloadInv'
<1> SUFFICES ASSUME DemoInv, [Next]_vars PROVE DownloadInv'
    OBVIOUS
<1> USE DEF DemoInv, DownloadInv, DemoType, At, Pair, Phases, Downloading, Auditing
<1>0. Pair \in PairNames
  BY PairIsName
<1>1. CASE UNCHANGED vars
  BY <1>1 DEF vars
<1>2. CASE StartDemo
  BY <1>2 DEF StartDemo
<1>3. CASE FindArchive
  <2>1. CASE IsComplete(archive[Pair])
    BY <1>3, <2>1 DEF FindArchive, IsComplete, Go
  <2>2. CASE ~IsComplete(archive[Pair])
    <3>1. /\ archive' = [archive EXCEPT ![Pair] = None]
          /\ partial' = [partial EXCEPT ![Pair] = None]
          /\ demo' = [demo EXCEPT !.phase = "request", !.attempt = 1]
      BY <1>3, <2>2 DEF FindArchive
    <3>2. demo'.phase = "request" /\ demo'.pair = demo.pair
      BY <3>1
    <3> QED
      BY <1>0, <3>1, <3>2
  <2> QED
    BY <2>1, <2>2
<1>4. CASE OpenPartial
  BY <1>0, <1>4 DEF OpenPartial, Go
<1>5. CASE NotFound
  BY <1>5 DEF NotFound, Go
<1>6. CASE ReadPiece
  BY <1>0, <1>6 DEF ReadPiece
<1>7. CASE EndStream
  BY <1>7 DEF EndStream, Go
<1>8. CASE FailAttempt /\ demo.phase \in Downloading
  BY <1>0, <1>8 DEF FailAttempt, Go
<1>9. CASE TransferError
  BY <1>8, <1>9 DEF TransferError
<1>10. CASE ProtocolError
  BY <1>10 DEF ProtocolError, Go
<1>11. CASE VerifyDownload
  BY <1>0, <1>8, <1>11 DEF VerifyDownload, IsComplete, Go
<1>12. CASE PublishArchive
  BY <1>0, <1>12 DEF PublishArchive, Go
<1>13. CASE LoadPair
  BY <1>13 DEF LoadPair, Go
<1>14. CASE LoadFails
  BY <1>0, <1>14 DEF LoadFails, Go
<1>15. CASE Audit
  BY <1>0, <1>15 DEF Audit
<1>16. CASE WriteReport
  BY <1>16 DEF WriteReport, Summing
<1>17. CASE WriteSummary
  BY <1>17 DEF WriteSummary, After, Go, Summing
<1>18. CASE Kill
  BY <1>18 DEF Kill, Go
<1>19. CASE KillInReport \/ KillInSummary
  BY <1>19 DEF KillInReport, KillInSummary, Go
<1>20. CASE AllRan
  BY <1>1, <1>20 DEF AllRan
<1> QED
  BY <1>1, <1>2, <1>3, <1>4, <1>5, <1>6, <1>7, <1>9, <1>10, <1>11, <1>12, <1>13, <1>14,
     <1>15, <1>16, <1>17, <1>18, <1>19, <1>20 DEF Next, Step

LEMMA TypeStep == DemoInv /\ [Next]_vars => DemoType'
<1> SUFFICES ASSUME DemoInv, [Next]_vars PROVE DemoType'
    OBVIOUS
<1> USE DEF DemoInv, DemoType, At, Go, Phases, Downloading, Auditing, Summing
<1>1. CASE UNCHANGED vars \/ AllRan
  BY <1>1 DEF vars, AllRan
<1>2. CASE StartDemo
  <2>1. PICK v \in {"off", "strict", "lenient"} :
          demo' = [phase |-> "find", run |-> demo.run + 1, pair |-> 1, attempt |-> 0,
                   validation |-> v, outcome |-> None]
    BY <1>2 DEF StartDemo
  <2> QED
    BY <2>1
<1>3. CASE FailAttempt
  <2>1. CASE demo.attempt < Retries
    <3>1. demo.attempt + 1 \in 0..Retries
      BY <2>1
    <3>2. demo' = [demo EXCEPT !.phase = "request", !.attempt = @ + 1]
      BY <1>3, <2>1 DEF FailAttempt
    <3> QED
      BY <3>1, <3>2
  <2>2. CASE ~(demo.attempt < Retries)
    BY <1>3, <2>2 DEF FailAttempt
  <2> QED
    BY <2>1, <2>2
<1>4. CASE FindArchive
  <2>1. 1 \in 0..Retries
    OBVIOUS
  <2>2. \/ demo' = [demo EXCEPT !.phase = "load"]
        \/ demo' = [demo EXCEPT !.phase = "request", !.attempt = 1]
    BY <1>4 DEF FindArchive
  <2> QED
    BY <2>1, <2>2
<1>5. CASE OpenPartial \/ NotFound \/ ReadPiece \/ EndStream
  BY <1>5 DEF OpenPartial, NotFound, ReadPiece, EndStream
<1>6. CASE TransferError \/ ProtocolError \/ VerifyDownload \/ PublishArchive
  BY <1>3, <1>6 DEF TransferError, ProtocolError, VerifyDownload, PublishArchive
<1>7. CASE LoadPair \/ LoadFails \/ Kill \/ KillInReport \/ KillInSummary
  BY <1>7 DEF LoadPair, LoadFails, Kill, KillInReport, KillInSummary
<1>8. CASE Audit
  <2>1. PICK outcome \in {"none", "passed", "failed"} :
          demo' = [demo EXCEPT !.outcome = outcome,
                               !.phase = IF Refuses(outcome) THEN "failed" ELSE "report"]
    BY <1>8 DEF Audit
  <2> QED
    BY <2>1
<1>9. CASE WriteReport
  <2>1. CASE demo.pair < Len(Pairs)
    <3>1. demo.pair + 1 \in DOMAIN Pairs
      BY <2>1
    <3>2. demo' = [demo EXCEPT !.pair = @ + 1, !.phase = "find", !.outcome = None]
      BY <1>9, <2>1 DEF WriteReport
    <3> QED
      BY <3>1, <3>2
  <2>2. CASE ~(demo.pair < Len(Pairs))
    BY <1>9, <2>2 DEF WriteReport
  <2> QED
    BY <2>1, <2>2
<1>10. CASE WriteSummary
  BY <1>10 DEF WriteSummary, After
<1> QED
  BY <1>1, <1>2, <1>4, <1>5, <1>6, <1>7, <1>8, <1>9, <1>10 DEF Next, Step

(* A step that changes neither reports nor summaries and stays with its    *)
(* pair keeps what the reports say.                                        *)
LEMMA SummaryKept ==
  ASSUME DemoInv, UNCHANGED <<report, summary>>,
         demo'.run = demo.run, demo'.pair = demo.pair, demo'.validation = demo.validation,
         Running' => Running, demo'.phase \notin Summing \cup {"done"},
         At("report")' /\ demo'.validation = "strict" => demo'.outcome = "passed"
  PROVE SummaryInv'
BY DEF DemoInv, SummaryInv, Backed

LEMMA SummaryStep == DemoInv /\ [Next]_vars => SummaryInv'
<1> SUFFICES ASSUME DemoInv, [Next]_vars PROVE SummaryInv'
    OBVIOUS
<1> USE DEF At, Go, Running
<1>0. DemoType /\ DownloadInv /\ SummaryInv
  BY DEF DemoInv
<1>1. CASE UNCHANGED vars \/ AllRan
  BY <1>0, <1>1 DEF vars, AllRan, SummaryInv, Backed
<1>2. CASE StartDemo
  <2>1. /\ demo'.phase = "find" /\ demo'.run = demo.run + 1 /\ demo'.pair = 1
        /\ UNCHANGED <<report, summary>>
    BY <1>2 DEF StartDemo
  <2>2. demo.run \in Nat
    BY <1>0 DEF DemoType
  <2> QED
    BY <1>0, <2>1, <2>2 DEF SummaryInv, Summing
<1>3. CASE FailAttempt /\ demo.phase \in Downloading
  BY <1>0, <1>3, SummaryKept DEF FailAttempt, DemoType, Downloading, Summing
<1>4. CASE FindArchive
  BY <1>4, <1>0, SummaryKept DEF FindArchive, DemoType, Summing
<1>5. CASE OpenPartial \/ NotFound \/ ReadPiece \/ EndStream
  BY <1>5, <1>0, SummaryKept
     DEF OpenPartial, NotFound, ReadPiece, EndStream, DemoType, Summing
<1>6. CASE TransferError \/ VerifyDownload
  BY <1>3, <1>6, <1>0, SummaryKept
     DEF TransferError, VerifyDownload, DemoType, Downloading, Summing
<1>7. CASE ProtocolError \/ PublishArchive \/ LoadPair \/ LoadFails \/ Kill
  BY <1>7, <1>0, SummaryKept
     DEF ProtocolError, PublishArchive, LoadPair, LoadFails, Kill, DemoType, Summing
<1>8. CASE Audit
  <2>1. PICK outcome \in IF demo.validation = "off" THEN {"none"} ELSE {"passed", "failed"} :
          demo' = [demo EXCEPT !.outcome = outcome,
                               !.phase = IF Refuses(outcome) THEN "failed" ELSE "report"]
    BY <1>8 DEF Audit
  <2>2. At("report")' /\ demo'.validation = "strict" => demo'.outcome = "passed"
    BY <1>0, <2>1 DEF Refuses, DemoType
  <2> QED
    BY <1>8, <1>0, <2>1, <2>2, SummaryKept DEF Audit, DemoType, Summing
<1>9. CASE WriteReport
  <2>1. PICK p \in PairNames : p = Pair
    BY <1>0, PairIsName
  <2>2. /\ report' = [report EXCEPT ![p] = Report(TRUE)] /\ summary' = summary
        /\ demo'.run = demo.run /\ demo'.validation = demo.validation
        /\ Running /\ demo.run \in Nat /\ demo.pair \in 1..Len(Pairs)
    BY <1>0, <1>9, <2>1 DEF WriteReport, DemoType
  <2>3. report'[p] = Report(TRUE) /\ \A q \in PairNames : q # p => report'[q] = report[q]
    BY <1>0, <2>2 DEF SummaryInv
  <2>4. /\ report'[p].run = demo.run /\ report'[p].whole
        /\ demo.validation = "strict" => report'[p].outcome = "passed"
    BY <1>0, <1>9, <2>3 DEF Report, WriteReport, SummaryInv
  <2>5. \A n \in 1..demo.pair : Backed(Pairs[n])'
    <3>1. SUFFICES ASSUME NEW n \in 1..demo.pair PROVE Backed(Pairs[n])'
      OBVIOUS
    <3>2. Pairs[n] \in PairNames
      BY <2>2 DEF PairNames
    <3>3. CASE Pairs[n] = p
      BY <2>2, <2>3, <2>4, <3>3 DEF Backed
    <3>4. CASE Pairs[n] # p
      <4>1. n \in 1..(demo.pair - 1)
        BY <2>1, <2>2, <3>4 DEF Pair
      <4>2. Backed(Pairs[n])
        BY <1>0, <2>2, <4>1 DEF SummaryInv
      <4> QED
        BY <2>2, <2>3, <3>2, <3>4, <4>2 DEF Backed
    <3> QED
      BY <3>3, <3>4
  <2>6. DOMAIN report' = PairNames /\ DOMAIN summary' = DOMAIN After
    BY <1>0, <2>2 DEF SummaryInv
  <2>7. \A file \in DOMAIN After : summary'[file].run \in 0..demo'.run
    BY <1>0, <2>2 DEF SummaryInv
  <2>8. \A file \in DOMAIN After, q \in PairNames : report'[q].run >= summary'[file].run
    <3>1. TAKE file \in DOMAIN After, q \in PairNames
    <3>2. summary[file].run \in 0..demo.run /\ report[q].run >= summary[file].run
      BY <1>0 DEF SummaryInv
    <3>3. CASE q = p
      <4>1. report'[q].run = demo.run /\ summary'[file].run \in 0..demo.run
        BY <2>2, <2>3, <2>4, <3>2, <3>3
      <4>2. demo.run \in Nat
        BY <2>2
      <4> QED
        BY <4>1, <4>2
    <3>4. CASE q # p
      BY <2>2, <2>3, <3>1, <3>2, <3>4
    <3> QED
      BY <3>3, <3>4
  <2>9. CASE demo.pair < Len(Pairs)
    <3>1. demo'.pair = demo.pair + 1 /\ demo'.phase = "find"
      BY <1>9, <1>0, <2>9 DEF WriteReport, DemoType
    <3>2. \A n \in 1..(demo'.pair - 1) : Backed(Pairs[n])'
      BY <2>2, <2>5, <3>1
    <3> QED
      BY <2>6, <2>7, <2>8, <3>1, <3>2 DEF SummaryInv, Summing
  <2>10. CASE ~(demo.pair < Len(Pairs))
    <3>1. demo'.pair = demo.pair /\ demo'.phase = "csv" /\ demo.pair = Len(Pairs)
      BY <1>9, <1>0, <2>2, <2>10 DEF WriteReport, DemoType
    <3>2. \A q \in PairNames : Backed(q)'
      BY <2>2, <2>5, <3>1 DEF PairNames
    <3>3. \A n \in 1..(demo'.pair - 1) : Backed(Pairs[n])'
      BY <2>2, <2>5, <3>1
    <3> QED
      BY <2>6, <2>7, <2>8, <3>1, <3>2, <3>3 DEF SummaryInv
  <2> QED
    BY <2>9, <2>10
<1>10. CASE WriteSummary
  <2>1. PICK file \in DOMAIN After :
          /\ demo.phase = file
          /\ summary' = [summary EXCEPT ![file] = [run |-> demo.run, whole |-> TRUE]]
          /\ demo' = [demo EXCEPT !.phase = After[file]] /\ report' = report
    BY <1>10 DEF WriteSummary
  <2>2. /\ file \in Summing /\ demo'.phase \in Summing \cup {"done"} /\ Running
        /\ demo'.run = demo.run /\ demo'.pair = demo.pair
        /\ demo'.validation = demo.validation /\ demo.run \in Nat
    BY <1>0, <2>1 DEF DemoType, After, Summing
  <2>3. \A q \in PairNames : Backed(q) /\ Backed(q)'
    BY <1>0, <2>1, <2>2 DEF SummaryInv, Backed
  <2>4. \A n \in 1..(demo'.pair - 1) : Backed(Pairs[n])'
    BY <1>0, <2>2, <2>3 DEF DemoType, PairNames
  <2>5. \A g \in DOMAIN After : summary'[g].run = IF g = file THEN demo.run ELSE summary[g].run
    BY <1>0, <2>1 DEF SummaryInv
  <2>6. DOMAIN report' = PairNames /\ DOMAIN summary' = DOMAIN After
    BY <1>0, <2>1 DEF SummaryInv
  <2>7. \A g \in DOMAIN After : summary'[g].run \in 0..demo'.run
    BY <1>0, <2>2, <2>5 DEF SummaryInv
  <2>8. \A g \in DOMAIN After, q \in PairNames : report'[q].run >= summary'[g].run
    BY <1>0, <2>1, <2>2, <2>3, <2>5 DEF SummaryInv, Backed
  <2> QED
    BY <2>2, <2>3, <2>4, <2>6, <2>7, <2>8 DEF SummaryInv, Summing
<1>11. CASE KillInReport
  <2>1. PICK p \in PairNames : p = Pair
    BY <1>0, PairIsName
  <2>2. /\ report' = [report EXCEPT ![p] = Report(FALSE)] /\ summary' = summary
        /\ demo'.run = demo.run /\ demo'.phase = "ended" /\ demo.run \in Nat
    BY <1>0, <1>11, <2>1 DEF KillInReport, DemoType
  <2>3. report'[p].run = demo.run
    BY <1>0, <2>2 DEF SummaryInv, Report
  <2>4. \A q \in PairNames : q # p => report'[q] = report[q]
    BY <1>0, <2>2 DEF SummaryInv
  <2>5. \A file \in DOMAIN After, q \in PairNames : report'[q].run >= summary'[file].run
    <3>1. TAKE file \in DOMAIN After, q \in PairNames
    <3>2. summary[file].run \in 0..demo.run /\ report[q].run >= summary[file].run
      BY <1>0 DEF SummaryInv
    <3>3. CASE q = p
      <4>1. report'[q].run = demo.run /\ summary'[file].run \in 0..demo.run
        BY <2>2, <2>3, <2>4, <3>2, <3>3
      <4>2. demo.run \in Nat
        BY <2>2
      <4> QED
        BY <4>1, <4>2
    <3>4. CASE q # p
      BY <2>2, <2>4, <3>1, <3>2, <3>4
    <3> QED
      BY <3>3, <3>4
  <2> QED
    BY <1>0, <2>2, <2>5 DEF SummaryInv, Summing
<1>12. CASE KillInSummary
  <2>1. PICK file \in DOMAIN After :
          /\ demo.phase = file
          /\ summary' = [summary EXCEPT ![file] = [run |-> demo.run, whole |-> FALSE]]
          /\ demo' = [demo EXCEPT !.phase = "ended"] /\ report' = report
    BY <1>12 DEF KillInSummary
  <2>2. /\ file \in Summing /\ demo'.phase = "ended"
        /\ demo'.run = demo.run /\ demo.run \in Nat
    BY <1>0, <2>1 DEF DemoType, After, Summing
  <2>3. \A q \in PairNames : report[q].run = demo.run
    BY <1>0, <2>1, <2>2 DEF SummaryInv, Backed
  <2>4. \A g \in DOMAIN After : summary'[g].run = IF g = file THEN demo.run ELSE summary[g].run
    BY <1>0, <2>1 DEF SummaryInv
  <2>5. DOMAIN report' = PairNames /\ DOMAIN summary' = DOMAIN After
    BY <1>0, <2>1 DEF SummaryInv
  <2>6. \A g \in DOMAIN After : summary'[g].run \in 0..demo'.run
    BY <1>0, <2>2, <2>4 DEF SummaryInv
  <2>7. \A g \in DOMAIN After, q \in PairNames : report'[q].run >= summary'[g].run
    BY <1>0, <2>1, <2>2, <2>3, <2>4 DEF SummaryInv
  <2> QED
    BY <2>2, <2>5, <2>6, <2>7 DEF SummaryInv, Summing
<1> QED
  BY <1>1, <1>2, <1>4, <1>5, <1>6, <1>7, <1>8, <1>9, <1>10, <1>11, <1>12 DEF Next, Step

(* The summaries are written in order, and torn ones end the run.          *)
LEMMA WrittenStep == DemoInv /\ [Next]_vars => WrittenInv'
<1> SUFFICES ASSUME DemoInv, [Next]_vars PROVE WrittenInv'
    OBVIOUS
<1> USE DEF At, Go, Running
<1>0. DemoType /\ SummaryInv /\ WrittenInv
  BY DEF DemoInv
<1>1. CASE UNCHANGED vars \/ AllRan
  BY <1>0, <1>1 DEF vars, AllRan, WrittenInv
<1>2. CASE WriteSummary
  <2>1. PICK file \in DOMAIN After :
          /\ demo.phase = file
          /\ summary' = [summary EXCEPT ![file] = [run |-> demo.run, whole |-> TRUE]]
          /\ demo' = [demo EXCEPT !.phase = After[file]]
    BY <1>2 DEF WriteSummary
  <2>2. demo'.run = demo.run /\ demo'.phase = After[file] /\ file \in Summing
    BY <1>0, <2>1 DEF DemoType, After, Summing
  <2>3. \A g \in Summing :
          summary'[g] = IF g = file THEN [run |-> demo.run, whole |-> TRUE] ELSE summary[g]
    BY <1>0, <2>1 DEF SummaryInv, After, Summing
  <2>4. \A g \in Summing : After[file] \in Written[g] => g = file \/ demo.phase \in Written[g]
    BY <2>1, <2>2 DEF After, Written, Summing
  <2> QED
    BY <1>0, <2>2, <2>3, <2>4 DEF WrittenInv
<1>3. CASE demo'.phase \notin {"json", "markdown", "done"}
  BY <1>3 DEF WrittenInv, Written, Summing
<1>4. ASSUME Next, ~AllRan, ~WriteSummary
      PROVE  demo'.phase \notin {"json", "markdown", "done"}
  <2>1. CASE FailAttempt /\ demo.phase \in Downloading
    BY <1>0, <2>1 DEF FailAttempt, DemoType, Downloading
  <2>2. CASE ReadPiece
    BY <2>2 DEF ReadPiece
  <2>3. CASE Audit
    <3>1. PICK outcome : demo' = [demo EXCEPT !.outcome = outcome,
                           !.phase = IF Refuses(outcome) THEN "failed" ELSE "report"]
      BY <2>3 DEF Audit
    <3> QED
      BY <1>0, <3>1 DEF DemoType
  <2>4. CASE StartDemo
    BY <2>4 DEF StartDemo
  <2>5. CASE FindArchive \/ OpenPartial \/ NotFound \/ EndStream
    BY <1>0, <2>5 DEF FindArchive, OpenPartial, NotFound, EndStream, DemoType
  <2>6. CASE TransferError \/ ProtocolError \/ VerifyDownload \/ PublishArchive
    BY <1>0, <2>1, <2>6
       DEF TransferError, ProtocolError, VerifyDownload, PublishArchive, DemoType, Downloading
  <2>7. CASE LoadPair \/ LoadFails \/ WriteReport
    BY <1>0, <2>7 DEF LoadPair, LoadFails, WriteReport, DemoType
  <2>8. CASE Kill \/ KillInReport \/ KillInSummary
    BY <1>0, <2>8 DEF Kill, KillInReport, KillInSummary, DemoType
  <2> QED
    BY <1>4, <2>2, <2>3, <2>4, <2>5, <2>6, <2>7, <2>8 DEF Next, Step
<1> QED
  BY <1>1, <1>2, <1>3, <1>4
----------------------------------------------------------------------------
THEOREM Invariance == Spec => []DemoInv
<1>1. DemoInv /\ [Next]_vars => DemoInv'
  BY DownloadStep, TypeStep, SummaryStep, WrittenStep DEF DemoInv
<1> QED
  BY InitInv, <1>1, PTL DEF Spec

(* The state has its types, and attempts stay within their number          *)
(* (download_pair).                                                        *)
THEOREM TypeCorrect == Spec => []TypeOK
<1>1. DemoInv => TypeOK
  BY DEF DemoInv, DownloadInv, DemoType, TypeOK, At, PairNames
<1> QED
  BY Invariance, <1>1, PTL

(* An audit reads a complete archive, whatever broke off before            *)
(* (download_pair).                                                        *)
THEOREM AuditsAreOfWholeArchives == Spec => []AuditsWholeArchives
<1>1. DemoInv => AuditsWholeArchives
  BY DEF DemoInv, DownloadInv, AuditsWholeArchives, At, Auditing
<1> QED
  BY Invariance, <1>1, PTL

(* A pair that is given up has no partial file, and neither has one that   *)
(* is about to be requested (download_pair).                               *)
THEOREM GivenUpIsClean == Spec => []GivingUpLeavesNoPart
<1>1. DemoInv => GivingUpLeavesNoPart
  BY DEF DemoInv, DownloadInv, GivingUpLeavesNoPart
<1> QED
  BY Invariance, <1>1, PTL

(* A finished demo has complete summaries and a complete, validated report *)
(* of every pair, and summaries never run ahead of reports (run_demo).     *)
THEOREM SummariesAreBacked == Spec => []SummaryIsBacked
<1>1. DemoInv => SummaryIsBacked
  BY DEF DemoInv, SummaryInv, WrittenInv, Written, SummaryIsBacked, At, Backed, After, Summing
<1> QED
  BY Invariance, <1>1, PTL

(* No step removes or replaces a complete archive (download_pair).         *)
THEOREM ArchivesStay == Spec => WholeArchiveStays
<1>1. DemoInv /\ [Next]_vars =>
        [\A p \in DOMAIN archive : archive[p] = Whole => archive'[p] = Whole]_vars
  <2> SUFFICES ASSUME DemoInv, Next
               PROVE \A p \in DOMAIN archive : archive[p] = Whole => archive'[p] = Whole
      OBVIOUS
  <2>1. DownloadInv
    BY DEF DemoInv
  <2>2. CASE archive' = archive
    BY <2>2
  <2>3. CASE FindArchive /\ archive' # archive
    BY <2>1, <2>3 DEF FindArchive, IsComplete, DownloadInv
  <2>4. CASE PublishArchive
    BY <2>1, <2>4 DEF PublishArchive, DownloadInv
  <2> QED
    BY <2>2, <2>3, <2>4
       DEF Next, Step, StartDemo, OpenPartial, NotFound, ReadPiece, EndStream, TransferError,
           FailAttempt, ProtocolError, VerifyDownload, LoadPair, LoadFails, Audit, WriteReport,
           WriteSummary, Kill, KillInReport, KillInSummary, AllRan, vars
<1> QED
  BY Invariance, <1>1, PTL DEF Spec, WholeArchiveStays
=============================================================================
