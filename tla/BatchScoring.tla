---------------------------- MODULE BatchScoring ----------------------------
(***************************************************************************)
(* Uses of the scorers of GroupScoring: the score-cached-batch command,    *)
(* which scores several systems from one segment file and writes a report  *)
(* file for each, and callers of the library, who score fresh corpora or   *)
(* keep a cached scorer for several calls.                                 *)
(*                                                                         *)
(* Abstractions.  Reading the inputs is atomic, and their agreement with   *)
(* the settings is the matter of module SegmentCache.  A report file is    *)
(* truncated when opened and whole once written and closed; it holds the   *)
(* report of the system it is marked with, from the run it is marked with. *)
(***************************************************************************)
EXTENDS GroupScoring

CONSTANTS
  Orders,   \* systems a caller asks for, in order
  Stem(_),  \* _safe_report_stem: the file name of a system, or None
  Torn,     \* a report file that is open, or was left so
  Runs      \* bound: batch commands and sessions

ASSUME OrdersAssumption == Orders \subseteq Seq(Systems \cup {TM})

ASSUME RunsAssumption == Runs \in Nat

VARIABLES
  batch,  \* the batch command that is running, or how the last one ended
  disk,   \* report files, by name
  runs    \* commands and sessions so far

batchVars == <<scoringVars, batch, disk, runs>>
----------------------------------------------------------------------------
Stems == {Stem(name) : name \in Systems} \ {None}

Ended == batch.phase \in {"none", "done", "refused", "stopped"}

BatchInit ==
  /\ ScoringInit
  /\ batch = [phase |-> "none"]
  /\ disk = [stem \in Stems |-> None]
  /\ runs = 0

Free == Ended /\ scorer = None /\ runs < Runs

(* A name given twice is refused.                                          *)
Distinct(order) == \A m, n \in DOMAIN order : order[m] = order[n] => m = n

Refused == [phase |-> "refused"]

(* run_score_cached_batch: the segment file and the systems are read, and  *)
(* a scorer is prepared.                                                   *)
StartBatch ==
  /\ Free
  /\ \E a \in Artifacts, order \in Orders :
       \/ /\ Distinct(order)
          /\ Prepare(a)
          /\ batch' = [phase |-> "prepare", run |-> runs + 1, order |-> order,
                       used |-> {}, written |-> <<>>, open |-> FALSE]
       \/ /\ ~Distinct(order) \/ ~Acceptable(a)
          /\ batch' = Refused
          /\ UNCHANGED scoringVars
  /\ runs' = runs + 1
  /\ UNCHANGED disk

Names(order) == {order[n] : n \in DOMAIN order}

ScoreBatch ==
  /\ batch.phase = "prepare" /\ call = Idle /\ scorer # None
  /\ \/ ScoreMany(batch.order) /\ batch' = [batch EXCEPT !.phase = "score"]
     \/ TM \in Names(batch.order) /\ batch' = Refused /\ Drop
  /\ UNCHANGED <<disk, runs>>

StartWriting ==
  /\ batch.phase = "score" /\ call = Idle /\ reports # None
  /\ batch' = [batch EXCEPT !.phase = "write"]
  /\ UNCHANGED <<scoringVars, disk, runs>>

Writing == batch.phase = "write" /\ Len(batch.written) < Len(batch.order)

Current == batch.order[Len(batch.written) + 1]

(* (mutant) a file name is not compared with those already written          *)
NoClash(stem) == FALSE

Clashes(stem) == stem \in batch.used

OpenReport ==
  /\ Writing /\ ~batch.open
  /\ LET stem == Stem(Current) IN
     /\ stem # None /\ ~Clashes(stem)
     /\ disk' = [disk EXCEPT ![stem] = Torn]
     /\ batch' = [batch EXCEPT !.used = @ \cup {stem}, !.open = TRUE]
  /\ UNCHANGED <<scoringVars, runs>>

(* A name without a safe file name, or with that of another system, ends   *)
(* the command; the reports of earlier systems stay.                       *)
RefuseName ==
  /\ Writing /\ ~batch.open
  /\ LET stem == Stem(Current) IN stem = None \/ Clashes(stem)
  /\ batch' = Refused
  /\ Drop
  /\ UNCHANGED <<disk, runs>>

WriteReport ==
  /\ Writing /\ batch.open
  /\ disk' = [disk EXCEPT ![Stem(Current)] =
                [run |-> batch.run, system |-> Current]]
  /\ batch' = [batch EXCEPT !.written = Append(@, Current), !.open = FALSE]
  /\ UNCHANGED <<scoringVars, runs>>

FinishBatch ==
  /\ batch.phase = "write" /\ Len(batch.written) = Len(batch.order)
  /\ batch' = [batch EXCEPT !.phase = "done"]
  /\ Drop
  /\ UNCHANGED <<disk, runs>>

(* The scorer raised, the disk is full, or the process is killed.          *)
StopBatch ==
  /\ ~Ended
  /\ batch' = [phase |-> "stopped"]
  /\ Drop
  /\ UNCHANGED <<disk, runs>>

(* A caller of the library.                                                *)
OpenSession ==
  /\ Free
  /\ \E a \in Artifacts :
       \/ Prepare(a)
       \/ \E name \in Systems, missing \in SUBSET (Systems \cup {TM}), has_refs \in BOOLEAN :
            missing \subseteq {name, TM} /\ ScoreFresh(a, name, missing, has_refs)
  /\ runs' = runs + 1
  /\ UNCHANGED <<batch, disk>>

CallAgain ==
  /\ Ended
  /\ \E order \in Orders : Distinct(order) /\ ScoreMany(order)
  /\ UNCHANGED <<batch, disk, runs>>

CloseSession ==
  /\ Ended /\ scorer # None /\ call = Idle
  /\ Drop
  /\ UNCHANGED <<batch, disk, runs>>

Scorers == ScoringStep /\ UNCHANGED <<batch, disk, runs>>

BatchNext ==
  \/ StartBatch \/ ScoreBatch
  \/ StartWriting \/ OpenReport \/ RefuseName \/ WriteReport \/ FinishBatch
  \/ StopBatch
  \/ OpenSession \/ CallAgain \/ CloseSession
  \/ Scorers

BatchSpec == BatchInit /\ [][BatchNext]_batchVars
----------------------------------------------------------------------------
(* A report that a batch has written is the one on disk under the path it  *)
(* prints, to the end of the command: no later system of the batch takes   *)
(* its place, although two names may give one file name, and a batch that  *)
(* succeeds has a file of its own for every system asked for               *)
(* (_write_batch_reports).                                                 *)
BatchReportsAreOwn ==
  /\ batch.phase \in {"write", "done"} =>
       \A name \in Names(batch.written) :
         disk[Stem(name)] = [run |-> batch.run, system |-> name]
  /\ batch.phase = "done" => Names(batch.written) = Names(batch.order)
=============================================================================
