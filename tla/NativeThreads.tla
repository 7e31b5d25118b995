---------------------------- MODULE NativeThreads ----------------------------
(***************************************************************************)
(* The pool of worker threads of the native extension.  It is built once   *)
(* in the life of a process: with the size somebody configures first, or   *)
(* with the default size by whatever needs it first, be it only to count   *)
(* its threads.                                                            *)
(***************************************************************************)
EXTENDS Naturals

CONSTANTS
  DefaultThreads,  \* threads rayon takes by itself
  AutoThreads,     \* no number asked for
  NoPool

ASSUME PoolAssumption ==
  DefaultThreads \in Nat \ {0} /\ NoPool \notin Nat \cup {AutoThreads}

VARIABLE pool  \* threads of the pool, once it is built

Unbuilt == pool = NoPool

Active == IF pool = NoPool THEN DefaultThreads ELSE pool

(* A query, the construction of an index, native_thread_count, and         *)
(* configure_native_threads(None).                                         *)
UsePool == pool' = Active

(* (mutant) that there is a pool already goes unnoticed                     *)
AcceptsAny(threads) == threads # 0

Accepts(threads) == threads # 0 /\ (Unbuilt \/ pool = threads)

(* configure_native_threads: nothing without a number, an error for        *)
(* another size than the one the pool has.                                 *)
Configure(threads) ==
  \/ threads = AutoThreads /\ UNCHANGED pool
  \/ threads # AutoThreads /\ Accepts(threads)
     /\ pool' = IF Unbuilt THEN threads ELSE pool
=============================================================================
