---------------------------- MODULE AtomicBundle ----------------------------
(***************************************************************************)
(* What a bundle path promises its users ("Index bundle writes are         *)
(* atomic", docs/cli.md): it holds nothing, one whole build, or a damaged  *)
(* file; a save replaces what it holds in one step or not at all; a load   *)
(* answers with the whole build the path held when it was opened, or       *)
(* refuses, and it always refuses a damaged file.                          *)
(***************************************************************************)
CONSTANTS
  Builds,   \* what can be saved
  Nothing,  \* the path does not exist
  Damaged,  \* the path holds a file that is no build
  Refused,  \* the outcome of a load that raises
  Loaders

VARIABLES
  held,     \* what the path holds
  seen,     \* what a loader at work found when it opened the path
  outcome   \* the outcome of its last load (Nothing before the first)

avars == <<held, seen, outcome>>

AInit ==
  /\ held = Nothing
  /\ seen = [l \in Loaders |-> Nothing]
  /\ outcome = [l \in Loaders |-> Nothing]

Put ==
  /\ \E b \in Builds : held' = b
  /\ UNCHANGED <<seen, outcome>>

Spoil ==
  /\ held \in Builds /\ held' = Damaged
  /\ UNCHANGED <<seen, outcome>>

Begin(l) ==
  /\ held # Nothing /\ seen[l] = Nothing
  /\ seen' = [seen EXCEPT ![l] = held]
  /\ UNCHANGED <<held, outcome>>

(* Opening a path that does not exist refuses, too.                        *)
Answer(l) ==
  /\ seen[l] # Nothing \/ held = Nothing
  /\ \/ seen[l] \in Builds /\ outcome' = [outcome EXCEPT ![l] = seen[l]]
     \/ outcome' = [outcome EXCEPT ![l] = Refused]
  /\ seen' = [seen EXCEPT ![l] = Nothing]
  /\ UNCHANGED held

ANext == Put \/ Spoil \/ \E l \in Loaders : Begin(l) \/ Answer(l)

ASpec == AInit /\ [][ANext]_avars
=============================================================================
