---------------------------- MODULE BundleStore -----------------------------
(***************************************************************************)
(* One `.tameidx` path and the processes that save index bundles to it and *)
(* load or verify them from it (tame_mt/persistence.py).  A save writes a  *)
(* temporary file member by member and renames it over the path; a load    *)
(* opens the path once and checks, then reads, the members of the file it  *)
(* opened, whatever is renamed over the path meanwhile.                    *)
(*                                                                         *)
(* Abstractions.  A member's bytes are what they encode (Piece), and a     *)
(* SHA-256 or CRC that matches means equal bytes.  The archive's directory *)
(* is complete once the archive is closed.  Processes stop (interrupt,     *)
(* kill); the machine does not lose what was written.                      *)
(***************************************************************************)
EXTENDS Integers, FiniteSets

CONSTANTS
  Builds,      \* records [src, tgt, config]: the texts and settings a save indexes
  NoText,      \* tgt of a build without a target side
  Splitting,   \* texts with a line break inside a line
  Oversized,   \* builds whose members exceed max_load_bytes
  Requests,    \* settings a load asks for, and
  AnyConfig,   \* those of `index verify` without settings
  Savers, Loaders,
  MaxFiles,    \* bound on the saves of a behaviour
  MaxDamage,   \* bound on the files somebody damages
  Nothing, Garbage, Missing, Damaged, Refused  \* see below

Files == 1..MaxFiles

Members == {"manifest", "train.src", "train.tgt", "source.index", "target.index", "pair.keys"}

ASSUME BuildShape ==
  /\ \A b \in Builds : DOMAIN b = {"src", "tgt", "config"}
  /\ \A b, c \in Builds : b.src = c.src /\ b.tgt = c.tgt /\ b.config = c.config => b = c
  /\ \A b \in Builds : b.src # NoText

ASSUME Distinct ==
  /\ {Nothing, Damaged, Refused} \cap Builds = {}
  /\ Nothing # Damaged /\ Nothing # Refused /\ Damaged # Refused
  /\ MaxFiles \in Nat /\ MaxDamage \in Nat /\ Nothing \notin Files

----------------------------------------------------------------------------
(* The archive of a build: its members, and what each one's bytes encode.  *)
MembersOf(b) ==
  IF b.tgt = NoText THEN {"manifest", "train.src", "source.index"} ELSE Members

Piece(b, m) ==
  CASE m = "manifest"     -> [kind |-> "manifest", build |-> b]
    [] m = "train.src"    -> [kind |-> "text", text |-> b.src]
    [] m = "train.tgt"    -> [kind |-> "text", text |-> b.tgt]
    [] m = "source.index" -> [kind |-> "index", text |-> b.src, config |-> b.config]
    [] m = "target.index" -> [kind |-> "index", text |-> b.tgt, config |-> b.config]
    [] m = "pair.keys"    -> [kind |-> "pairs", src |-> b.src, tgt |-> b.tgt,
                              normalization |-> b.config.normalization]

Whole(b) == [m \in Members |-> IF m \in MembersOf(b) THEN Piece(b, m) ELSE Missing]

Pieces ==
  {Piece(b, m) : b \in Builds, m \in Members} \cup {Garbage, Missing}

ASSUME NoPiece ==
  \A b \in Builds, m \in Members : Piece(b, m) # Garbage /\ Piece(b, m) # Missing

ASSUME NoBundleIsAWord == \A b \in Builds : Whole(b) \notin {Nothing, Refused}

(* The order members are written and read in.                              *)
Place(m) ==
  CASE m = "manifest" -> 1 [] m = "train.src" -> 2 [] m = "train.tgt" -> 3
    [] m = "source.index" -> 4 [] m = "target.index" -> 5 [] m = "pair.keys" -> 6

(* The lines a text member yields: universal newlines split a line at any  *)
(* line break inside it, and the result is another text.                   *)
Decoded(piece) ==
  IF piece \in [kind : {"text"}, text : Splitting] THEN Garbage ELSE piece

(* What a load asks of the manifest's settings.                            *)
RequestedBackend(c, backend) == c.mode = "auto" \/ c.mode = backend

Compatible(config, c) ==
  c # AnyConfig =>
     /\ config.normalization = c.normalization
     /\ config.similarity = c.similarity
     /\ RequestedBackend(c, config.mode)
     /\ config.mode = "native_fast" => config.caps = c.caps

VARIABLES
  made,      \* temporary files created so far
  content,   \* the members written to each file
  closed,    \* files whose archive is complete
  tmps,      \* temporary files in the directory
  path,      \* the file the path names, or Nothing
  damaged,   \* files someone damaged
  saving,    \* what each saver is doing,
  building,  \* the build it saves, and
  file,      \* its temporary file
  loading,   \* what each loader is doing,
  request,   \* the settings it asks for,
  fd,        \* the file it has open,
  claimed,   \* the build the manifest describes,
  left,      \* the members still to check or read, and
  got,       \* what it has read
  outcome,   \* what the last load of each loader returned
  abandoned  \* files of saves that were interrupted

disk == <<made, content, closed, tmps, path, damaged>>
saves == <<saving, building, file, abandoned>>
loads == <<loading, request, fd, claimed, left, got, outcome>>
vars == <<disk, saves, loads>>

Init ==
  /\ made = 0
  /\ content = [f \in Files |-> [m \in Members |-> Missing]]
  /\ closed = {} /\ tmps = {} /\ path = Nothing /\ damaged = {}
  /\ saving = [s \in Savers |-> "idle"]
  /\ building = [s \in Savers |-> Nothing]
  /\ file = [s \in Savers |-> Nothing]
  /\ abandoned = {}
  /\ loading = [l \in Loaders |-> "idle"]
  /\ request = [l \in Loaders |-> AnyConfig]
  /\ fd = [l \in Loaders |-> Nothing]
  /\ claimed = [l \in Loaders |-> Nothing]
  /\ left = [l \in Loaders |-> {}]
  /\ got = [l \in Loaders |-> [m \in Members |-> Missing]]
  /\ outcome = [l \in Loaders |-> Nothing]
----------------------------------------------------------------------------
(* (mutant) the archive is written at the path itself                      *)
CreateInPlace(s, b) ==
  /\ saving[s] = "idle" /\ made < MaxFiles
  /\ made' = made + 1
  /\ path' = made + 1
  /\ saving' = [saving EXCEPT ![s] = "writing"]
  /\ building' = [building EXCEPT ![s] = b]
  /\ file' = [file EXCEPT ![s] = made + 1]
  /\ UNCHANGED <<content, closed, tmps, damaged, abandoned, loads>>

(* save_index_bundle, once the indexes are built and the manifest made     *)
(* (what it refuses before that changes nothing).                          *)
CreateTemporary(s, b) ==
  /\ saving[s] = "idle" /\ made < MaxFiles
  /\ made' = made + 1
  /\ tmps' = tmps \cup {made + 1}
  /\ saving' = [saving EXCEPT ![s] = "writing"]
  /\ building' = [building EXCEPT ![s] = b]
  /\ file' = [file EXCEPT ![s] = made + 1]
  /\ UNCHANGED <<content, closed, path, damaged, abandoned, loads>>

IsNext(m, S) == m \in S /\ \A n \in S : Place(m) <= Place(n)

Unwritten(s) == {m \in MembersOf(building[s]) : content[file[s]][m] = Missing}

WriteMember(s) ==
  /\ saving[s] = "writing"
  /\ \E m \in Unwritten(s) :
       /\ IsNext(m, Unwritten(s))
       /\ content' = [content EXCEPT ![file[s]][m] = Piece(building[s], m)]
  /\ UNCHANGED <<made, closed, tmps, path, damaged, saves, loads>>

(* (mutant) the archive is closed with members still to write              *)
CloseArchiveEarly(s) ==
  /\ saving[s] = "writing"
  /\ closed' = closed \cup {file[s]}
  /\ saving' = [saving EXCEPT ![s] = "written"]
  /\ UNCHANGED <<made, content, tmps, path, damaged, building, file, abandoned, loads>>

(* Leaving the `with` block writes the archive's directory.                *)
CloseArchive(s) ==
  /\ saving[s] = "writing" /\ Unwritten(s) = {}
  /\ closed' = closed \cup {file[s]}
  /\ saving' = [saving EXCEPT ![s] = "written"]
  /\ UNCHANGED <<made, content, tmps, path, damaged, building, file, abandoned, loads>>

(* The call is over, and its local variables are gone.                     *)
Leave(s) ==
  /\ saving' = [saving EXCEPT ![s] = "idle"]
  /\ building' = [building EXCEPT ![s] = Nothing]
  /\ file' = [file EXCEPT ![s] = Nothing]

Publish(s) ==
  /\ saving[s] = "written"
  /\ path' = file[s]
  /\ tmps' = tmps \ {file[s]}
  /\ Leave(s)
  /\ UNCHANGED <<made, content, closed, damaged, abandoned, loads>>

InSave(s) == saving[s] \in {"writing", "written"}

(* (mutants) the handler forgets the file, or unlinks the path as well     *)
FailSaveLeavingFile(s) ==
  InSave(s) /\ Leave(s) /\ UNCHANGED <<disk, abandoned, loads>>
FailSaveAndRemove(s) ==
  /\ InSave(s)
  /\ tmps' = tmps \ {file[s]}
  /\ path' = Nothing
  /\ Leave(s)
  /\ UNCHANGED <<made, content, closed, damaged, abandoned, loads>>

(* Writing a member, closing the archive or renaming it raises: the        *)
(* temporary file is unlinked and the exception goes on.                   *)
FailSave(s) ==
  /\ InSave(s)
  /\ tmps' = tmps \ {file[s]}
  /\ Leave(s)
  /\ UNCHANGED <<made, content, closed, path, damaged, abandoned, loads>>

(* A keyboard interrupt is no Exception, and a killed process runs no      *)
(* handler: the temporary file stays.                                      *)
InterruptSave(s) ==
  /\ InSave(s)
  /\ abandoned' = abandoned \cup {file[s]}
  /\ Leave(s)
  /\ UNCHANGED <<disk, loads>>
----------------------------------------------------------------------------
(* load_index_bundle and verify_index_bundle: they differ in the settings  *)
(* asked for, and both read every member twice, the second time to use it. *)
OpenBundle(l, c) ==
  /\ loading[l] = "idle" /\ path # Nothing
  /\ loading' = [loading EXCEPT ![l] = "opened"]
  /\ request' = [request EXCEPT ![l] = c]
  /\ fd' = [fd EXCEPT ![l] = path]
  /\ UNCHANGED <<disk, saves, claimed, left, got, outcome>>

(* (mutant) every step opens the path anew                                 *)
HandleByName(l) == path

(* The file a loader reads is the one it opened.                           *)
Handle(l) == fd[l]

Member(l, m) == content[Handle(l)][m]

(* The call is over with result r.                                         *)
Return(l, r) ==
  /\ outcome' = [outcome EXCEPT ![l] = r]
  /\ loading' = [loading EXCEPT ![l] = "idle"]
  /\ claimed' = [claimed EXCEPT ![l] = Nothing]
  /\ left' = [left EXCEPT ![l] = {}]
  /\ got' = [got EXCEPT ![l] = [m \in Members |-> Missing]]
  /\ UNCHANGED <<disk, saves, request, fd>>

Refuse(l) == Return(l, Refused)

NoBundle(l) == loading[l] = "idle" /\ path = Nothing /\ Refuse(l)

(* The archive's shape: the manifest's members, all of them and no other.  *)
Present(l) == {m \in Members : Member(l, m) # Missing}

Admitted(l, b) ==
  /\ Handle(l) \in closed
  /\ Member(l, "manifest") = Piece(b, "manifest")
  /\ Compatible(b.config, request[l])
  /\ Present(l) = MembersOf(b)
  /\ b \notin Oversized

(* Start a pass over the members the manifest names.                       *)
Pass(l, b) ==
  /\ left' = [left EXCEPT ![l] = MembersOf(b) \ {"manifest"}]
  /\ UNCHANGED <<disk, saves, request, fd, outcome>>

ReadManifest(l) ==
  /\ loading[l] = "opened"
  /\ \/ \E b \in Builds :
          /\ Admitted(l, b)
          /\ loading' = [loading EXCEPT ![l] = "checking"]
          /\ claimed' = [claimed EXCEPT ![l] = b]
          /\ Pass(l, b) /\ UNCHANGED got
     \/ (\A b \in Builds : ~Admitted(l, b)) /\ Refuse(l)

(* (mutant) the hash of the target index is not compared                   *)
HashMatchesButTarget(l, m) ==
  m = "target.index" \/ Decoded(Member(l, m)) = Piece(claimed[l], m)

(* A member's hash is recomputed from the lines or bytes it yields and     *)
(* compared with the manifest's (in an order of its own, which only        *)
(* decides what the error says).                                           *)
HashMatches(l, m) == Decoded(Member(l, m)) = Piece(claimed[l], m)

CheckHash(l) ==
  /\ loading[l] = "checking"
  /\ \E m \in left[l] :
       /\ IsNext(m, left[l])
       /\ \/ /\ HashMatches(l, m)
             /\ left' = [left EXCEPT ![l] = @ \ {m}]
             /\ UNCHANGED <<disk, saves, loading, request, fd, claimed, got, outcome>>
          \/ ~HashMatches(l, m) /\ Refuse(l)

(* The second reading, from the same open file.                            *)
StartReading(l) ==
  /\ loading[l] = "checking" /\ left[l] = {}
  /\ loading' = [loading EXCEPT ![l] = "reading"]
  /\ got' = [got EXCEPT ![l] = [m \in Members |-> IF m = "manifest"
                                THEN Piece(claimed[l], m) ELSE Missing]]
  /\ Pass(l, claimed[l]) /\ UNCHANGED claimed

ReadMember(l) ==
  /\ loading[l] = "reading"
  /\ \E m \in left[l] :
       /\ IsNext(m, left[l])
       /\ left' = [left EXCEPT ![l] = @ \ {m}]
       /\ got' = [got EXCEPT ![l][m] = Decoded(Member(l, m))]
  /\ UNCHANGED <<disk, saves, loading, request, fd, claimed, outcome>>

(* (mutant) only the manifest is returned                                  *)
FinishWithManifest(l) ==
  loading[l] = "reading" /\ left[l] = {} /\ Return(l, claimed[l])

(* The bundle returned: the manifest and the members read under it.        *)
FinishLoad(l) ==
  /\ loading[l] = "reading" /\ left[l] = {}
  /\ Return(l, got[l])
----------------------------------------------------------------------------
(* Something outside the program (a copy cut short, a bad sector, another  *)
(* tool) changes one member of the published file while nobody reads it.   *)
DamageMember ==
  /\ path # Nothing /\ path \notin damaged /\ Cardinality(damaged) < MaxDamage
  /\ \A l \in Loaders : loading[l] = "idle" \/ fd[l] # path
  /\ \E m \in Members : \E p \in Pieces \ {content[path][m]} :
       content' = [content EXCEPT ![path][m] = p]
  /\ damaged' = damaged \cup {path}
  /\ UNCHANGED <<made, closed, tmps, path, saves, loads>>

Save(s) ==
  \/ \E b \in Builds : CreateTemporary(s, b)
  \/ WriteMember(s) \/ CloseArchive(s) \/ Publish(s) \/ FailSave(s) \/ InterruptSave(s)

Load(l) ==
  \/ \E c \in Requests \cup {AnyConfig} : OpenBundle(l, c)
  \/ NoBundle(l) \/ ReadManifest(l) \/ CheckHash(l)
  \/ StartReading(l) \/ ReadMember(l) \/ FinishLoad(l)

Next ==
  \/ \E s \in Savers : Save(s)
  \/ \E l \in Loaders : Load(l)
  \/ DamageMember

Spec == Init /\ [][Next]_vars
----------------------------------------------------------------------------
TypeOK ==
  /\ made \in 0..MaxFiles
  /\ content \in [Files -> [Members -> Pieces]]
  /\ closed \subseteq Files /\ tmps \subseteq Files /\ damaged \subseteq Files
  /\ path \in Files \cup {Nothing}
  /\ saving \in [Savers -> {"idle", "writing", "written"}]
  /\ building \in [Savers -> Builds \cup {Nothing}]
  /\ file \in [Savers -> Files \cup {Nothing}]
  /\ abandoned \subseteq Files
  /\ loading \in [Loaders -> {"idle", "opened", "checking", "reading"}]
  /\ request \in [Loaders -> Requests \cup {AnyConfig}]
  /\ fd \in [Loaders -> Files \cup {Nothing}]
  /\ claimed \in [Loaders -> Builds \cup {Nothing}]
  /\ left \in [Loaders -> SUBSET Members]
  /\ got \in [Loaders -> [Members -> Pieces]]
  /\ outcome \in [Loaders -> [Members -> Pieces] \cup {Nothing, Refused}]

(* Whatever savers fail, are interrupted or race each other, the path      *)
(* names a finished archive of one whole build, until someone else damages *)
(* it (docs/cli.md: "the output path is replaced only after the new        *)
(* bundle" is complete).                                                   *)
PublishedIsWhole ==
  path # Nothing =>
    /\ path \in closed
    /\ path \notin damaged => \E b \in Builds : content[path] = Whole(b)

(* A bundle a load returns is one whole build with the settings asked for, *)
(* though saves were renamed over the path while it was read and someone   *)
(* may have damaged the file before: no member of another build is mixed   *)
(* in.                                                                     *)
LoadIsOneBuild ==
  \A l \in Loaders :
    outcome[l] \notin {Nothing, Refused} =>
      \E b \in Builds :
        /\ outcome[l] = Whole(b)
        /\ loading[l] = "idle" => Compatible(b.config, request[l])

(* A temporary file that no save owns was left by an interrupted one: a    *)
(* save that fails cleans up after itself.                                 *)
LeftoversAreInterrupted ==
  tmps \subseteq {file[s] : s \in {t \in Savers : InSave(t)}} \cup abandoned

(* A save that does not succeed leaves the path and the file it names as   *)
(* they were (docs/native_backend.md: "an existing bundle at that path is  *)
(* left untouched"); nor does a save write to a file once it is published. *)
PublishedIsUntouched ==
  [][ damaged' = damaged /\ path # Nothing =>
        /\ content'[path] = content[path]
        /\ path' # path => path' \in tmps \cap closed ]_vars

(* A bundle that was saved, is undamaged and was built with the settings   *)
(* asked for is never refused.                                             *)
SavedBundlesLoad ==
  \A l \in Loaders :
    loading[l] = "idle" /\ outcome[l] = Refused /\ fd[l] \in Files \ damaged =>
      \A b \in Builds \ Oversized :
        content[fd[l]] = Whole(b) => ~Compatible(b.config, request[l])

(***************************************************************************)
(* The inductive invariant: what a saver has written so far is a part of   *)
(* its build in a file of its own; an open file is finished and nobody's   *)
(* to write; and what a loader has checked or read is what the manifest    *)
(* describes.                                                              *)
(***************************************************************************)
SaverInv(s) ==
  /\ saving[s] = "idle" => file[s] = Nothing
  /\ InSave(s) =>
       /\ building[s] \in Builds
       /\ file[s] \in 1..made /\ file[s] \in tmps /\ file[s] \notin damaged
       /\ \A m \in Members : content[file[s]][m] \in {Missing, Whole(building[s])[m]}
       /\ saving[s] = "written" =>
            file[s] \in closed /\ content[file[s]] = Whole(building[s])
       /\ \A t \in Savers \ {s} : file[t] # file[s]

Finished(f) ==
  /\ f \in 1..made /\ f \in closed /\ f \notin tmps
  /\ f \notin damaged => \E b \in Builds : content[f] = Whole(b)

FreshInv ==
  \A f \in Files : f > made =>
    /\ f \notin tmps \cup damaged
    /\ \A m \in Members : content[f][m] = Missing

Checked(l) == MembersOf(claimed[l]) \ (left[l] \cup {"manifest"})

LoaderInv(l) ==
  /\ fd[l] # Nothing => Finished(fd[l])
  /\ loading[l] # "idle" => fd[l] # Nothing
  /\ loading[l] \in {"checking", "reading"} =>
       /\ claimed[l] \in Builds
       /\ Admitted(l, claimed[l])
       /\ left[l] \subseteq MembersOf(claimed[l]) \ {"manifest"}
  /\ loading[l] = "checking" => \A m \in Checked(l) : HashMatches(l, m)
  /\ loading[l] = "reading" =>
       /\ \A m \in MembersOf(claimed[l]) \ {"manifest"} : HashMatches(l, m)
       /\ \A m \in Members :
            got[l][m] = IF m = "manifest" \/ m \in Checked(l)
                        THEN Piece(claimed[l], m) ELSE Missing

StoreInv ==
  /\ TypeOK
  /\ path # Nothing => Finished(path)
  /\ FreshInv
  /\ \A s \in Savers : SaverInv(s)
  /\ \A l \in Loaders : LoaderInv(l)
  /\ LoadIsOneBuild

(* The store implements one atomic register per path.                      *)
BuildOf(c) ==
  IF \E b \in Builds : c = Whole(b) THEN CHOOSE b \in Builds : c = Whole(b) ELSE Damaged

Holding(f) == IF f = Nothing THEN Nothing ELSE BuildOf(content[f])

Register ==
  INSTANCE AtomicBundle WITH
    held <- Holding(path),
    seen <- [l \in Loaders |-> IF loading[l] = "idle" THEN Nothing ELSE Holding(fd[l])],
    outcome <- [l \in Loaders |->
                  IF outcome[l] \in {Nothing, Refused} THEN outcome[l]
                  ELSE BuildOf(outcome[l])]

RegisterSpec == Register!ASpec
=============================================================================
