------------------------- MODULE BundleStoreProofs -------------------------
(***************************************************************************)
(* Proofs about BundleStore: its invariants, and that it implements        *)
(* AtomicBundle, for any number of savers, loaders, builds and files.      *)
(***************************************************************************)
EXTENDS BundleStore, TLAPS

(* The archive determines the build: its manifest alone does.              *)
LEMMA WholeInjective ==
  ASSUME NEW b \in Builds, NEW c \in Builds, Whole(b) = Whole(c)
  PROVE  b = c
<1>1. Whole(b)["manifest"] = Piece(b, "manifest") /\ Whole(c)["manifest"] = Piece(c, "manifest")
  BY DEF Whole, MembersOf, Members
<1>2. Piece(b, "manifest").build = b /\ Piece(c, "manifest").build = c
  BY DEF Piece
<1> QED BY <1>1, <1>2

LEMMA ManifestInjective ==
  ASSUME NEW b \in Builds, NEW c \in Builds, Piece(b, "manifest") = Piece(c, "manifest")
  PROVE  b = c
<1>1. Piece(b, "manifest").build = b /\ Piece(c, "manifest").build = c
  BY DEF Piece
<1> QED BY <1>1

LEMMA WholeType ==
  ASSUME NEW b \in Builds
  PROVE  /\ Whole(b) \in [Members -> Pieces]
         /\ MembersOf(b) \subseteq Members
         /\ "manifest" \in MembersOf(b)
BY DEF Whole, Pieces, MembersOf, Members

(* Without the manifest the other members still tell two builds apart.     *)
LEMMA OthersDetermine ==
  ASSUME NEW b \in Builds, NEW c \in Builds,
         \A m \in Members \ {"manifest"} : Whole(b)[m] = Whole(c)[m]
  PROVE  b = c
<1>1. b.src = c.src
  <2>1. Piece(b, "train.src") = Piece(c, "train.src")
    BY DEF Whole, MembersOf, Members
  <2>2. Piece(b, "train.src").text = b.src /\ Piece(c, "train.src").text = c.src
    BY DEF Piece
  <2> QED BY <2>1, <2>2
<1>2. b.config = c.config
  <2>1. Piece(b, "source.index") = Piece(c, "source.index")
    BY DEF Whole, MembersOf, Members
  <2>2. Piece(b, "source.index").config = b.config /\ Piece(c, "source.index").config = c.config
    BY DEF Piece
  <2> QED BY <2>1, <2>2
<1>3. b.tgt = c.tgt
  <2>1. Whole(b)["train.tgt"] = IF b.tgt = NoText THEN Missing ELSE Piece(b, "train.tgt")
    BY DEF Whole, MembersOf, Members
  <2>2. Whole(c)["train.tgt"] = IF c.tgt = NoText THEN Missing ELSE Piece(c, "train.tgt")
    BY DEF Whole, MembersOf, Members
  <2>3. Whole(b)["train.tgt"] = Whole(c)["train.tgt"]
    BY DEF Members
  <2>4. Piece(b, "train.tgt").text = b.tgt /\ Piece(c, "train.tgt").text = c.tgt
    BY DEF Piece
  <2>5. Piece(b, "train.tgt") # Missing /\ Piece(c, "train.tgt") # Missing
    BY NoPiece DEF Members
  <2> QED BY <2>1, <2>2, <2>3, <2>4, <2>5
<1> QED BY <1>1, <1>2, <1>3, BuildShape

(* No change of one member turns one whole build into another.             *)
LEMMA OneChangeSpoils ==
  ASSUME NEW b \in Builds, NEW m \in Members, NEW p, p # Whole(b)[m],
         NEW c \in Builds
  PROVE  [Whole(b) EXCEPT ![m] = p] # Whole(c)
<1> SUFFICES ASSUME [Whole(b) EXCEPT ![m] = p] = Whole(c)
             PROVE  FALSE
  OBVIOUS
<1>1. Whole(b) \in [Members -> Pieces]
  BY WholeType
<1>2. \A n \in Members \ {m} : Whole(b)[n] = Whole(c)[n]
  BY <1>1
<1>3. Whole(c)[m] = p
  BY <1>1
<1>4. CASE m = "manifest"
  <2>1. b = c
    BY <1>2, <1>4, OthersDetermine
  <2> QED BY <1>3, <2>1
<1>5. CASE m # "manifest"
  <2>1. Whole(b)["manifest"] = Whole(c)["manifest"]
    BY <1>2, <1>5 DEF Members
  <2>2. Piece(b, "manifest") = Piece(c, "manifest")
    BY <2>1 DEF Whole, MembersOf, Members
  <2>3. b = c
    BY <2>2, ManifestInjective
  <2> QED BY <1>3, <2>3
<1> QED BY <1>4, <1>5
----------------------------------------------------------------------------
LEMMA FileNumbers ==
  ASSUME made \in 0..MaxFiles
  PROVE  /\ 1..made \subseteq Files
         /\ Nothing \notin 1..made
BY Distinct DEF Files

(* What a step must leave alone for the finished files to stay so.         *)
Stable ==
  \A f \in 1..made :
    f \in closed /\ f \notin tmps =>
      /\ f \in 1..made' /\ content'[f] = content[f]
      /\ f \in closed' /\ f \notin tmps'
      /\ f \in damaged' <=> f \in damaged

LEMMA FinishedStable ==
  ASSUME Stable, NEW f, Finished(f)
  PROVE  Finished(f)'
BY DEF Stable, Finished

(* A loader that takes no step keeps its invariant when files are stable.  *)
LEMMA LoaderStable ==
  ASSUME NEW l \in Loaders, LoaderInv(l), Stable, UNCHANGED loads
  PROVE  LoaderInv(l)'
<1>1. fd'[l] # Nothing => Finished(fd[l])'
  BY FinishedStable DEF loads, LoaderInv
<1>2. \A m \in Members : loading[l] # "idle" => Member(l, m)' = Member(l, m)
  BY DEF loads, LoaderInv, Member, Handle, Stable, Finished
<1>3. \A b : loading[l] # "idle" /\ Admitted(l, b) => Admitted(l, b)'
  BY <1>1, <1>2 DEF loads, LoaderInv, Admitted, Present, Handle, Finished, Members
<1>4. \A m \in Members : loading[l] # "idle" /\ HashMatches(l, m) => HashMatches(l, m)'
  BY <1>2 DEF loads, HashMatches
<1>5. claimed[l] \in Builds => MembersOf(claimed[l]) \subseteq Members
  BY WholeType
<1>6. Checked(l)' = Checked(l)
  BY DEF loads, Checked
<1> QED BY <1>1, <1>3, <1>4, <1>5, <1>6 DEF loads, LoaderInv, Checked

LEMMA OutcomeStable ==
  ASSUME LoadIsOneBuild, UNCHANGED loads
  PROVE  LoadIsOneBuild'
BY DEF LoadIsOneBuild, loads

LEMMA InitStore == Init => StoreInv
<1> SUFFICES ASSUME Init PROVE StoreInv
  OBVIOUS
<1> USE Distinct DEF Init
<1>1. TypeOK
  BY DEF TypeOK, Files, Pieces
<1>2. FreshInv
  BY DEF FreshInv
<1>3. \A s \in Savers : SaverInv(s)
  BY DEF SaverInv, InSave
<1>4. \A l \in Loaders : LoaderInv(l)
  BY DEF LoaderInv
<1>5. LoadIsOneBuild
  BY DEF LoadIsOneBuild
<1> QED BY <1>1, <1>2, <1>3, <1>4, <1>5 DEF StoreInv

(***************************************************************************)
(* The savers' steps.  Each proof has one step per part of the invariant.  *)
(***************************************************************************)
LEMMA CreateKeepsInv ==
  ASSUME StoreInv, NEW s \in Savers, NEW b \in Builds, CreateTemporary(s, b)
  PROVE  StoreInv'
<1> USE DEF StoreInv
<1>0. TypeOK /\ made' = made + 1 /\ made + 1 \in Files /\ Nothing \notin 1..made'
  BY Distinct DEF CreateTemporary, TypeOK, Files
<1>1. TypeOK'
  BY <1>0 DEF TypeOK, CreateTemporary, loads, Files
<1>2. Stable
  BY <1>0 DEF Stable, CreateTemporary, TypeOK
<1>3. path' # Nothing => Finished(path)'
  BY <1>2, FinishedStable DEF CreateTemporary
<1>4. FreshInv'
  BY <1>0 DEF FreshInv, CreateTemporary, TypeOK, Files
<1>5. ASSUME NEW t \in Savers PROVE SaverInv(t)'
  <2>1. CASE t = s
    <3>1. \A m \in Members : content[made + 1][m] = Missing
      BY <1>0 DEF FreshInv, TypeOK
    <3>2. made + 1 \notin damaged
      BY <1>0 DEF FreshInv, TypeOK
    <3>3. ASSUME NEW u \in Savers \ {s} PROVE file[u] # made + 1
      BY <1>0 DEF SaverInv, TypeOK, FreshInv, InSave, Files
    <3> QED BY <1>0, <2>1, <3>1, <3>2, <3>3 DEF SaverInv, InSave, CreateTemporary, TypeOK
  <2>2. CASE t # s
    <3>1. InSave(t) => file[t] # made + 1
      BY <1>0 DEF SaverInv, TypeOK
    <3> QED BY <1>0, <2>2, <3>1 DEF SaverInv, InSave, CreateTemporary, TypeOK
  <2> QED BY <2>1, <2>2
<1>6. \A l \in Loaders : LoaderInv(l)'
  BY <1>2, LoaderStable DEF CreateTemporary
<1>7. LoadIsOneBuild'
  BY OutcomeStable DEF CreateTemporary
<1> QED BY <1>1, <1>3, <1>4, <1>5, <1>6, <1>7

LEMMA WriteKeepsInv ==
  ASSUME StoreInv, NEW s \in Savers, WriteMember(s)
  PROVE  StoreInv'
<1> USE DEF StoreInv
<1>0. /\ TypeOK
      /\ saving[s] = "writing" /\ building[s] \in Builds /\ file[s] \in 1..made
      /\ file[s] \in tmps /\ file[s] \in Files
  BY FileNumbers DEF WriteMember, SaverInv, InSave, TypeOK
<1>a. PICK m \in Unwritten(s) :
        content' = [content EXCEPT ![file[s]][m] = Piece(building[s], m)]
  BY DEF WriteMember
<1>b. /\ m \in Members /\ m \in MembersOf(building[s])
      /\ Piece(building[s], m) = Whole(building[s])[m]
      /\ Piece(building[s], m) \in Pieces
  BY <1>0, <1>a, WholeType DEF Unwritten, Whole, Pieces
<1>1. TypeOK'
  BY <1>0, <1>a, <1>b DEF TypeOK, WriteMember, loads, saves
<1>2. Stable
  BY <1>0, <1>a DEF Stable, WriteMember, TypeOK
<1>3. path' # Nothing => Finished(path)'
  BY <1>2, FinishedStable DEF WriteMember
<1>4. FreshInv'
  BY <1>0, <1>a DEF FreshInv, WriteMember, TypeOK
<1>5. ASSUME NEW t \in Savers PROVE SaverInv(t)'
  <2>1. CASE t = s
    BY <1>0, <1>a, <1>b, <2>1 DEF SaverInv, InSave, WriteMember, saves, TypeOK
  <2>2. CASE t # s
    <3>1. InSave(t) => file[t] # file[s]
      BY <2>2 DEF SaverInv
    <3>2. InSave(t) => content'[file[t]] = content[file[t]]
      BY <1>0, <1>a, <3>1 DEF TypeOK
    <3> QED BY <1>0, <2>2, <3>1, <3>2 DEF SaverInv, InSave, WriteMember, saves, TypeOK
  <2> QED BY <2>1, <2>2
<1>6. \A l \in Loaders : LoaderInv(l)'
  BY <1>2, LoaderStable DEF WriteMember
<1>7. LoadIsOneBuild'
  BY OutcomeStable DEF WriteMember
<1> QED BY <1>1, <1>3, <1>4, <1>5, <1>6, <1>7

LEMMA CloseKeepsInv ==
  ASSUME StoreInv, NEW s \in Savers, CloseArchive(s)
  PROVE  StoreInv'
<1> USE DEF StoreInv
<1>0. /\ TypeOK
      /\ saving[s] = "writing" /\ building[s] \in Builds /\ file[s] \in 1..made
      /\ file[s] \in tmps /\ file[s] \in Files
  BY FileNumbers DEF CloseArchive, SaverInv, InSave, TypeOK
<1>a. content[file[s]] = Whole(building[s])
  <2>1. content[file[s]] \in [Members -> Pieces] /\ Whole(building[s]) \in [Members -> Pieces]
    BY <1>0, WholeType DEF TypeOK
  <2>2. ASSUME NEW m \in Members PROVE content[file[s]][m] = Whole(building[s])[m]
    BY <1>0, <2>2 DEF CloseArchive, Unwritten, SaverInv, InSave, Whole
  <2> QED BY <2>1, <2>2
<1>1. TypeOK'
  BY <1>0 DEF TypeOK, CloseArchive, loads
<1>2. Stable
  BY DEF Stable, CloseArchive
<1>3. path' # Nothing => Finished(path)'
  BY <1>2, FinishedStable DEF CloseArchive
<1>4. FreshInv'
  BY DEF FreshInv, CloseArchive
<1>5. \A t \in Savers : SaverInv(t)'
  BY <1>0, <1>a DEF SaverInv, InSave, CloseArchive, TypeOK
<1>6. \A l \in Loaders : LoaderInv(l)'
  BY <1>2, LoaderStable DEF CloseArchive
<1>7. LoadIsOneBuild'
  BY OutcomeStable DEF CloseArchive
<1> QED BY <1>1, <1>3, <1>4, <1>5, <1>6, <1>7

LEMMA PublishKeepsInv ==
  ASSUME StoreInv, NEW s \in Savers, Publish(s)
  PROVE  StoreInv'
<1> USE DEF StoreInv
<1>0. /\ TypeOK
      /\ saving[s] = "written" /\ building[s] \in Builds /\ file[s] \in 1..made
      /\ file[s] \in closed /\ content[file[s]] = Whole(building[s])
      /\ file[s] \in tmps /\ file[s] \in Files
  BY FileNumbers DEF Publish, SaverInv, InSave, TypeOK
<1>1. TypeOK'
  BY <1>0 DEF TypeOK, Publish, Leave, loads
<1>2. Stable
  BY DEF Stable, Publish
<1>3. Finished(path)'
  BY <1>0 DEF Publish, Finished
<1>4. FreshInv'
  BY DEF FreshInv, Publish
<1>5. \A t \in Savers : SaverInv(t)'
  BY <1>0, Distinct DEF SaverInv, InSave, Publish, Leave, TypeOK
<1>6. \A l \in Loaders : LoaderInv(l)'
  BY <1>2, LoaderStable DEF Publish
<1>7. LoadIsOneBuild'
  BY OutcomeStable DEF Publish
<1> QED BY <1>1, <1>3, <1>4, <1>5, <1>6, <1>7

LEMMA FailKeepsInv ==
  ASSUME StoreInv, NEW s \in Savers, FailSave(s) \/ InterruptSave(s)
  PROVE  StoreInv'
<1> USE DEF StoreInv
<1>0. TypeOK /\ InSave(s) /\ file[s] \in Files /\ Leave(s) /\ UNCHANGED loads
  BY FileNumbers DEF FailSave, InterruptSave, SaverInv, TypeOK
<1>a. UNCHANGED <<made, content, closed, path, damaged>> /\ tmps' \in {tmps, tmps \ {file[s]}}
  BY DEF FailSave, InterruptSave, disk
<1>b. abandoned' \subseteq Files
  BY <1>0 DEF FailSave, InterruptSave, TypeOK
<1>1. TypeOK'
  BY <1>0, <1>a, <1>b DEF TypeOK, Leave, loads
<1>2. Stable
  BY <1>a DEF Stable
<1>3. path' # Nothing => Finished(path)'
  BY <1>2, <1>a, FinishedStable
<1>4. FreshInv'
  BY <1>a DEF FreshInv
<1>5. \A t \in Savers : SaverInv(t)'
  BY <1>0, <1>a, Distinct DEF SaverInv, InSave, Leave, TypeOK
<1>6. \A l \in Loaders : LoaderInv(l)'
  BY <1>0, <1>2, LoaderStable
<1>7. LoadIsOneBuild'
  BY <1>0, OutcomeStable
<1> QED BY <1>1, <1>3, <1>4, <1>5, <1>6, <1>7

(***************************************************************************)
(* The loaders' steps.  Each disturbs the local state of one loader only.  *)
(***************************************************************************)
Others(l) ==
  \A k \in Loaders \ {l} :
    /\ loading'[k] = loading[k] /\ request'[k] = request[k] /\ fd'[k] = fd[k]
    /\ claimed'[k] = claimed[k] /\ left'[k] = left[k] /\ got'[k] = got[k]
    /\ outcome'[k] = outcome[k]

OutcomeOK(l) ==
  outcome[l] \notin {Nothing, Refused} =>
    \E b \in Builds :
      /\ outcome[l] = Whole(b)
      /\ loading[l] = "idle" => Compatible(b.config, request[l])

LEMMA LoaderFrame ==
  ASSUME StoreInv, NEW l \in Loaders, UNCHANGED <<disk, saves>>, TypeOK', Others(l),
         LoaderInv(l)', OutcomeOK(l)'
  PROVE  StoreInv'
<1> USE DEF StoreInv, disk, saves
<1>1. path' # Nothing => Finished(path)'
  BY DEF Finished
<1>2. FreshInv'
  BY DEF FreshInv
<1>3. \A s \in Savers : SaverInv(s)'
  BY DEF SaverInv, InSave
<1>4. ASSUME NEW k \in Loaders, k # l PROVE LoaderInv(k)'
  BY <1>4 DEF LoaderInv, Others, Admitted, Present, Member, Handle, Finished, HashMatches, Checked
<1>5. LoadIsOneBuild'
  BY DEF LoadIsOneBuild, Others, OutcomeOK
<1> QED BY <1>1, <1>2, <1>3, <1>4, <1>5

LEMMA OpenKeepsInv ==
  ASSUME StoreInv, NEW l \in Loaders, NEW c \in Requests \cup {AnyConfig}, OpenBundle(l, c)
  PROVE  StoreInv'
<1> USE DEF StoreInv
<1>0. TypeOK /\ UNCHANGED <<disk, saves>> /\ path \in Files /\ Finished(path)
  BY DEF OpenBundle, TypeOK
<1>1. TypeOK'
  BY <1>0 DEF TypeOK, OpenBundle, disk, saves
<1>2. Others(l)
  BY <1>0 DEF Others, OpenBundle, TypeOK
<1>3. LoaderInv(l)'
  BY <1>0 DEF LoaderInv, OpenBundle, TypeOK, disk, Finished
<1>4. OutcomeOK(l)'
  BY <1>0 DEF OutcomeOK, OpenBundle, LoadIsOneBuild, TypeOK
<1> QED BY <1>0, <1>1, <1>2, <1>3, <1>4, LoaderFrame

(* Returning r keeps the invariant if r is a whole build that fits.        *)
LEMMA ReturnKeepsInv ==
  ASSUME StoreInv, NEW l \in Loaders, NEW r, Return(l, r),
         \/ r = Refused
         \/ \E b \in Builds : r = Whole(b) /\ Compatible(b.config, request[l])
  PROVE  StoreInv'
<1> USE DEF StoreInv
<1>0. TypeOK /\ UNCHANGED <<disk, saves>>
  BY DEF Return
<1>a. r \in [Members -> Pieces] \cup {Nothing, Refused}
  BY WholeType
<1>1. TypeOK'
  BY <1>0, <1>a DEF TypeOK, Return, disk, saves, Pieces
<1>2. Others(l)
  BY <1>0 DEF Others, Return, TypeOK
<1>3. LoaderInv(l)'
  BY <1>0 DEF LoaderInv, Return, TypeOK, disk, Finished
<1>4. OutcomeOK(l)'
  BY <1>0 DEF OutcomeOK, Return, TypeOK
<1> QED BY <1>0, <1>1, <1>2, <1>3, <1>4, LoaderFrame

LEMMA ManifestKeepsInv ==
  ASSUME StoreInv, NEW l \in Loaders, ReadManifest(l)
  PROVE  StoreInv'
<1> USE DEF StoreInv
<1>1. CASE Refuse(l)
  BY <1>1, ReturnKeepsInv DEF Refuse
<1>2. CASE ~Refuse(l)
  <2>0. PICK b \in Builds :
          /\ Admitted(l, b)
          /\ loading' = [loading EXCEPT ![l] = "checking"]
          /\ claimed' = [claimed EXCEPT ![l] = b]
          /\ Pass(l, b) /\ UNCHANGED got
    BY <1>2 DEF ReadManifest
  <2>a. TypeOK /\ UNCHANGED <<disk, saves, request, fd, outcome>> /\ loading[l] = "opened"
    BY <2>0 DEF Pass, ReadManifest
  <2>b. MembersOf(b) \subseteq Members /\ left' = [left EXCEPT ![l] = MembersOf(b) \ {"manifest"}]
    BY <2>0, WholeType DEF Pass
  <2>1. TypeOK'
    BY <2>0, <2>a, <2>b DEF TypeOK, disk, saves
  <2>2. Others(l)
    BY <2>0, <2>a, <2>b DEF Others, TypeOK
  <2>3. LoaderInv(l)'
    <3>1. /\ loading'[l] = "checking" /\ claimed'[l] = b
          /\ left'[l] = MembersOf(b) \ {"manifest"} /\ fd'[l] = fd[l] /\ request'[l] = request[l]
      BY <2>0, <2>a, <2>b DEF TypeOK
    <3>2. Admitted(l, b)'
      BY <2>0, <2>a, <3>1 DEF Admitted, Present, Member, Handle, disk
    <3>3. fd[l] # Nothing /\ Finished(fd[l])'
      BY <2>a DEF LoaderInv, Finished, disk
    <3>4. Checked(l)' = {}
      BY <3>1 DEF Checked
    <3> QED BY <3>1, <3>2, <3>3, <3>4 DEF LoaderInv
  <2>4. OutcomeOK(l)'
    BY <2>0, <2>a DEF OutcomeOK, LoadIsOneBuild, TypeOK
  <2> QED BY <2>a, <2>1, <2>2, <2>3, <2>4, LoaderFrame
<1> QED BY <1>1, <1>2

LEMMA CheckKeepsInv ==
  ASSUME StoreInv, NEW l \in Loaders, CheckHash(l)
  PROVE  StoreInv'
<1> USE DEF StoreInv
<1>1. CASE Refuse(l)
  BY <1>1, ReturnKeepsInv DEF Refuse
<1>2. CASE ~Refuse(l)
  <2>0. PICK m \in left[l] :
          /\ HashMatches(l, m)
          /\ left' = [left EXCEPT ![l] = @ \ {m}]
          /\ UNCHANGED <<disk, saves, loading, request, fd, claimed, got, outcome>>
    BY <1>2 DEF CheckHash
  <2>a. TypeOK /\ loading[l] = "checking" /\ left'[l] = left[l] \ {m}
    BY <2>0 DEF CheckHash, TypeOK
  <2>1. TypeOK'
    BY <2>0, <2>a DEF TypeOK, disk, saves
  <2>2. Others(l)
    BY <2>0, <2>a DEF Others, TypeOK
  <2>3. LoaderInv(l)'
    <3>1. /\ claimed[l] \in Builds /\ Admitted(l, claimed[l])
          /\ left[l] \subseteq MembersOf(claimed[l]) \ {"manifest"}
          /\ fd[l] # Nothing /\ Finished(fd[l])
          /\ \A n \in Checked(l) : HashMatches(l, n)
      BY <2>a DEF LoaderInv
    <3>2. Admitted(l, claimed[l])' /\ Finished(fd[l])'
      BY <2>0, <3>1 DEF Admitted, Present, Member, Handle, disk, Finished
    <3>3. \A n : HashMatches(l, n) => HashMatches(l, n)'
      BY <2>0 DEF HashMatches, Member, Handle, disk
    <3>4. Checked(l)' \subseteq Checked(l) \cup {m}
      BY <2>0, <2>a DEF Checked
    <3> QED BY <2>0, <2>a, <3>1, <3>2, <3>3, <3>4 DEF LoaderInv
  <2>4. OutcomeOK(l)'
    BY <2>0, <2>a DEF OutcomeOK, LoadIsOneBuild, TypeOK
  <2> QED BY <2>0, <2>1, <2>2, <2>3, <2>4, LoaderFrame
<1> QED BY <1>1, <1>2

LEMMA StartReadingKeepsInv ==
  ASSUME StoreInv, NEW l \in Loaders, StartReading(l)
  PROVE  StoreInv'
<1> USE DEF StoreInv
<1> DEFINE b == claimed[l]
<1>0. /\ TypeOK /\ loading[l] = "checking" /\ left[l] = {}
      /\ UNCHANGED <<disk, saves, request, fd, claimed, outcome>>
      /\ b \in Builds /\ MembersOf(b) \subseteq Members /\ "manifest" \in MembersOf(b)
      /\ Admitted(l, b) /\ fd[l] # Nothing /\ Finished(fd[l])
      /\ \A n \in Checked(l) : HashMatches(l, n)
  BY WholeType DEF StartReading, Pass, LoaderInv
<1>a. /\ loading' = [loading EXCEPT ![l] = "reading"]
      /\ left' = [left EXCEPT ![l] = MembersOf(b) \ {"manifest"}]
      /\ got' = [got EXCEPT ![l] = [m \in Members |-> IF m = "manifest"
                                    THEN Piece(b, m) ELSE Missing]]
  BY DEF StartReading, Pass
<1>b. [m \in Members |-> IF m = "manifest" THEN Piece(b, m) ELSE Missing]
        \in [Members -> Pieces]
  BY <1>0 DEF Pieces
<1>1. TypeOK'
  BY <1>0, <1>a, <1>b DEF TypeOK, disk, saves
<1>2. Others(l)
  BY <1>0, <1>a DEF Others, TypeOK
<1>3. LoaderInv(l)'
  <2>1. /\ loading'[l] = "reading" /\ claimed'[l] = b /\ fd'[l] = fd[l]
        /\ left'[l] = MembersOf(b) \ {"manifest"}
        /\ \A m \in Members : got'[l][m] = IF m = "manifest" THEN Piece(b, m) ELSE Missing
    BY <1>0, <1>a DEF TypeOK
  <2>2. Admitted(l, b)' /\ Finished(fd[l])'
    BY <1>0 DEF Admitted, Present, Member, Handle, disk, Finished
  <2>3. \A n : HashMatches(l, n) => HashMatches(l, n)'
    BY <1>0 DEF HashMatches, Member, Handle, disk
  <2>4. Checked(l) = MembersOf(b) \ {"manifest"} /\ Checked(l)' = {}
    BY <1>0, <2>1 DEF Checked
  <2> QED BY <1>0, <2>1, <2>2, <2>3, <2>4 DEF LoaderInv
<1>4. OutcomeOK(l)'
  BY <1>0, <1>a DEF OutcomeOK, LoadIsOneBuild, TypeOK
<1> QED BY <1>0, <1>1, <1>2, <1>3, <1>4, LoaderFrame

(* A hash that matches is the hash of the manifest's member.               *)
LEMMA MatchIsPiece ==
  ASSUME NEW l, claimed[l] \in Builds, NEW m \in Members, HashMatches(l, m)
  PROVE  Decoded(Member(l, m)) = Piece(claimed[l], m) /\ Member(l, m) = Piece(claimed[l], m)
BY NoPiece DEF HashMatches, Decoded

LEMMA ReadKeepsInv ==
  ASSUME StoreInv, NEW l \in Loaders, ReadMember(l)
  PROVE  StoreInv'
<1> USE DEF StoreInv
<1> DEFINE b == claimed[l]
<1>0. PICK m \in left[l] :
        /\ left' = [left EXCEPT ![l] = @ \ {m}]
        /\ got' = [got EXCEPT ![l][m] = Decoded(Member(l, m))]
        /\ UNCHANGED <<disk, saves, loading, request, fd, claimed, outcome>>
  BY DEF ReadMember
<1>a. /\ TypeOK /\ loading[l] = "reading" /\ b \in Builds
      /\ MembersOf(b) \subseteq Members /\ left[l] \subseteq MembersOf(b) \ {"manifest"}
      /\ Admitted(l, b) /\ fd[l] # Nothing /\ Finished(fd[l])
      /\ \A n \in MembersOf(b) \ {"manifest"} : HashMatches(l, n)
      /\ \A n \in Members : got[l][n] = IF n = "manifest" \/ n \in Checked(l)
                                        THEN Piece(b, n) ELSE Missing
  BY WholeType DEF ReadMember, LoaderInv
<1>b. m \in Members /\ Decoded(Member(l, m)) = Piece(b, m) /\ Piece(b, m) \in Pieces
  BY <1>0, <1>a, MatchIsPiece DEF Pieces
<1>1. TypeOK'
  BY <1>0, <1>a, <1>b DEF TypeOK, disk, saves
<1>2. Others(l)
  BY <1>0, <1>a DEF Others, TypeOK
<1>3. LoaderInv(l)'
  <2>1. /\ left'[l] = left[l] \ {m}
        /\ \A n \in Members : got'[l][n] = IF n = m THEN Piece(b, m) ELSE got[l][n]
    BY <1>0, <1>a, <1>b DEF TypeOK
  <2>2. Admitted(l, b)' /\ Finished(fd[l])'
    BY <1>0, <1>a DEF Admitted, Present, Member, Handle, disk, Finished
  <2>3. \A n : HashMatches(l, n) => HashMatches(l, n)'
    BY <1>0 DEF HashMatches, Member, Handle, disk
  <2>4. Checked(l)' = Checked(l) \cup {m}
    BY <1>0, <1>a, <2>1 DEF Checked
  <2> QED BY <1>0, <1>a, <2>1, <2>2, <2>3, <2>4 DEF LoaderInv
<1>4. OutcomeOK(l)'
  BY <1>0, <1>a DEF OutcomeOK, LoadIsOneBuild, TypeOK
<1> QED BY <1>0, <1>1, <1>2, <1>3, <1>4, LoaderFrame

(* What a loader that has read everything has got.                         *)
LEMMA ReadIsWhole ==
  ASSUME StoreInv, NEW l \in Loaders, loading[l] = "reading", left[l] = {}
  PROVE  /\ claimed[l] \in Builds
         /\ got[l] = Whole(claimed[l])
         /\ Compatible(claimed[l].config, request[l])
         /\ fd[l] # Nothing /\ content[fd[l]] = Whole(claimed[l])
<1> DEFINE b == claimed[l]
<1>1. /\ TypeOK /\ b \in Builds /\ Admitted(l, b) /\ fd[l] # Nothing /\ fd[l] \in Files
      /\ \A n \in MembersOf(b) \ {"manifest"} : HashMatches(l, n)
      /\ \A n \in Members : got[l][n] = IF n = "manifest" \/ n \in Checked(l)
                                        THEN Piece(b, n) ELSE Missing
  BY DEF StoreInv, LoaderInv, TypeOK
<1>2. Checked(l) = MembersOf(b) \ {"manifest"}
  BY DEF Checked
<1>3. /\ got[l] \in [Members -> Pieces] /\ content[fd[l]] \in [Members -> Pieces]
      /\ Whole(b) \in [Members -> Pieces] /\ MembersOf(b) \subseteq Members
      /\ "manifest" \in MembersOf(b)
  BY <1>1, WholeType DEF TypeOK
<1>4. \A n \in Members : got[l][n] = Whole(b)[n]
  BY <1>1, <1>2, <1>3 DEF Whole
<1>5. ASSUME NEW n \in Members PROVE content[fd[l]][n] = Whole(b)[n]
  <2>1. CASE n = "manifest"
    BY <1>1, <1>3, <2>1 DEF Admitted, Member, Handle, Whole
  <2>2. CASE n \in MembersOf(b) \ {"manifest"}
    BY <1>1, <2>2, MatchIsPiece DEF Member, Handle, Whole
  <2>3. CASE n \notin MembersOf(b)
    BY <1>1, <2>3 DEF Admitted, Present, Member, Handle, Whole
  <2> QED BY <2>1, <2>2, <2>3
<1> QED BY <1>1, <1>3, <1>4, <1>5 DEF Admitted

LEMMA FinishKeepsInv ==
  ASSUME StoreInv, NEW l \in Loaders, FinishLoad(l)
  PROVE  StoreInv'
BY ReadIsWhole, ReturnKeepsInv DEF FinishLoad

LEMMA DamageKeepsInv ==
  ASSUME StoreInv, DamageMember
  PROVE  StoreInv'
<1> USE DEF StoreInv
<1>0. TypeOK /\ path \in Files /\ Finished(path) /\ UNCHANGED loads
  BY DEF DamageMember, TypeOK
<1>a. PICK m \in Members, p \in Pieces : content' = [content EXCEPT ![path][m] = p]
  BY DEF DamageMember
<1>b. \A f \in Files \ {path} : content'[f] = content[f] /\ (f \in damaged' <=> f \in damaged)
  BY <1>0, <1>a DEF DamageMember, TypeOK
<1>1. TypeOK'
  BY <1>0, <1>a DEF TypeOK, DamageMember, loads, saves
<1>2. ASSUME NEW f, Finished(f) PROVE Finished(f)'
  BY <1>0, <1>2, <1>b, FileNumbers DEF Finished, DamageMember, TypeOK
<1>3. FreshInv'
  BY <1>0, <1>b DEF FreshInv, DamageMember, Finished, TypeOK
<1>4. ASSUME NEW s \in Savers PROVE SaverInv(s)'
  <2>1. InSave(s) => file[s] \in Files \ {path}
    BY <1>0, FileNumbers DEF SaverInv, Finished, TypeOK
  <2> QED BY <1>b, <2>1 DEF SaverInv, InSave, DamageMember, saves
<1>5. ASSUME NEW l \in Loaders PROVE LoaderInv(l)'
  <2>1. CASE loading[l] = "idle"
    BY <1>0, <1>2, <2>1 DEF LoaderInv, loads
  <2>2. CASE loading[l] # "idle"
    <3>1. fd[l] \in Files \ {path} /\ fd[l] # Nothing
      BY <1>0, <2>2, Distinct DEF DamageMember, LoaderInv, TypeOK
    <3>2. \A n : Member(l, n)' = Member(l, n)
      BY <1>0, <1>b, <3>1 DEF Member, Handle, loads
    <3>3. \A b : Admitted(l, b) => Admitted(l, b)'
      BY <1>0, <3>2 DEF Admitted, Present, Handle, DamageMember, loads
    <3>4. \A n : HashMatches(l, n) => HashMatches(l, n)'
      BY <1>0, <3>2 DEF HashMatches, loads
    <3> QED BY <1>0, <1>2, <3>1, <3>3, <3>4 DEF LoaderInv, Checked, loads
  <2> QED BY <2>1, <2>2
<1>6. LoadIsOneBuild'
  BY <1>0, OutcomeStable
<1> QED BY <1>0, <1>1, <1>2, <1>3, <1>4, <1>5, <1>6 DEF DamageMember

THEOREM StoreCorrect == Spec => []StoreInv
<1>1. StoreInv /\ [Next]_vars => StoreInv'
  <2> SUFFICES ASSUME StoreInv, [Next]_vars PROVE StoreInv'
    OBVIOUS
  <2>1. CASE UNCHANGED vars
    BY <2>1 DEF vars, disk, saves, loads, StoreInv, TypeOK, Finished, FreshInv, SaverInv,
      InSave, LoaderInv, Admitted, Present, Member, Handle, HashMatches, Checked, LoadIsOneBuild
  <2>2. ASSUME NEW s \in Savers, Save(s) PROVE StoreInv'
    BY <2>2, CreateKeepsInv, WriteKeepsInv, CloseKeepsInv, PublishKeepsInv, FailKeepsInv
      DEF Save
  <2>3. ASSUME NEW l \in Loaders, Load(l) PROVE StoreInv'
    BY <2>3, OpenKeepsInv, ReturnKeepsInv, ManifestKeepsInv, CheckKeepsInv,
      StartReadingKeepsInv, ReadKeepsInv, FinishKeepsInv DEF Load, NoBundle, Refuse
  <2> QED BY <2>1, <2>2, <2>3, DamageKeepsInv DEF Next
<1> QED BY <1>1, InitStore, PTL DEF Spec
----------------------------------------------------------------------------
(* TypeOK holds whatever the savers, the loaders and the damage do.        *)
THEOREM StoreTypeCorrect == Spec => []TypeOK
<1>1. StoreInv => TypeOK
  BY DEF StoreInv
<1> QED BY <1>1, StoreCorrect, PTL

(* The path always names a finished archive of one whole build, unless     *)
(* someone damaged it (save_index_bundle).                                 *)
THEOREM PublishedCorrect == Spec => []PublishedIsWhole
<1>1. StoreInv => PublishedIsWhole
  BY DEF StoreInv, PublishedIsWhole, Finished
<1> QED BY <1>1, StoreCorrect, PTL

(* Every bundle load_index_bundle returns is one whole build with the      *)
(* settings asked for.                                                     *)
THEOREM LoadCorrect == Spec => []LoadIsOneBuild
<1>1. StoreInv => LoadIsOneBuild
  BY DEF StoreInv
<1> QED BY <1>1, StoreCorrect, PTL

(* Temporary files without an owner come from interrupted saves alone      *)
(* (the except clause of save_index_bundle).                               *)
THEOREM LeftoversCorrect == Spec => []LeftoversAreInterrupted
<1>1. Init => LeftoversAreInterrupted
  BY DEF Init, LeftoversAreInterrupted
<1>2. StoreInv /\ LeftoversAreInterrupted /\ [Next]_vars => LeftoversAreInterrupted'
  <2> SUFFICES ASSUME StoreInv, LeftoversAreInterrupted, [Next]_vars,
                      NEW f \in tmps', f \notin abandoned'
               PROVE  \E s \in Savers : InSave(s)' /\ f = file'[s]
    BY DEF LeftoversAreInterrupted
  <2> USE DEF InSave, LeftoversAreInterrupted
  <2>0. /\ saving \in [Savers -> {"idle", "writing", "written"}]
        /\ file \in [Savers -> Files \cup {Nothing}]
    BY DEF StoreInv, TypeOK
  <2>1. CASE UNCHANGED vars
    BY <2>1 DEF vars, disk, saves
  <2>2. ASSUME NEW s \in Savers, Save(s)
        PROVE  \E t \in Savers : InSave(t)' /\ f = file'[t]
    <3>1. ASSUME NEW b \in Builds, CreateTemporary(s, b)
          PROVE  \E t \in Savers : InSave(t)' /\ f = file'[t]
      <4>1. CASE f = made + 1
        BY <2>0, <3>1, <4>1 DEF CreateTemporary
      <4>2. CASE f # made + 1
        BY <2>0, <3>1, <4>2 DEF CreateTemporary
      <4> QED BY <4>1, <4>2
    <3>2. CASE WriteMember(s)
      BY <3>2 DEF WriteMember, saves
    <3>3. CASE CloseArchive(s)
      BY <2>0, <3>3 DEF CloseArchive
    <3>4. CASE Publish(s) \/ FailSave(s)
      BY <2>0, <3>4 DEF Publish, FailSave, Leave
    <3>5. CASE InterruptSave(s)
      BY <2>0, <3>5 DEF InterruptSave, Leave, disk
    <3> QED BY <2>2, <3>1, <3>2, <3>3, <3>4, <3>5 DEF Save
  <2>3. ASSUME NEW l \in Loaders, Load(l) PROVE UNCHANGED <<disk, saves>>
    BY <2>3 DEF Load, OpenBundle, NoBundle, Refuse, Return, ReadManifest, Pass, CheckHash,
      StartReading, ReadMember, FinishLoad
  <2>4. CASE DamageMember
    BY <2>4 DEF DamageMember, saves
  <2> QED BY <2>1, <2>2, <2>3, <2>4 DEF Next, disk, saves
<1> QED BY <1>1, <1>2, StoreCorrect, PTL DEF Spec

(* A save that does not succeed leaves the path and its file untouched,    *)
(* and no save writes to a published file (docs/native_backend.md).        *)
THEOREM UntouchedCorrect == Spec => PublishedIsUntouched
<1>1. StoreInv /\ [Next]_vars =>
        [damaged' = damaged /\ path # Nothing =>
           /\ content'[path] = content[path]
           /\ path' # path => path' \in tmps \cap closed]_vars
  <2> SUFFICES ASSUME StoreInv, Next, damaged' = damaged, path # Nothing
               PROVE  /\ content'[path] = content[path]
                      /\ path' # path => path' \in tmps \cap closed
    OBVIOUS
  <2>0. TypeOK /\ Finished(path) /\ path \in Files
    BY DEF StoreInv, TypeOK
  <2>1. ASSUME NEW s \in Savers, Save(s)
        PROVE  /\ content'[path] = content[path]
               /\ path' # path => path' \in tmps \cap closed
    <3>1. CASE WriteMember(s)
      <4>1. file[s] # path
        BY <2>0, <3>1 DEF WriteMember, StoreInv, SaverInv, InSave, Finished
      <4> QED BY <2>0, <3>1, <4>1 DEF WriteMember, TypeOK
    <3>2. CASE Publish(s)
      BY <3>2 DEF Publish, StoreInv, SaverInv, InSave
    <3> QED BY <2>1, <3>1, <3>2 DEF Save, CreateTemporary, CloseArchive, FailSave,
          InterruptSave, disk
  <2>2. ASSUME NEW l \in Loaders, Load(l) PROVE UNCHANGED disk
    BY <2>2 DEF Load, OpenBundle, NoBundle, Refuse, Return, ReadManifest, Pass, CheckHash,
      StartReading, ReadMember, FinishLoad
  <2>3. CASE DamageMember
    BY <2>0, <2>3 DEF DamageMember
  <2> QED BY <2>1, <2>2, <2>3 DEF Next, disk
<1> QED BY <1>1, StoreCorrect, PTL DEF Spec, PublishedIsUntouched

(* A saved bundle whose lines hold no line break is never refused to a     *)
(* load that asks for its settings (save_index_bundle: "a reusable native  *)
(* training index bundle").                                                *)
THEOREM SavedBundlesLoadCorrect ==
  ASSUME \A b \in Builds : b.src \notin Splitting /\ b.tgt \notin Splitting
  PROVE  Spec => []SavedBundlesLoad
<1> DEFINE OpenedInv == \A l \in Loaders : fd[l] # Nothing => path # Nothing
<1>1. Init => SavedBundlesLoad /\ OpenedInv
  BY Distinct DEF Init, SavedBundlesLoad
<1>2. StoreInv /\ OpenedInv /\ SavedBundlesLoad /\ [Next]_vars => OpenedInv' /\ SavedBundlesLoad'
  <2> SUFFICES ASSUME StoreInv, OpenedInv, SavedBundlesLoad, [Next]_vars
               PROVE  OpenedInv' /\ SavedBundlesLoad'
    OBVIOUS
  <2>0. /\ TypeOK
        /\ \A l \in Loaders : fd[l] # Nothing => Finished(fd[l])
    BY DEF StoreInv, LoaderInv
  \* Steps of the others.
  <2>1. ASSUME UNCHANGED loads, Stable \/ DamageMember, path' # Nothing \/ path' = path
        PROVE  OpenedInv' /\ SavedBundlesLoad'
    <3>1. OpenedInv'
      BY <2>0, <2>1, FileNumbers DEF loads, StoreInv, TypeOK
    <3>2. ASSUME NEW l \in Loaders, fd[l] \in Files, fd[l] \notin damaged'
          PROVE  content'[fd[l]] = content[fd[l]] /\ fd[l] \notin damaged
      BY <2>0, <2>1, <3>2, Distinct DEF Stable, Finished, DamageMember, TypeOK
    <3>3. SavedBundlesLoad'
      BY <2>1, <3>2 DEF SavedBundlesLoad, loads
    <3> QED BY <3>1, <3>3
  <2>2. ASSUME NEW s \in Savers, Save(s)
        PROVE  UNCHANGED loads /\ Stable /\ (path' # Nothing \/ path' = path)
    <3>1. CASE \E b \in Builds : CreateTemporary(s, b)
      BY <2>0, <3>1 DEF CreateTemporary, Stable, TypeOK
    <3>2. CASE WriteMember(s)
      BY <2>0, <3>2 DEF WriteMember, Stable, TypeOK, StoreInv, SaverInv, InSave
    <3>3. CASE Publish(s)
      <4>1. file[s] \in 1..made
        BY <3>3 DEF Publish, StoreInv, SaverInv, InSave
      <4> QED BY <2>0, <3>3, <4>1, FileNumbers DEF Publish, Stable, TypeOK
    <3> QED BY <2>2, <3>1, <3>2, <3>3 DEF Save, CloseArchive, FailSave, InterruptSave, disk, Stable
  <2>3. CASE DamageMember
    BY <2>1, <2>3 DEF DamageMember
  <2>4. CASE UNCHANGED vars
    BY <2>1, <2>4 DEF vars, disk, Stable
  \* Steps of a loader.
  <2>5. ASSUME NEW l \in Loaders, Load(l) PROVE OpenedInv' /\ SavedBundlesLoad'
    <3>0. UNCHANGED disk /\ Others(l)
      BY <2>0, <2>5 DEF Load, OpenBundle, NoBundle, Refuse, Return, ReadManifest, Pass,
        CheckHash, StartReading, ReadMember, FinishLoad, Others, TypeOK
    <3>1. OpenedInv'
      BY <2>0, <2>5, <3>0 DEF Load, OpenBundle, NoBundle, Refuse, Return, ReadManifest, Pass,
        CheckHash, StartReading, ReadMember, FinishLoad, TypeOK, disk
    <3>2. ASSUME loading'[l] = "idle", outcome'[l] = Refused, fd'[l] \in Files \ damaged',
                 NEW b \in Builds \ Oversized, content'[fd'[l]] = Whole(b),
                 Compatible(b.config, request'[l])
          PROVE  FALSE
      <4>0. /\ UNCHANGED <<fd, request>> /\ Finished(fd[l]) /\ fd[l] \in Files
            /\ content[fd[l]] = Whole(b) /\ Compatible(b.config, request[l])
            /\ fd[l] # Nothing /\ path # Nothing
        BY <2>0, <2>5, <3>0, <3>2, Distinct DEF Load, OpenBundle, NoBundle, Refuse, Return,
          ReadManifest, Pass, CheckHash, StartReading, ReadMember, FinishLoad, TypeOK, disk
      <4>1. \A m \in Members : Member(l, m) = Whole(b)[m]
        BY <4>0 DEF Member, Handle
      <4>2. Admitted(l, b)
        BY <3>2, <4>0, <4>1, NoPiece, WholeType
          DEF Admitted, Handle, Finished, Present, Whole
      <4>3. CASE ReadManifest(l)
        BY <2>0, <3>2, <4>2, <4>3 DEF ReadManifest, TypeOK
      <4>4. CASE CheckHash(l)
        <5>1. PICK m \in left[l] : ~HashMatches(l, m)
          BY <2>0, <3>2, <4>4 DEF CheckHash, TypeOK
        <5>2. claimed[l] \in Builds /\ Admitted(l, claimed[l]) /\ m \in MembersOf(claimed[l])
          BY <4>4 DEF CheckHash, StoreInv, LoaderInv
        <5>3. claimed[l] = b
          BY <4>2, <5>2, ManifestInjective DEF Admitted
        <5>4. m \in Members /\ Member(l, m) = Piece(b, m)
          BY <4>1, <5>2, <5>3, WholeType DEF Whole
        <5>5. Decoded(Piece(b, m)) = Piece(b, m)
          BY <5>4 DEF Decoded, Piece, Members
        <5> QED BY <5>1, <5>3, <5>4, <5>5 DEF HashMatches
      <4>5. CASE FinishLoad(l)
        <5>1. outcome'[l] = Whole(claimed[l]) /\ claimed[l] \in Builds
          BY <2>0, <4>5, ReadIsWhole DEF FinishLoad, Return, TypeOK
        <5> QED BY <3>2, <5>1, NoBundleIsAWord
      <4>6. CASE StartReading(l) \/ ReadMember(l)
        BY <2>0, <3>2, <4>6 DEF StartReading, ReadMember, TypeOK
      <4>7. CASE \E c \in Requests \cup {AnyConfig} : OpenBundle(l, c)
        BY <2>0, <3>2, <4>7 DEF OpenBundle, TypeOK
      <4> QED BY <2>5, <4>0, <4>3, <4>4, <4>5, <4>6, <4>7 DEF Load, NoBundle
    <3>3. SavedBundlesLoad'
      BY <3>0, <3>2 DEF SavedBundlesLoad, Others, disk
    <3> QED BY <3>1, <3>3
  <2> QED BY <2>1, <2>2, <2>3, <2>4, <2>5 DEF Next
<1> QED BY <1>1, <1>2, StoreCorrect, PTL DEF Spec
----------------------------------------------------------------------------
(* The build a whole archive holds.                                        *)
LEMMA BuildOfWhole ==
  ASSUME NEW b \in Builds
  PROVE  BuildOf(Whole(b)) = b
BY WholeInjective DEF BuildOf

LEMMA HoldingType ==
  ASSUME NEW f, f # Nothing
  PROVE  Holding(f) \in Builds \cup {Damaged} /\ Holding(f) # Nothing
BY Distinct DEF Holding, BuildOf

(* The refinement mapping, and what leaves it unchanged.                   *)
HeldBar == Holding(path)
SeenBar == [l \in Loaders |-> IF loading[l] = "idle" THEN Nothing ELSE Holding(fd[l])]
OutcomeBar ==
  [l \in Loaders |-> IF outcome[l] \in {Nothing, Refused} THEN outcome[l] ELSE BuildOf(outcome[l])]

LEMMA SeenStable ==
  ASSUME StoreInv, Stable, UNCHANGED loads
  PROVE  SeenBar' = SeenBar /\ OutcomeBar' = OutcomeBar
<1>1. ASSUME NEW l \in Loaders, loading[l] # "idle" PROVE Holding(fd[l])' = Holding(fd[l])
  BY <1>1 DEF StoreInv, LoaderInv, Stable, Finished, Holding, loads
<1> QED BY <1>1 DEF SeenBar, OutcomeBar, loads

LEMMA HeldStable ==
  ASSUME StoreInv, Stable, path' = path
  PROVE  HeldBar' = HeldBar
BY DEF StoreInv, Stable, Finished, HeldBar, Holding

(* The store implements one atomic register: a save takes effect in one    *)
(* step or not at all, and a load returns what the path held when it was   *)
(* opened (docs/cli.md: "Index bundle writes are atomic").                 *)
THEOREM StoreIsAtomic == Spec => RegisterSpec
<1> USE DEF HeldBar, SeenBar, OutcomeBar
<1>1. Init => Register!AInit
  BY DEF Init, Register!AInit, Holding
<1>2. StoreInv /\ [Next]_vars => [Register!ANext]_(Register!avars)
  <2> SUFFICES ASSUME StoreInv, [Next]_vars
               PROVE  Register!ANext \/ UNCHANGED <<HeldBar, SeenBar, OutcomeBar>>
    BY DEF Register!avars
  <2>0. TypeOK
    BY DEF StoreInv
  <2>1. CASE UNCHANGED vars
    BY <2>1 DEF vars, disk, loads, Holding
  <2>2. ASSUME NEW s \in Savers, Save(s)
        PROVE  Register!ANext \/ UNCHANGED <<HeldBar, SeenBar, OutcomeBar>>
    <3>0. UNCHANGED loads /\ Stable
      BY <2>0, <2>2 DEF Save, CreateTemporary, WriteMember, CloseArchive, Publish, FailSave,
        InterruptSave, Stable, TypeOK, StoreInv, SaverInv, InSave, disk
    <3>1. UNCHANGED <<SeenBar, OutcomeBar>>
      BY <3>0, SeenStable
    <3>2. CASE Publish(s)
      <4>1. /\ building[s] \in Builds /\ content[file[s]] = Whole(building[s])
            /\ file[s] # Nothing
        BY <2>0, <3>2, FileNumbers DEF Publish, StoreInv, SaverInv, InSave, TypeOK
      <4>2. HeldBar' = building[s]
        BY <3>2, <4>1, BuildOfWhole DEF Publish, Holding
      <4>3. Register!Put
        BY <3>1, <4>1, <4>2 DEF Register!Put
      <4> QED BY <4>3 DEF Register!ANext
    <3>3. CASE ~Publish(s)
      <4>1. path' = path
        BY <2>2, <3>3 DEF Save, CreateTemporary, WriteMember, CloseArchive, FailSave,
          InterruptSave, disk
      <4> QED BY <3>0, <3>1, <4>1, HeldStable
    <3> QED BY <3>2, <3>3
  <2>3. ASSUME NEW l \in Loaders, Load(l)
        PROVE  Register!ANext \/ UNCHANGED <<HeldBar, SeenBar, OutcomeBar>>
    <3>0. UNCHANGED <<disk, HeldBar>>
      BY <2>3 DEF Load, OpenBundle, NoBundle, Refuse, Return, ReadManifest, Pass, CheckHash,
        StartReading, ReadMember, FinishLoad, disk, Holding
    <3>1. ASSUME NEW c \in Requests \cup {AnyConfig}, OpenBundle(l, c)
          PROVE  Register!ANext
      <4>1. HeldBar # Nothing /\ SeenBar[l] = Nothing
        BY <3>1, HoldingType DEF OpenBundle
      <4>2. SeenBar' = [SeenBar EXCEPT ![l] = HeldBar]
        BY <2>0, <3>0, <3>1 DEF OpenBundle, TypeOK, disk, Holding
      <4>3. OutcomeBar' = OutcomeBar
        BY <3>1 DEF OpenBundle
      <4>4. Register!Begin(l)
        BY <3>0, <4>1, <4>2, <4>3 DEF Register!Begin
      <4> QED BY <4>4 DEF Register!ANext
    <3>2. ASSUME NEW r, Return(l, r)
          PROVE  /\ SeenBar' = [SeenBar EXCEPT ![l] = Nothing]
                 /\ OutcomeBar' = [OutcomeBar EXCEPT ![l] =
                      IF r \in {Nothing, Refused} THEN r ELSE BuildOf(r)]
      BY <2>0, <3>2 DEF Return, TypeOK, disk, Holding
    <3>3. CASE Refuse(l)
      <4>1. SeenBar[l] # Nothing \/ HeldBar = Nothing
        <5>1. loading[l] # "idle" => fd[l] # Nothing
          BY DEF StoreInv, LoaderInv
        <5>2. loading[l] = "idle" => path = Nothing
          BY <2>0, <2>3, <3>3, Distinct DEF Load, OpenBundle, NoBundle, ReadManifest, CheckHash, StartReading,
            ReadMember, FinishLoad, Refuse, Return, TypeOK
        <5> QED BY <5>1, <5>2, HoldingType DEF Holding
      <4>2. Register!Answer(l)
        BY <3>0, <3>2, <3>3, <4>1 DEF Register!Answer, Refuse
      <4> QED BY <4>2 DEF Register!ANext
    <3>4. CASE FinishLoad(l)
      <4>1. /\ claimed[l] \in Builds /\ got[l] = Whole(claimed[l])
            /\ fd[l] # Nothing /\ content[fd[l]] = Whole(claimed[l])
        BY <3>4, ReadIsWhole DEF FinishLoad
      <4>2. SeenBar[l] = claimed[l]
        BY <3>4, <4>1, BuildOfWhole DEF FinishLoad, Holding
      <4>3. OutcomeBar' = [OutcomeBar EXCEPT ![l] = claimed[l]]
        BY <3>2, <3>4, <4>1, BuildOfWhole, NoBundleIsAWord DEF FinishLoad
      <4>4. SeenBar' = [SeenBar EXCEPT ![l] = Nothing]
        BY <3>2, <3>4 DEF FinishLoad
      <4>5. Register!Answer(l)
        BY <3>0, <4>1, <4>2, <4>3, <4>4, Distinct DEF Register!Answer
      <4> QED BY <4>5 DEF Register!ANext
    <3>5. CASE (ReadManifest(l) \/ CheckHash(l)) /\ ~Refuse(l)
      BY <2>0, <3>0, <3>5 DEF ReadManifest, CheckHash, Pass, TypeOK, disk, Holding
    <3>6. CASE StartReading(l) \/ ReadMember(l)
      BY <2>0, <3>0, <3>6 DEF StartReading, ReadMember, Pass, TypeOK, disk, Holding
    <3> QED BY <2>3, <3>1, <3>3, <3>4, <3>5, <3>6 DEF Load, NoBundle
  <2>4. CASE DamageMember
    <3>0. path # Nothing /\ path \in Files /\ Finished(path) /\ path \notin damaged /\ UNCHANGED <<path, loads>>
      BY <2>0, <2>4 DEF DamageMember, StoreInv, TypeOK
    <3>1. PICK b \in Builds : content[path] = Whole(b)
      BY <3>0 DEF Finished
    <3>2. PICK m \in Members, p \in Pieces :
            p # content[path][m] /\ content' = [content EXCEPT ![path][m] = p]
      BY <2>4 DEF DamageMember
    <3>3. content'[path] = [Whole(b) EXCEPT ![m] = p]
      BY <2>0, <3>0, <3>1, <3>2 DEF TypeOK
    <3>4. \A c \in Builds : content'[path] # Whole(c)
      BY <3>1, <3>2, <3>3, OneChangeSpoils
    <3>5. HeldBar = b /\ HeldBar' = Damaged
      BY <3>0, <3>1, <3>4, BuildOfWhole DEF Holding, BuildOf
    <3>6. ASSUME NEW l \in Loaders, loading[l] # "idle" PROVE Holding(fd[l])' = Holding(fd[l])
      <4>1. fd[l] # path
        BY <2>4, <3>6 DEF DamageMember
      <4> QED BY <2>0, <3>0, <3>2, <4>1 DEF Holding, TypeOK, loads
    <3>7. UNCHANGED <<SeenBar, OutcomeBar>>
      BY <3>0, <3>6 DEF loads
    <3>8. Register!Spoil
      BY <3>1, <3>5, <3>7 DEF Register!Spoil
    <3> QED BY <3>8 DEF Register!ANext
  <2> QED BY <2>1, <2>2, <2>3, <2>4 DEF Next
<1> QED BY <1>1, <1>2, StoreCorrect, PTL DEF Spec, RegisterSpec, Register!ASpec
=============================================================================
