------------------------ MODULE SyncRuntime_proofs -------------------------
(* Theorems about SyncRuntime, for all values of its constants.            *)
EXTENDS SyncRuntime, TLAPS

(***************************************************************************)
(* The chunks a file is made into are bodies of the repository: no blank   *)
(* chunk gets past the loop of run() and deduplication adds none.          *)
(***************************************************************************)
LEMMA CandidatesType ==
  ASSUME NEW c \in Content
  PROVE  Candidates(c) \in ChunkMap
<1>1. ChunksOf[c] \in Seq(Body \cup {Blank})
  BY SyncConstants
<1>2. ASSUME NEW i \in Index, i + 1 \in Kept(ChunksOf[c])
      PROVE  ChunksOf[c][i + 1] \in Body
  <2>1. i + 1 \in DOMAIN ChunksOf[c] /\ ChunksOf[c][i + 1] # Blank
    BY <1>2 DEF Kept
  <2>2. QED
    BY <1>1, <2>1
<1>3. QED
  BY <1>2 DEF Candidates, ChunkMap

LEMMA LatestType ==
  ASSUME TypeOK, NEW s \in Source, NEW i \in Index
  PROVE  Latest(s, i) \in Body \cup {NoBody}
<1>1. versions[s][i] \in Seq(Body)
  BY DEF TypeOK
<1>2. QED
  BY <1>1 DEF Latest

\* What nextFiles and the removal make is of the type they are stored with.
LEMMA NextFilesType ==
  ASSUME TypeOK
  PROVE  NextFiles \in [Source -> ChunkMap]
<1>1. NoChunks \in ChunkMap
  BY DEF NoChunks, ChunkMap
<1>2. QED
  BY <1>1 DEF TypeOK, NextFiles

LEMMA WithoutRemovedType ==
  ASSUME TypeOK
  PROVE  WithoutRemoved(store) \in [Source -> ChunkMap]
BY DEF TypeOK, WithoutRemoved, ChunkMap

LEMMA EmptyTypes ==
  /\ NoFiles \in [Source -> Content \cup {NoFile}]
  /\ NoVersions \in [Source -> [Index -> Seq(Body)]]
  /\ NoneListed \in [Source -> ChunkMap]
BY DEF NoFiles, NoVersions, NoneListed, NoChunks, ChunkMap

LEMMA ForgetRunType ==
  ASSUME TypeOK, ForgetRun
  PROVE  /\ pc' = "idle"
         /\ previous' \in [Source -> ChunkMap]
         /\ changed' \subseteq Source /\ deleted' \subseteq Source
         /\ toRead' \subseteq changed' /\ read' \subseteq changed'
         /\ candidates' \in [Source -> ChunkMap]
         /\ toVersion' \subseteq Slot /\ toPersist' \subseteq Slot
         /\ failed' \in BOOLEAN /\ touched' \in BOOLEAN
BY EmptyTypes DEF ForgetRun

LEMMA WorldIsTyped ==
  ASSUME world \in World
  PROVE  world.edits \in Nat /\ world.strikes \in Nat
BY SyncConstants DEF WorldType

LEMMA FaultType ==
  ASSUME TypeOK, NEW kind, Fault(kind)
  PROVE  faults' \in 0 .. world.strikes
BY WorldIsTyped DEF Fault, TypeOK

(***************************************************************************)
(* Types alone are not inductive: RecordVersion appends the checksum of a  *)
(* candidate, which is a body only because the slots still to version were *)
(* taken from the candidates of files that were read, and these do not     *)
(* change after the reading stage.                                         *)
(***************************************************************************)
RunShape ==
  /\ pc \in {"idle", "detect"} => read = {} /\ changed = {}
  /\ pc \in {"idle", "detect", "read"} => toVersion = {} /\ toPersist = {}
  /\ \A k \in toVersion \cup toPersist :
       k[1] \in read /\ candidates[k[1]][k[2]] # NoBody
  /\ \A s \in changed : snapshot[s] # NoFile

Shaped == TypeOK /\ RunShape

LEMMA ForgetRunShape ==
  ASSUME ForgetRun
  PROVE  RunShape'
BY DEF ForgetRun, RunShape

LEMMA ShapedInit == Init => Shaped
<1> SUFFICES ASSUME Init PROVE Shaped
  OBVIOUS
<1> USE SyncConstants DEF Init
<1>1. versions \in [Source -> [Index -> Seq(Body)]]
  BY EmptyTypes
<1>3. past \in [Source -> [Index -> SUBSET Body]]
  OBVIOUS
<1>4. seen \in [Source -> SUBSET Content]
  OBVIOUS
<1>5. TypeOK
  <2>1. edits \in 0 .. world.edits /\ faults \in 0 .. world.strikes
    BY WorldIsTyped
  <2>2. /\ workspace \in [Source -> Content \cup {NoFile}]
        /\ snapshot \in [Source -> Content \cup {NoFile}]
        /\ store \in [Source -> ChunkMap] /\ manifest \in [Source -> ChunkMap]
        /\ previous \in [Source -> ChunkMap]
        /\ candidates \in [Source -> ChunkMap]
    BY EmptyTypes
  <2>3. QED
    BY <1>1, <1>3, <1>4, <2>1, <2>2 DEF TypeOK
<1>6. RunShape
  BY DEF RunShape
<1>7. QED
  BY <1>5, <1>6 DEF Shaped

LEMMA RememberType ==
  ASSUME TypeOK, NEW s \in Source, NEW c \in Content \cup {NoFile}, Remember(s, c)
  PROVE  /\ past' \in [Source -> [Index -> SUBSET Body]]
         /\ retired' \in [Source -> [Index -> SUBSET Body]]
         /\ seen' \in [Source -> SUBSET Content]
<1>1. CASE world.policy = "any"
  BY <1>1 DEF Remember, TypeOK
<1>2. CASE world.policy # "any"
  <2>1. Image(s, c) \in ChunkMap
    BY CandidatesType DEF Image, NoChunks, ChunkMap
  <2>2. past[s] \in [Index -> SUBSET Body] /\ retired[s] \in [Index -> SUBSET Body]
    BY DEF TypeOK
  <2>3. \A i \in Index : Image(s, c)[i] \in Body \cup {NoBody}
    BY <2>1 DEF ChunkMap
  <2>4. past' \in [Source -> [Index -> SUBSET Body]]
    <3> DEFINE P == [i \in Index |-> past[s][i] \cup ({Image(s, c)[i]} \ {NoBody})]
    <3>1. P \in [Index -> SUBSET Body]
      BY <2>2, <2>3
    <3>2. past' = [past EXCEPT ![s] = P]
      BY <1>2 DEF Remember
    <3>3. QED
      BY <3>1, <3>2 DEF TypeOK
  <2>5. retired' \in [Source -> [Index -> SUBSET Body]]
    <3> DEFINE R == [i \in Index |-> IF Image(s, c)[i] = NoBody
                                     THEN past[s][i] ELSE retired[s][i]]
    <3>1. R \in [Index -> SUBSET Body]
      BY <2>2
    <3>2. retired' = [retired EXCEPT ![s] = R]
      BY <1>2 DEF Remember
    <3>3. QED
      BY <3>1, <3>2 DEF TypeOK
  <2>6. seen' = [seen EXCEPT ![s] = seen[s] \cup ({c} \ {NoFile})]
    BY <1>2 DEF Remember
  <2>7. QED
    BY <2>4, <2>5, <2>6 DEF TypeOK
<1>3. QED
  BY <1>1, <1>2

\* The world of a behaviour is chosen once.
LEMMA SameWorld == [Next]_vars => world' = world
BY DEF Next, RunStep, vars, users, Edit, StartRun, StartRunUnlisted, StartFrom, Detect,
       DetectAllNew, DetectSince, DetectFails, RecordUnread, Skip,
       ReadFile, ReadFails, Deduplicate, KeepVersion, RecordVersion,
       VersionFails, Save, SaveFails, Remove, RemoveFails, SaveManifest,
       ManifestFails, Crash, CrashInWrite

LEMMA ShapedNext == Shaped /\ [Next]_vars => Shaped'
<1> SUFFICES ASSUME TypeOK, RunShape, [Next]_vars
             PROVE  TypeOK' /\ RunShape'
  BY DEF Shaped
<1> USE DEF users, disk, local
<1>1. ASSUME NEW s \in Source, NEW c \in Content \cup {NoFile}, Edit(s, c)
      PROVE  TypeOK' /\ RunShape'
  <2>1. workspace' \in [Source -> Content \cup {NoFile}]
    BY <1>1 DEF Edit, TypeOK
  <2>2. edits' \in 0 .. world.edits
    BY <1>1, WorldIsTyped DEF Edit, TypeOK
  <2>3. TypeOK'
    BY <1>1, <2>1, <2>2, RememberType DEF Edit, TypeOK
  <2>4. RunShape'
    BY <1>1 DEF Edit, RunShape
  <2>5. QED
    BY <2>3, <2>4
<1>2. CASE StartRun \/ StartRunUnlisted
  <2>1. /\ previous' \in [Source -> ChunkMap] /\ faults' \in 0 .. world.strikes
        /\ pc = "idle" /\ pc' = "detect"
    BY <1>2, EmptyTypes, FaultType DEF StartRun, StartRunUnlisted, StartFrom, TypeOK
  <2>2. QED
    BY <1>2, <2>1 DEF StartRun, StartRunUnlisted, StartFrom, TypeOK, RunShape
<1>3. CASE Detect \/ DetectAllNew
  <2> USE DEF Detect, DetectAllNew, DetectSince
  <2>1. /\ snapshot' = workspace /\ pc' = "read"
        /\ changed' \subseteq Source /\ toRead' = changed' /\ deleted' \subseteq Source
        /\ \A s \in changed' : snapshot'[s] # NoFile
        /\ read = {} /\ toVersion = {} /\ toPersist = {}
    BY <1>3 DEF RunShape
  <2>2. faults' \in 0 .. world.strikes
    BY <1>3, FaultType DEF TypeOK
  <2>3. TypeOK'
    BY <1>3, <2>1, <2>2 DEF TypeOK
  <2>4. RunShape'
    BY <1>3, <2>1 DEF RunShape
  <2>5. QED
    BY <2>3, <2>4
<1>4. ASSUME NEW s \in Source, Skip(s) PROVE TypeOK' /\ RunShape'
  BY <1>4 DEF Skip, TypeOK, RunShape
<1>5. ASSUME NEW s \in Source, ReadFile(s) PROVE TypeOK' /\ RunShape'
  <2>1. Candidates(workspace[s]) \in ChunkMap
    BY <1>5, CandidatesType DEF ReadFile, TypeOK
  <2>2. TypeOK'
    BY <1>5, <2>1 DEF ReadFile, TypeOK
  <2>3. RunShape'
    BY <1>5 DEF ReadFile, RunShape
  <2>4. QED
    BY <2>2, <2>3
<1>6. ASSUME NEW s \in Source, ReadFails(s) PROVE TypeOK' /\ RunShape'
  <2>1. faults' \in 0 .. world.strikes
    BY <1>6, FaultType DEF ReadFails, TypeOK
  <2>2. QED
    BY <1>6, <2>1 DEF ReadFails, TypeOK, RunShape
<1>7. CASE Deduplicate
  BY <1>7 DEF Deduplicate, TypeOK, RunShape
<1>8. ASSUME NEW s \in Source, NEW i \in Index, KeepVersion(s, i)
      PROVE  TypeOK' /\ RunShape'
  BY <1>8 DEF KeepVersion, TypeOK, RunShape
<1>9. ASSUME NEW s \in Source, NEW i \in Index,
             RecordVersion(s, i) \/ RecordUnread(s, i)
      PROVE  TypeOK' /\ RunShape'
  <2> USE DEF RecordVersion, RecordUnread
  <2>1. <<s, i>> \in Slot /\ <<s, i>>[1] = s /\ <<s, i>>[2] = i
    BY DEF Slot
  <2>2. candidates[s][i] \in Body
    <3>1. candidates[s][i] # NoBody
      BY <1>9, <2>1 DEF RunShape
    <3>2. candidates[s] \in ChunkMap
      BY DEF TypeOK
    <3>3. QED
      BY <3>1, <3>2 DEF ChunkMap
  <2>3. versions' \in [Source -> [Index -> Seq(Body)]]
    <3>1. CASE versions' = [versions EXCEPT ![s][i] = Append(@, candidates[s][i])]
      BY <2>2, <3>1 DEF TypeOK
    <3>2. CASE versions' = [NoVersions EXCEPT ![s][i] = <<candidates[s][i]>>]
      BY <2>2, <3>2, EmptyTypes
    <3>3. QED
      BY <1>9, <3>1, <3>2
  <2>4. faults' \in 0 .. world.strikes
    BY <1>9, FaultType DEF TypeOK
  <2>5. TypeOK'
    BY <1>9, <2>1, <2>3, <2>4 DEF TypeOK
  <2>6. RunShape'
    BY <1>9, <2>1 DEF RunShape
  <2>7. QED
    BY <2>5, <2>6
<1>10. ASSUME NEW s \in Source, NEW i \in Index, VersionFails(s, i)
       PROVE  TypeOK' /\ RunShape'
  <2>1. faults' \in 0 .. world.strikes
    BY <1>10, FaultType DEF VersionFails
  <2>2. QED
    BY <1>10, <2>1 DEF VersionFails, TypeOK, RunShape
<1>11. CASE Save
  <2>1. store' \in [Source -> ChunkMap]
    BY <1>11 DEF Save, TypeOK, ChunkMap
  <2>2. QED
    BY <1>11, <2>1 DEF Save, TypeOK, RunShape
<1>12. CASE SaveFails
  <2>1. faults' \in 0 .. world.strikes
    BY <1>12, FaultType DEF SaveFails
  <2>2. QED
    BY <1>12, <2>1 DEF SaveFails, TypeOK, RunShape
<1>13. CASE Remove
  BY <1>13, WithoutRemovedType DEF Remove, TypeOK, RunShape
<1>14. CASE RemoveFails
  <2>1. faults' \in 0 .. world.strikes
    BY <1>14, FaultType DEF RemoveFails
  <2>2. QED
    BY <1>14, <2>1 DEF RemoveFails, TypeOK, RunShape
<1>15. CASE SaveManifest
  <2>1. manifest' \in [Source -> ChunkMap]
    BY <1>15, NextFilesType DEF SaveManifest
  <2>2. status' \in {"ok", "partial", "error"}
    BY <1>15 DEF SaveManifest
  <2>3. QED
    BY <1>15, <2>1, <2>2, ForgetRunType, ForgetRunShape DEF SaveManifest, TypeOK
<1>16. CASE ManifestFails \/ DetectFails
  <2>1. faults' \in 0 .. world.strikes
    BY <1>16, FaultType DEF ManifestFails, DetectFails
  <2>2. QED
    BY <1>16, <2>1, ForgetRunType, ForgetRunShape
       DEF ManifestFails, DetectFails, TypeOK
<1>17. CASE Crash
  <2>1. faults' \in 0 .. world.strikes
    BY <1>17, FaultType DEF Crash
  <2>2. QED
    BY <1>17, <2>1, ForgetRunType, ForgetRunShape DEF Crash, TypeOK
<1>18. CASE CrashInWrite
  <2>1. faults' \in 0 .. world.strikes
    BY <1>18, FaultType DEF CrashInWrite
  <2>2. /\ snapshot' \in [Source -> Content \cup {NoFile}]
        /\ versions' \in [Source -> [Index -> Seq(Body)]]
        /\ store' \in [Source -> ChunkMap]
        /\ manifest' \in [Source -> ChunkMap]
    BY <1>18, EmptyTypes
       DEF CrashInWrite, TornSnapshot, TornVersions, TornStore, TornManifest, TypeOK
  <2>3. QED
    BY <1>18, <2>1, <2>2, ForgetRunType, ForgetRunShape DEF CrashInWrite, TypeOK
<1>19. CASE UNCHANGED vars
  BY <1>19 DEF vars, TypeOK, RunShape
<1>20. QED
  BY <1>1, <1>2, <1>3, <1>4, <1>5, <1>6, <1>7, <1>8, <1>9, <1>10, <1>11, <1>12,
     <1>13, <1>14, <1>15, <1>16, <1>17, <1>18, <1>19 DEF Next, RunStep

LEMMA ShapedAlways == Spec => []Shaped
BY ShapedInit, ShapedNext, PTL DEF Spec

\* The files on disk and the variables of a run are always of their types.
THEOREM TypeCorrect == Spec => []TypeOK
<1>1. Shaped => TypeOK
  BY DEF Shaped
<1>2. QED
  BY <1>1, ShapedAlways, PTL
-----------------------------------------------------------------------------
(***************************************************************************)
(* A stored body is one the tracker knows.  The step that stores it comes  *)
(* long after the one that records it, so the invariant also speaks of the *)
(* chunks on their way: what is still to persist is recorded already.      *)
(***************************************************************************)
PersistIsRecorded ==
  \A k \in toPersist : candidates[k[1]][k[2]] \in RangeOf(versions[k[1]][k[2]])

StoredRecorded ==
  \A s \in Source, i \in Index :
    store[s][i] # NoBody => store[s][i] \in RangeOf(versions[s][i])

Recorded ==
  world.faults \cap {"torn", "noVersions"} = {} => StoredRecorded /\ PersistIsRecorded

\* Appending a version loses none, and the new one is in.
LEMMA RangeAppend ==
  ASSUME NEW S, NEW sequence \in Seq(S), NEW e \in S
  PROVE  RangeOf(Append(sequence, e)) = RangeOf(sequence) \cup {e}
BY DEF RangeOf

LEMMA RecordedInit == Init => Recorded
BY DEF Init, Recorded, StoredRecorded, PersistIsRecorded, NoneListed, NoChunks

LEMMA RecordedNext == Shaped /\ Recorded /\ [Next]_vars => Recorded'
<1> SUFFICES ASSUME TypeOK, RunShape, StoredRecorded, PersistIsRecorded,
                    [Next]_vars, world.faults \cap {"torn", "noVersions"} = {}
             PROVE  StoredRecorded' /\ PersistIsRecorded'
  BY SameWorld DEF Shaped, Recorded
<1> USE DEF users, disk, local
\* Most steps touch neither the repository nor the tracker nor toPersist.
<1>a. ASSUME UNCHANGED <<store, versions>>,
             toPersist' = {} \/ UNCHANGED <<toPersist, candidates>>
      PROVE  StoredRecorded' /\ PersistIsRecorded'
  BY <1>a DEF StoredRecorded, PersistIsRecorded
<1>1. ASSUME NEW s \in Source, NEW c \in Content \cup {NoFile}, Edit(s, c)
      PROVE  StoredRecorded' /\ PersistIsRecorded'
  BY <1>1, <1>a DEF Edit
<1>2. CASE StartRun \/ StartRunUnlisted
  BY <1>2, <1>a DEF StartRun, StartRunUnlisted, StartFrom
<1>3. CASE Detect \/ DetectAllNew
  BY <1>3, <1>a DEF Detect, DetectAllNew, DetectSince
<1>4. ASSUME NEW s \in Source, Skip(s) \/ ReadFails(s)
      PROVE  StoredRecorded' /\ PersistIsRecorded'
  BY <1>4, <1>a DEF Skip, ReadFails
<1>5. ASSUME NEW s \in Source, ReadFile(s)
      PROVE  StoredRecorded' /\ PersistIsRecorded'
  <2>1. toPersist = {} /\ toPersist' = {}
    BY <1>5 DEF ReadFile, RunShape
  <2>2. QED
    BY <1>5, <2>1, <1>a DEF ReadFile
<1>6. CASE Deduplicate
  BY <1>6, <1>a DEF Deduplicate
<1>7. ASSUME NEW s \in Source, NEW i \in Index, KeepVersion(s, i) \/ VersionFails(s, i)
      PROVE  StoredRecorded' /\ PersistIsRecorded'
  BY <1>7, <1>a DEF KeepVersion, VersionFails
<1>8. ASSUME NEW s \in Source, NEW i \in Index, RecordVersion(s, i)
      PROVE  StoredRecorded' /\ PersistIsRecorded'
  <2>1. <<s, i>> \in Slot /\ <<s, i>>[1] = s /\ <<s, i>>[2] = i
    BY DEF Slot
  <2>2. candidates[s][i] \in Body
    <3>1. candidates[s][i] # NoBody
      BY <1>8, <2>1 DEF RecordVersion, RunShape
    <3>2. candidates[s] \in ChunkMap
      BY DEF TypeOK
    <3>3. QED
      BY <3>1, <3>2 DEF ChunkMap
  <2>3. versions[s][i] \in Seq(Body)
    BY DEF TypeOK
  <2>4. RangeOf(versions'[s][i]) = RangeOf(versions[s][i]) \cup {candidates[s][i]}
    <3>1. versions'[s][i] = Append(versions[s][i], candidates[s][i])
      BY <1>8 DEF RecordVersion, TypeOK
    <3>2. QED
      BY <2>2, <2>3, <3>1, RangeAppend
  <2>5. \A r \in Source, j \in Index :
          <<r, j>> # <<s, i>> => versions'[r][j] = versions[r][j]
    BY <1>8 DEF RecordVersion, TypeOK
  <2>6. \A r \in Source, j \in Index :
          RangeOf(versions[r][j]) \subseteq RangeOf(versions'[r][j])
    BY <2>4, <2>5
  <2>7. StoredRecorded'
    BY <1>8, <2>6 DEF RecordVersion, StoredRecorded
  <2>8. PersistIsRecorded'
    <3> SUFFICES ASSUME NEW k \in toPersist'
                 PROVE  candidates[k[1]][k[2]] \in RangeOf(versions'[k[1]][k[2]])
      BY <1>8 DEF RecordVersion, PersistIsRecorded
    <3>1. CASE k = <<s, i>>
      BY <2>1, <2>4, <3>1
    <3>2. CASE k # <<s, i>>
      <4>1. k \in toPersist /\ k[1] \in Source /\ k[2] \in Index
        BY <1>8, <3>2 DEF RecordVersion, TypeOK, Slot
      <4>2. QED
        BY <2>6, <4>1 DEF PersistIsRecorded
    <3>3. QED
      BY <3>1, <3>2
  <2>9. QED
    BY <2>7, <2>8
<1>9. CASE Save
  <2>1. PersistIsRecorded'
    BY <1>9 DEF Save, PersistIsRecorded
  <2>2. StoredRecorded'
    <3> SUFFICES ASSUME NEW s \in Source, NEW i \in Index, store'[s][i] # NoBody
                 PROVE  store'[s][i] \in RangeOf(versions[s][i])
      BY <1>9 DEF Save, StoredRecorded
    <3>1. store'[s][i] = IF <<s, i>> \in toPersist THEN candidates[s][i]
                         ELSE store[s][i]
      BY <1>9 DEF Save
    <3>2. CASE <<s, i>> \in toPersist
      BY <3>1, <3>2 DEF PersistIsRecorded
    <3>3. CASE <<s, i>> \notin toPersist
      BY <3>1, <3>3 DEF StoredRecorded
    <3>4. QED
      BY <3>2, <3>3
  <2>3. QED
    BY <2>1, <2>2
<1>10. CASE SaveFails \/ RemoveFails
  BY <1>10, <1>a DEF SaveFails, RemoveFails
<1>11. CASE Remove
  BY <1>11 DEF Remove, WithoutRemoved, StoredRecorded, PersistIsRecorded
<1>12. CASE SaveManifest \/ ManifestFails \/ DetectFails \/ Crash
  BY <1>12, <1>a DEF SaveManifest, ManifestFails, DetectFails, Crash, ForgetRun
<1>13. /\ ~ CrashInWrite
       /\ \A s \in Source, i \in Index : ~ RecordUnread(s, i)
  BY DEF CrashInWrite, RecordUnread, Fault
<1>14. CASE UNCHANGED vars
  BY <1>14, <1>a DEF vars
<1>15. QED
  BY <1>1, <1>2, <1>3, <1>4, <1>5, <1>6, <1>7, <1>8, <1>9, <1>10, <1>11, <1>12,
     <1>13, <1>14 DEF Next, RunStep

(***************************************************************************)
(* Whatever else fails and wherever a crash falls, as long as the tracker  *)
(* file itself is never torn and can be read, no stored body is unknown to *)
(* the tracker.                                                            *)
(***************************************************************************)
THEOREM StoredAlwaysRecorded == Spec => []StoredIsRecorded
<1>1. Recorded => StoredIsRecorded
  BY DEF Recorded, StoredRecorded, StoredIsRecorded
<1>2. Shaped /\ Recorded /\ [Next]_vars => Recorded'
  BY RecordedNext
<1>3. QED
  BY <1>1, <1>2, RecordedInit, ShapedAlways, PTL DEF Spec
-----------------------------------------------------------------------------
(***************************************************************************)
(* No orphans.  Between two runs every stored chunk is listed; inside a    *)
(* run that is only true of the manifest the run started from, then of     *)
(* what it will write.  The removal is complete because a chunk listed     *)
(* before and not any more belongs to a file that changed or is deleted:   *)
(* the detector has seen every listed file.                                *)
(***************************************************************************)
StoredIn(files) ==
  \A s \in Source, i \in Index : store[s][i] # NoBody => files[s][i] # NoBody

Located ==
  \A s \in Source, i \in Index :
    manifest[s][i] # NoBody => s \in deleted \/ snapshot[s] # NoFile

OrphanFree ==
  /\ pc # "idle" => previous = manifest
  /\ pc \in {"idle", "detect"} => deleted = {}
  /\ Located
  /\ pc \in {"idle", "detect", "read", "version"} => StoredIn(manifest)
  /\ pc = "remove" =>
       \A s \in Source, i \in Index :
         store[s][i] # NoBody => manifest[s][i] # NoBody \/ NextFiles[s][i] # NoBody
  /\ pc = "manifest" => StoredIn(NextFiles)

LEMMA OrphanFreeInit == Init => OrphanFree
BY DEF Init, OrphanFree, StoredIn, Located, NoneListed, NoChunks

\* A chunk that survives the removal is one the next manifest lists.
LEMMA SurvivorsListed ==
  ASSUME TypeOK, RunShape, OrphanFree, pc = "remove",
         NEW s \in Source, NEW i \in Index, WithoutRemoved(store)[s][i] # NoBody
  PROVE  NextFiles[s][i] # NoBody
<1>1. <<s, i>> \in Slot /\ <<s, i>>[1] = s /\ <<s, i>>[2] = i
  BY DEF Slot
<1>2. store[s][i] # NoBody /\ <<s, i>> \notin Removed
  BY DEF WithoutRemoved
<1>3. SUFFICES ASSUME NextFiles[s][i] = NoBody
               PROVE  FALSE
  OBVIOUS
<1>4. manifest[s][i] # NoBody /\ previous = manifest
  BY <1>2, <1>3 DEF OrphanFree
<1>5. s \notin changed \cup deleted
  BY <1>1, <1>2, <1>3, <1>4 DEF Removed
<1>6. snapshot[s] # NoFile /\ s \notin read
  BY <1>4, <1>5 DEF OrphanFree, Located, TypeOK
<1>7. NextFiles[s] = previous[s]
  BY <1>6 DEF NextFiles
<1>8. QED
  BY <1>3, <1>4, <1>7

LEMMA OrphanFreeNext ==
  Shaped /\ (Orderly => OrphanFree) /\ [Next]_vars => (Orderly => OrphanFree)'
<1> SUFFICES ASSUME TypeOK, RunShape, Orderly, OrphanFree, [Next]_vars
             PROVE  OrphanFree'
  BY SameWorld DEF Shaped, Orderly
<1> USE DEF users, disk, local
\* Steps that leave alone what the invariant speaks of.
<1>a. ASSUME UNCHANGED <<pc, store, manifest, previous, snapshot, deleted>>,
             pc # "manifest", pc # "remove"
      PROVE  OrphanFree'
  BY <1>a DEF OrphanFree, StoredIn, Located
<1>b. ASSUME UNCHANGED <<pc, store, manifest, previous, snapshot, deleted,
                         read, candidates>>
      PROVE  OrphanFree'
  <2>1. NextFiles' = NextFiles
    BY <1>b DEF NextFiles
  <2>2. QED
    BY <1>b, <2>1 DEF OrphanFree, StoredIn, Located
<1>1. ASSUME NEW s \in Source, NEW c \in Content \cup {NoFile}, Edit(s, c)
      PROVE  OrphanFree'
  BY <1>1, <1>b DEF Edit
<1>2. CASE StartRun
  BY <1>2 DEF StartRun, StartFrom, OrphanFree, StoredIn, Located
<1>3. CASE Detect
  <2> USE DEF Detect, DetectSince
  <2>1. Located'
    <3> SUFFICES ASSUME NEW s \in Source, NEW i \in Index, manifest[s][i] # NoBody
                 PROVE  s \in deleted' \/ snapshot'[s] # NoFile
      BY <1>3 DEF Located
    <3>1. snapshot[s] # NoFile
      BY <1>3 DEF OrphanFree, Located
    <3>2. QED
      BY <1>3, <3>1
  <2>2. QED
    BY <1>3, <2>1 DEF OrphanFree, StoredIn
<1>4. ASSUME NEW s \in Source, Skip(s) \/ ReadFile(s) \/ ReadFails(s)
      PROVE  OrphanFree'
  BY <1>4, <1>a DEF Skip, ReadFile, ReadFails
<1>5. CASE Deduplicate
  BY <1>5 DEF Deduplicate, OrphanFree, StoredIn, Located
<1>6. ASSUME NEW s \in Source, NEW i \in Index,
             \/ KeepVersion(s, i) \/ RecordVersion(s, i)
             \/ RecordUnread(s, i) \/ VersionFails(s, i)
      PROVE  OrphanFree'
  BY <1>6, <1>a DEF KeepVersion, RecordVersion, RecordUnread, VersionFails
<1>7. CASE Save
  <2>1. ASSUME NEW s \in Source, NEW i \in Index, store'[s][i] # NoBody
        PROVE  manifest[s][i] # NoBody \/ NextFiles'[s][i] # NoBody
    <3>1. CASE <<s, i>> \in toPersist
      <4>1. <<s, i>>[1] = s /\ <<s, i>>[2] = i
        OBVIOUS
      <4>2. s \in read /\ candidates[s][i] # NoBody
        BY <3>1, <4>1 DEF RunShape
      <4>3. NextFiles'[s] = candidates[s]
        BY <1>7, <4>2 DEF Save, NextFiles
      <4>4. QED
        BY <4>2, <4>3
    <3>2. CASE <<s, i>> \notin toPersist
      <4>1. store[s][i] # NoBody
        BY <1>7, <2>1, <3>2 DEF Save
      <4>2. QED
        BY <1>7, <4>1 DEF Save, OrphanFree, StoredIn
    <3>3. QED
      BY <3>1, <3>2
  <2>2. QED
    BY <1>7, <2>1 DEF Save, OrphanFree, Located
<1>8. CASE SaveFails
  BY <1>8 DEF SaveFails, OrphanFree, StoredIn, Located
<1>9. CASE Remove
  <2>1. NextFiles' = NextFiles
    BY <1>9 DEF Remove, NextFiles
  <2>2. ASSUME NEW s \in Source, NEW i \in Index, store'[s][i] # NoBody
        PROVE  NextFiles'[s][i] # NoBody
    BY <1>9, <2>1, <2>2, SurvivorsListed DEF Remove
  <2>3. QED
    BY <1>9, <2>2 DEF Remove, OrphanFree, StoredIn, Located
<1>10. CASE SaveManifest
  <2>1. \A s \in Source, i \in Index :
          NextFiles[s][i] # NoBody => snapshot[s] # NoFile
    BY DEF NextFiles, NoChunks, TypeOK, RunShape
  <2>2. Located'
    BY <1>10, <2>1 DEF SaveManifest, Located
  <2>3. StoredIn(manifest)'
    BY <1>10 DEF SaveManifest, OrphanFree, StoredIn
  <2>4. QED
    BY <1>10, <2>2, <2>3 DEF SaveManifest, ForgetRun, OrphanFree
<1>11. ~ (RemoveFails \/ ManifestFails \/ Crash \/ CrashInWrite
            \/ StartRunUnlisted \/ DetectAllNew)
  BY DEF RemoveFails, ManifestFails, Crash, CrashInWrite, StartRunUnlisted,
         DetectAllNew, Fault, Orderly
<1>12. CASE DetectFails
  BY <1>12 DEF DetectFails, ForgetRun, OrphanFree, StoredIn, Located
<1>13. CASE UNCHANGED vars
  BY <1>13, <1>b DEF vars
<1>14. QED
  BY <1>1, <1>2, <1>3, <1>4, <1>5, <1>6, <1>7, <1>8, <1>9, <1>10, <1>11, <1>12,
     <1>13
     DEF Next, RunStep

(***************************************************************************)
(* As long as the snapshot and the manifest can be read, removals and the  *)
(* manifest write succeed and no run is cut short after its detection, no  *)
(* chunk is left in the repository that the manifest does not list,        *)
(* whatever detections throw and whatever reads, version records and saves *)
(* fail.                                                                   *)
(***************************************************************************)
THEOREM NeverOrphans == Spec => []NoOrphans
<1>1. (Orderly => OrphanFree) => NoOrphans
  BY DEF Orderly, OrphanFree, NoOrphans, StoredIn
<1>2. QED
  BY <1>1, OrphanFreeInit, OrphanFreeNext, ShapedAlways, PTL DEF Spec
-----------------------------------------------------------------------------
(***************************************************************************)
(* Listed chunks are stored.  A run takes a candidate whose checksum is    *)
(* the latest on record for one that is stored already.  That is right     *)
(* only if no chunk comes back after its file lost it: then the versions   *)
(* on record of a slot that is not listed are all retired, and a candidate *)
(* is never retired when it is read.                                       *)
(***************************************************************************)
Recording(s, i) == RangeOf(versions[s][i])

\* The past of every slot, as the users' policy leaves it.
Remembered ==
  \A s \in Source, i \in Index :
    /\ retired[s][i] \subseteq past[s][i]
    /\ IF Image(s, workspace[s])[i] = NoBody THEN past[s][i] \subseteq retired[s][i]
       ELSE Image(s, workspace[s])[i] \in past[s][i] \ retired[s][i]

\* What the tracker knows was once in the workspace.
KnownPast ==
  \A s \in Source, i \in Index :
    /\ Recording(s, i) \subseteq past[s][i]
    /\ s \in read => candidates[s][i] \in past[s][i] \cup {NoBody}

\* The versions of a slot without a chunk are retired: one the manifest does
\* not list, one a changed file has lost, one of a file that is gone.
Retirement ==
  \A s \in Source, i \in Index :
    /\ manifest[s][i] = NoBody =>
         Recording(s, i) \subseteq retired[s][i] \/ <<s, i>> \in toPersist
    /\ s \in read /\ candidates[s][i] = NoBody =>
         Recording(s, i) \subseteq retired[s][i]
    /\ snapshot[s] = NoFile => Recording(s, i) \subseteq retired[s][i]

\* A candidate that is not listed is new to the tracker until it is looked up.
Unlisted ==
  \A s \in read, i \in Index :
    /\ candidates[s][i] # NoBody /\ manifest[s][i] = NoBody
    /\ pc = "read" \/ <<s, i>> \in toVersion
    => candidates[s][i] \notin Recording(s, i)

\* What is to be persisted is the latest version; a candidate that was looked
\* up and is not to be persisted is stored.
LookedUp ==
  /\ toPersist \cap toVersion = {}
  /\ \A s \in Source, i \in Index :
       <<s, i>> \in toPersist => Latest(s, i) = candidates[s][i]
  /\ pc = "version" =>
       \A s \in read, i \in Index :
         candidates[s][i] # NoBody =>
           \/ <<s, i>> \in toVersion \cup toPersist
           \/ store[s][i] = candidates[s][i] /\ Latest(s, i) = candidates[s][i]

\* What a list of chunks names is stored, in its latest version.
Holds(files) ==
  \A s \in Source, i \in Index :
    files[s][i] # NoBody =>
      store[s][i] = files[s][i] /\ Latest(s, i) = files[s][i]

ListHeld ==
  /\ pc \in {"idle", "detect", "read"} => Holds(manifest)
  /\ pc = "version" =>
       \A s \in Source, i \in Index :
         manifest[s][i] # NoBody =>
           /\ store[s][i] = manifest[s][i]
           /\ Latest(s, i) = manifest[s][i] \/ <<s, i>> \in toPersist
  /\ pc \in {"remove", "manifest"} => Holds(NextFiles)

Faithful ==
  KnownPast /\ Retirement /\ Unlisted /\ LookedUp /\ ListHeld

\* The worlds ListedIsStored speaks of.
Guarded ==
  /\ world.faults \subseteq {"detect", "read", "noSnapshot"}
  /\ world.policy # "any"

Tracked ==
  /\ world.policy # "any" => Remembered
  /\ Guarded => Faithful

\* The run in progress started from the manifest.
Loaded == pc # "idle" => previous = manifest

\* Only a run that could not read the manifest started from another.
LoadedUnlessUnread == "noManifest" \notin world.faults => Loaded

LEMMA LoadedNext == LoadedUnlessUnread /\ [Next]_vars => LoadedUnlessUnread'
<1> SUFFICES ASSUME LoadedUnlessUnread, [Next]_vars, "noManifest" \notin world.faults
             PROVE  Loaded'
  BY SameWorld DEF LoadedUnlessUnread
<1>1. ~ StartRunUnlisted
  BY DEF StartRunUnlisted, Fault
<1>2. QED
  BY <1>1 DEF Loaded, LoadedUnlessUnread, ForgetRun,
       Next, RunStep, vars, users, disk, local, Edit, StartRun, StartFrom, Detect,
       DetectAllNew, DetectSince, DetectFails, RecordUnread, Skip,
       ReadFile, ReadFails, Deduplicate, KeepVersion, RecordVersion,
       VersionFails, Save, SaveFails, Remove, RemoveFails, SaveManifest,
       ManifestFails, Crash, CrashInWrite

LEMMA LoadedAlways == Spec => []LoadedUnlessUnread
<1>1. Init => LoadedUnlessUnread
  BY DEF Init, LoadedUnlessUnread, Loaded
<1>2. QED
  BY <1>1, LoadedNext, PTL DEF Spec

LEMMA ImageType ==
  ASSUME NEW s \in Source, NEW c \in Content \cup {NoFile}
  PROVE  Image(s, c) \in ChunkMap
  BY CandidatesType DEF Image, NoChunks, ChunkMap

\* An edit, slot by slot.
LEMMA EditRemembers ==
  ASSUME TypeOK, world.policy # "any",
         NEW s \in Source, NEW c \in Content \cup {NoFile}, Edit(s, c)
  PROVE  /\ workspace'[s] = c /\ \A r \in Source : r # s => workspace'[r] = workspace[r]
         /\ \A i \in Index :
              /\ Image(s, c)[i] \notin retired[s][i]
              /\ past'[s][i] = past[s][i] \cup ({Image(s, c)[i]} \ {NoBody})
              /\ retired'[s][i] = IF Image(s, c)[i] = NoBody THEN past[s][i]
                                  ELSE retired[s][i]
         /\ \A r \in Source : r # s => past'[r] = past[r] /\ retired'[r] = retired[r]
<1>1. /\ past' = [past EXCEPT ![s] =
                     [i \in Index |-> @[i] \cup ({Image(s, c)[i]} \ {NoBody})]]
      /\ retired' = [retired EXCEPT ![s] =
                        [i \in Index |-> IF Image(s, c)[i] = NoBody
                                         THEN past[s][i] ELSE @[i]]]
  BY DEF Edit, Remember
<1>2. \A i \in Index : Image(s, c)[i] \notin retired[s][i]
  BY DEF Edit, Allowed, NoReturn
<1>3. workspace' = [workspace EXCEPT ![s] = c]
  BY DEF Edit
<1>4. DOMAIN past = Source /\ DOMAIN retired = Source /\ DOMAIN workspace = Source
  BY DEF TypeOK
<1>5. QED
  BY <1>1, <1>2, <1>3, <1>4

LEMMA RememberedInit == Init => Remembered
<1> SUFFICES ASSUME Init, NEW s \in Source, NEW i \in Index
             PROVE  past[s][i] = {} /\ retired[s][i] = {}
                      /\ Image(s, workspace[s])[i] = NoBody
  BY DEF Remembered
<1>1. QED
  BY DEF Init, Image, NoChunks, NoFiles

\* Nothing but an edit touches what is remembered.
LEMMA UsersFrame ==
  ASSUME [Next]_vars
  PROVE  \/ UNCHANGED <<workspace, past, retired>>
         \/ \E s \in Source, c \in Content \cup {NoFile} : Edit(s, c)
BY DEF Next, RunStep, vars, users, StartRun, StartRunUnlisted, StartFrom, Detect,
       DetectAllNew, DetectSince, DetectFails, RecordUnread, Skip,
       ReadFile, ReadFails, Deduplicate, KeepVersion, RecordVersion,
       VersionFails, Save, SaveFails, Remove, RemoveFails, SaveManifest,
       ManifestFails, Crash, CrashInWrite

LEMMA RememberedNext ==
  ASSUME TypeOK, world.policy # "any", Remembered, [Next]_vars
  PROVE  Remembered'
<1>1. CASE UNCHANGED <<workspace, past, retired>>
  BY <1>1 DEF Remembered
<1>2. ASSUME NEW s \in Source, NEW c \in Content \cup {NoFile}, Edit(s, c)
      PROVE  Remembered'
  <2> SUFFICES ASSUME NEW r \in Source, NEW i \in Index
               PROVE  /\ retired'[r][i] \subseteq past'[r][i]
                      /\ IF Image(r, workspace'[r])[i] = NoBody
                         THEN past'[r][i] \subseteq retired'[r][i]
                         ELSE Image(r, workspace'[r])[i] \in past'[r][i] \ retired'[r][i]
    BY DEF Remembered
  <2>1. CASE r = s
    <3>1. /\ Image(s, c)[i] \notin retired[s][i] /\ workspace'[s] = c
          /\ past'[s][i] = past[s][i] \cup ({Image(s, c)[i]} \ {NoBody})
          /\ retired'[s][i] = IF Image(s, c)[i] = NoBody THEN past[s][i]
                              ELSE retired[s][i]
      BY <1>2, EditRemembers
    <3>2. retired[s][i] \subseteq past[s][i]
      BY DEF Remembered
    <3>3. QED
      BY <2>1, <3>1, <3>2
  <2>2. CASE r # s
    BY <1>2, <2>2, EditRemembers DEF Remembered
  <2>3. QED
    BY <2>1, <2>2
<1>3. QED
  BY <1>1, <1>2, UsersFrame

\* The past grows, and so does what is retired.
LEMMA PastGrows ==
  ASSUME TypeOK, world.policy # "any", Remembered, [Next]_vars,
         NEW s \in Source, NEW i \in Index
  PROVE  past[s][i] \subseteq past'[s][i] /\ retired[s][i] \subseteq retired'[s][i]
<1>1. CASE UNCHANGED <<workspace, past, retired>>
  BY <1>1
<1>2. ASSUME NEW r \in Source, NEW c \in Content \cup {NoFile}, Edit(r, c)
      PROVE  past[s][i] \subseteq past'[s][i] /\ retired[s][i] \subseteq retired'[s][i]
  <2>1. retired[s][i] \subseteq past[s][i]
    BY DEF Remembered
  <2>2. CASE r = s
    BY <1>2, <2>1, <2>2, EditRemembers
  <2>3. CASE r # s
    BY <1>2, <2>3, EditRemembers
  <2>4. QED
    BY <2>2, <2>3
<1>3. QED
  BY <1>1, <1>2, UsersFrame

\* The latest version is on record, and the one just appended is the latest.
LEMMA LatestOnRecord ==
  ASSUME TypeOK, NEW s \in Source, NEW i \in Index, Latest(s, i) # NoBody
  PROVE  Latest(s, i) \in Recording(s, i)
<1>1. versions[s][i] \in Seq(Body) /\ versions[s][i] # <<>>
  BY DEF TypeOK, Latest
<1>2. Len(versions[s][i]) \in 1 .. Len(versions[s][i])
  BY <1>1
<1>3. QED
  BY <1>1, <1>2 DEF Latest, Recording, RangeOf

LEMMA LatestAppended ==
  ASSUME TypeOK, NEW s \in Source, NEW i \in Index, NEW b \in Body,
         versions'[s][i] = Append(versions[s][i], b)
  PROVE  Latest(s, i)' = b
<1>1. versions[s][i] \in Seq(Body)
  BY DEF TypeOK
<1>2. /\ Append(versions[s][i], b) # <<>>
      /\ Append(versions[s][i], b)[Len(Append(versions[s][i], b))] = b
  BY <1>1
<1>3. QED
  BY <1>2 DEF Latest

LEMMA FaithfulInit == Init => Faithful
<1> SUFFICES ASSUME Init PROVE Faithful
  OBVIOUS
<1>1. \A s \in Source, i \in Index : Recording(s, i) = {}
  BY DEF Init, Recording, RangeOf, NoVersions
<1>2. KnownPast /\ Retirement
  BY <1>1 DEF Init, KnownPast, Retirement
<1>3. Unlisted /\ LookedUp
  BY DEF Init, Unlisted, LookedUp
<1>4. ListHeld
  BY DEF Init, ListHeld, Holds, NoneListed, NoChunks
<1>5. QED
  BY <1>2, <1>3, <1>4 DEF Faithful

\* Where a run stands between two of its steps.
Sound == TypeOK /\ RunShape /\ Loaded /\ Remembered /\ Guarded /\ Faithful

\* A run ends, or has not begun: only the files and the past count.
LEMMA FaithfulAtRest ==
  ASSUME Sound, pc \in {"idle", "detect", "manifest"}, pc' \in {"idle", "detect"},
         UNCHANGED <<snapshot, versions, store, past, retired>>,
         read' = {}, toVersion' = {}, toPersist' = {},
         manifest' = IF pc = "manifest" THEN NextFiles ELSE manifest
  PROVE  Faithful'
<1> USE DEF Sound
<1>1. \A s \in Source, i \in Index : Recording(s, i)' = Recording(s, i)
  BY DEF Recording
<1>2. KnownPast' /\ Unlisted' /\ LookedUp'
  BY <1>1 DEF Faithful, KnownPast, Unlisted, LookedUp
<1>3. ASSUME NEW s \in Source, NEW i \in Index, manifest'[s][i] = NoBody
      PROVE  Recording(s, i) \subseteq retired[s][i]
  <2>1. CASE pc # "manifest"
    <3>1. manifest[s][i] = NoBody /\ toPersist = {}
      BY <1>3, <2>1 DEF RunShape
    <3>2. QED
      BY <3>1 DEF Faithful, Retirement
  <2>2. CASE pc = "manifest"
    <3>1. NextFiles[s][i] = NoBody /\ previous = manifest
      BY <1>3, <2>2 DEF Loaded
    <3>2. CASE s \in read
      BY <3>1, <3>2 DEF NextFiles, Faithful, Retirement
    <3>3. CASE s \notin read /\ snapshot[s] = NoFile
      BY <3>3 DEF Faithful, Retirement
    <3>4. CASE s \notin read /\ snapshot[s] # NoFile
      <4>1. manifest[s][i] = NoBody
        BY <3>1, <3>4 DEF NextFiles
      <4>2. <<s, i>> \notin toPersist
        BY <3>4 DEF RunShape
      <4>3. QED
        BY <4>1, <4>2 DEF Faithful, Retirement
    <3>5. QED
      BY <3>2, <3>3, <3>4
  <2>3. QED
    BY <2>1, <2>2
<1>4. Retirement'
  BY <1>1, <1>3 DEF Faithful, Retirement
<1>5. Holds(manifest)'
  <2>1. Holds(IF pc = "manifest" THEN NextFiles ELSE manifest)
    BY DEF Faithful, ListHeld
  <2>2. QED
    BY <2>1 DEF Holds, Latest
<1>6. QED
  BY <1>2, <1>4, <1>5 DEF Faithful, ListHeld

\* A step that touches neither the run's candidates nor the disk; the past
\* may have grown.
LEMMA FaithfulApart ==
  ASSUME Sound, [Next]_vars,
         UNCHANGED <<disk, pc, previous, read, candidates, toVersion, toPersist>>
  PROVE  Faithful'
<1> USE DEF Sound, disk
<1>1. \A s \in Source, i \in Index : Recording(s, i)' = Recording(s, i)
  BY DEF Recording
<1>2. \A s \in Source, i \in Index :
        past[s][i] \subseteq past'[s][i] /\ retired[s][i] \subseteq retired'[s][i]
  BY PastGrows DEF Guarded
<1>3. KnownPast' /\ Retirement'
  BY <1>1, <1>2 DEF Faithful, KnownPast, Retirement
<1>4. Unlisted' /\ LookedUp'
  <2>1. read \subseteq Source
    BY DEF TypeOK
  <2>2. Unlisted'
    BY <1>1, <2>1 DEF Faithful, Unlisted
  <2>3. LookedUp'
    BY DEF Faithful, LookedUp, Latest
  <2>4. QED
    BY <2>2, <2>3
<1>5. NextFiles' = NextFiles
  BY DEF NextFiles
<1>6. ListHeld'
  BY <1>5 DEF Faithful, ListHeld, Holds, Latest
<1>7. QED
  BY <1>3, <1>4, <1>6 DEF Faithful

LEMMA DetectFaithful ==
  ASSUME Sound, NEW old, DetectSince(old)
  PROVE  Faithful'
<1> USE DEF Sound, users
<1>1. /\ read = {} /\ toVersion = {} /\ toPersist = {} /\ pc = "detect"
      /\ pc' = "read" /\ snapshot' = workspace
      /\ UNCHANGED <<users, versions, store, manifest, read, candidates,
                     toVersion, toPersist>>
  BY DEF DetectSince, RunShape
<1>2. \A s \in Source, i \in Index : Recording(s, i)' = Recording(s, i)
  BY <1>1 DEF Recording
<1>3. KnownPast' /\ Unlisted' /\ LookedUp'
  BY <1>1, <1>2 DEF Faithful, KnownPast, Unlisted, LookedUp
<1>4. ASSUME NEW s \in Source, NEW i \in Index, workspace[s] = NoFile
      PROVE  Recording(s, i) \subseteq retired[s][i]
  <2>1. Image(s, workspace[s])[i] = NoBody
    BY <1>4 DEF Image, NoChunks
  <2>2. past[s][i] \subseteq retired[s][i]
    BY <2>1 DEF Remembered
  <2>3. QED
    BY <2>2 DEF Faithful, KnownPast
<1>5. Retirement'
  BY <1>1, <1>2, <1>4 DEF Faithful, Retirement
<1>6. ListHeld'
  BY <1>1 DEF Faithful, ListHeld, Holds, Latest
<1>7. QED
  BY <1>3, <1>5, <1>6 DEF Faithful

\* A candidate as it is read: not retired, or its slot is.
LEMMA ReadFaithful ==
  ASSUME Sound, NEW s \in Source, ReadFile(s)
  PROVE  Faithful'
<1> USE DEF Sound, users, disk
<1>1. /\ pc = "read" /\ toVersion = {} /\ toPersist = {} /\ read' = read \cup {s}
      /\ UNCHANGED <<users, disk, pc, previous, toVersion, toPersist>>
  BY DEF ReadFile, RunShape
<1>2. /\ candidates'[s] = Image(s, workspace[s])
      /\ \A r \in Source : r # s => candidates'[r] = candidates[r]
  BY DEF ReadFile, TypeOK, Image
<1>3. \A r \in Source, i \in Index : Recording(r, i)' = Recording(r, i)
  BY <1>1 DEF Recording
<1>4. ASSUME NEW i \in Index
      PROVE  IF candidates'[s][i] = NoBody THEN Recording(s, i) \subseteq retired[s][i]
             ELSE candidates'[s][i] \in past[s][i] \ retired[s][i]
  <2>1. IF candidates'[s][i] = NoBody THEN past[s][i] \subseteq retired[s][i]
        ELSE candidates'[s][i] \in past[s][i] \ retired[s][i]
    BY <1>2 DEF Remembered
  <2>2. Recording(s, i) \subseteq past[s][i]
    BY DEF Faithful, KnownPast
  <2>3. QED
    BY <2>1, <2>2
<1>5. KnownPast'
  <2> SUFFICES ASSUME NEW r \in Source, NEW i \in Index
               PROVE  /\ Recording(r, i) \subseteq past[r][i]
                      /\ r \in read' => candidates'[r][i] \in past[r][i] \cup {NoBody}
    BY <1>1, <1>3 DEF KnownPast
  <2>1. CASE r = s
    BY <1>4, <2>1 DEF Faithful, KnownPast
  <2>2. CASE r # s
    BY <1>1, <1>2, <2>2 DEF Faithful, KnownPast
  <2>3. QED
    BY <2>1, <2>2
<1>6. Retirement'
  <2> SUFFICES ASSUME NEW r \in Source, NEW i \in Index, r \in read',
                      candidates'[r][i] = NoBody
               PROVE  Recording(r, i) \subseteq retired[r][i]
    BY <1>1, <1>3 DEF Faithful, Retirement
  <2>1. CASE r = s
    BY <1>4, <2>1
  <2>2. CASE r # s
    BY <1>1, <1>2, <2>2 DEF Faithful, Retirement
  <2>3. QED
    BY <2>1, <2>2
<1>7. Unlisted'
  <2> SUFFICES ASSUME NEW r \in read', NEW i \in Index,
                      candidates'[r][i] # NoBody, manifest[r][i] = NoBody
               PROVE  candidates'[r][i] \notin Recording(r, i)
    <3>1. read' \subseteq Source
      BY <1>1 DEF TypeOK
    <3>2. QED
      BY <1>1, <1>3, <3>1 DEF Unlisted
  <2>1. CASE r = s
    <3>1. Recording(s, i) \subseteq retired[s][i]
      BY <1>1, <2>1 DEF Faithful, Retirement
    <3>2. QED
      BY <1>4, <2>1, <3>1
  <2>2. CASE r # s
    <3>1. r \in read /\ r \in Source
      BY <1>1, <2>2 DEF TypeOK
    <3>2. QED
      BY <1>1, <1>2, <2>2, <3>1 DEF Faithful, Unlisted
  <2>3. QED
    BY <2>1, <2>2
<1>8. LookedUp' /\ ListHeld'
  BY <1>1 DEF Faithful, LookedUp, ListHeld, Holds, Latest
<1>9. QED
  BY <1>5, <1>6, <1>7, <1>8 DEF Faithful

LEMMA DeduplicateFaithful ==
  ASSUME Sound, Deduplicate
  PROVE  Faithful'
<1> USE DEF Sound, users, disk
<1>1. /\ pc = "read" /\ pc' = "version" /\ toPersist = {}
      /\ toVersion' = {k \in Slot : k[1] \in read /\ candidates[k[1]][k[2]] # NoBody}
      /\ UNCHANGED <<users, disk, previous, read, candidates, toPersist>>
  BY DEF Deduplicate, RunShape
<1>2. \A s \in Source, i \in Index : Recording(s, i)' = Recording(s, i)
  BY <1>1 DEF Recording
<1>3. KnownPast' /\ Retirement' /\ Unlisted'
  <2>1. read \subseteq Source
    BY DEF TypeOK
  <2>2. KnownPast' /\ Retirement'
    BY <1>1, <1>2 DEF Faithful, KnownPast, Retirement
  <2>3. Unlisted'
    BY <1>1, <1>2, <2>1 DEF Faithful, Unlisted
  <2>4. QED
    BY <2>2, <2>3
<1>4. ASSUME NEW s \in read, NEW i \in Index, candidates[s][i] # NoBody
      PROVE  <<s, i>> \in toVersion'
  <2>1. <<s, i>> \in Slot /\ <<s, i>>[1] = s /\ <<s, i>>[2] = i
    BY DEF Slot, TypeOK
  <2>2. QED
    BY <1>1, <1>4, <2>1
<1>5. LookedUp'
  BY <1>1, <1>4 DEF LookedUp
<1>6. ListHeld'
  BY <1>1 DEF Faithful, ListHeld, Holds, Latest
<1>7. QED
  BY <1>3, <1>5, <1>6 DEF Faithful

\* A slot still to be looked up.
LEMMA SlotToVersion ==
  ASSUME TypeOK, RunShape, NEW s \in Source, NEW i \in Index, <<s, i>> \in toVersion
  PROVE  s \in read /\ candidates[s][i] \in Body /\ snapshot[s] # NoFile
<1>1. <<s, i>>[1] = s /\ <<s, i>>[2] = i
  OBVIOUS
<1>2. s \in read /\ candidates[s][i] # NoBody
  BY <1>1 DEF RunShape
<1>3. candidates[s] \in ChunkMap /\ snapshot[s] # NoFile
  BY <1>2 DEF TypeOK, RunShape
<1>4. QED
  BY <1>2, <1>3 DEF ChunkMap

LEMMA KeepFaithful ==
  ASSUME Sound, NEW s \in Source, NEW i \in Index, KeepVersion(s, i)
  PROVE  Faithful'
<1> USE DEF Sound, users, disk
<1>1. /\ pc = "version" /\ <<s, i>> \in toVersion /\ Latest(s, i) = candidates[s][i]
      /\ toVersion' = toVersion \ {<<s, i>>}
      /\ UNCHANGED <<users, disk, pc, previous, read, candidates, toPersist>>
  BY DEF KeepVersion
<1>2. \A r \in Source, j \in Index : Recording(r, j)' = Recording(r, j)
  BY <1>1 DEF Recording
<1>3. s \in read /\ candidates[s][i] \in Body /\ candidates[s][i] # NoBody
  BY <1>1, SlotToVersion, SyncConstants
<1>4. store[s][i] = candidates[s][i]
  <2>1. CASE manifest[s][i] # NoBody
    <3>1. <<s, i>> \notin toPersist
      BY <1>1 DEF Faithful, LookedUp
    <3>2. QED
      BY <1>1, <2>1, <3>1 DEF Faithful, ListHeld
  <2>2. CASE manifest[s][i] = NoBody
    <3>1. candidates[s][i] \notin Recording(s, i)
      BY <1>1, <1>3, <2>2 DEF Faithful, Unlisted
    <3>2. QED
      BY <1>1, <1>3, <3>1, LatestOnRecord
  <2>3. QED
    BY <2>1, <2>2
<1>5. KnownPast' /\ Retirement'
  BY <1>1, <1>2 DEF Faithful, KnownPast, Retirement
<1>6. Unlisted'
  <2>1. read \subseteq Source
    BY DEF TypeOK
  <2>2. QED
    BY <1>1, <1>2, <2>1 DEF Faithful, Unlisted
<1>7. LookedUp'
  <2> SUFFICES ASSUME NEW r \in read, NEW j \in Index, candidates[r][j] # NoBody
               PROVE  \/ <<r, j>> \in toVersion' \cup toPersist
                      \/ store[r][j] = candidates[r][j] /\ Latest(r, j) = candidates[r][j]
    BY <1>1 DEF Faithful, LookedUp, Latest
  <2>1. CASE <<r, j>> = <<s, i>>
    BY <1>1, <1>4, <2>1
  <2>2. CASE <<r, j>> # <<s, i>>
    BY <1>1, <2>2 DEF Faithful, LookedUp
  <2>3. QED
    BY <2>1, <2>2
<1>8. ListHeld'
  BY <1>1 DEF Faithful, ListHeld, Latest
<1>9. QED
  BY <1>5, <1>6, <1>7, <1>8 DEF Faithful

LEMMA RecordFaithful ==
  ASSUME Sound, NEW s \in Source, NEW i \in Index, RecordVersion(s, i)
  PROVE  Faithful'
<1> USE DEF Sound, users
<1>1. /\ pc = "version" /\ <<s, i>> \in toVersion
      /\ versions' = [versions EXCEPT ![s][i] = Append(@, candidates[s][i])]
      /\ toVersion' = toVersion \ {<<s, i>>} /\ toPersist' = toPersist \cup {<<s, i>>}
      /\ UNCHANGED <<users, snapshot, store, manifest, pc, previous, read, candidates>>
  BY DEF RecordVersion
<1>2. /\ s \in read /\ candidates[s][i] \in Body /\ candidates[s][i] # NoBody
      /\ snapshot[s] # NoFile
  BY <1>1, SlotToVersion, SyncConstants
<1>3. /\ versions'[s][i] = Append(versions[s][i], candidates[s][i])
      /\ versions[s][i] \in Seq(Body)
  BY <1>1 DEF TypeOK
<1>4. \A r \in Source, j \in Index :
        <<r, j>> # <<s, i>> => versions'[r][j] = versions[r][j]
  BY <1>1 DEF TypeOK
<1>5. Latest(s, i)' = candidates[s][i]
  BY <1>2, <1>3, LatestAppended
<1>6. Recording(s, i)' = Recording(s, i) \cup {candidates[s][i]}
  BY <1>2, <1>3, RangeAppend DEF Recording
<1>7. \A r \in Source, j \in Index : <<r, j>> # <<s, i>> =>
        Recording(r, j)' = Recording(r, j) /\ Latest(r, j)' = Latest(r, j)
  BY <1>4 DEF Recording, Latest
<1>8. KnownPast'
  <2> SUFFICES ASSUME NEW r \in Source, NEW j \in Index
               PROVE  Recording(r, j)' \subseteq past[r][j]
    BY <1>1 DEF Faithful, KnownPast
  <2>1. CASE <<r, j>> = <<s, i>>
    BY <1>2, <1>6, <2>1 DEF Faithful, KnownPast
  <2>2. CASE <<r, j>> # <<s, i>>
    BY <1>7, <2>2 DEF Faithful, KnownPast
  <2>3. QED
    BY <2>1, <2>2
<1>9. Retirement'
  <2> SUFFICES ASSUME NEW r \in Source, NEW j \in Index
               PROVE  /\ manifest[r][j] = NoBody =>
                           Recording(r, j)' \subseteq retired[r][j] \/ <<r, j>> \in toPersist'
                      /\ r \in read /\ candidates[r][j] = NoBody =>
                           Recording(r, j)' \subseteq retired[r][j]
                      /\ snapshot[r] = NoFile => Recording(r, j)' \subseteq retired[r][j]
    BY <1>1 DEF Retirement
  <2>1. CASE <<r, j>> = <<s, i>>
    BY <1>1, <1>2, <2>1
  <2>2. CASE <<r, j>> # <<s, i>>
    BY <1>1, <1>7, <2>2 DEF Faithful, Retirement
  <2>3. QED
    BY <2>1, <2>2
<1>10. Unlisted'
  <2> SUFFICES ASSUME NEW r \in read, NEW j \in Index,
                      candidates[r][j] # NoBody, manifest[r][j] = NoBody,
                      <<r, j>> \in toVersion'
               PROVE  candidates[r][j] \notin Recording(r, j)'
    BY <1>1 DEF Unlisted
  <2>1. <<r, j>> # <<s, i>> /\ r \in Source /\ <<r, j>> \in toVersion
    BY <1>1 DEF TypeOK
  <2>2. candidates[r][j] \notin Recording(r, j)
    BY <2>1 DEF Faithful, Unlisted
  <2>3. QED
    BY <1>7, <2>1, <2>2
<1>11. LookedUp'
  <2>1. toPersist' \cap toVersion' = {}
    BY <1>1 DEF Faithful, LookedUp
  <2>2. ASSUME NEW r \in Source, NEW j \in Index, <<r, j>> \in toPersist'
        PROVE  Latest(r, j)' = candidates[r][j]
    <3>1. CASE <<r, j>> = <<s, i>>
      BY <1>5, <3>1
    <3>2. CASE <<r, j>> # <<s, i>>
      BY <1>1, <1>7, <2>2, <3>2 DEF Faithful, LookedUp
    <3>3. QED
      BY <3>1, <3>2
  <2>3. ASSUME NEW r \in read, NEW j \in Index, candidates[r][j] # NoBody
        PROVE  \/ <<r, j>> \in toVersion' \cup toPersist'
               \/ store[r][j] = candidates[r][j] /\ Latest(r, j)' = candidates[r][j]
    <3>1. r \in Source
      BY DEF TypeOK
    <3>2. CASE <<r, j>> = <<s, i>>
      BY <1>1, <3>2
    <3>3. CASE <<r, j>> # <<s, i>>
      BY <1>1, <1>7, <2>3, <3>1, <3>3 DEF Faithful, LookedUp
    <3>4. QED
      BY <3>2, <3>3
  <2>4. QED
    BY <1>1, <2>1, <2>2, <2>3 DEF LookedUp
<1>12. ListHeld'
  <2> SUFFICES ASSUME NEW r \in Source, NEW j \in Index, manifest[r][j] # NoBody
               PROVE  /\ store[r][j] = manifest[r][j]
                      /\ Latest(r, j)' = manifest[r][j] \/ <<r, j>> \in toPersist'
    BY <1>1 DEF ListHeld
  <2>1. /\ store[r][j] = manifest[r][j]
        /\ Latest(r, j) = manifest[r][j] \/ <<r, j>> \in toPersist
    BY <1>1 DEF Faithful, ListHeld
  <2>2. CASE <<r, j>> = <<s, i>>
    BY <1>1, <2>1, <2>2
  <2>3. CASE <<r, j>> # <<s, i>>
    BY <1>1, <1>7, <2>1, <2>3
  <2>4. QED
    BY <2>2, <2>3
<1>13. QED
  BY <1>8, <1>9, <1>10, <1>11, <1>12 DEF Faithful

\* Once everything is looked up the next manifest's chunks are there.
LEMMA SaveFaithful ==
  ASSUME Sound, Save
  PROVE  Faithful'
<1> USE DEF Sound, users
<1>1. /\ pc = "version" /\ pc' = "remove" /\ toVersion = {} /\ previous = manifest
      /\ UNCHANGED <<users, snapshot, versions, manifest, previous, read,
                     candidates, toVersion, toPersist>>
  BY DEF Save, Loaded
<1>2. \A s \in Source, i \in Index :
        store'[s][i] = IF <<s, i>> \in toPersist THEN candidates[s][i] ELSE store[s][i]
  BY DEF Save
<1>3. \A s \in Source, i \in Index :
        Recording(s, i)' = Recording(s, i) /\ Latest(s, i)' = Latest(s, i)
  BY <1>1 DEF Recording, Latest
<1>4. KnownPast' /\ Retirement'
  BY <1>1, <1>3 DEF Faithful, KnownPast, Retirement
<1>5. Unlisted' /\ LookedUp'
  BY <1>1, <1>3 DEF Faithful, Unlisted, LookedUp
<1>6. NextFiles' = NextFiles
  BY <1>1 DEF NextFiles
<1>7. ASSUME NEW s \in Source, NEW i \in Index, NextFiles[s][i] # NoBody
      PROVE  store'[s][i] = NextFiles[s][i] /\ Latest(s, i) = NextFiles[s][i]
  <2>1. CASE s \in read
    <3>1. NextFiles[s][i] = candidates[s][i]
      BY <2>1 DEF NextFiles
    <3>2. CASE <<s, i>> \in toPersist
      BY <1>2, <3>1, <3>2 DEF Faithful, LookedUp
    <3>3. CASE <<s, i>> \notin toPersist
      BY <1>1, <1>2, <1>7, <2>1, <3>1, <3>3 DEF Faithful, LookedUp
    <3>4. QED
      BY <3>2, <3>3
  <2>2. CASE s \notin read
    <3>1. NextFiles[s][i] = manifest[s][i]
      BY <1>1, <1>7, <2>2 DEF NextFiles, NoChunks
    <3>2. <<s, i>> \notin toPersist
      BY <2>2 DEF RunShape
    <3>3. QED
      BY <1>1, <1>2, <1>7, <3>1, <3>2 DEF Faithful, ListHeld
  <2>3. QED
    BY <2>1, <2>2
<1>8. ListHeld'
  BY <1>1, <1>3, <1>6, <1>7 DEF ListHeld, Holds
<1>9. QED
  BY <1>4, <1>5, <1>8 DEF Faithful

LEMMA RemoveFaithful ==
  ASSUME Sound, Remove
  PROVE  Faithful'
<1> USE DEF Sound, users
<1>1. /\ pc = "remove" /\ pc' = "manifest" /\ store' = WithoutRemoved(store)
      /\ UNCHANGED <<users, snapshot, versions, manifest, previous, read,
                     candidates, toVersion, toPersist>>
  BY DEF Remove
<1>2. \A s \in Source, i \in Index :
        Recording(s, i)' = Recording(s, i) /\ Latest(s, i)' = Latest(s, i)
  BY <1>1 DEF Recording, Latest
<1>3. KnownPast' /\ Retirement'
  BY <1>1, <1>2 DEF Faithful, KnownPast, Retirement
<1>4. Unlisted' /\ LookedUp'
  <2>1. read \subseteq Source
    BY DEF TypeOK
  <2>2. QED
    BY <1>1, <1>2, <2>1 DEF Faithful, Unlisted, LookedUp
<1>5. NextFiles' = NextFiles
  BY <1>1 DEF NextFiles
<1>6. ASSUME NEW s \in Source, NEW i \in Index, NextFiles[s][i] # NoBody
      PROVE  store'[s][i] = NextFiles[s][i] /\ Latest(s, i) = NextFiles[s][i]
  <2>1. <<s, i>> \notin Removed
    BY <1>6 DEF Removed
  <2>2. store'[s][i] = store[s][i]
    BY <1>1, <2>1 DEF WithoutRemoved
  <2>3. QED
    BY <1>1, <1>6, <2>2 DEF Faithful, ListHeld, Holds
<1>7. ListHeld'
  BY <1>1, <1>2, <1>5, <1>6 DEF ListHeld, Holds
<1>8. QED
  BY <1>3, <1>4, <1>7 DEF Faithful

LEMMA FaithfulNext ==
  ASSUME Sound, [Next]_vars
  PROVE  Faithful'
<1> USE DEF users, disk, local
<1>1. ASSUME NEW s \in Source, NEW c \in Content \cup {NoFile}, Edit(s, c)
      PROVE  Faithful'
  BY <1>1, FaithfulApart DEF Edit
<1>2. CASE StartRun
  <2>1. /\ pc = "idle" /\ pc' = "detect"
        /\ UNCHANGED <<snapshot, versions, store, past, retired, manifest>>
        /\ read' = {} /\ toVersion' = {} /\ toPersist' = {}
    BY <1>2 DEF StartRun, StartFrom, Sound, RunShape
  <2>2. QED
    BY <2>1, FaithfulAtRest
<1>3. CASE DetectFails \/ SaveManifest
  <2>1. /\ pc \in {"detect", "manifest"} /\ pc' = "idle"
        /\ UNCHANGED <<snapshot, versions, store, past, retired>>
        /\ manifest' = IF pc = "manifest" THEN NextFiles ELSE manifest
        /\ read' = {} /\ toVersion' = {} /\ toPersist' = {}
    BY <1>3 DEF DetectFails, SaveManifest, ForgetRun
  <2>2. QED
    BY <2>1, FaithfulAtRest
<1>4. ASSUME NEW s \in Source, Skip(s) \/ ReadFails(s)
      PROVE  Faithful'
  BY <1>4, FaithfulApart DEF Skip, ReadFails
<1>5. ASSUME NEW s \in Source, NEW i \in Index, ~ VersionFails(s, i)
      PROVE  KeepVersion(s, i) \/ RecordVersion(s, i) \/ VersionFails(s, i) => Faithful'
  BY <1>5, KeepFaithful, RecordFaithful
<1>6. /\ \A s \in Source, i \in Index : ~ VersionFails(s, i) /\ ~ RecordUnread(s, i)
      /\ ~ (StartRunUnlisted \/ SaveFails \/ RemoveFails \/ ManifestFails
             \/ Crash \/ CrashInWrite)
  BY DEF Sound, Guarded, Fault, VersionFails, RecordUnread, StartRunUnlisted,
         SaveFails, RemoveFails, ManifestFails, Crash, CrashInWrite
<1>7. CASE UNCHANGED vars
  BY <1>7, FaithfulApart DEF vars
<1>8. QED
  BY <1>1, <1>2, <1>3, <1>4, <1>5, <1>6, <1>7, DetectFaithful, ReadFaithful,
     DeduplicateFaithful, SaveFaithful, RemoveFaithful
     DEF Next, RunStep, Detect, DetectAllNew

LEMMA TrackedInit == Init => Tracked
BY RememberedInit, FaithfulInit DEF Tracked

LEMMA TrackedNext ==
  Shaped /\ LoadedUnlessUnread /\ Tracked /\ [Next]_vars => Tracked'
<1> SUFFICES ASSUME Shaped, LoadedUnlessUnread, Tracked, [Next]_vars
             PROVE  Tracked'
  OBVIOUS
<1>1. world' = world
  BY SameWorld
<1>2. world.policy # "any" => Remembered'
  BY RememberedNext DEF Shaped, Tracked
<1>3. Guarded => Faithful'
  <2>1. Guarded => Sound
    BY DEF Shaped, Tracked, Sound, Guarded, LoadedUnlessUnread
  <2>2. QED
    BY <2>1, FaithfulNext
<1>4. QED
  BY <1>1, <1>2, <1>3 DEF Tracked, Guarded

LEMMA OrphanFreeAlways == Spec => [](Orderly => OrphanFree)
<1>1. Init => (Orderly => OrphanFree)
  BY OrphanFreeInit
<1>2. QED
  BY <1>1, OrphanFreeNext, ShapedAlways, PTL DEF Spec

LEMMA TrackedAlways == Spec => []Tracked
BY TrackedInit, TrackedNext, ShapedAlways, LoadedAlways, PTL DEF Spec

(***************************************************************************)
(* Between runs a listed chunk is stored, with the checksum the manifest   *)
(* gives and the tracker last recorded, as long as only detections, reads  *)
(* of the workspace and reads of the snapshot fail and no chunk comes      *)
(* back; edits in the middle of a run do no harm.                          *)
(***************************************************************************)
THEOREM ListedAlwaysStored == Spec => []ListedIsStored
<1>1. Tracked => ListedIsStored
  BY DEF Tracked, Guarded, Faithful, ListHeld, Holds, ListedIsStored
<1>2. QED
  BY <1>1, TrackedAlways, PTL
-----------------------------------------------------------------------------
(***************************************************************************)
(* A step of a run that changes a file's chunks in the repository.         *)
(***************************************************************************)
LEMMA UnreadKept ==
  ASSUME Shaped, [Next]_vars, "torn" \notin world.faults,
         NEW s \in changed \ read
  PROVE  store'[s] = store[s]
<1> USE DEF Shaped, users, disk, local
<1>1. s \in Source /\ store \in [Source -> ChunkMap] /\ store[s] \in ChunkMap
  BY DEF TypeOK
<1>2. store[s] = [i \in Index |-> store[s][i]]
  BY <1>1 DEF ChunkMap
<1>3. CASE UNCHANGED store
  BY <1>3
<1>4. CASE Save
  <2>1. \A i \in Index : <<s, i>> \notin toPersist
    BY DEF RunShape
  <2>2. store'[s] = [i \in Index |-> store[s][i]]
    BY <1>1, <1>4, <2>1 DEF Save
  <2>3. QED
    BY <1>2, <2>2
<1>5. CASE Remove
  <2>1. NextFiles[s] = previous[s]
    BY <1>1 DEF NextFiles, RunShape
  <2>2. \A i \in Index : <<s, i>> \notin Removed
    BY <2>1 DEF Removed
  <2>3. store'[s] = [i \in Index |-> store[s][i]]
    BY <1>1, <1>5, <2>2 DEF Remove, WithoutRemoved
  <2>4. QED
    BY <1>2, <2>3
<1>6. ~ CrashInWrite
  BY DEF CrashInWrite, Fault
<1>7. QED
  BY <1>3, <1>4, <1>5, <1>6
     DEF Next, RunStep, vars, Edit, StartRun, StartRunUnlisted, StartFrom, Detect,
       DetectAllNew, DetectSince, DetectFails, RecordUnread, Skip,
         ReadFile, ReadFails, Deduplicate, KeepVersion, RecordVersion,
         VersionFails, SaveFails, RemoveFails, SaveManifest, ManifestFails, Crash

\* A changed file that could not be read costs no stored chunk: neither the
\* save nor the removal of the run touches its slots.
THEOREM UnreadAlwaysKept == Spec => UnreadKeepsChunks
<1>1. Shaped /\ [Next]_vars =>
        [\A s \in changed \ read :
           "torn" \notin world.faults => store'[s] = store[s]]_store
  BY UnreadKept
<1>2. QED
  BY <1>1, ShapedAlways, PTL DEF Spec, UnreadKeepsChunks
-----------------------------------------------------------------------------
(***************************************************************************)
(* The refinement.  In a calm world the repository, with the removals a    *)
(* run has decided on, is a mirror that lags: all steps but one leave it   *)
(* as it is, and the save brings it level with the whole workspace.        *)
(***************************************************************************)
\* In a calm world a run works on the workspace the detector has seen.
CalmFiles ==
  /\ pc \notin {"idle", "detect"} =>
       /\ snapshot = workspace
       /\ changed \subseteq toRead \cup read \cup Skipped
       /\ read \cap Skipped = {}
       /\ \A s \in read : candidates[s] = Image(s, snapshot[s])
       /\ pc # "read" => toRead = {}
  /\ \A s \in Source :
       \/ manifest[s] = Image(s, snapshot[s])
       \/ s \in changed
       \/ snapshot[s] = NoFile /\ pc \notin {"idle", "detect"}
  /\ \A s \in Skipped : manifest[s] = NoChunks

\* What the stages before it say of a calm run at rest or under way.
CalmSound == Calm /\ TypeOK /\ RunShape /\ OrphanFree /\ Tracked /\ CalmFiles

\* The next manifest lists the chunks of the workspace.
LEMMA CalmNextFiles ==
  ASSUME CalmSound, pc \in {"version", "remove", "manifest"}, NEW s \in Source
  PROVE  NextFiles[s] = Image(s, workspace[s])
<1> USE DEF CalmSound
<1>1. /\ snapshot = workspace /\ previous = manifest
      /\ changed \subseteq read \cup Skipped
      /\ \A r \in read : candidates[r] = Image(r, snapshot[r])
  BY DEF CalmFiles, OrphanFree
<1>2. CASE s \in read
  BY <1>1, <1>2 DEF NextFiles
<1>3. CASE s \notin read /\ snapshot[s] = NoFile
  BY <1>1, <1>3 DEF NextFiles, Image
<1>4. CASE s \notin read /\ snapshot[s] # NoFile
  <2>1. NextFiles[s] = manifest[s]
    BY <1>1, <1>4 DEF NextFiles
  <2>2. CASE s \in Skipped
    BY <1>1, <2>1, <2>2 DEF CalmFiles, Image
  <2>3. CASE s \notin Skipped
    BY <1>1, <1>4, <2>1, <2>3 DEF CalmFiles
  <2>4. QED
    BY <2>2, <2>3
<1>5. QED
  BY <1>2, <1>3, <1>4

LEMMA CalmFilesInit == Init => CalmFiles
BY SyncConstants DEF Init, CalmFiles, Image, NoneListed, NoFiles

LEMMA CalmFilesNext ==
  ASSUME CalmSound, [Next]_vars
  PROVE  CalmFiles'
<1> USE DEF CalmSound, users, disk, local
<1>1. ASSUME NEW s \in Source, NEW c \in Content \cup {NoFile}, Edit(s, c)
      PROVE  CalmFiles'
  BY <1>1 DEF Edit, Calm, CalmFiles
<1>2. CASE StartRun
  BY <1>2 DEF StartRun, StartFrom, CalmFiles
<1>3. CASE Detect
  <2>1. /\ pc = "detect" /\ pc' = "read" /\ snapshot' = workspace /\ changed = {} /\ read = {}
        /\ changed' = {s \in Source : workspace[s] # NoFile /\ workspace[s] # snapshot[s]}
        /\ toRead' = changed'
        /\ UNCHANGED <<users, manifest, read, candidates>>
    BY <1>3 DEF Detect, DetectSince, RunShape
  <2>2. QED
    BY <2>1 DEF CalmFiles
<1>4. ASSUME NEW s \in Source, Skip(s)
      PROVE  CalmFiles'
  BY <1>4 DEF Skip, CalmFiles
<1>5. ASSUME NEW s \in Source, ReadFile(s)
      PROVE  CalmFiles'
  <2>1. candidates'[s] = Image(s, snapshot[s])
    BY <1>5 DEF ReadFile, TypeOK, Image, CalmFiles
  <2>2. \A r \in Source : r # s => candidates'[r] = candidates[r]
    BY <1>5 DEF ReadFile, TypeOK
  <2>3. \A r \in read' : candidates'[r] = Image(r, snapshot[r])
    BY <1>5, <2>1, <2>2 DEF ReadFile, CalmFiles, TypeOK
  <2>4. QED
    BY <1>5, <2>3 DEF ReadFile, CalmFiles
<1>6. ASSUME NEW s \in Source, ReadFails(s)
      PROVE  FALSE
  <2>1. workspace[s] = NoFile
    BY <1>6 DEF ReadFails, Fault, Calm
  <2>2. snapshot[s] # NoFile /\ snapshot = workspace
    BY <1>6 DEF ReadFails, RunShape, TypeOK, CalmFiles
  <2>3. QED
    BY <2>1, <2>2
<1>7. CASE Deduplicate
  BY <1>7 DEF Deduplicate, CalmFiles
<1>8. ASSUME NEW s \in Source, NEW i \in Index, KeepVersion(s, i) \/ RecordVersion(s, i)
      PROVE  CalmFiles'
  BY <1>8 DEF KeepVersion, RecordVersion, CalmFiles
<1>9. CASE Save \/ Remove
  BY <1>9 DEF Save, Remove, CalmFiles
<1>10. CASE SaveManifest
  <2>1. /\ manifest' = NextFiles /\ snapshot' = snapshot /\ pc' = "idle" /\ pc = "manifest"
    BY <1>10 DEF SaveManifest, ForgetRun
  <2>2. \A s \in Source : NextFiles[s] = Image(s, workspace[s])
    BY <2>1, CalmNextFiles
  <2>3. snapshot = workspace
    BY <2>1 DEF CalmFiles
  <2>4. \A s \in Skipped : NextFiles[s] = NoChunks
    BY <2>2, SyncConstants DEF Image
  <2>5. QED
    BY <2>1, <2>2, <2>3, <2>4 DEF CalmFiles
<1>11. /\ \A s \in Source, i \in Index : ~ VersionFails(s, i) /\ ~ RecordUnread(s, i)
       /\ ~ (StartRunUnlisted \/ DetectAllNew \/ DetectFails \/ SaveFails
              \/ RemoveFails \/ ManifestFails \/ Crash \/ CrashInWrite)
  BY DEF Calm, Fault, StartRunUnlisted, DetectAllNew, DetectFails, VersionFails,
         RecordUnread, SaveFails, RemoveFails, ManifestFails, Crash, CrashInWrite
<1>12. CASE UNCHANGED vars
  BY <1>12 DEF vars, CalmFiles
<1>13. QED
  BY <1>1, <1>2, <1>3, <1>4, <1>5, <1>6, <1>7, <1>8, <1>9, <1>10, <1>11, <1>12
     DEF Next, RunStep

\* With the removals done the repository is the next manifest.
Leveled ==
  \A s \in Source, i \in Index : WithoutRemoved(store)[s][i] = NextFiles[s][i]

LEMMA RemovalLevels ==
  ASSUME TypeOK, RunShape, OrphanFree, Holds(NextFiles), pc = "remove"
  PROVE  Leveled
<1> SUFFICES ASSUME NEW s \in Source, NEW i \in Index
             PROVE  WithoutRemoved(store)[s][i] = NextFiles[s][i]
  BY DEF Leveled
<1>1. /\ <<s, i>> \in Removed => WithoutRemoved(store)[s][i] = NoBody
      /\ <<s, i>> \notin Removed => WithoutRemoved(store)[s][i] = store[s][i]
  BY DEF WithoutRemoved
<1>2. CASE NextFiles[s][i] = NoBody
  BY <1>2, SurvivorsListed
<1>3. CASE NextFiles[s][i] # NoBody
  <2>1. <<s, i>> \notin Removed
    BY <1>3 DEF Removed
  <2>2. QED
    BY <1>1, <1>3, <2>1 DEF Holds
<1>4. QED
  BY <1>2, <1>3

LEMMA SaveLevels ==
  (Shaped /\ (Orderly => OrphanFree) /\ Tracked /\ Calm /\ pc = "remove" => Leveled)'
<1>1. Shaped /\ (Orderly => OrphanFree) /\ Tracked /\ Calm /\ pc = "remove" => Leveled
  BY RemovalLevels, SyncConstants
     DEF Calm, Shaped, Orderly, Tracked, Guarded, Faithful, ListHeld
<1>2. QED
  BY <1>1, PTL

LEMMA SaveCatchesUp ==
  ASSUME CalmSound, Save, Leveled'
  PROVE  Settled' = [s \in Source |-> Image(s, workspace[s])]
<1> USE DEF CalmSound
<1>1. /\ Settled' = WithoutRemoved(store)' /\ pc = "version"
      /\ UNCHANGED <<snapshot, previous, read, candidates>>
  BY DEF Save, Settled
<1>2. NextFiles' = NextFiles
  BY <1>1 DEF NextFiles
<1>3. \A s \in Source : NextFiles[s] = Image(s, workspace[s])
  BY <1>1, CalmNextFiles
<1>4. \A s \in Source : Image(s, workspace[s]) \in ChunkMap
  BY ImageType DEF TypeOK
<1>5. \A s \in Source, i \in Index :
        WithoutRemoved(store)'[s][i] = Image(s, workspace[s])[i]
  BY <1>2, <1>3 DEF Leveled
<1>6. WithoutRemoved(store)' =
        [s \in Source |-> [i \in Index |-> WithoutRemoved(store)'[s][i]]]
  BY DEF WithoutRemoved
<1>7. \A s \in Source :
        Image(s, workspace[s]) = [i \in Index |-> Image(s, workspace[s])[i]]
  BY <1>4 DEF ChunkMap
<1> HIDE DEF CalmSound
<1>8. WithoutRemoved(store)' =
        [s \in Source |-> [i \in Index |-> Image(s, workspace[s])[i]]]
  BY <1>5, <1>6
<1>9. QED
  BY <1>1, <1>7, <1>8

MirrorFiles == IF Calm THEN workspace ELSE NoFiles
MirrorChunks == IF Calm THEN Settled ELSE NoneListed

LEMMA StepMirrors ==
  ASSUME Shaped, Orderly => OrphanFree, Tracked, Calm => CalmFiles, [Next]_vars,
         Shaped', (Orderly => OrphanFree)', Tracked'
  PROVE  [Mirror!Next]_<<MirrorFiles, MirrorChunks>>
<1> USE DEF users, disk, local
<1>1. Calm' <=> Calm
  BY SameWorld DEF Calm
<1>2. CASE ~ Calm
  BY <1>1, <1>2 DEF MirrorFiles, MirrorChunks
<1>3. CASE Calm
  <2>1. CalmSound
    BY <1>3 DEF Shaped, CalmSound, Calm, Orderly
  <2>2. ASSUME UNCHANGED <<workspace, Settled>>
        PROVE  [Mirror!Next]_<<MirrorFiles, MirrorChunks>>
    BY <1>1, <2>2 DEF MirrorFiles, MirrorChunks
  <2>3. ASSUME NEW s \in Source, NEW c \in Content \cup {NoFile}, Edit(s, c)
        PROVE  [Mirror!Next]_<<MirrorFiles, MirrorChunks>>
    <3>1. Settled' = Settled /\ workspace' = [workspace EXCEPT ![s] = c]
      BY <1>3, <2>3 DEF Edit, Calm, Settled
    <3>2. Mirror!Edit(s, c)
      BY <1>1, <1>3, <3>1 DEF Mirror!Edit
    <3>3. QED
      BY <3>2 DEF Mirror!Next
  <2>4. CASE Save
    <3>1. pc' = "remove" /\ workspace' = workspace
      BY <2>4 DEF Save
    <3>2. Leveled'
      BY <1>1, <1>3, <3>1, SaveLevels
    <3>3. Settled' = [s \in Source |-> Image(s, workspace[s])]
      BY <2>1, <2>4, <3>2, SaveCatchesUp
    <3>4. Mirror!CatchUp
      BY <1>1, <1>3, <3>1, <3>3 DEF Mirror!CatchUp
    <3>5. QED
      BY <3>4 DEF Mirror!Next
  <2>5. CASE Remove
    BY <2>2, <2>5 DEF Remove, Settled
  <2>6. CASE StartRun \/ Detect \/ Deduplicate \/ SaveManifest
    BY <2>2, <2>6 DEF StartRun, StartFrom, Detect, DetectSince, Deduplicate,
                         SaveManifest, ForgetRun, Settled
  <2>7. ASSUME NEW s \in Source, Skip(s) \/ ReadFile(s) \/ ReadFails(s)
        PROVE  [Mirror!Next]_<<MirrorFiles, MirrorChunks>>
    BY <2>2, <2>7 DEF Skip, ReadFile, ReadFails, Settled
  <2>8. ASSUME NEW s \in Source, NEW i \in Index, KeepVersion(s, i) \/ RecordVersion(s, i)
        PROVE  [Mirror!Next]_<<MirrorFiles, MirrorChunks>>
    BY <2>2, <2>8 DEF KeepVersion, RecordVersion, Settled
  <2>9. /\ \A s \in Source, i \in Index : ~ VersionFails(s, i) /\ ~ RecordUnread(s, i)
        /\ ~ (StartRunUnlisted \/ DetectAllNew \/ DetectFails \/ SaveFails
               \/ RemoveFails \/ ManifestFails \/ Crash \/ CrashInWrite)
    BY <1>3 DEF Calm, Fault, StartRunUnlisted, DetectAllNew, DetectFails, VersionFails,
           RecordUnread, SaveFails, RemoveFails, ManifestFails, Crash, CrashInWrite
  <2>10. CASE UNCHANGED vars
    <3>1. Settled' = Settled
      BY <2>10 DEF vars, Settled, WithoutRemoved, Removed, NextFiles
    <3>2. QED
      BY <2>2, <2>10, <3>1 DEF vars
  <2>11. QED
    BY <2>3, <2>4, <2>5, <2>6, <2>7, <2>8, <2>9, <2>10 DEF Next, RunStep
<1>4. QED
  BY <1>2, <1>3

\* In a calm world a run changes nothing a reader of the repository could tell
\* from a lag, and catches up with the whole workspace when it saves.
THEOREM MirrorImplemented == Spec => ImplementsMirror
<1>1. Init => Mirror!Init
  BY DEF Init, Mirror!Init, Settled, Image, NoneListed, NoFiles
<1>2. Shaped /\ (Orderly => OrphanFree) /\ Tracked /\ (Calm => CalmFiles) /\ [Next]_vars
        => (Calm => CalmFiles)'
  <2>1. ASSUME Shaped, Orderly => OrphanFree, Tracked, Calm => CalmFiles, [Next]_vars
        PROVE  (Calm => CalmFiles)'
    <3>1. Calm' => Calm
      BY <2>1, SameWorld DEF Calm
    <3>2. Calm => CalmSound
      BY <2>1 DEF Shaped, CalmSound, Calm, Orderly
    <3>3. QED
      BY <2>1, <3>1, <3>2, CalmFilesNext
  <2>2. QED
    BY <2>1
<1>3. Spec => [](Calm => CalmFiles)
  <2>1. Init => (Calm => CalmFiles)
    BY CalmFilesInit
  <2>2. QED
    BY <1>2, <2>1, ShapedAlways, OrphanFreeAlways, TrackedAlways, PTL DEF Spec
<1>4. /\ Shaped /\ (Orderly => OrphanFree) /\ Tracked /\ (Calm => CalmFiles) /\ [Next]_vars
      /\ Shaped' /\ (Orderly => OrphanFree)' /\ Tracked'
      => [Mirror!Next]_<<MirrorFiles, MirrorChunks>>
  BY StepMirrors
<1>5. QED
  BY <1>1, <1>3, <1>4, ShapedAlways, OrphanFreeAlways, TrackedAlways, PTL
     DEF Spec, ImplementsMirror, Mirror!Spec, MirrorFiles, MirrorChunks

=============================================================================
