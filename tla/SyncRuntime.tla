---------------------------- MODULE SyncRuntime ----------------------------
(***************************************************************************)
(* The workspace synchronisation pipeline of src/sync: a run loads the     *)
(* manifest, lets the change detector compare the workspace with its       *)
(* snapshot, reads and chunks the changed files, records a version of      *)
(* every new chunk, saves the new chunks in the chunk repository, removes  *)
(* those no longer produced and finally writes the manifest.               *)
(*                                                                         *)
(* Four files survive a run: the detector's snapshot, the version tracker, *)
(* the chunk repository and the manifest.  They are written at different   *)
(* moments, so every `await' of a run is a step of its own, and an edit of *)
(* the workspace, an I/O failure or a crash may fall between any two.      *)
(***************************************************************************)
EXTENDS Naturals, Sequences, FiniteSets

CONSTANTS
  Source,      \* relative paths the workspace may hold
  Skipped,     \* the paths sync leaves out: unsupported or sensitive
  Content,     \* raw file contents, as far as the detector's hash tells
  NoFile,      \* the path holds no file
  Body,        \* chunk contents, as far as the chunk checksum tells
  Blank,       \* a chunk that is empty once trimmed
  NoBody,      \* no chunk
  ChunksOf,    \* ChunksOf[c]: the redacted chunks of content c, in order
  Near,        \* pairs of distinct bodies above NEAR_DUPLICATE_THRESHOLD
  MaxChunks,   \* a file has at most this many chunks
  World        \* what may happen: every behaviour is in one of these

\* The last three: a file cannot be read for a moment, and its reader takes
\* it for an empty one without a word.
FaultKinds ==
  {"detect", "read", "version", "save", "remove", "manifest", "crash", "torn",
   "noSnapshot", "noVersions", "noManifest"}

WorldType ==
  [sources  : SUBSET Source,                      \* which paths users write
   contents : SUBSET Content,                     \* and what
   policy   : {"any", "noReturn", "fresh"},       \* which edits they make
   inRun    : BOOLEAN,                            \* in the middle of runs, too
   edits    : Nat,                                \* bound on their number
   faults   : SUBSET FaultKinds,                  \* the failures that may occur
   strikes  : Nat]                                \* bound on their number

ASSUME SyncConstants ==
  /\ Skipped \subseteq Source
  /\ NoFile \notin Content
  /\ NoBody \notin Body
  /\ Blank \notin Body
  /\ MaxChunks \in Nat
  /\ ChunksOf \in [Content -> Seq(Body \cup {Blank})]
  /\ \A c \in Content : Len(ChunksOf[c]) <= MaxChunks
  /\ Near \subseteq Body \X Body
  /\ World \subseteq WorldType

Index == 0 .. MaxChunks - 1
Slot == Source \X Index              \* chunk ids `${source}::${index}`
NoChunks == [i \in Index |-> NoBody]
NoFiles == [s \in Source |-> NoFile]
NoVersions == [s \in Source |-> [i \in Index |-> <<>>]]
NoneListed == [s \in Source |-> NoChunks]
ChunkMap == [Index -> Body \cup {NoBody}]

VARIABLES
  world,       \* the world of this behaviour; it never changes
  workspace,   \* the files, as their users see them
  snapshot,    \* sync-change-detector.json: the content last hashed
  versions,    \* sync-version-tracker.jsonl: checksums, oldest first
  store,       \* the project's chunks.jsonl
  manifest,    \* sync-manifest.json: the chunks listed for each file
  pc,          \* the stage of the run in progress
  previous,    \* the manifest as the run loaded it
  changed,     \* changeSet.created and changeSet.changed
  deleted,     \* changeSet.deleted
  toRead,      \* changed paths not read yet
  read,        \* paths with an entry in candidatesBySource
  candidates,  \* their chunks after deduplication
  toVersion,   \* candidates not looked up in the tracker yet
  toPersist,   \* chunksToPersist
  failed,      \* errors.length > 0
  touched,     \* chunksPersisted > 0 or chunksTombstoned > 0
  status,      \* the status of the last finished run
  past,        \* bodies every slot has had in the workspace
  retired,     \* those it had when its file last lost that chunk
  seen,        \* contents every path has had
  edits,       \* edits so far
  faults       \* failures so far

disk  == <<snapshot, versions, store, manifest>>
local == <<previous, changed, deleted, toRead, read, candidates, toVersion,
           toPersist, failed, touched>>
users == <<world, workspace, past, retired, seen, edits>>
vars  == <<users, disk, pc, local, status, faults>>
-----------------------------------------------------------------------------
(* Chunks of a content *)

Duplicate(a, b) == a = b \/ <<a, b>> \in Near \/ <<b, a>> \in Near

\* The chunks that are not blank and that deduplicateCandidates keeps: those
\* with no duplicate among the chunks kept before them.
Kept(bodies) ==
  LET unique[n \in DOMAIN bodies] ==
        \A j \in 1 .. n - 1 :
          bodies[j] # Blank /\ unique[j] => ~ Duplicate(bodies[j], bodies[n])
  IN {n \in DOMAIN bodies : bodies[n] # Blank /\ unique[n]}

\* What a run makes of a file with content c: its chunks, by index.
Candidates(c) ==
  [i \in Index |-> IF i + 1 \in Kept(ChunksOf[c])
                   THEN ChunksOf[c][i + 1] ELSE NoBody]

\* What the repository should hold for path s when its content is c.
Image(s, c) ==
  IF c = NoFile \/ s \in Skipped THEN NoChunks ELSE Candidates(c)

Latest(s, i) ==
  IF versions[s][i] = <<>> THEN NoBody ELSE versions[s][i][Len(versions[s][i])]

RangeOf(sequence) == {sequence[n] : n \in 1 .. Len(sequence)}
-----------------------------------------------------------------------------
Init ==
  /\ world \in World
  /\ workspace = NoFiles
  /\ snapshot = NoFiles
  /\ versions = NoVersions
  /\ store = NoneListed
  /\ manifest = NoneListed
  /\ pc = "idle"
  /\ previous = NoneListed
  /\ changed = {} /\ deleted = {} /\ toRead = {} /\ read = {}
  /\ candidates = NoneListed
  /\ toVersion = {} /\ toPersist = {}
  /\ failed = FALSE /\ touched = FALSE
  /\ status = "never"
  /\ past = [s \in Source |-> [i \in Index |-> {}]]
  /\ retired = past
  /\ seen = [s \in Source |-> {}]
  /\ edits = 0
  /\ faults = 0

\* A failure of this kind may happen now, and counts.
Fault(kind) ==
  /\ kind \in world.faults
  /\ faults < world.strikes
  /\ faults' = faults + 1

\* The locals of run() die with it.
ForgetRun ==
  /\ pc' = "idle"
  /\ previous' = NoneListed
  /\ changed' = {} /\ deleted' = {} /\ toRead' = {} /\ read' = {}
  /\ candidates' = NoneListed
  /\ toVersion' = {} /\ toPersist' = {}
  /\ failed' = FALSE /\ touched' = FALSE
-----------------------------------------------------------------------------
(* The users of the workspace *)

\* A body a chunk had before its file lost that chunk does not come back.
NoReturn(s, c) == \A i \in Index : Image(s, c)[i] \notin retired[s][i]

Allowed(s, c) ==
  /\ c \in world.contents \cup {NoFile}
  /\ world.policy # "any" => NoReturn(s, c)
  /\ world.policy = "fresh" => c \notin seen[s]

\* What the policies need to know of the past.
Remember(s, c) ==
  IF world.policy = "any" THEN UNCHANGED <<past, retired, seen>>
  ELSE /\ past' = [past EXCEPT ![s] =
                     [i \in Index |-> @[i] \cup ({Image(s, c)[i]} \ {NoBody})]]
       /\ retired' = [retired EXCEPT ![s] =
                        [i \in Index |-> IF Image(s, c)[i] = NoBody
                                         THEN past[s][i] ELSE @[i]]]
       /\ seen' = [seen EXCEPT ![s] = @ \cup ({c} \ {NoFile})]

\* A file is created, changed or (c = NoFile) deleted.
Edit(s, c) ==
  /\ s \in world.sources /\ edits < world.edits
  /\ world.inRun \/ pc = "idle"
  /\ c # workspace[s]
  /\ Allowed(s, c)
  /\ workspace' = [workspace EXCEPT ![s] = c]
  /\ Remember(s, c)
  /\ edits' = edits + 1
  /\ UNCHANGED <<world, disk, pc, local, status, faults>>
-----------------------------------------------------------------------------
(* One run *)

\* The run begins with the manifest as loadManifest gives it.
StartFrom(files) ==
  /\ pc = "idle"
  /\ pc' = "detect"
  /\ previous' = files
  /\ UNCHANGED <<users, disk, changed, deleted, toRead, read, candidates,
                 toVersion, toPersist, failed, touched, status>>

\* The scheduler never starts a run while one is in progress.
StartRun == StartFrom(manifest) /\ UNCHANGED faults

\* loadManifest catches whatever goes wrong: no file is listed any more.
StartRunUnlisted == StartFrom(NoneListed) /\ Fault("noManifest")

\* detectChanges against the snapshot `old': the new snapshot is on disk
\* before any change is handled.
DetectSince(old) ==
  /\ pc = "detect"
  /\ LET differs == {s \in Source : workspace[s] # NoFile /\ workspace[s] # old[s]}
     IN changed' = differs /\ toRead' = differs
  /\ deleted' = {s \in Source : old[s] # NoFile /\ workspace[s] = NoFile}
  /\ snapshot' = workspace
  /\ pc' = "read"
  /\ UNCHANGED <<users, versions, store, manifest, previous, read, candidates,
                 toVersion, toPersist, failed, touched, status>>

Detect == DetectSince(snapshot) /\ UNCHANGED faults

\* readJson catches whatever goes wrong with the snapshot: every file that is
\* there is new and none is deleted, and the next snapshot hides it.
DetectAllNew == DetectSince(NoFiles) /\ Fault("noSnapshot")

\* A directory cannot be listed, a file that was listed is gone when it is
\* hashed, or the snapshot cannot be written: detectChanges throws, and run()
\* with it.
DetectFails ==
  /\ pc = "detect"
  /\ Fault("detect")
  /\ status' = "thrown"
  /\ ForgetRun
  /\ UNCHANGED <<users, disk>>

\* The loop passes over a path that is unsupported or sensitive.
Skip(s) ==
  /\ pc = "read" /\ s \in toRead
  /\ s \in Skipped
  /\ toRead' = toRead \ {s}
  /\ UNCHANGED <<users, disk, pc, previous, changed, deleted, read, candidates,
                 toVersion, toPersist, failed, touched, status, faults>>

\* The file is read now: it may differ from the content that was hashed.
ReadFile(s) ==
  /\ pc = "read" /\ s \in toRead
  /\ s \notin Skipped
  /\ workspace[s] # NoFile
  /\ toRead' = toRead \ {s}
  /\ read' = read \cup {s}
  /\ candidates' = [candidates EXCEPT ![s] = Candidates(workspace[s])]
  /\ UNCHANGED <<users, disk, pc, previous, changed, deleted, toVersion,
                 toPersist, failed, touched, status, faults>>

\* The file is gone since it was hashed, or cannot be read.
ReadFails(s) ==
  /\ pc = "read" /\ s \in toRead
  /\ s \notin Skipped
  /\ \/ workspace[s] = NoFile /\ UNCHANGED faults
     \/ workspace[s] # NoFile /\ Fault("read")
  /\ toRead' = toRead \ {s}
  /\ failed' = TRUE
  /\ UNCHANGED <<users, disk, pc, previous, changed, deleted, read, candidates,
                 toVersion, toPersist, touched, status>>

\* Every changed path is done: the unique candidates go to the tracker.
Deduplicate ==
  /\ pc = "read" /\ toRead = {}
  /\ toVersion' = {k \in Slot : k[1] \in read /\ candidates[k[1]][k[2]] # NoBody}
  /\ pc' = "version"
  /\ UNCHANGED <<users, disk, previous, changed, deleted, toRead, read,
                 candidates, toPersist, failed, touched, status, faults>>

\* Mutant of KeepVersion: any version on record counts, not the latest.
KeepAnyVersion(s, i) ==
  /\ pc = "version" /\ <<s, i>> \in toVersion
  /\ candidates[s][i] \in RangeOf(versions[s][i])
  /\ toVersion' = toVersion \ {<<s, i>>}
  /\ UNCHANGED <<users, disk, pc, previous, changed, deleted, toRead, read,
                 candidates, toPersist, failed, touched, status, faults>>

\* getLatest answers the candidate's checksum: nothing to record or persist.
KeepVersion(s, i) ==
  /\ pc = "version" /\ <<s, i>> \in toVersion
  /\ Latest(s, i) = candidates[s][i]
  /\ toVersion' = toVersion \ {<<s, i>>}
  /\ UNCHANGED <<users, disk, pc, previous, changed, deleted, toRead, read,
                 candidates, toPersist, failed, touched, status, faults>>

\* recordVersion appends the checksum; the chunk will be persisted.
RecordVersion(s, i) ==
  /\ pc = "version" /\ <<s, i>> \in toVersion
  /\ Latest(s, i) # candidates[s][i]
  /\ versions' = [versions EXCEPT ![s][i] = Append(@, candidates[s][i])]
  /\ toVersion' = toVersion \ {<<s, i>>}
  /\ toPersist' = toPersist \cup {<<s, i>>}
  /\ UNCHANGED <<users, snapshot, store, manifest, pc, previous, changed,
                 deleted, toRead, read, candidates, failed, touched, status,
                 faults>>

\* readEntries catches whatever goes wrong with the tracker's file: getLatest
\* then finds no version and the chunk is recorded again, or recordVersion
\* finds no entries, and all that is on record is the one it writes.
RecordUnread(s, i) ==
  /\ pc = "version" /\ <<s, i>> \in toVersion
  /\ Fault("noVersions")
  /\ \/ versions' = [versions EXCEPT ![s][i] = Append(@, candidates[s][i])]
     \/ versions' = [NoVersions EXCEPT ![s][i] = <<candidates[s][i]>>]
  /\ toVersion' = toVersion \ {<<s, i>>}
  /\ toPersist' = toPersist \cup {<<s, i>>}
  /\ UNCHANGED <<users, snapshot, store, manifest, pc, previous, changed,
                 deleted, toRead, read, candidates, failed, touched, status>>

\* Mutant of VersionFails: the chunk is persisted all the same.
VersionFailsPersists(s, i) ==
  /\ pc = "version" /\ <<s, i>> \in toVersion
  /\ Latest(s, i) # candidates[s][i]
  /\ Fault("version")
  /\ toVersion' = toVersion \ {<<s, i>>}
  /\ toPersist' = toPersist \cup {<<s, i>>}
  /\ failed' = TRUE
  /\ UNCHANGED <<users, disk, pc, previous, changed, deleted, toRead, read,
                 candidates, touched, status>>

\* recordVersion fails: the chunk is left out, the run goes on.
VersionFails(s, i) ==
  /\ pc = "version" /\ <<s, i>> \in toVersion
  /\ Latest(s, i) # candidates[s][i]
  /\ Fault("version")
  /\ toVersion' = toVersion \ {<<s, i>>}
  /\ failed' = TRUE
  /\ UNCHANGED <<users, disk, pc, previous, changed, deleted, toRead, read,
                 candidates, toPersist, touched, status>>

\* repository.save: an upsert of the chunks to persist, if any.
Save ==
  /\ pc = "version" /\ toVersion = {}
  /\ store' = [s \in Source |-> [i \in Index |->
                 IF <<s, i>> \in toPersist THEN candidates[s][i]
                 ELSE store[s][i]]]
  /\ touched' = (toPersist # {})
  /\ pc' = "remove"
  /\ UNCHANGED <<users, snapshot, versions, manifest, previous, changed,
                 deleted, toRead, read, candidates, toVersion, toPersist,
                 failed, status, faults>>

SaveFails ==
  /\ pc = "version" /\ toVersion = {} /\ toPersist # {}
  /\ Fault("save")
  /\ failed' = TRUE
  /\ pc' = "remove"
  /\ UNCHANGED <<users, disk, previous, changed, deleted, toRead, read,
                 candidates, toVersion, toPersist, touched, status>>

\* Mutant of NextFiles: a changed file that was not read loses its entry.
NextFilesRead ==
  [s \in Source |-> IF s \in read THEN candidates[s]
                    ELSE IF s \notin changed \cup deleted THEN previous[s]
                    ELSE NoChunks]

\* nextFiles: of the files the detector found, an unchanged one keeps its
\* entry, and so does a changed one that was skipped or could not be read.
NextFiles ==
  [s \in Source |-> IF s \in read THEN candidates[s]
                    ELSE IF snapshot[s] # NoFile THEN previous[s]
                    ELSE NoChunks]

\* Mutants of Removed: only the changed, or only the deleted files count.
RemovedOf(sources) ==
  {k \in Slot : /\ k[1] \in sources
                /\ previous[k[1]][k[2]] # NoBody
                /\ NextFiles[k[1]][k[2]] = NoBody}
RemovedOfChanged == RemovedOf(changed)
RemovedOfDeleted == RemovedOf(deleted)

\* removedChunkIds: listed before, not listed any more.
Removed ==
  {k \in Slot : /\ k[1] \in changed \cup deleted
                /\ previous[k[1]][k[2]] # NoBody
                /\ NextFiles[k[1]][k[2]] = NoBody}

WithoutRemoved(chunks) ==
  [s \in Source |-> [i \in Index |->
     IF <<s, i>> \in Removed THEN NoBody ELSE chunks[s][i]]]

\* repository.remove of the chunks the changed and deleted files lost.
Remove ==
  /\ pc = "remove"
  /\ store' = WithoutRemoved(store)
  /\ touched' = (touched \/ store' # store)
  /\ pc' = "manifest"
  /\ UNCHANGED <<users, snapshot, versions, manifest, previous, changed,
                 deleted, toRead, read, candidates, toVersion, toPersist,
                 failed, status, faults>>

RemoveFails ==
  /\ pc = "remove" /\ Removed # {}
  /\ Fault("remove")
  /\ failed' = TRUE
  /\ pc' = "manifest"
  /\ UNCHANGED <<users, disk, previous, changed, deleted, toRead, read,
                 candidates, toVersion, toPersist, touched, status>>

\* Mutant of SaveManifest: the snapshot is taken anew at the end of the run.
SaveManifestAndSnapshot ==
  /\ pc = "manifest"
  /\ manifest' = NextFiles
  /\ snapshot' = workspace
  /\ status' = (IF ~failed THEN "ok" ELSE IF touched THEN "partial" ELSE "error")
  /\ ForgetRun
  /\ UNCHANGED <<users, versions, store, faults>>

\* saveManifest, then the run returns its status.
SaveManifest ==
  /\ pc = "manifest"
  /\ manifest' = NextFiles
  /\ status' = (IF ~failed THEN "ok" ELSE IF touched THEN "partial" ELSE "error")
  /\ ForgetRun
  /\ UNCHANGED <<users, snapshot, versions, store, faults>>

\* saveManifest throws, and run() with it.
ManifestFails ==
  /\ pc = "manifest"
  /\ Fault("manifest")
  /\ status' = "thrown"
  /\ ForgetRun
  /\ UNCHANGED <<users, disk>>
-----------------------------------------------------------------------------
(* The process dies in a run.  writeFile truncates before it writes, so    *)
(* the file being written may be left empty, and every reader takes an     *)
(* empty or unparsable file for an empty one.                              *)

Crash ==
  /\ pc # "idle"
  /\ Fault("crash")
  /\ status' = "never"
  /\ ForgetRun
  /\ UNCHANGED <<users, disk>>

TornSnapshot ==
  /\ pc = "detect"
  /\ snapshot' = NoFiles
  /\ UNCHANGED <<versions, store, manifest>>

TornVersions ==
  /\ pc = "version"
  /\ \E k \in toVersion : Latest(k[1], k[2]) # candidates[k[1]][k[2]]
  /\ versions' = NoVersions
  /\ UNCHANGED <<snapshot, store, manifest>>

TornStore ==
  /\ \/ pc = "version" /\ toVersion = {} /\ toPersist # {}
     \/ pc = "remove" /\ WithoutRemoved(store) # store
  /\ store' = NoneListed
  /\ UNCHANGED <<snapshot, versions, manifest>>

TornManifest ==
  /\ pc = "manifest"
  /\ manifest' = NoneListed
  /\ UNCHANGED <<snapshot, versions, store>>

CrashInWrite ==
  /\ Fault("torn")
  /\ TornSnapshot \/ TornVersions \/ TornStore \/ TornManifest
  /\ status' = "never"
  /\ ForgetRun
  /\ UNCHANGED users
-----------------------------------------------------------------------------
RunStep ==
  \/ Detect \/ DetectAllNew \/ DetectFails
  \/ \E s \in Source : Skip(s) \/ ReadFile(s) \/ ReadFails(s)
  \/ Deduplicate
  \/ \E s \in Source, i \in Index :
       \/ KeepVersion(s, i) \/ RecordVersion(s, i)
       \/ RecordUnread(s, i) \/ VersionFails(s, i)
  \/ Save \/ SaveFails
  \/ Remove \/ RemoveFails
  \/ SaveManifest \/ ManifestFails

Next ==
  \/ \E s \in Source, c \in Content \cup {NoFile} : Edit(s, c)
  \/ StartRun \/ StartRunUnlisted
  \/ RunStep
  \/ Crash
  \/ CrashInWrite

Spec == Init /\ [][Next]_vars

\* The interval timer keeps starting runs, and a run that is in progress and
\* does not crash goes on to its end.
FairSpec == Spec /\ WF_vars(StartRun) /\ WF_vars(RunStep)
-----------------------------------------------------------------------------
(* Properties *)

\* Types of the files on disk and of the variables of a run.
TypeOK ==
  /\ world \in World
  /\ workspace \in [Source -> Content \cup {NoFile}]
  /\ snapshot \in [Source -> Content \cup {NoFile}]
  /\ versions \in [Source -> [Index -> Seq(Body)]]
  /\ store \in [Source -> ChunkMap]
  /\ manifest \in [Source -> ChunkMap]
  /\ pc \in {"idle", "detect", "read", "version", "remove", "manifest"}
  /\ previous \in [Source -> ChunkMap]
  /\ changed \subseteq Source /\ deleted \subseteq Source
  /\ toRead \subseteq changed /\ read \subseteq changed
  /\ candidates \in [Source -> ChunkMap]
  /\ toVersion \subseteq Slot /\ toPersist \subseteq Slot
  /\ failed \in BOOLEAN /\ touched \in BOOLEAN
  /\ status \in {"never", "ok", "partial", "error", "thrown"}
  /\ past \in [Source -> [Index -> SUBSET Body]]
  /\ retired \in [Source -> [Index -> SUBSET Body]]
  /\ seen \in [Source -> SUBSET Content]
  /\ edits \in 0 .. world.edits
  /\ faults \in 0 .. world.strikes

\* A chunk reaches the repository only after its version is on disk, so a
\* stored body is always one the tracker knows: whatever else fails, and
\* wherever a crash falls, short of losing the tracker's own file to a torn
\* write or to a read that fails before recordVersion writes.
StoredIsRecorded ==
  world.faults \cap {"torn", "noVersions"} = {} =>
    \A s \in Source, i \in Index :
      store[s][i] # NoBody => store[s][i] \in RangeOf(versions[s][i])

\* Between runs the repository holds no chunk the manifest does not list:
\* only listed chunks are ever removed, so any other would stay for good.
\* A detection that throws, reads, version records and saves that fail, and a
\* tracker file that cannot be read leave none.  The rest may: a removal or a
\* manifest write that fails, a crash, and a snapshot or a manifest that
\* cannot be read, since a run then misses the deletions it should remove.
Orderly ==
  world.faults \subseteq {"detect", "read", "version", "save", "noVersions"}

NoOrphans ==
  Orderly /\ pc = "idle" =>
    \A s \in Source, i \in Index :
      store[s][i] # NoBody => manifest[s][i] # NoBody

\* Between runs a chunk the manifest lists is in the repository, with the
\* checksum the manifest gives and the tracker last recorded, if nothing but
\* detection, reads of the workspace and reads of the snapshot fail and no
\* removed chunk comes back.
ListedIsStored ==
  /\ world.faults \subseteq {"detect", "read", "noSnapshot"}
  /\ world.policy # "any" /\ pc = "idle"
  => \A s \in Source, i \in Index :
       manifest[s][i] # NoBody =>
         store[s][i] = manifest[s][i] /\ Latest(s, i) = manifest[s][i]

\* Between runs the repository holds, for every file, exactly the chunks of
\* the content the detector last saw.
InStep ==
  pc = "idle" => \A s \in Source : store[s] = Image(s, snapshot[s])

\* Nothing fails, runs see no edit and no removed chunk comes back.
Calm == world.faults = {} /\ ~ world.inRun /\ world.policy # "any"

\* The repository once the removals a run has decided on are done.
Settled == IF pc = "remove" THEN WithoutRemoved(store) ELSE store

Mirror == INSTANCE WorkspaceMirror
            WITH files <- IF Calm THEN workspace ELSE NoFiles,
                 chunks <- IF Calm THEN Settled ELSE NoneListed,
                 ImageOf <- Image

\* In a calm world the pipeline implements WorkspaceMirror: a run changes
\* nothing a reader could tell from a lag, then catches up with the whole
\* workspace in the step that saves the new chunks.
ImplementsMirror == Mirror!Spec

\* A changed file that could not be read costs no stored chunk.
UnreadKeepsChunks ==
  [][\A s \in changed \ read :
       "torn" \notin world.faults => store'[s] = store[s]]_store

\* Once the workspace is left alone the repository comes to mirror it, the
\* edits made in the middle of runs included, as long as nothing fails and no
\* content comes back.
Converges ==
  world.policy = "fresh" /\ world.faults = {} =>
    <>[](\A s \in Source : store[s] = Image(s, workspace[s]))
=============================================================================
