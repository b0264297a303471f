# TLA+ models of the learning context system

The repository is a context engine for coding agents. It keeps an indexed mirror
of a workspace, remembers what agents learn, publishes knowledge to external
backends, selects what goes into a prompt, keeps versions of prompts, runs agents
whose code a gate tests and a loop repairs, and holds conversations about a
project. This directory has TLA+ specifications of its stateful parts, the TLC
configurations that check them and TLAPS proofs about them. Paths are relative to
the repository's root; the implementation is under `src/`.

The program is single-threaded JavaScript, so what happens between two `await`s
is one step and everything else may come in between: timers, other requests, a
failure of the file system, a crash. Nearly all state is in small files that are
read, changed and written back as a whole, without a lock. That is where this
code is hard to get right and hard to test, and what the modules are about.

## Inventory

### The parts, their state and operations

| part | state | operations |
|---|---|---|
| **sync runtime**: `src/sync/sync-runtime.js`, `change-detector.js`, `version-tracker.js`, `src/storage/chunk-repository.js` | four files of a project: snapshot, version records, chunks, manifest; the local variables of a run | `run()`: load manifest, detect changes, read and chunk, drop duplicates, record versions, save, remove, write manifest |
| **sync service**: `src/sync/sync-scheduler.js`, `drift-monitor.js`, `onTick` and `POST /api/sync` in `src/api/server.js` | `running`, counters, `lastSyncResult`, the drift history file | `runTick`, `start`, `stop`, `record` |
| **knowledge resolver**: `src/integrations/knowledge-resolver.js`, `knowledge-provider.js` | `pending.jsonl`, `quarantine.jsonl` of a project; retry timers | `sync`, `retryPending`, queue, quarantine |
| **memory**: `src/memory/local-memory-store.js`, `memory-hygiene.js` | `memories.jsonl`, `temp-memories.jsonl`, quarantine files, the file of the older layout | save, delete, search, migrate, purge, prune, compact |
| **memory clients**: `src/memory/*-memory-client.js`, `src/integrations/obsidian-provider.js`, `getMemoryClient` of `src/cli/app.js` | a cache of the vault per client; the local store, the Obsidian vault, the Engram battery | save, search, delete over stores asked at once or one after the other; refresh of the cache |
| **metrics**: `src/observability/metrics-store.js` | buffer, timer and flush in flight per file; `observability.json` | record, flush, report, shutdown hooks |
| **repair loop**: `src/orchestration/repair-loop.js` | the target file under a candidate; attempts, fingerprints; its task | overlay, gate, restore, next candidate, cancel |
| **agents and tasks**: `src/orchestration/agent-query-loop.js`, `nexus-agent-orchestrator.js`, `src/core/task.js` | task registry, rounds, abort signals | query, spawn, repair, cancel |
| **conversations**: `src/orchestration/conversation-manager.js`, `session-history.js`, `context-budget.js` | sessions, summaries, context cache; history lines and content blobs on disk; a chain of appends per session | create, add turn, build context, compact, expire, delete, append |
| **pipelines**: `src/orchestration/pipeline-builder.js`, `default-executors.js`, `POST /api/pipeline/run` | results of the steps; the chunk file of a project | ingest, process, store, recall; retry, pass over |
| **prompt versions, rollback, model settings**: `src/versioning/` | one file of all prompts, one file per prompt, snapshots, one file of settings | save, roll back, check and roll back, plan, update |
| **context selection**: `src/context/noise-canceler.js`, `context-mode.js` | the window under construction: selected, suppressed, counters | take, suppress, exchange, cover a required kind |
| guard, language model providers, search, text processing, gates of CI, command line | registries filled at start, or none | pure functions of text, or one request |

### How they interact

* The API server's timer and `POST /api/sync` both call the scheduler, whose flag
  lets one tick through; the tick calls `run()` of the sync runtime. The runtime's
  files are safe only because of that flag (`OneRunAtATime`).
* A query loop spawns an agent run, waits, and calls a repair loop; the three have
  a task each, and a cancellation must travel from the outer ones to the inner.
* The repair loop and the agent run share the workspace with their users and with
  the code gate, which compiles what is in it.
* Requests of several clients meet in the sessions of the conversation manager and,
  through the memory clients, in the files of the memory store.
* A pipeline's store step writes the chunk file that the sync runtime writes too.
* A memory client may call two stores for one command, and which of them answered
  decides the id and the `degraded` mark that its caller goes by. The local store
  reads and writes a file that other commands read and write; the vault's notes are
  searched through a cache that every client has to itself.
* Windows of context hold workspace chunks, memories and turns of a conversation;
  what an endpoint requires is put in after the noise canceler has chosen.
* A rollback check evaluates, appends a snapshot and changes the prompt's file: three
  parts, each of which another request may use in between.

### What is hard, and the properties that make each part correct

* Sync runtime: four files written at different moments. Wherever a run stops, a
  stored chunk must be one the tracker knows; nothing may stay in the repository
  that no later run removes; a file that cannot be read must not lose its chunks;
  and edits made while a run is reading must be caught up with.
* Sync service: no two runs at a time, whoever asks; the flag lowered after every
  failure; the answer and the drift report tell of the run they claim to.
* Resolver: an entry reported as queued is kept until it is taken or quarantined,
  though two files are involved; it is taken once; the queue drains.
* Memory: what was saved is kept through every hygiene command and the migration,
  what was deleted or has expired stays away, the temporary file keeps its limit.
* Metrics: counted once, in order, never dropped by a failed write, never left
  waiting.
* Repair loop and agents: the file is put back however a loop ends; code handed out
  as repaired has passed the gate; cancellation reaches what runs inside; every
  query ends.
* Pipelines: what is answered 200 has been stored, however often a step was tried;
  a pipeline and a run of the synchronisation take nothing from each other's chunks
  as long as they do not meet.
* Memory clients: an id that was given out names a memory, a save that is not called
  degraded is everywhere, and a search that is not called degraded misses nothing but
  what its client cannot have seen.
* Versions: numbers are used once, also where prompts share a file; what was answered
  stays, a check undoes what it found; the plan proposes the best version that is good
  enough.
* Context selection: the counters are right and the limits hold through exchanges, no
  chunk is lost between the two lists, a required kind is never given up for another.
* Conversations: budget, count and limit all prune the same turns, and together
  they may forget only what the cap on the summary cuts off, the oldest first; no
  context is built from a stale cache; the history keeps the order through failed
  appends.

`PROJECT.json` lists every hazard at its line, with the properties that cover it
or the reason why none does.

## The modules

| module | models | state corresponds to |
|---|---|---|
| `SyncRuntime` | one project's `run()`, one step per await | `snapshot`, `versions`, `store`, `manifest` are the four files; `previous`, `changed`, `deleted`, `read`, `candidates`, `toPersist` the locals of a run; `pc` its stage; `past`, `retired`, `seen` are history for the edit policies |
| `WorkspaceMirror` | what the pipeline promises: the repository lags behind the workspace and catches up at once | `files`, `chunks` |
| `..._proofs` | theorems about the module of that name; "What is proved" says where those of `SyncService`, `ContextSelection` and `MetricsStore` are | |
| `SyncService` | scheduler, `onTick`, drift history, `POST /api/sync` | `stage` is where each caller is in its tick, `served` and `reported` what it asked for and was told |
| `KnowledgeResolver` | `sync()`, retry loops, both files | `stage`, `copy` of a call; `loop`, `due`, `keep`, `expired`, `seen` of a loop; `queuedAt`, `delivered` are history |
| `DeliveryQueue` | what the dead letter queue promises: from caller to queue, from queue to backend or quarantine, never back | `place` |
| `MemoryStore` | the store and hygiene of one project | `durable`, `temp`, `quar`, `legacy` are files; `checked` is `migrationChecked`; `pc`, `hold`, `small`, `out` the operation a worker is in |
| `MetricsStore` | the buffer, its timer and flush, several processes on one file | `file` is the sequence of metrics counted |
| `RepairLoop` | loops on one target file | `target` is the file, `saved` `originalCode`, `at` the await a loop is in |
| `AgentQuery` | extends `RepairLoop` with the query loop and its agent runs | a query's repair loop is the one of the same name |
| `Conversation` | sessions, the context cache, requests, the chain of appends and the blobs | `memory` is a session's turns, the lines of its summary and counters; `call` the turn and the context a request waits with; `queue`, `stage` the chain; `file`, `blob` the disk; `said` is history |
| `Pipelines` | extends `SyncService` with the pipelines of the same server and the chunk file both write | `file` is the chunk file, under each id a chunk and who wrote it; `section` the save or removal each writer is in; `pc`, `attempt`, `results` the locals of `runPipeline`; `last`, `kept` are history |
| `MemoryClients` | the chains of clients that a command builds, over three stores | `op` is the call a command makes: its tiers, the stores it waits for, those that answered, the local file as it read it; `held` the stores; `filled`, `cache`, `poll` a client's cache of the vault and its refreshes; `home`, `whole`, `deleted`, `raced`, `seen` are history |
| `PromptVersions` | the three stores of versions, rollback checks, the rollback plan | `files` are the files, by slug in the store that has a file per name, `latest` the last snapshot's score, `request` where a request is; `answered` is history |
| `ContextSelection` | the window of one request, chunk by chunk | the variables of `selectContextWindow` and `enforceSddCoverage` by their names; `at` the loop it is in, `left` what is left of it |
| `MC...` | instances of the above for TLC | |

Operations keep the names the code gives them where a TLA+ action stands for one.
A definition whose comment begins "Mutant of" is a wrong form of its neighbour, used
to see that a property can fail.

### Worlds

Most modules have a variable `world` that never changes: a record of what may
happen in a behaviour, such as the failures (`faults`), their number (`strikes`),
which edits users make, which operations are used. The constant `World` gives the
set of worlds and a behaviour starts in any of them, so that one run of TLC asks
the same question under several assumptions. A property that needs an assumption
says so in its own text, e.g. `world.faults = {} => ...`, and the theorems keep
it as a hypothesis. Refinement mappings are made constant outside their worlds.

## Runs

| run | result | what it shows |
|---|---|---|
| `sync` (`SyncRuntime.cfg`) | passes | Six worlds from a calm one to crashes, torn writes and files that cannot be read for a moment. Stored chunks are recorded, short of a tracker file that is torn or taken for empty; nothing is orphaned when a detection that throws, reads, version records, saves and reads of the tracker are all that fails; listed chunks are stored if only detection and reads of the workspace or the snapshot fail and nothing comes back; an unread file keeps its chunks; a calm pipeline implements `WorkspaceMirror`; with edits in the middle of runs the repository still converges to the workspace. |
| `sync_refill` | violates `InStep` | A chunk that is removed and comes back with its last recorded checksum is never stored again. |
| `service` (`Pipelines.cfg`) | passes | Four worlds of one server: the synchronisation alone with two clients, the timer, `start`, `stop` and a drift file that may fail; two pipelines; a pipeline and a tick that share the chunk file; a pipeline whose writes may fail. In all of them two documents may share an id, a file may be unreadable and a step may never be attempted. |
| `resolver` | passes | Three worlds, calls and retry loops one at a time: a backend that refuses or is ill, one whose answers get lost, and crashes and file accesses that fail. What is queued is kept; each failure costs at most one more delivery; implements `DeliveryQueue`; the queue drains. |
| `resolver_overlap` | violates `QueuedIsKept` | Two calls of `sync` that overlap: both read the queue file, and the second to write drops the first one's entry. A retry loop does the same. |
| `memory` | passes | Five worlds: all operations, crashes and failing writes, the migration crashing anywhere, two workers with torn writes, searches of all projects. |
| `metrics` | passes | Four worlds: one process, failing writes and slow flushes, kills, two processes on one file. |
| `agents` | passes | Loops on a file that exists or not, with every failure and cancellation; two loops on one file; a query with agent run and repair, cancelled at any moment. |
| `conversation` | passes | Seven worlds: three retention policies, a summary at its cap with equal turns, budgets, failures of the history, two sessions that share a blob; two requests at a time. |
| `clients` (`MemoryClients.cfg`) | passes | Every mode of the client, two commands at a time; any store fails at any call, before or after it took effect; a refresh of the vault's cache comes late. |
| `versions` (`PromptVersions.cfg`) | passes | Seven worlds, in which two prompts share a slug: each store with requests one at a time, with overlapping requests, with reads that fail and writes that leave the file cut. |
| `context` (`ContextSelection.cfg`) | passes | Every request of up to five of eleven chunks, three budgets, three limits, with caps and without, two reserves, two lists of required kinds. |

The runs that are violated check a sentence of the repository's own documents; the
findings in `PROJECT.json` quote it and give the line of the code.

A type invariant is checked where it carries a bound of the code: `MemoryStore`'s
(the temporary file keeps its limit) and `MemoryClients`' (the battery never holds
what the local store took). The other modules' types are theorems, or lemmas of
theorems.

### Bounds, and why they are enough

* `sync`: two or three paths (one of a kind that is left out), up to four contents
  that share chunks, a blank chunk and a near duplicate; up to four edits and two
  failures. Paths meet only in the deduplication, the lists of a run and in the
  files, so two show every interplay; removal and return of a chunk take three
  edits, and the fourth falls in the run that handles it.
* `service`: two clients and the timer, three ticks, a history of two: enough for
  the history to be cut and for a tick to follow a failed one. Two documents, one of
  them put aside by the hygiene gate, one chunk of the synchronisation: writers that
  take chunks from each other need one chunk each. The texts of both documents have
  one id. The pipelines are the default one, one with retries, one of optional and
  unknown steps and one whose retries are not a number.
* `resolver`: three entries, one refused for good, two loops, a TTL of three and a
  clock up to five. Back-off reaches its maximum and items expire in a queue with
  another that has not. `LastSend` ends new entries so that the last one can expire
  before the clock stops.
* `memory`: two durable, two temporary, a noisy, two old memories and one created by
  a compaction, of which two durable ones, a temporary one and the summary share a
  topic; one place for temporary memories, so that the second displaces the
  first; at most two copies of a memory in a file (`MaxCopies`).
* `metrics`: four metrics with a threshold of two: a buffer fills while a flush of
  the one before is in flight.
* `agents`: three texts with two different failures and a pass, at most two
  iterations and two rounds: enough for no progress, for the last attempt and for a
  second agent run.
* `clients`: two commands, two memories, three calls and one refresh. A note can be
  written over by the other memory of its title, a delete can meet a save and a search
  in every order, two calls can have read the local file before either writes it, and
  a chain has at most three tiers.
* `versions`: two prompts of one slug, two contents, two requests, at most three
  versions in a file: a check needs a drop after two versions and room for what it
  puts back. Scores are 0, 1 and 2, with a threshold of a tenth.
* `context`: the eleven chunks differ in origin and kind and are close in score,
  size and text, one of them empty, so that all reasons for suppression occur, and
  exchanges follow one another. Five chunks of them are enough for a window of three
  workspace chunks, a memory to exchange and a kind to cover.
* `conversation`: up to seven turns with a limit of four and summaries of every
  third: every order of pruning by budget, count and limit occurs; a summary has room
  for two or three lines, so that it overflows; three failures
  are enough for a blob cut short, begun again and cut short again.

### Fairness

Only the runs with liveness assume any.

* `sync`: the scheduler starts runs again and again, and a run that has begun goes
  on (`WF` of `StartRun` and `RunStep`): a timer that is never stopped and promises
  that settle. Edits and failures have none, and are bounded in number.
* `service`: a tick goes on (`WF` of `TickStep` of each caller). The timer and
  clients owe nothing. In `Pipelines`, the awaits of a pipeline and of the file it
  writes settle too (`WF` of `RunStep` and `SyncWrites`).
* `resolver`: the clock and every call go on; retry loops are started over and over
  (`SF`, since each waits for the others in a world without overlap), as the
  interval timer of a resolver does; and a loop does not find the backend ill every
  time (`SF` of `Healthy`). Without the last, `Drains` is false: expired items leave
  the queue only if the backend is healthy.
* `metrics`: timers fire and a flush goes on. `agents`: file operations, gates,
  agent runs and repairs return; cancellation has no fairness.

## What is proved

Each theorem holds for all values of the constants, from the assumption on them
that its component's module names (`SyncConstants`, `ServiceConstants`,
`PipelineConstants`, `ResolverConstants`, `MemoryStoreConstants`, `MetricsConstants`,
`RepairConstants` and `QueryConstants`, `ConversationConstants`, `ClientConstants`,
`VersionConstants`, `SelectionConstants`). The argument is the same each time: an
invariant that is stronger than the property, true at first, kept by every action
(one step of the proof each) and implying the property. Three modules of proofs have
a second component's with those of the one they are named for: the sync service's
are in `Pipelines_proofs`, since `Pipelines` extends `SyncService`; the context
window's in `Conversation_proofs`, both being about what goes into a prompt; and the
metrics store's in `MemoryClients_proofs`.

Of the properties that the passing runs check, the theorems state every invariant,
both action properties and both refinements. Liveness (`Converges`, `NeverStuck`,
`Drains`, `Flushes`, `QueryEnds`) is model-checked only: the prover has no rules for
`ENABLED`, which fairness is about.

### Synchronisation

`SyncRuntime_proofs`, for all sources, contents, chunkings, worlds and bounds:

* `TypeCorrect`: `Spec => []TypeOK`. Types are not inductive: a version record gets
  the checksum of a candidate, which is a body only because slots to version were
  taken from the candidates of files that were read, and those do not change after
  the reading stage. `Shaped` adds this.
* `StoredAlwaysRecorded`: `Spec => []StoredIsRecorded`. What is about to be saved
  (`toPersist`) was recorded before; `Recorded` says so of slots to persist and of
  the store together, since the save makes the first into the second.
* `NeverOrphans`: `Spec => []NoOrphans`. `OrphanFree` follows a stored chunk through
  a run: it is listed in the manifest the run loaded, or is one the run saved and
  will list; `Located` says that the snapshot has every listed file or the run knows
  that it is gone, which a snapshot that is taken for empty would break; the lemma
  `SurvivorsListed` says that what the removal leaves is in the manifest the run
  then writes.
* `ListedAlwaysStored`: `Spec => []ListedIsStored`, for worlds in which nothing but
  detection and reads of the workspace or the snapshot fail. A run takes a candidate
  whose checksum is the last on record for one that is stored. `Tracked` says why
  that is right while no chunk comes back: the versions on record of a slot without
  a chunk are retired (`Retirement`), a candidate is not (`Remembered`), so it is
  new to the tracker (`Unlisted`) or stored (`LookedUp`); `ListHeld` carries the
  conclusion through the stages to the next manifest. The run `sync_refill` shows
  what becomes of it when a chunk does come back.
* `UnreadAlwaysKept`: `Spec => UnreadKeepsChunks`, an action property.
* `MirrorImplemented`: `Spec => ImplementsMirror`. Every step is an edit, the save that
  brings the repository level with the whole workspace, or changes nothing of the
  mirror; for the removal that is so because the mapping counts chunks as gone when
  the run has decided to remove them. It rests on the invariants above and on
  `CalmFiles`, which relates manifest and candidates to the snapshot.

`Pipelines_proofs`, of the service, for any number of clients and ticks:

* `TypeCorrect`, with the limit of the drift history (`RecordedType`);
  `NeverTwoRuns`: `Spec => []OneRunAtATime`; `OwnRunAlwaysReported`:
  `Spec => []OwnRunReported`. `Guarded` relates the flag to the stages of all
  callers, and `Owned` follows one request: from its begin to its end its tick is the
  last one begun, and once the run is over the result kept is that of this tick.

and of the pipelines, for any documents, pipelines, requests and worlds:

* `ServiceUnderneath`: `PipelineSpec => Spec`, where `Spec` is that of `SyncService`:
  next to pipelines the synchronisation does what it does alone. With it the
  theorems above hold of the whole server, such as `OneRunHere`.
* `StoredAlwaysKept`: `PipelineSpec => []StoredIsKept`. `Files` adds what each writer is
  about to write: what its change makes of the saves and removals that returned.
* `AnswerAlwaysStored`: `PipelineSpec => []AnsweredIsStored`. `Carries` follows the
  documents along a chain of steps: what the step before returned has, after the
  first step, what there is to chunk and, from the second on, a chunk of each. Of the
  chunks that share an id the save leaves one (`Upserts`), and that one is what `Kept`
  finds in the file for all of them.
* `PipelineTypes`, of which the step's index within the pipeline is a part.

### Queues, memories and metrics

`KnowledgeResolver_proofs`, for any entries, loops, times and limits:

* `NothingEverLost`: `Spec => []NothingLost`, and `AlwaysTakenOnce`: `Spec =>
  []TakenOnce`. `Ordered` follows an item from the file through a loop and back:
  what a worker read is still what the file holds (`UpToDate`); due, kept and
  expired items are apart, and while they are offered the file names no entry that
  is neither among them nor taken (`Lists`); an entry is in one file (`Files`); what
  is still to be offered was taken no more often than something had failed
  (`Untaken`). What crashes and failing accesses can lose is past its TTL
  (`Traced`).
* `QueueImplemented`: `Spec => ImplementsQueue`: every step leaves `DeliveryQueue` as it
  is or moves entries along it. What a loop has taken from the file and not written
  yet (`InHand`) counts as queued.

`MemoryStore_proofs`, for any memories, workers, times, limits and worlds, from one
invariant, `StoreInv`:

* `StoreTypesHold`: `Spec => []TypeOK`, with the limit of the temporary file. It is not
  inductive without `Holdings` and `Local`: what a worker is about to write keeps the
  limit too.
* `AlwaysMigratesOnce`: `Spec => []MigratesOnce`. `Checks` says that a store which
  takes its files for migrated is right, or somebody is at it; `Files` says that the
  store has no old memory twice, in any interleaving; `Migrates` what a worker that
  is alone knows of the old file at every stage of a migration; `StaysDeleted` that
  no list in memory has what was deleted.
* `NothingEverLost`: `Spec => []NothingLost`. `Writes` and `Cleans` compare what a
  worker will write with what is on disk, operation by operation and stage by stage:
  a save leaves nothing out, a prune or a compact nothing that is not in quarantine
  or about to be. A memory that a full temporary file gives up is displaced: those
  left are as young or younger, and as many as the limit.
* `SearchAlwaysFresh`: `Spec => []SearchFresh`. `Apart` says that temporary memories are
  in their own file alone, and that what a search has sorted out was alive when it
  began.

`MemoryClients_proofs`, of the clients, for any number of processes, titles and saves:

* `ShapeHolds`: types, and that a call's tiers are those of its command.
* `SavesAreKept`: `Spec => []SavesAreHeld`. `Kept` says of every store that has
  answered a call, of the call's memory and before the caller is told, that it holds
  the memory or has lost it for a reason: a delete of its id that was asked for, a note
  of the same title, or another call that had read the local file before the memory
  was in it and was about to write it (`raced`). For that, the copy of every call about
  to write the local file agrees with the file on all other memories (`CopyKept`), and
  what a client must have seen of the vault is in its cache and in what the refreshes
  of the cache have read (`CacheKept`). `Grows` is what all steps have in common, and
  the lemmas that end in `Stays` carry each part of `Kept` over such a step.
* `TypesHold`: `Spec => []TypeOK`. That the battery never holds what the local store
  took needs to know who can still save a memory: no two calls save the same one
  (`SavesPending`), and a save goes on to the battery only if the local store did
  not take it, nor a call has it in what it will write there (`SaveOnce`).
* `RecallAlwaysFinds`: `Spec => []RecallFinds`, of what was answered for by a store of
  the first tier; of the vault, by the time the client filled its cache or by the
  client itself. `FindsDue`: once that store has answered the search, the memory is
  among what was found, or was lost meanwhile.

and of the metrics store, for any processes, metrics, thresholds and failures:

* `MetricsTypesHold`; `OrderAlwaysKept`: `MetricsSpec => []KeptInOrder`. A flush
  writes what it has loaded, which another process may have overtaken, so `InOrder`
  speaks of the file and of every copy a flush has loaded: what a process holds
  comes after what there is of it in each. `Complete` says where the metrics are,
  `Fresh` that a lone process has loaded what the file still is.
* `HistoryAlwaysKept`: `MetricsSpec => HistoryKept`, an action property, from `Fresh`.

### Agents

`AgentQuery_proofs`, for any loops, texts, gates, rounds and failures:

* `TypesHold`; `AlwaysRestored`: `Spec => []TargetRestored`. `Original` says where the
  original is: in the target or, while a loop with a target is in its gate, saved.
* `PassAlwaysTested`: `Spec => []PassIsTested`. `Tested` relates the verdict to the
  candidate from the overlay until the file is put back.
* `CancelAlwaysReachesAll`: `Spec => []CancelReachesAll`. `Running` says which tasks may
  run where the query is; a loop whose gate threw is the one that ends with its task
  running, and its query ends with it.
* They need that a loop is started by callers or by a query and not by both, which is
  part of `QueryConstants`.

### Prompts

`PromptVersions_proofs`, for any clients, prompts, contents and bounds, from
`VersionInv`:

* `VersionsAlwaysCount`: `Spec => []VersionsCount`. The keyed store takes the greatest
  number of the prompt and adds one, the other stores that of the file's last entry;
  `CurrentIsCount` shows that in a file whose versions count this is how many there
  are, of the prompt or of the file, and the invariant asks the same of all that
  requests are about to write, whatever became of the file since they read it.
* `AnswerAlwaysKept`: `Spec => []AnswerIsKept`. `Keeps`: what was answered is also
  in what is to be written next.
* `CheckAlwaysUndoes`: `Spec => []CheckUndoes`, for requests that do not overlap.
  `Undone` follows a check from the history it reads to what it writes, over its own
  awaits and reads that fail.
* `PlanAlwaysBest`: `Spec => []PlanIsBest`. The order of the candidates, by score
  and then by version, has a first element in every set of versions
  (`GreatestExists`).

`Conversation_proofs`, of conversations, for any sessions, requests and policies:

* `NeverForgets`: `Spec => []NothingForgotten`. Pruning moves the first turns to the
  summary, where equal lines are one and the cap keeps the latest: a turn is told of by
  its own line or an equal one's, or all lines left are later (`Told`, which
  `PruneKeeps` carries over a pruning). The bound on the turns is not
  inductive, since `lastSummary` does not move when there are too few turns to
  prune and compaction prunes without moving it; `Paced` is: turns beyond those to
  keep came since the last summary, and if `summaryEvery` came since, there are none.
* `CacheAlwaysCurrent`: `Spec => []CacheIsCurrent`: the cache is what would be built
  now, and what a waiting request was given ends with its own turn.
* `HistoryAlwaysTellsAll`: `Spec => []HistoryTellsAll`. `Ordered` says of lines on
  disk and turns that wait that both ascend and the second come after the first,
  whatever failed; `Complete` that, without faults, they are all the turns;
  `Readable` that a line which needs the blob is written only once the blob is whole
  or some session is about to make it so.

and of the context window, for any chunks, scores, budgets, limits and kinds:

* `SelectionTypesHold`, and `WindowWithinLimits`: `SelectionSpec => []WithinLimits`. An
  exchange keeps the number of workspace chunks, and what a required kind adds is
  within the limit on chunks or takes another's place.
* `EveryChunkAccounted`: `SelectionSpec => []Accounted`: the selected, the
  suppressed and those not yet looked at are always all the chunks, and no two of
  them meet.
* `RequiredKindsCovered`: `SelectionSpec => []CoverageHolds`. The chunk that is given up
  for a kind is one whose own kind is not required or has another chunk in the window.
* `TokensAlwaysAddUp`: `SelectionSpec => []TokensAddUp`, of what is selected. The
  code keeps its sums by differences; the model's sum is a fold over a set. That the
  fold is defined, and that any element may be counted last, is proved without
  induction over data: a set for which it failed would have a smallest subset for
  which it fails.
* `AlwaysRoomForAll`: `SelectionSpec => []RoomForAll`. Sums of subsets are no
  greater, so if all chunks fit, what is selected leaves room for each of the
  others.

## What the models leave out

General: an interrupted write leaves a file empty (opened, not filled) or
complete; writes that go to a temporary file and are renamed are one step.
Formatting, logging and wording are left out everywhere.

* **Sync runtime.** A read of the snapshot, the manifest or the tracker's file that
  fails is taken for an empty file and goes unnoticed (`change-detector.js:35`,
  `sync-runtime.js:300`, `version-tracker.js:29`). The faults `noSnapshot`,
  `noManifest` and `noVersions` model that: with the first two, deletions are missed
  and their chunks stay for good, and with the third the history of a file's
  versions is lost with the next record; `NoOrphans`, `ListedIsStored` and
  `StoredIsRecorded` say in their text which of them they exclude. Detection is one
  step, which is sound because the detector reads each file once and a later edit of
  another path commutes with it; the order in which changed paths are read is
  abstracted. Chunking, redaction and tagging are the constant `ChunksOf`, near
  duplicates the constant `Near`. A change whose file cannot be read, or that was in
  a run that crashed, is not tried again before the file changes again: the snapshot
  has moved on. The properties that fail because of it are checked in the worlds
  without these failures.
* **Sync service.** The level of a drift snapshot is a function of the history and
  left out. A `POST /api/sync` that finds a tick running answers 200 with the
  previous result although `src/interface/nexus-openapi.js` calls that answer
  "Sync started and completed". If the record of drift fails, a run that succeeded is
  counted as failed, and one that failed is recorded a second time (`server.js:1541`
  and `1583`).
* **Pipelines.** A document has one chunk, and a file that cannot be read has one
  that tells of it (`markdown-adapter.js:256`). Ids may collide (the constant
  `IdOf`): of the chunks of a save that share one, one stays, although the result of
  the step and the answer list both. A step whose retries are not a number is never
  attempted, and an answer of 200 after it says nothing: `AnsweredIsStored` is about
  pipelines without one. Writers of the chunk file that overlap, or a write that
  fails after the file was cut, lose chunks, which is why `StoredIsKept` is about
  the calm world. An optional `process` that fails makes `store` fall back to the
  input of the request: it finds no chunks there, stores nothing, and the answer is
  200.
* **Memory clients.** A save or delete of the local store is two steps, a read of the
  file and the write of what it read with the change; the vault is read once into a
  cache, which a later refresh (`refreshCache`) replaces by what it read, and a write
  to the vault is one step. Ranking, duplicates and the limit of a search, `list`,
  `health`, sessions, temporary memories and their eviction are left out
  (`MemoryStore` has the latter), as are the sectors in the path of a note; the calls
  of one client come one after the other, and all notes are read at one moment.
  `teach` is not a mode of its own: it is always handed a client (`src/cli/app.js`).
  Two saves of one title in one millisecond have one id: a delete by it takes both,
  which counts as asked for. Worth knowing: two commands that
  save to the local store at a time may lose one of the memories, answered or not; a
  long-lived client does not find what others put into the vault before its next
  refresh; what was saved in the battery alone is not searched once the primary store
  answers again; and a delete by an id of the local store leaves the note in the vault.
* **Versions.** Prompts whose names have one slug share a file
  (`prompt-versioning.js:24`): their versions are counted together, and a check of one
  of them may put back what was saved for the other. A read that fails counts as an
  empty file, and the next save begins again at 1: `AnswerIsKept` is about worlds
  without failures. Two checks that notice the same drop roll back twice, which puts the
  bad version back; a drop after a rollback restores the content that was rolled
  back; saves that overlap give one id two contents; a file that cannot be parsed
  counts as empty and the next save overwrites it. `saveSnapshot` ignores the
  `baseDir` that `getScoreTrend` uses, and `rollbackModelConfig` has no caller: both
  are left out.
* **Context selection.** The chunks of a request are a set, so equal scores fall
  either way; equal ids and custom scorers are left out (`context-mode.js` passes
  `customScorers`, but `scoreChunk` never gets them). An exchange looks neither at
  noise nor at redundancy and tries the lowest memory only, and coverage ignores the
  caps on origins. `docs/adr-tight-window-rebalance.md` allows the exchange in tight
  implementation windows only; the code makes it in any window for a lead of twelve
  hundredths.
* **Resolver.** Configuration, search, list, delete and the local provider's own
  file are not modelled; attempts of one `withRetry` are one step. The time of an item
  is taken when the queue is read. A call that was delivered and then cannot read the
  queue for its answer puts the entry into the queue again
  (`knowledge-resolver.js:689`, the action `ListFails`), which costs a second delivery.
  Overlapping loops are in the run that fails only.
* **Memory.** `NothingLost`, `MigratesOnce` and `SearchFresh` are about operations
  one after the other, the last about searches that name a project; where operations
  overlap only the limit of the temporary file is checked. One project; equal ids,
  title-only groups of a compaction, lines that cannot be parsed and the scores
  behind a candidate are left out, and a search reads both files in one step. Worth
  knowing: a migration whose rename fails brings deleted memories back; a compact
  that crashes between its writes loses sources; quarantined temporary memories stay
  in `temp-memories.jsonl`; and a prune copies active temporary memories to
  `memories.jsonl`, where they never expire (`memory-hygiene.js:999`).
* **Metrics.** The figures computed from the counters. A store that cannot be read
  is overwritten by one batch, and two processes overwrite each other's counts: the
  properties are stated for one process whose file can be read. `Kill` stands for a
  crash and for the `process.exit` of `src/api/start.js`.
* **Repair loop and agents.** The gate is the constant `Verdict`; which repair is
  found is a choice; local agents do no I/O and are part of the step that calls
  them. A failed restore leaves the candidate in the file; an exception of the gate
  leaves the loop's task running; a loop cancelled in its gate may still answer
  "pass". The query loop calls it without a `targetPath` (`agent-query-
  loop.js:243`), so the gate looks at the workspace instead of the candidate, and
  text that nobody tested can be handed out as repaired. A client that goes away is
  an abort. The target is read and put back as UTF-8, which loses bytes that are not
  (`repair-loop.js:77`, `95`): a text here stands for a file that is. A stream whose
  response is destroyed before the socket's close event is heard
  (`api/commands/agent.js:233`) abandons the query at a `yield`, with its task left
  running; this, a crash inside a gate, the removal of old tasks, swarms and event
  streams are not modelled.
* **Conversations.** The summary is a set of lines: of equal turns that are pruned
  together the first keeps its line, which is clipped (220 characters), and the cap
  of 8000 characters is `summaryMost` lines, all of one length. What is cut off is
  forgotten: `NothingForgotten` says that it is the oldest. An answer is built from
  the context that was current when its request's turn was added; what other
  requests add during the recall is not in it, and `CacheIsCurrent` says no more
  than that the context ends with the own turn. A line that is too long is in the
  history as a preview without a blob. Left out are the wording of a summary,
  contradictions, noise figures, eviction from the cache at its limit, and the
  reading of a history. The cache is keyed by the session alone, as it is for
  requests within one millisecond. A line cut just before its end mark counts as
  unreadable. A blob cut short is taken for whole by every later turn; the property
  is stated without faults.

Not modelled: the code gate (it runs compilers), the guards, text processing,
search and ranking (pure functions of text or numbers), language model and knowledge
providers (requests to services), the workflow engine and its actions (a sequence of
runs of the command line, whose exit codes nobody looks at, so that an error of an
action counts as success: no state to model), live metrics and traces (single synchronous
updates), evaluation, CI and the command line (one-shot scripts).

## Plan

The order was: sync runtime and its promise, the service that drives it, the other
file-backed stores (resolver, memory, metrics), agents, conversations, and then what
connects them: memory clients over several stores, pipelines next to the
synchronisation, versions and rollback, the context window. What is left, in this
order:

1. **Composition** of `SyncService` with `SyncRuntime`: a tick is a run. The service
   stands for its run by one step with any result, and `Pipelines` by one save and
   one removal.
2. **Theorems** about that composition: what `SyncRuntime` promises holds of the runs
   that the service starts, and the worlds in which no two runs overlap are those of
   `OneRunAtATime`.
3. **Providers**: the retries of a sync within one `withRetry`, which are one step in
   `KnowledgeResolver`.
