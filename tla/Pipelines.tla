----------------------------- MODULE Pipelines -----------------------------
(***************************************************************************)
(* The pipelines of POST /api/pipeline/run and the synchronisation of the  *)
(* same server (SyncService) share the chunk file of a project.  A save or *)
(* a removal of the repository reads the file, changes what it read, and   *)
(* writes all of it back: writeFile first cuts the file to nothing.        *)
(*                                                                         *)
(* A pipeline is a sequence of steps that a request may choose; its        *)
(* executors are those of createDefaultExecutors.  Documents have one      *)
(* chunk each; of a file that cannot be read, the adapter makes one that   *)
(* says so.  Ids of chunks are made of names and headings, and two chunks  *)
(* may well have the same.                                                 *)
(***************************************************************************)
EXTENDS SyncService

CONSTANTS
  Doc,            \* documents and files that requests are about
  SyncDoc,        \* files of the synchronisation
  IdOf,           \* the id of each chunk
  Noise,          \* chunks that the hygiene gate of store quarantines
  Runs,           \* bound on the number of requests
  Pipeline,       \* the pipelines that requests choose from
  World           \* what may happen: every behaviour is in one of these

Run  == 1 .. Runs
Sync == Runs + 1                 \* the synchronisation as a writer
Writer == Run \cup {Sync}

Chunk == [of : Doc \cup SyncDoc, kind : {"text", "error"}]
Text(d)   == [of |-> d, kind |-> "text"]
Unread(d) == [of |-> d, kind |-> "error"]
Ids(chunks) == {IdOf[c] : c \in chunks}

\* What is in the chunk file, with who saved it.
Entry == [by : Writer, chunk : Chunk]

Type == {"ingest", "process", "store", "recall", "unknown"}

\* A step's id is its type; from = "" is a step without inputFrom.  Retries
\* are five at most; NoAttempt stands for those that are not a number, with
\* which the loop over the attempts makes none.
NoAttempt == 6
Step == [type : Type, from : Type \cup {""}, optional : BOOLEAN,
         retries : 0 .. NoAttempt]

WorldType ==
  [calm  : BOOLEAN,       \* writers do not meet and no write fails
   runs  : 0 .. Runs,     \* requests
   ticks : 0 .. MaxTicks, \* ticks that start a run
   saves : BOOLEAN]       \* and whether these find something to store

ASSUME PipelineConstants ==
  /\ DOMAIN IdOf = Chunk /\ Noise \subseteq Chunk
  /\ Runs \in Nat
  /\ Pipeline \subseteq Seq(Step)
  /\ World \subseteq WorldType

VARIABLES
  world,      \* the world of this behaviour; it never changes
  file,       \* the entries of the chunk file
  section,    \* the save or removal each writer is in
  last,       \* what the saves and removals that returned amount to
  kept,       \* chunks of a writer in the file it last wrote (only observed)
  swept,      \* how far the running tick is: 0, saved 1, removed 2
  pipeline,   \* the pipeline of a run, <<>> before the request
  request,    \* its input
  pc,         \* the step it is at
  attempt,    \* attempts of this step that failed
  results,    \* state.steps
  outcome     \* "none", "running", "ok" or "error"

runs     == <<pipeline, request, pc, attempt, results, outcome>>
disk     == <<file, section, last, kept>>
pipeVars == <<world, disk, swept, runs>>
allVars  == <<vars, pipeVars>>

\* What a step is given and returns: a path to ingest, documents, chunks,
\* and, once stored, what was put aside; found is what recall indexes.
Value == [path : SUBSET Doc, documents : SUBSET Doc, chunks : SUBSET Chunk,
          quarantined : SUBSET Chunk, found : SUBSET Chunk]
Input(path, documents) ==
  [path |-> path, documents |-> documents, chunks |-> {}, quarantined |-> {},
   found |-> {}]
Nothing == Input({}, {})

\* Entries that take the place of all those with some ids.
Change == [ids : SUBSET Ids(Chunk), saved : SUBSET Entry]
Apply(entries, change) ==
  {e \in entries : IdOf[e.chunk] \notin change.ids} \cup change.saved
Removal(chunks) == [ids |-> Ids(chunks), saved |-> {}]

\* save: of the chunks of one id the last one stays, whichever that is.
Upserts(w, chunks) ==
  {[ids |-> Ids(chunks), saved |-> {[by |-> w, chunk |-> c] : c \in one}] :
     one \in {k \in SUBSET chunks :
               /\ Ids(k) = Ids(chunks)
               /\ \A c, d \in k : IdOf[c] = IdOf[d] => c = d}}

Closed == [at |-> "none", change |-> Removal({}), payload |-> {}]

PipelineInit ==
  /\ Init
  /\ world \in World
  /\ file = {} /\ last = {}
  /\ section = [w \in Writer |-> Closed]
  /\ kept = [w \in Writer |-> {}]
  /\ swept = 0
  /\ pipeline = [r \in Run |-> <<>>]
  /\ request = [r \in Run |-> Nothing]
  /\ pc = [r \in Run |-> 1]
  /\ attempt = [r \in Run |-> 0]
  /\ results = [r \in Run |-> <<>>]
  /\ outcome = [r \in Run |-> "none"]
-----------------------------------------------------------------------------
(* The chunk repository *)

Others(w) == {x \in Writer \ {w} : section[x].at # "none"}

\* Mutant of Read: the chunks that are there are not kept.
ReadInserts(w, change) ==
  /\ section[w].at = "none"
  /\ world.calm => Others(w) = {}
  /\ section' = [section EXCEPT ![w] =
       [at |-> "read", change |-> change, payload |-> Apply({}, change)]]
  /\ UNCHANGED <<file, last, kept>>

\* readChunks: a file that is just being written is empty.
Read(w, change) ==
  /\ section[w].at = "none"
  /\ world.calm => Others(w) = {}
  /\ section' = [section EXCEPT ![w] =
       [at |-> "read", change |-> change, payload |-> Apply(file, change)]]
  /\ UNCHANGED <<file, last, kept>>

Cut(w) ==
  /\ section[w].at = "read"
  /\ section' = [section EXCEPT ![w].at = "cut"]
  /\ file' = {}
  /\ UNCHANGED <<last, kept>>

Fill(w) ==
  /\ section[w].at = "cut"
  /\ file' = section[w].payload
  /\ last' = Apply(last, section[w].change)
  /\ kept' = [kept EXCEPT ![w] = {e.chunk : e \in {x \in file' : x.by = w}}]
  /\ section' = [section EXCEPT ![w] = Closed]

\* The write fails, before or after the file was cut.
Break(w) ==
  /\ ~ world.calm
  /\ section[w].at \in {"read", "cut"}
  /\ section' = [section EXCEPT ![w] = Closed]
  /\ UNCHANGED <<file, last, kept>>
-----------------------------------------------------------------------------
(* The synchronisation *)

Syncing == \E c \in Caller : stage[c] = "run"

\* repository.save of the changed sources, then remove of the stale ones;
\* a removal that finds nothing to remove writes nothing.
SyncReads ==
  /\ Syncing /\ world.saves
  /\ \E docs \in SUBSET SyncDoc \ {{}} :
       LET chunks == {Text(d) : d \in docs}
       IN \/ /\ swept = 0 /\ swept' = 1
             /\ \E change \in Upserts(Sync, chunks) : Read(Sync, change)
          \/ /\ swept < 2 /\ swept' = 2
             /\ \E e \in file : IdOf[e.chunk] \in Ids(chunks)
             /\ Read(Sync, Removal(chunks))
  /\ UNCHANGED <<vars, world, runs>>

SyncWrites ==
  /\ Cut(Sync) \/ Fill(Sync) \/ Break(Sync)
  /\ UNCHANGED <<vars, world, swept, runs>>

\* The steps of the service.  A tick's run is over when its file is written.
ServiceStep(Step_) ==
  /\ Step_
  /\ runCount' <= world.ticks
  /\ Syncing /\ section[Sync].at # "none" =>
       \A c \in Caller : stage[c] = "run" => stage'[c] = "run"
  /\ swept' = IF Syncing THEN swept ELSE 0
  /\ UNCHANGED <<world, disk, runs>>
-----------------------------------------------------------------------------
(* runPipeline *)

\* POST /api/pipeline/run with documents, or with the path of a source.
RunPipeline(r) ==
  /\ outcome[r] = "none" /\ r <= world.runs
  /\ \E p \in Pipeline : pipeline' = [pipeline EXCEPT ![r] = p]
  /\ \E docs \in SUBSET Doc \ {{}} :
       \/ request' = [request EXCEPT ![r] = Input(docs, {})]
       \/ request' = [request EXCEPT ![r] = Input({}, docs)]
  /\ outcome' = [outcome EXCEPT ![r] = "running"]
  /\ UNCHANGED <<vars, world, disk, swept, pc, attempt, results>>

At(r) == pipeline[r][pc[r]]
Pending(r) == outcome[r] = "running" /\ pc[r] <= Len(pipeline[r])
Attempted(r) == Pending(r) /\ At(r).retries # NoAttempt

\* The result of an earlier step, or else the request's input.
StepInput(r) ==
  IF At(r).from \in DOMAIN results[r]
  THEN results[r][At(r).from] ELSE request[r]

InStep(r) == UNCHANGED <<vars, world, swept, pipeline, request>>

With(steps, id, value) ==
  [t \in DOMAIN steps \cup {id} |-> IF t = id THEN value ELSE steps[t]]

Return(r, value) ==
  /\ results' = [results EXCEPT ![r] = With(@, At(r).type, value)]
  /\ pc' = [pc EXCEPT ![r] = @ + 1]
  /\ attempt' = [attempt EXCEPT ![r] = 0]
  /\ UNCHANGED outcome
  /\ InStep(r)

\* Mutant of Throw: a step that fails for good is passed over.
ThrowSkips(r) ==
  /\ attempt' = [attempt EXCEPT ![r] = 0]
  /\ pc' = [pc EXCEPT ![r] = @ + 1]
  /\ UNCHANGED <<results, outcome>>
  /\ InStep(r)

\* An attempt fails: another one, or, of a step that is optional, none; a
\* step that is not ends the run.
Throw(r) ==
  /\ IF attempt[r] < At(r).retries
     THEN /\ attempt' = [attempt EXCEPT ![r] = @ + 1]
          /\ UNCHANGED <<pc, outcome>>
     ELSE /\ attempt' = [attempt EXCEPT ![r] = 0]
          /\ IF At(r).optional
             THEN pc' = [pc EXCEPT ![r] = @ + 1] /\ UNCHANGED outcome
             ELSE outcome' = [outcome EXCEPT ![r] = "error"] /\ UNCHANGED pc
  /\ UNCHANGED results
  /\ InStep(r)

\* A step without an executor.
Missing(r) ==
  /\ Pending(r) /\ At(r).type = "unknown"
  /\ IF At(r).optional
     THEN pc' = [pc EXCEPT ![r] = @ + 1] /\ UNCHANGED outcome
     ELSE outcome' = [outcome EXCEPT ![r] = "error"] /\ UNCHANGED pc
  /\ UNCHANGED <<disk, attempt, results>>
  /\ InStep(r)

\* A step that is not attempted returns nothing, under its id.
Unattempted(r) ==
  /\ Pending(r) /\ At(r).retries = NoAttempt /\ At(r).type # "unknown"
  /\ Return(r, Nothing)
  /\ UNCHANGED disk

\* An adapter reads chunks from the files of the path, of which it may be
\* unable to read some; documents pass.
Ingested(input) ==
  IF input.path # {}
  THEN {[Nothing EXCEPT !.chunks = {Text(d) : d \in input.path \ unread}
                                   \cup {Unread(d) : d \in unread}] :
          unread \in SUBSET input.path}
  ELSE {Input({}, input.documents)}

\* What an adapter has cut into chunks is not cut again.
Processed(input) ==
  IF input.chunks # {}
  THEN input
  ELSE [input EXCEPT !.chunks = {Text(d) : d \in input.documents}]

Ingest(r) ==
  /\ Attempted(r) /\ At(r).type = "ingest"
  /\ (\E value \in Ingested(StepInput(r)) : Return(r, value)) \/ Throw(r)
  /\ UNCHANGED disk

Process(r) ==
  /\ Attempted(r) /\ At(r).type = "process"
  /\ Return(r, Processed(StepInput(r)))
  /\ UNCHANGED disk

\* store gates what came from outside: chunks that an adapter has ingested,
\* or all of a request that names a path.
PutAside(input) ==
  IF input.documents = {} \/ input.path # {} THEN input.chunks \cap Noise
                                             ELSE {}
Accepted(input) == input.chunks \ PutAside(input)
Stored(input) == [input EXCEPT !.quarantined = PutAside(input)]

StoreReads(r) ==
  /\ Attempted(r) /\ At(r).type = "store"
  /\ Accepted(StepInput(r)) # {}
  /\ \E change \in Upserts(r, Accepted(StepInput(r))) : Read(r, change)
  /\ UNCHANGED <<vars, world, swept, runs>>

StoreNothing(r) ==
  /\ Attempted(r) /\ At(r).type = "store"
  /\ Accepted(StepInput(r)) = {}
  /\ Return(r, Stored(StepInput(r)))
  /\ UNCHANGED disk

StoreCuts(r) ==
  /\ Cut(r)
  /\ UNCHANGED <<vars, world, swept, runs>>

StoreWrites(r) ==
  /\ Fill(r)
  /\ Return(r, Stored(StepInput(r)))

StoreFails(r) ==
  /\ Break(r)
  /\ Throw(r)

\* load reads the file at once.
Recall(r) ==
  /\ Attempted(r) /\ At(r).type = "recall"
  /\ world.calm => Others(r) = {}
  /\ Return(r, [StepInput(r) EXCEPT !.found = {e.chunk : e \in file}])
  /\ UNCHANGED disk

Finish(r) ==
  /\ outcome[r] = "running" /\ pc[r] > Len(pipeline[r])
  /\ outcome' = [outcome EXCEPT ![r] = "ok"]
  /\ UNCHANGED <<vars, world, disk, swept, pipeline, request, pc, attempt,
                 results>>

RunStep(r) ==
  \/ Missing(r) \/ Unattempted(r) \/ Ingest(r) \/ Process(r)
  \/ StoreReads(r) \/ StoreNothing(r) \/ StoreCuts(r) \/ StoreWrites(r)
  \/ StoreFails(r) \/ Recall(r) \/ Finish(r)
-----------------------------------------------------------------------------
PipelineNext ==
  \/ SyncReads \/ SyncWrites
  \/ ServiceStep(Next)
  \/ \E r \in Run : RunPipeline(r) \/ RunStep(r)

PipelineSpec == PipelineInit /\ [][PipelineNext]_allVars

\* Every await of a tick and of a run settles.
FairPipelineSpec ==
  /\ PipelineSpec
  /\ WF_allVars(SyncWrites)
  /\ \A c \in Caller : WF_allVars(ServiceStep(TickStep(c)))
  /\ \A r \in Run : WF_allVars(RunStep(r))
-----------------------------------------------------------------------------
(* Properties *)

\* As long as writers do not meet in the chunk file and no write fails, the
\* file is what the saves and removals that returned amount to: a pipeline
\* and the synchronisation take nothing from each other.
StoredIsKept ==
  world.calm /\ (\A w \in Writer : section[w].at # "cut") => file = last

\* The default pipeline, and any other that ingests, processes and goes on,
\* each step from the one before it, none of them optional, and all of them
\* attempted.
Chained(p) ==
  /\ Len(p) >= 2 /\ p[1].type = "ingest" /\ p[2].type = "process"
  /\ \A i \in 1 .. Len(p) :
       /\ ~ p[i].optional /\ p[i].retries # NoAttempt
       /\ i > 1 => p[i].type # "ingest" /\ p[i].from = p[i - 1].type

\* Of document d the store step has put a chunk aside, or has left in the file
\* it wrote, under the id of that chunk, a chunk of this run.
Kept(r, d) ==
  LET store == results[r]["store"]
  IN \E c \in store.chunks :
       /\ c.of = d
       /\ \/ c \in store.quarantined
          \/ \E k \in kept[r] \cap store.chunks : IdOf[k] = IdOf[c]

\* A run of such a pipeline that is answered 200 has put aside or left in the
\* chunk file every document of its request, whether it had to retry or not: a
\* file it could not read as a chunk that says so, and of the chunks that share
\* an id one.
AnsweredIsStored ==
  \A r \in Run :
    outcome[r] = "ok" /\ Chained(pipeline[r]) /\ "store" \in DOMAIN results[r]
      => \A d \in request[r].path \cup request[r].documents : Kept(r, d)

=============================================================================
