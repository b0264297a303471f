-------------------------- MODULE Pipelines_proofs --------------------------
(***************************************************************************)
(* What the synchronisation of a server promises, for any number of        *)
(* clients and ticks, and what pipelines promise next to it, for any       *)
(* documents, pipelines, requests and worlds.                              *)
(***************************************************************************)
EXTENDS Pipelines, TLAPS, FiniteSetTheorems
-----------------------------------------------------------------------------
(* The synchronisation alone: SyncService *)

\* The history stays within its limit, and its snapshots are those it had and
\* the new one.
LEMMA RecordedType ==
  ASSUME NEW x \in Snapshot, history \in Seq(Snapshot),
         Len(history) <= MaxHistory
  PROVE  Recorded(x) \in Seq(Snapshot) /\ Len(Recorded(x)) <= MaxHistory
<1> DEFINE longer == Append(history, x)
           extra  == Len(longer) - MaxHistory
<1>1. longer \in Seq(Snapshot) /\ Len(longer) = Len(history) + 1
  OBVIOUS
<1>2. MaxHistory \in Nat \ {0}
  BY ServiceConstants
<1>3. Len(history) \in Nat
  OBVIOUS
<1>4. CASE extra > 0
  <2>1. extra = 1 /\ Len(history) = MaxHistory
    BY <1>1, <1>2, <1>3, <1>4
  <2>2. /\ SubSeq(longer, 2, Len(longer)) \in Seq(Snapshot)
        /\ Len(SubSeq(longer, 2, Len(longer))) = MaxHistory
    <3>1. Len(longer) = MaxHistory + 1
      BY <1>1, <2>1
    <3> HIDE DEF longer
    <3>2. QED
      BY <1>1, <1>2, <3>1
  <2>3. Recorded(x) = SubSeq(longer, 2, Len(longer))
    <3>1. Recorded(x) = SubSeq(longer, extra + 1, Len(longer))
      BY <1>4, Zenon DEF Recorded
    <3>2. extra + 1 = 2
      BY <2>1
    <3>3. QED
      BY <3>1, <3>2, Zenon
  <2>4. QED
    BY <1>2, <2>2, <2>3
<1>5. CASE ~ extra > 0
  BY <1>1, <1>2, <1>3, <1>5 DEF Recorded
<1>6. QED
  BY <1>4, <1>5

\* The flag is up exactly while a tick is between its begin and its end, there
\* is one such tick at most, and every other one is counted.
Guarded ==
  /\ running <=> \E c \in Caller : stage[c] # "idle"
  /\ \A c, d \in Caller : stage[c] # "idle" /\ stage[d] # "idle" => c = d
  /\ runCount = successCount + failureCount + (IF running THEN 1 ELSE 0)

\* What a client is told is known from the moment its tick begins: the tick is
\* the last one begun, and the result kept once it is over is that tick's.
Owned ==
  /\ \A c \in Caller : stage[c] \in {"record", "catch"} =>
       lastSync.tick = runCount
  /\ \A c \in Client : stage[c] # "idle" =>
       served[c] = runCount /\ ~ answered[c]
  /\ OwnRunReported

ServiceInv == TypeOK /\ Guarded /\ Owned

LEMMA InvInit == Init => ServiceInv
<1>1. Init => TypeOK
  <2> SUFFICES ASSUME Init PROVE TypeOK
    OBVIOUS
  <2>1. MaxTicks \in Nat /\ MaxHistory \in Nat /\ 0 <= MaxHistory
    BY ServiceConstants
  <2>2. lastSync \in Snapshot
    BY <2>1 DEF Init, Snapshot, Statuses, NoRun
  <2>3. history \in Seq(Snapshot) /\ Len(history) <= MaxHistory
    BY <2>1 DEF Init
  <2>4. diskFails \in BOOLEAN /\ timerOn \in BOOLEAN /\ nextRun \in BOOLEAN
          /\ running \in BOOLEAN
    BY Zenon DEF Init
  <2>5. /\ runCount \in 0 .. MaxTicks
        /\ successCount \in Nat /\ failureCount \in Nat
        /\ served \in [Client -> 0 .. MaxTicks]
        /\ reported \in [Client -> 0 .. MaxTicks]
    BY <2>1 DEF Init, NoRun
  <2>6. /\ stage \in [Caller -> {"idle", "run", "record", "catch"}]
        /\ answered \in [Client -> BOOLEAN]
    BY DEF Init
  <2>7. QED
    BY <2>2, <2>3, <2>4, <2>5, <2>6 DEF TypeOK
<1>2. Init => Guarded
  BY DEF Init, Guarded
<1>3. Init => Owned
  BY DEF Init, Owned, OwnRunReported, Caller
<1>4. QED
  BY <1>1, <1>2, <1>3 DEF ServiceInv

\* BeginTick, with the flag as its only guard, keeps the tick alone.
LEMMA BeginGuarded ==
  ASSUME ServiceInv, NEW c \in Caller, BeginTick(c)
  PROVE  Guarded' /\ (\A d \in Caller : stage[d] = "idle")
<1>1. \A d \in Caller : stage[d] = "idle"
  BY DEF ServiceInv, Guarded, BeginTick
<1>2. \A d \in Caller : stage'[d] # "idle" <=> d = c
  BY <1>1 DEF ServiceInv, TypeOK, BeginTick
<1>3. runCount' = successCount' + failureCount' + 1 /\ running'
  BY DEF ServiceInv, TypeOK, Guarded, BeginTick
<1>4. QED
  BY <1>1, <1>2, <1>3 DEF Guarded

\* The end of a tick, whichever way, lowers the flag for all.
LEMMA EndGuarded ==
  ASSUME ServiceInv, NEW c \in Caller, stage[c] # "idle",
         Succeed(c) \/ Fail(c)
  PROVE  Guarded'
<1>1. \A d \in Caller : stage'[d] = "idle"
  BY DEF ServiceInv, TypeOK, Guarded, Succeed, Fail, EndTick
<1>2. running /\ ~ running' /\ runCount' = runCount
  BY DEF ServiceInv, Guarded, Succeed, Fail, EndTick
<1>3. runCount' = successCount' + failureCount'
  <2>1. runCount = successCount + failureCount + 1
    BY <1>2 DEF ServiceInv, Guarded
  <2>2. successCount' + failureCount' = successCount + failureCount + 1
    BY DEF ServiceInv, TypeOK, Succeed, Fail
  <2>3. QED
    BY <1>2, <2>1, <2>2
<1>4. QED
  BY <1>1, <1>2, <1>3 DEF Guarded, ServiceInv, TypeOK, Succeed, Fail

\* The client of the tick that ends is told the tick it has begun.
LEMMA EndOwned ==
  ASSUME ServiceInv, NEW c \in Caller, stage[c] \in {"record", "catch"},
         UNCHANGED lastSync, Succeed(c) \/ Fail(c)
  PROVE  Owned'
<1>1. EndTick(c)
  BY DEF Succeed, Fail
<1>2. \A d \in Caller : stage'[d] = "idle"
  BY <1>1 DEF ServiceInv, TypeOK, Guarded, EndTick
<1>3. lastSync.tick = runCount
  BY DEF ServiceInv, Owned
<1>4. ASSUME NEW d \in Client, answered'[d], served'[d] # NoRun
      PROVE  reported'[d] = served'[d]
  <2>1. served' = served
    BY <1>1 DEF EndTick
  <2>2. CASE d = c
    <3>1. reported'[d] = lastSync.tick
      BY <1>1, <2>2 DEF EndTick, ServiceInv, TypeOK
    <3>2. served[d] = runCount
      BY <2>2 DEF ServiceInv, Owned
    <3>3. QED
      BY <1>3, <2>1, <3>1, <3>2
  <2>3. CASE d # c
    <3>1. answered[d] /\ reported'[d] = reported[d]
      BY <1>1, <1>4, <2>3 DEF EndTick, ServiceInv, TypeOK
    <3>2. QED
      BY <1>4, <2>1, <3>1 DEF ServiceInv, Owned, OwnRunReported
  <2>4. QED
    BY <2>2, <2>3
<1>5. QED
  BY <1>2, <1>4 DEF Owned, OwnRunReported, Caller

\* One step of a tick: it goes on to its next stage, or it ends.
LEMMA TickStepInv ==
  ASSUME ServiceInv, NEW c \in Caller, TickStep(c)
  PROVE  ServiceInv'
<1>1. stage[c] # "idle" /\ running
  BY DEF TickStep, RunReturns, RunThrows, Record, RecordFails, RecordError,
         RecordErrorFails, ServiceInv, Guarded
<1>2. runCount \in 0 .. MaxTicks
  BY DEF ServiceInv, TypeOK
<1>3. ASSUME NEW st \in {"record", "catch"}, NEW status \in Statuses,
             stage[c] \in {"run", "record"},
             stage' = [stage EXCEPT ![c] = st],
             lastSync' = [tick |-> runCount, status |-> status],
             InProgress, history' \in Seq(Snapshot), Len(history') <= MaxHistory
      PROVE  ServiceInv'
  <2>1. TypeOK'
    <3>1. lastSync' \in Snapshot
      BY <1>2, <1>3 DEF Snapshot
    <3>2. QED
      BY <1>3, <3>1
      DEF ServiceInv, TypeOK, InProgress, counters, answers
  <2>2. \A d \in Caller : stage'[d] # "idle" <=> stage[d] # "idle"
    BY <1>1, <1>3 DEF ServiceInv, TypeOK
  <2>3. Guarded'
    BY <2>2, <1>3 DEF ServiceInv, Guarded, InProgress, counters
  <2>4. Owned'
    <3>1. lastSync'.tick = runCount'
      BY <1>3 DEF InProgress, counters
    <3>2. QED
      BY <2>2, <1>3, <3>1
      DEF ServiceInv, Owned, OwnRunReported, InProgress, answers, Caller
  <2>5. QED
    BY <2>1, <2>3, <2>4 DEF ServiceInv
<1>4. ASSUME UNCHANGED lastSync, stage[c] \in {"record", "catch"},
             history' \in Seq(Snapshot), Len(history') <= MaxHistory,
             Succeed(c) \/ Fail(c)
      PROVE  ServiceInv'
  <2>1. TypeOK'
    <3>1. successCount' \in Nat /\ failureCount' \in Nat
      BY <1>4 DEF ServiceInv, TypeOK, Succeed, Fail
    <3>2. reported' \in [Client -> 0 .. MaxTicks]
      BY <1>4 DEF ServiceInv, TypeOK, Snapshot, Succeed, Fail, EndTick
    <3>3. QED
      BY <1>4, <3>1, <3>2 DEF ServiceInv, TypeOK, Succeed, Fail, EndTick
  <2>2. QED
    BY <1>1, <1>4, <2>1, EndGuarded, EndOwned DEF ServiceInv
<1>5. ASSUME stage[c] \in {"record", "catch"}, history' = Recorded(lastSync)
      PROVE  history' \in Seq(Snapshot) /\ Len(history') <= MaxHistory
  BY <1>5, RecordedType DEF ServiceInv, TypeOK
<1>6. ASSUME UNCHANGED history
      PROVE  history' \in Seq(Snapshot) /\ Len(history') <= MaxHistory
  BY <1>6 DEF ServiceInv, TypeOK
<1>7. CASE RunReturns(c)
  BY <1>3, <1>6, <1>7 DEF RunReturns, Statuses
<1>8. CASE RunThrows(c)
  BY <1>3, <1>6, <1>8 DEF RunThrows, ToCatch, Statuses
<1>9. CASE Record(c)
  <2>1. CASE lastSync.status = "error"
    BY <1>3, <1>5, <1>9, <2>1 DEF Record, ToCatch, Statuses
  <2>2. CASE lastSync.status # "error"
    BY <1>4, <1>5, <1>9, <2>2 DEF Record
  <2>3. QED
    BY <2>1, <2>2
<1>10. CASE RecordFails(c)
  BY <1>3, <1>6, <1>10 DEF RecordFails, ToCatch, Statuses
<1>11. CASE RecordError(c)
  BY <1>4, <1>5, <1>11 DEF RecordError
<1>12. CASE RecordErrorFails(c)
  BY <1>4, <1>6, <1>12 DEF RecordErrorFails
<1>13. QED
  BY <1>7, <1>8, <1>9, <1>10, <1>11, <1>12 DEF TickStep

LEMMA InvNext == ServiceInv /\ [Next]_vars => ServiceInv'
<1> SUFFICES ASSUME ServiceInv, [Next]_vars PROVE ServiceInv'
  OBVIOUS
<1>1. CASE TimerFires
  <2>1. BeginTick(Timer) /\ Timer \in Caller /\ UNCHANGED <<served, answered>>
    BY <1>1 DEF TimerFires, Caller
  <2>2. Guarded' /\ \A d \in Caller : stage[d] = "idle"
    BY <2>1, BeginGuarded
  <2>3. TypeOK'
    BY <2>1, ServiceConstants DEF ServiceInv, TypeOK, BeginTick
  <2>4. Owned'
    <3>1. \A d \in Client : stage'[d] = "idle"
      BY <2>1, <2>2, ServiceConstants DEF ServiceInv, TypeOK, BeginTick, Caller
    <3>2. \A d \in Caller : stage'[d] \notin {"record", "catch"}
      BY <2>1, <2>2 DEF ServiceInv, TypeOK, BeginTick
    <3>3. QED
      BY <2>1, <3>1, <3>2
      DEF ServiceInv, Owned, OwnRunReported, BeginTick
  <2>5. QED
    BY <2>2, <2>3, <2>4 DEF ServiceInv
<1>2. ASSUME NEW c \in Client, Post(c)
      PROVE  ServiceInv'
  <2>1. BeginTick(c) /\ c \in Caller
    BY <1>2 DEF Post, Caller
  <2>2. Guarded' /\ \A d \in Caller : stage[d] = "idle"
    BY <2>1, BeginGuarded
  <2>3. TypeOK'
    BY <1>2, <2>1, ServiceConstants DEF ServiceInv, TypeOK, BeginTick, Post
  <2>4. Owned'
    <3>1. \A d \in Caller : stage'[d] = IF d = c THEN "run" ELSE "idle"
      BY <2>1, <2>2 DEF ServiceInv, TypeOK, BeginTick
    <3>2. served'[c] = runCount' /\ ~ answered'[c]
      BY <1>2, <2>1 DEF ServiceInv, TypeOK, BeginTick, Post
    <3>3. \A d \in Client \ {c} :
            served'[d] = served[d] /\ answered'[d] = answered[d]
      BY <1>2 DEF ServiceInv, TypeOK, Post
    <3>4. reported' = reported
      BY <2>1 DEF BeginTick
    <3>5. QED
      BY <3>1, <3>2, <3>3, <3>4
      DEF ServiceInv, Owned, OwnRunReported, Caller
  <2>5. QED
    BY <2>2, <2>3, <2>4 DEF ServiceInv
<1>3. ASSUME NEW c \in Client, PostDropped(c)
      PROVE  ServiceInv'
  <2>1. TypeOK'
    BY <1>3, ServiceConstants
    DEF ServiceInv, TypeOK, PostDropped, Snapshot, NoRun, counters
  <2>2. Guarded'
    BY <1>3 DEF ServiceInv, Guarded, PostDropped, counters
  <2>3. Owned'
    BY <1>3
    DEF ServiceInv, TypeOK, Owned, OwnRunReported, PostDropped, NoRun, counters
  <2>4. QED
    BY <2>1, <2>2, <2>3 DEF ServiceInv
<1>4. CASE Start \/ Stop
  <2>1. UNCHANGED <<diskFails, running, runCount, successCount, failureCount,
                    stage, lastSync, history, served, answered, reported>>
    BY <1>4 DEF Start, Stop, counters, answers
  <2>2. timerOn' \in BOOLEAN /\ nextRun' \in BOOLEAN
    BY <1>4, Zenon DEF Start, Stop
  <2>3. TypeOK'
    BY <2>1, <2>2 DEF ServiceInv, TypeOK
  <2>4. Guarded' /\ Owned'
    BY <2>1 DEF ServiceInv, Guarded, Owned, OwnRunReported
  <2>5. QED
    BY <2>3, <2>4 DEF ServiceInv
<1>5. CASE UNCHANGED vars
  BY <1>5 DEF vars, ServiceInv, TypeOK, Guarded, Owned, OwnRunReported,
              counters, answers
<1>6. QED
  BY <1>1, <1>2, <1>3, <1>4, <1>5, TickStepInv DEF Next

LEMMA InvAlways == Spec => []ServiceInv
BY InvInit, InvNext, PTL DEF Spec

\* Types hold, the drift history keeps its limit.
THEOREM TypeCorrect == Spec => []TypeOK
<1>1. ServiceInv => TypeOK
  BY DEF ServiceInv
<1>2. QED
  BY <1>1, InvAlways, PTL

\* No two runs of the pipeline overlap, whichever of the timer and any number
\* of clients call runTick, and every run is counted once.
THEOREM NeverTwoRuns == Spec => []OneRunAtATime
<1>1. ServiceInv => OneRunAtATime
  <2> SUFFICES ASSUME ServiceInv PROVE OneRunAtATime
    OBVIOUS
  <2>1. CASE running
    <3>1. PICK c \in Caller : stage[c] # "idle"
      BY <2>1 DEF ServiceInv, Guarded
    <3>2. Ticking = {c}
      BY <3>1 DEF ServiceInv, Guarded, Ticking
    <3>3. Cardinality(Ticking) = 1
      BY <3>2, FS_Singleton
    <3>4. QED
      BY <2>1, <3>2, <3>3 DEF ServiceInv, Guarded, OneRunAtATime
  <2>2. CASE ~ running
    <3>1. Ticking = {}
      BY <2>2 DEF ServiceInv, Guarded, Ticking
    <3>2. Cardinality(Ticking) = 0
      BY <3>1, FS_EmptySet
    <3>3. QED
      BY <2>2, <3>1, <3>2 DEF ServiceInv, Guarded, OneRunAtATime
  <2>3. QED
    BY <2>1, <2>2
<1>2. QED
  BY <1>1, InvAlways, PTL

\* A client whose request started a run is told the result of that run.
THEOREM OwnRunAlwaysReported == Spec => []OwnRunReported
<1>1. ServiceInv => OwnRunReported
  BY DEF ServiceInv, Owned
<1>2. QED
  BY <1>1, InvAlways, PTL
-----------------------------------------------------------------------------
(* Pipelines *)

Section == [at : {"none", "read", "cut"}, change : Change,
            payload : SUBSET Entry]

DiskShape ==
  /\ world \in World
  /\ file \in SUBSET Entry /\ last \in SUBSET Entry
  /\ section \in [Writer -> Section]
  /\ kept \in [Writer -> SUBSET Chunk]

RunShape ==
  /\ pipeline \in [Run -> Pipeline \cup {<<>>}]
  /\ request \in [Run -> Value]
  /\ pc \in [Run -> Nat] /\ attempt \in [Run -> Nat]
  /\ outcome \in [Run -> {"none", "running", "ok", "error"}]
  /\ DOMAIN results = Run
  /\ \A r \in Run : \A t \in DOMAIN results[r] : results[r][t] \in Value
  /\ \A r \in Run : pc[r] >= 1 /\ pc[r] <= Len(pipeline[r]) + 1
  /\ \A r \in Run : outcome[r] = "none" => pc[r] = 1 /\ DOMAIN results[r] = {}

\* One writer at a time, whose payload is what its change makes of the file.
Serial ==
  world.calm =>
    /\ \A v, w \in Writer :
         section[v].at # "none" /\ section[w].at # "none" => v = w
    /\ (\A w \in Writer : section[w].at # "cut") => file = last
    /\ \A w \in Writer : section[w].at # "none" =>
         section[w].payload = Apply(last, section[w].change)

\* Whoever else writes, a payload has what its writer saves.
Files ==
  /\ Serial
  /\ \A w \in Writer : section[w].at # "none" =>
       section[w].change.saved \subseteq section[w].payload

\* Only a step of the type store that has something to store is in the file.
Owns ==
  \A r \in Run : section[r].at # "none" =>
    /\ Attempted(r) /\ At(r).type = "store"
    /\ Accepted(StepInput(r)) # {}
    /\ section[r].change \in Upserts(r, Accepted(StepInput(r)))

Stand(chunks, docs) == \A d \in docs : \E c \in chunks : c.of = d

\* Kept, of the result of a store step and what it left in the file.
KeptAs(store, left, d) ==
  \E c \in store.chunks :
    /\ c.of = d
    /\ \/ c \in store.quarantined
       \/ \E k \in left \cap store.chunks : IdOf[k] = IdOf[c]

\* What a chain of steps hands on: after the first step what there is to chunk,
\* after the second a chunk of every document.
Hands(v, asked, n) ==
  /\ v.documents \subseteq asked.documents
  /\ IF n = 1
     THEN /\ v.documents = asked.documents /\ Stand(v.chunks, asked.path)
          /\ asked.path = {} => v.chunks = {}
     ELSE Stand(v.chunks, asked.path \cup asked.documents)

Carries(r) ==
  Chained(pipeline[r]) =>
    /\ pc[r] = 1 => DOMAIN results[r] = {}
    /\ pc[r] > 1 =>
         LET t == pipeline[r][pc[r] - 1].type
         IN /\ t \in DOMAIN results[r]
            /\ Hands(results[r][t], request[r], pc[r] - 1)
    /\ "store" \in DOMAIN results[r] =>
         \A d \in request[r].path \cup request[r].documents :
           KeptAs(results[r]["store"], kept[r], d)

Asked ==
  \A r \in Run : request[r].path = {} \/ request[r].documents = {}

PipeInv ==
  /\ DiskShape /\ RunShape /\ Files /\ Owns /\ Asked
  /\ \A r \in Run : Carries(r)
-----------------------------------------------------------------------------
(* The synchronisation of the server is that of SyncService *)

\* Everything the server's synchronisation does next to pipelines is a step of
\* SyncService or none, so that its theorems hold here: one run at a time.
THEOREM ServiceUnderneath == PipelineSpec => Spec
<1>1. PipelineInit => Init
  BY DEF PipelineInit
<1>2. [PipelineNext]_allVars => [Next]_vars
  BY DEF PipelineNext, allVars, SyncReads, SyncWrites, ServiceStep, RunPipeline,
         RunStep, Missing, Unattempted, Ingest, Process, StoreReads, StoreNothing, StoreCuts,
         StoreWrites, StoreFails, Recall, Finish, Return, Throw, InStep
<1>3. QED
  BY <1>1, <1>2, PTL DEF PipelineSpec, Spec

\* No two runs of the synchronisation at a time, with pipelines next to it.
THEOREM OneRunHere == PipelineSpec => []OneRunAtATime
BY ServiceUnderneath, NeverTwoRuns, PTL
-----------------------------------------------------------------------------
(* The chunk file *)

LEMMA WriterFacts ==
  /\ Runs \in Nat /\ Run \subseteq Writer /\ Sync \in Writer /\ Sync \notin Run
  /\ \A d \in Doc \cup SyncDoc : Text(d) \in Chunk /\ Unread(d) \in Chunk
BY PipelineConstants DEF Run, Writer, Sync, Chunk, Text, Unread

LEMMA ApplyFacts ==
  ASSUME NEW entries \in SUBSET Entry, NEW change \in Change
  PROVE  /\ Apply(entries, change) \in SUBSET Entry
         /\ change.saved \subseteq Apply(entries, change)
BY DEF Change, Apply

\* A save leaves of every chunk the chunk itself or another one of its id.
LEMMA UpsertFacts ==
  ASSUME NEW w \in Writer, NEW chunks \in SUBSET Chunk,
         NEW change \in Upserts(w, chunks)
  PROVE  /\ change \in Change
         /\ \A c \in chunks : \E k \in chunks :
              IdOf[k] = IdOf[c] /\ [by |-> w, chunk |-> k] \in change.saved
<1>1. PICK one \in SUBSET chunks :
        /\ Ids(one) = Ids(chunks)
        /\ change = [ids |-> Ids(chunks),
                     saved |-> {[by |-> w, chunk |-> c] : c \in one}]
  BY DEF Upserts
<1>2. change \in Change
  BY <1>1 DEF Change, Entry, Ids
<1>3. ASSUME NEW c \in chunks
      PROVE  \E k \in chunks :
               IdOf[k] = IdOf[c] /\ [by |-> w, chunk |-> k] \in change.saved
  <2>1. PICK k \in one : IdOf[k] = IdOf[c]
    BY <1>1 DEF Ids
  <2>2. QED
    BY <1>1, <2>1
<1>4. QED
  BY <1>2, <1>3

LEMMA RemovalType ==
  ASSUME NEW chunks \in SUBSET Chunk
  PROVE  Removal(chunks) \in Change
BY DEF Removal, Change, Ids

LEMMA ClosedFacts == Closed \in Section /\ Closed.at = "none"
BY RemovalType DEF Closed, Section

LEMMA ReadKeeps ==
  ASSUME DiskShape, Files, NEW w \in Writer, NEW change \in Change,
         Read(w, change), UNCHANGED world
  PROVE  /\ DiskShape' /\ Files' /\ kept' = kept
         /\ section[w].at = "none" /\ section'[w].at = "read"
         /\ section'[w].change = change
         /\ \A v \in Writer \ {w} : section'[v] = section[v]
<1> DEFINE new == [at |-> "read", change |-> change,
                   payload |-> Apply(file, change)]
<1>1. /\ section' = [section EXCEPT ![w] = new]
      /\ UNCHANGED <<file, last, kept>> /\ section[w].at = "none"
      /\ world.calm => \A v \in Writer \ {w} : section[v].at = "none"
  BY DEF Read, Others
<1>2. new \in Section /\ change.saved \subseteq new.payload
  BY ApplyFacts DEF DiskShape, Section
<1>3. section'[w] = new /\ \A v \in Writer \ {w} : section'[v] = section[v]
  BY <1>1 DEF DiskShape
<1>4. DiskShape'
  BY <1>1, <1>2 DEF DiskShape
<1>5. new.at = "read" /\ new.change = change /\ new.payload = Apply(file, change)
  OBVIOUS
<1> HIDE DEF new
<1>6. Serial'
  <2> SUFFICES ASSUME world.calm PROVE Serial'
    BY DEF Serial
  <2>1. \A v \in Writer : section[v].at = "none"
    BY <1>1
  <2>2. file = last
    BY <2>1 DEF Files, Serial
  <2>3. QED
    BY <1>1, <1>3, <1>5, <2>1, <2>2 DEF Serial
<1>7. Files'
  BY <1>2, <1>3, <1>5, <1>6 DEF Files
<1>8. QED
  BY <1>1, <1>3, <1>4, <1>5, <1>7

LEMMA CutKeeps ==
  ASSUME DiskShape, Files, NEW w \in Writer, Cut(w), UNCHANGED world
  PROVE  /\ DiskShape' /\ Files' /\ kept' = kept
         /\ section[w].at = "read" /\ section'[w].at = "cut"
         /\ section'[w].change = section[w].change
         /\ \A v \in Writer \ {w} : section'[v] = section[v]
<1>1. /\ section' = [section EXCEPT ![w].at = "cut"] /\ file' = {}
      /\ UNCHANGED <<last, kept>> /\ section[w].at = "read"
  BY DEF Cut
<1>2. /\ section'[w] \in Section /\ section'[w].at = "cut"
      /\ section'[w].change = section[w].change
      /\ section'[w].payload = section[w].payload
      /\ \A v \in Writer \ {w} : section'[v] = section[v]
  BY <1>1 DEF DiskShape, Section
<1>3. DiskShape'
  <2>1. section' \in [Writer -> Section]
    BY <1>1, <1>2 DEF DiskShape
  <2>2. QED
    BY <1>1, <2>1 DEF DiskShape
<1>4. Files'
  BY <1>1, <1>2 DEF Files, Serial
<1>5. QED
  BY <1>1, <1>2, <1>3, <1>4

LEMMA FillKeeps ==
  ASSUME DiskShape, Files, NEW w \in Writer, Fill(w), UNCHANGED world
  PROVE  /\ DiskShape' /\ Files'
         /\ section[w].at = "cut" /\ section'[w].at = "none"
         /\ \A v \in Writer \ {w} :
              section'[v] = section[v] /\ kept'[v] = kept[v]
         /\ \A k : [by |-> w, chunk |-> k] \in section[w].change.saved =>
              k \in kept'[w]
<1>1. /\ section' = [section EXCEPT ![w] = Closed]
      /\ file' = section[w].payload /\ last' = Apply(last, section[w].change)
      /\ kept' = [kept EXCEPT ![w] = {e.chunk : e \in {x \in file' : x.by = w}}]
      /\ section[w].at = "cut"
  BY DEF Fill
<1>2. section'[w].at = "none" /\ \A v \in Writer \ {w} : section'[v] = section[v]
  BY <1>1, ClosedFacts DEF DiskShape
<1>3. section[w].payload \in SUBSET Entry /\ section[w].change \in Change
  BY DEF DiskShape, Section
<1>4. /\ kept'[w] = {e.chunk : e \in {x \in file' : x.by = w}}
      /\ \A v \in Writer \ {w} : kept'[v] = kept[v]
      /\ kept' \in [Writer -> SUBSET Chunk]
  <2>1. {e.chunk : e \in {x \in file' : x.by = w}} \in SUBSET Chunk
    BY <1>1, <1>3 DEF Entry
  <2>2. QED
    BY <1>1, <2>1 DEF DiskShape
<1>5. DiskShape'
  BY <1>1, <1>3, <1>4, ApplyFacts, ClosedFacts DEF DiskShape
<1>6. Serial'
  <2> SUFFICES ASSUME world.calm PROVE Serial'
    BY DEF Serial
  <2>1. \A v \in Writer : section'[v].at = "none"
    BY <1>1, <1>2 DEF Files, Serial
  <2>2. file' = last'
    BY <1>1 DEF Files, Serial
  <2>3. QED
    BY <2>1, <2>2 DEF Serial
<1>7. Files'
  BY <1>2, <1>6 DEF Files
<1>8. ASSUME NEW k, [by |-> w, chunk |-> k] \in section[w].change.saved
      PROVE  k \in kept'[w]
  <2>1. [by |-> w, chunk |-> k] \in file'
    BY <1>1, <1>8 DEF Files
  <2>2. QED
    BY <1>4, <2>1
<1>9. QED
  BY <1>1, <1>2, <1>4, <1>5, <1>7, <1>8

LEMMA BreakKeeps ==
  ASSUME DiskShape, Files, NEW w \in Writer, Break(w), UNCHANGED world
  PROVE  /\ DiskShape' /\ Files' /\ kept' = kept
         /\ section[w].at \in {"read", "cut"} /\ section'[w].at = "none"
         /\ \A v \in Writer \ {w} : section'[v] = section[v]
<1>1. /\ section' = [section EXCEPT ![w] = Closed]
      /\ UNCHANGED <<file, last, kept>>
      /\ section[w].at \in {"read", "cut"} /\ ~ world.calm
  BY DEF Break
<1>2. QED
  BY <1>1, ClosedFacts DEF DiskShape, Files, Serial
-----------------------------------------------------------------------------
(* Steps of a pipeline *)

LEMMA PendingFacts ==
  ASSUME RunShape, NEW r \in Run, Pending(r)
  PROVE  /\ pipeline[r] \in Seq(Step) /\ Len(pipeline[r]) \in Nat
         /\ pc[r] \in 1 .. Len(pipeline[r]) /\ At(r) \in Step
<1>1. pipeline[r] \in Seq(Step) \cup {<<>>}
  BY PipelineConstants DEF RunShape
<1>2. pipeline[r] \in Seq(Step)
  <2>1. <<>> \in Seq(Step)
    OBVIOUS
  <2>2. QED
    BY <1>1, <2>1, Zenon
<1>3. pc[r] \in Nat /\ pc[r] >= 1 /\ pc[r] <= Len(pipeline[r])
  BY DEF RunShape, Pending
<1>4. Len(pipeline[r]) \in Nat
  BY <1>2
<1>5. pc[r] \in 1 .. Len(pipeline[r])
  BY <1>3, <1>4
<1>6. QED
  BY <1>2, <1>4, <1>5 DEF At

LEMMA ValueFacts ==
  ASSUME NEW input \in Value
  PROVE  /\ Nothing \in Value /\ Ingested(input) \subseteq Value
         /\ Processed(input) \in Value
         /\ Stored(input) \in Value /\ Accepted(input) \in SUBSET Chunk
         /\ Stored(input).chunks = input.chunks
         /\ Stored(input).documents = input.documents
         /\ Stored(input).quarantined = input.chunks \ Accepted(input)
         /\ Processed(input).documents = input.documents
         /\ Processed(input).chunks =
              IF input.chunks # {} THEN input.chunks
                                   ELSE {Text(d) : d \in input.documents}
         /\ \A found \in SUBSET Chunk :
              LET v == [input EXCEPT !.found = found]
              IN v \in Value /\ v.chunks = input.chunks
                   /\ v.documents = input.documents
<1>1. /\ \A d \in Doc : Text(d) \in Chunk /\ Unread(d) \in Chunk
      /\ input.path \in SUBSET Doc /\ input.documents \in SUBSET Doc
      /\ input.chunks \in SUBSET Chunk
  BY WriterFacts DEF Value
<1>2. Nothing \in Value
  BY DEF Nothing, Input, Value
<1>3. Ingested(input) \subseteq Value
  <2>1. ASSUME NEW unread \in SUBSET input.path
        PROVE  [Nothing EXCEPT !.chunks = {Text(d) : d \in input.path \ unread}
                                  \cup {Unread(d) : d \in unread}] \in Value
    BY <1>1, <1>2 DEF Nothing, Input, Value
  <2>2. Input({}, input.documents) \in Value
    BY <1>1 DEF Input, Value
  <2>3. QED
    BY <2>1, <2>2 DEF Ingested
<1>4. {Text(d) : d \in input.documents} \in SUBSET Chunk
  BY <1>1
<1>5. /\ Processed(input) \in Value
      /\ Processed(input).documents = input.documents
      /\ Processed(input).chunks =
           IF input.chunks # {} THEN input.chunks
                                ELSE {Text(d) : d \in input.documents}
  BY <1>1, <1>4 DEF Processed, Value
<1>6. PutAside(input) \in SUBSET input.chunks
  BY DEF PutAside
<1>7. /\ Stored(input) \in Value /\ Accepted(input) \in SUBSET Chunk
      /\ Stored(input).chunks = input.chunks
      /\ Stored(input).documents = input.documents
      /\ Stored(input).quarantined = input.chunks \ Accepted(input)
  BY <1>1, <1>6 DEF Stored, Accepted, Value
<1>8. ASSUME NEW found \in SUBSET Chunk
      PROVE  LET v == [input EXCEPT !.found = found]
             IN v \in Value /\ v.chunks = input.chunks
                  /\ v.documents = input.documents
  BY DEF Value
<1>9. QED
  BY <1>2, <1>3, <1>5, <1>7, <1>8

LEMMA InputFacts ==
  ASSUME RunShape, NEW r \in Run
  PROVE  StepInput(r) \in Value
BY DEF RunShape, StepInput

\* A step that returns adds its result.
LEMMA ReturnFacts ==
  ASSUME RunShape, NEW r \in Run, Pending(r), NEW v \in Value, Return(r, v)
  PROVE  /\ RunShape'
         /\ UNCHANGED <<pipeline, request, outcome>>
         /\ pc'[r] = pc[r] + 1
         /\ DOMAIN results'[r] = {At(r).type} \cup DOMAIN results[r]
         /\ \A t \in DOMAIN results'[r] :
              results'[r][t] = IF t = At(r).type THEN v ELSE results[r][t]
         /\ \A q \in Run \ {r} : results'[q] = results[q] /\ pc'[q] = pc[q]
<1> DEFINE new == With(results[r], At(r).type, v)
<1>1. /\ UNCHANGED <<pipeline, request, outcome>>
      /\ results' = [results EXCEPT ![r] = new]
      /\ pc' = [pc EXCEPT ![r] = @ + 1] /\ attempt' = [attempt EXCEPT ![r] = 0]
  BY DEF Return, InStep
<1>2. /\ DOMAIN new = {At(r).type} \cup DOMAIN results[r]
      /\ \A t \in DOMAIN new :
           new[t] = IF t = At(r).type THEN v ELSE results[r][t]
  BY DEF With
<1> HIDE DEF new
<1>3. /\ results'[r] = new /\ DOMAIN results' = Run
      /\ \A q \in Run \ {r} : results'[q] = results[q]
  BY <1>1 DEF RunShape
<1>4. /\ pc' \in [Run -> Nat] /\ pc'[r] = pc[r] + 1
      /\ \A q \in Run \ {r} : pc'[q] = pc[q]
      /\ attempt' \in [Run -> Nat]
  BY <1>1 DEF RunShape
<1>5. \A q \in Run : \A t \in DOMAIN results'[q] : results'[q][t] \in Value
  <2>1. \A t \in DOMAIN new : new[t] \in Value
    BY <1>2 DEF RunShape
  <2>2. ASSUME NEW q \in Run \ {r}, NEW t \in DOMAIN results[q]
        PROVE  results[q][t] \in Value
    BY DEF RunShape
  <2>3. QED
    BY <1>3, <2>1, <2>2
<1>6. pc[r] <= Len(pipeline[r]) /\ Len(pipeline[r]) \in Nat /\ pc[r] \in Nat
      /\ outcome[r] = "running"
  BY PendingFacts DEF Pending, RunShape
<1>7. RunShape'
  BY <1>1, <1>3, <1>4, <1>5, <1>6 DEF RunShape
<1>8. QED
  BY <1>1, <1>2, <1>3, <1>4, <1>7

\* A step that fails leaves the results; without optional steps the run stays
\* at it or ends.
LEMMA ThrowFacts ==
  ASSUME RunShape, NEW r \in Run, Pending(r), Throw(r) \/ Missing(r)
  PROVE  /\ RunShape'
         /\ UNCHANGED <<pipeline, request, results>>
         /\ ~ At(r).optional => pc' = pc
         /\ \A q \in Run \ {r} : pc'[q] = pc[q] /\ outcome'[q] = outcome[q]
<1>1. /\ UNCHANGED <<pipeline, request, results>>
      /\ pc' = pc \/ (At(r).optional /\ pc' = [pc EXCEPT ![r] = @ + 1])
      /\ attempt' = attempt \/ \E n \in {0, attempt[r] + 1} :
                                  attempt' = [attempt EXCEPT ![r] = n]
      /\ outcome' = outcome \/ outcome' = [outcome EXCEPT ![r] = "error"]
  BY DEF Throw, Missing, InStep
<1>2. pc[r] <= Len(pipeline[r]) /\ Len(pipeline[r]) \in Nat /\ pc[r] \in Nat
      /\ outcome[r] = "running"
  BY PendingFacts DEF Pending, RunShape
<1>3. /\ pc' \in [Run -> Nat]
      /\ pc'[r] \in {pc[r], pc[r] + 1}
      /\ \A q \in Run \ {r} : pc'[q] = pc[q] /\ outcome'[q] = outcome[q]
      /\ outcome' \in [Run -> {"none", "running", "ok", "error"}]
      /\ outcome'[r] # "none"
  <2>1. pc \in [Run -> Nat]
        /\ outcome \in [Run -> {"none", "running", "ok", "error"}]
    BY DEF RunShape
  <2>2. /\ pc' \in [Run -> Nat] /\ pc'[r] \in {pc[r], pc[r] + 1}
        /\ \A q \in Run \ {r} : pc'[q] = pc[q]
    BY <1>1, <2>1
  <2>3. /\ outcome' \in [Run -> {"none", "running", "ok", "error"}]
        /\ outcome'[r] # "none"
        /\ \A q \in Run \ {r} : outcome'[q] = outcome[q]
    BY <1>1, <1>2, <2>1
  <2>4. QED
    BY <2>2, <2>3
<1>4. attempt' \in [Run -> Nat]
  <2>1. attempt \in [Run -> Nat]
    BY DEF RunShape
  <2>2. QED
    BY <1>1, <2>1
<1>5. RunShape'
  <2>1. ASSUME NEW q \in Run
        PROVE  /\ pc'[q] >= 1 /\ pc'[q] <= Len(pipeline[q]) + 1
               /\ outcome'[q] = "none" => pc'[q] = 1 /\ DOMAIN results[q] = {}
    <3>1. /\ pc[q] >= 1 /\ pc[q] <= Len(pipeline[q]) + 1 /\ pc[q] \in Nat
          /\ outcome[q] = "none" => pc[q] = 1 /\ DOMAIN results[q] = {}
      BY DEF RunShape
    <3>2. CASE q = r
      BY <1>2, <1>3, <3>1, <3>2
    <3>3. CASE q # r
      BY <1>3, <3>1, <3>3
    <3>4. QED
      BY <3>2, <3>3
  <2>2. \A q \in Run : \A t \in DOMAIN results[q] : results[q][t] \in Value
    BY DEF RunShape
  <2>3. /\ pipeline \in [Run -> Pipeline \cup {<<>>}]
        /\ request \in [Run -> Value] /\ DOMAIN results = Run
    BY DEF RunShape
  <2>4. QED
    BY <1>1, <1>3, <1>4, <2>1, <2>2, <2>3 DEF RunShape
<1>6. QED
  BY <1>1, <1>3, <1>5

\* A chain hands its results on.
LEMMA CarriesReturn ==
  ASSUME RunShape, \A q \in Run : Carries(q), NEW r \in Run, Pending(r),
         NEW v \in Value, Return(r, v),
         \A q \in Run : q # r \/ At(r).type # "store" => kept'[q] = kept[q],
         Chained(pipeline[r]) =>
           /\ Hands(v, request[r], pc[r])
           /\ At(r).type = "store" =>
                \A d \in request[r].path \cup request[r].documents :
                  KeptAs(v, kept'[r], d)
  PROVE  \A q \in Run : Carries(q)'
<1>1. /\ UNCHANGED <<pipeline, request, outcome>>
      /\ pc'[r] = pc[r] + 1
      /\ DOMAIN results'[r] = {At(r).type} \cup DOMAIN results[r]
      /\ \A t \in DOMAIN results'[r] :
           results'[r][t] = IF t = At(r).type THEN v ELSE results[r][t]
      /\ \A q \in Run \ {r} : results'[q] = results[q] /\ pc'[q] = pc[q]
  BY ReturnFacts
<1>2. pc[r] \in 1 .. Len(pipeline[r]) /\ Len(pipeline[r]) \in Nat
  BY PendingFacts
<1>3. ASSUME NEW q \in Run \ {r} PROVE Carries(q)'
  BY <1>1 DEF Carries
<1>4. Carries(r)'
  <2> SUFFICES ASSUME Chained(pipeline[r]) PROVE Carries(r)'
    BY <1>1 DEF Carries
  <2>1. pc'[r] - 1 = pc[r] /\ pc'[r] > 1 /\ (pc'[r] = 2 <=> pc[r] = 1)
    BY <1>1, <1>2
  <2>2. At(r).type \in DOMAIN results'[r] /\ results'[r][At(r).type] = v
    BY <1>1
  <2>3. pc[r] = 1 => At(r).type # "store" /\ DOMAIN results[r] = {}
    BY DEF Chained, At, Carries
  <2>4. "store" \in DOMAIN results'[r] =>
          \A d \in request[r].path \cup request[r].documents :
            KeptAs(results'[r]["store"], kept'[r], d)
    BY <1>1, <2>3 DEF Carries
  <2>5. pipeline'[r][pc'[r] - 1].type = At(r).type
    BY <1>1, <2>1 DEF At
  <2>6. QED
    BY <1>1, <2>1, <2>2, <2>4, <2>5 DEF Carries
<1>5. QED
  BY <1>3, <1>4

LEMMA CarriesThrow ==
  ASSUME RunShape, \A q \in Run : Carries(q), NEW r \in Run, Pending(r),
         Throw(r) \/ Missing(r), UNCHANGED kept
  PROVE  \A q \in Run : Carries(q)'
<1>1. /\ UNCHANGED <<pipeline, request, results>>
      /\ ~ At(r).optional => pc' = pc
      /\ \A q \in Run \ {r} : pc'[q] = pc[q]
  BY ThrowFacts
<1>2. Chained(pipeline[r]) => ~ At(r).optional
  BY PendingFacts DEF Chained, At
<1>3. ASSUME NEW q \in Run PROVE Carries(q)'
  BY <1>1, <1>2 DEF Carries
<1>4. QED
  BY <1>3

\* What a step of a chain is given.
LEMMA ChainInput ==
  ASSUME RunShape, Asked, NEW r \in Run, Carries(r), Pending(r),
         Chained(pipeline[r])
  PROVE  /\ pc[r] = 1 => StepInput(r) = request[r] /\ At(r).type = "ingest"
         /\ pc[r] = 2 => At(r).type = "process"
         /\ pc[r] > 1 => At(r).type # "ingest"
         /\ pc[r] > 1 => Hands(StepInput(r), request[r], pc[r] - 1)
<1>1. pc[r] \in 1 .. Len(pipeline[r]) /\ Len(pipeline[r]) \in Nat
  BY PendingFacts
<1>2. CASE pc[r] = 1
  BY <1>2 DEF StepInput, Carries, At, Chained
<1>3. CASE pc[r] > 1
  <2>1. At(r).from = pipeline[r][pc[r] - 1].type /\ At(r).type # "ingest"
    BY <1>1, <1>3 DEF Chained, At
  <2>2. StepInput(r) = results[r][pipeline[r][pc[r] - 1].type]
    BY <1>3, <2>1 DEF StepInput, Carries
  <2>3. pc[r] = 2 => At(r).type = "process"
    BY DEF Chained, At
  <2>4. QED
    BY <1>1, <1>3, <2>1, <2>2, <2>3 DEF Carries
<1>4. QED
  BY <1>1, <1>2, <1>3
-----------------------------------------------------------------------------
(* Each step keeps the invariant *)

LEMMA PipeInvInit == PipelineInit => PipeInv
<1> SUFFICES ASSUME PipelineInit PROVE PipeInv
  OBVIOUS
<1>1. Closed \in Section /\ Closed.at = "none"
  BY ClosedFacts
<1>2. DiskShape
  BY <1>1 DEF PipelineInit, DiskShape
<1>3. Nothing \in Value /\ Nothing.path = {}
  BY DEF Nothing, Input, Value
<1>4. RunShape
  <2>1. Len(<<>>) = 0
    OBVIOUS
  <2>2. \A r \in Run : results[r] = <<>> /\ DOMAIN results[r] = {}
    BY DEF PipelineInit
  <2>3. QED
    BY <1>3, <2>1, <2>2 DEF PipelineInit, RunShape
<1>5. Files /\ Owns
  BY <1>1, WriterFacts DEF PipelineInit, Files, Serial, Owns
<1>6. Asked
  BY <1>3 DEF PipelineInit, Asked
<1>7. ASSUME NEW r \in Run PROVE Carries(r)
  BY DEF PipelineInit, Carries
<1>8. QED
  BY <1>2, <1>4, <1>5, <1>6, <1>7 DEF PipeInv

\* Steps that leave the pipelines alone.
LEMMA RunsStay ==
  ASSUME PipeInv, UNCHANGED runs, \A r \in Run : kept'[r] = kept[r]
  PROVE  RunShape' /\ Asked' /\ \A r \in Run : Carries(r)'
BY DEF PipeInv, runs, RunShape, Asked, Carries

\* Steps that leave the file alone.
LEMMA DiskStays ==
  ASSUME PipeInv, UNCHANGED <<world, disk>>
  PROVE  DiskShape' /\ Files'
BY DEF PipeInv, disk, DiskShape, Files, Serial

LEMMA SyncKeeps ==
  ASSUME PipeInv, SyncReads \/ SyncWrites
  PROVE  PipeInv'
<1>1. DiskShape /\ Files /\ Owns /\ Sync \in Writer /\ UNCHANGED <<world, runs>>
      /\ Run \subseteq Writer \ {Sync}
  BY WriterFacts DEF PipeInv, SyncReads, SyncWrites
<1>2. SyncReads => \E change \in Change : Read(Sync, change)
  <2> SUFFICES ASSUME SyncReads PROVE \E change \in Change : Read(Sync, change)
    OBVIOUS
  <2>1. PICK docs \in SUBSET SyncDoc :
          LET chunks == {Text(d) : d \in docs}
          IN \/ \E change \in Upserts(Sync, chunks) : Read(Sync, change)
             \/ Read(Sync, Removal(chunks))
    BY DEF SyncReads
  <2>2. {Text(d) : d \in docs} \in SUBSET Chunk
    BY WriterFacts
  <2>3. QED
    BY <1>1, <2>1, <2>2, UpsertFacts, RemovalType
<1>3. /\ DiskShape' /\ Files'
      /\ \A v \in Writer \ {Sync} :
           section'[v] = section[v] /\ kept'[v] = kept[v]
  BY <1>1, <1>2, ReadKeeps, CutKeeps, FillKeeps, BreakKeeps DEF SyncWrites
<1>4. Owns'
  BY <1>1, <1>3 DEF Owns, Attempted, Pending, At, StepInput, runs
<1>5. QED
  BY <1>1, <1>3, <1>4, RunsStay DEF PipeInv

LEMMA RunPipelineKeeps ==
  ASSUME PipeInv, NEW r \in Run, RunPipeline(r)
  PROVE  PipeInv'
<1>1. /\ RunShape /\ Owns /\ Asked /\ \A q \in Run : Carries(q)
      /\ outcome[r] = "none" /\ UNCHANGED <<world, disk, pc, attempt, results>>
      /\ outcome' = [outcome EXCEPT ![r] = "running"]
  BY DEF PipeInv, RunPipeline
<1>2. pc[r] = 1 /\ DOMAIN results[r] = {}
  BY <1>1 DEF RunShape
<1>3. PICK p \in Pipeline : pipeline' = [pipeline EXCEPT ![r] = p]
  BY DEF RunPipeline
<1>4. PICK x \in Value :
        /\ request' = [request EXCEPT ![r] = x]
        /\ x.path = {} \/ x.documents = {}
  <2>1. \A docs \in SUBSET Doc :
          /\ Input(docs, {}) \in Value /\ Input({}, docs) \in Value
          /\ Input(docs, {}).documents = {} /\ Input({}, docs).path = {}
    BY DEF Input, Value
  <2>2. QED
    BY <2>1 DEF RunPipeline
<1>5. /\ pipeline'[r] = p /\ request'[r] = x
      /\ \A q \in Run \ {r} :
           /\ pipeline'[q] = pipeline[q] /\ request'[q] = request[q]
           /\ outcome'[q] = outcome[q]
      /\ outcome'[r] = "running"
  <2>1. /\ pipeline \in [Run -> Pipeline \cup {<<>>}]
        /\ request \in [Run -> Value]
        /\ outcome \in [Run -> {"none", "running", "ok", "error"}]
    BY <1>1 DEF RunShape
  <2>2. pipeline'[r] = p /\ \A q \in Run \ {r} : pipeline'[q] = pipeline[q]
    BY <1>3, <2>1
  <2>3. request'[r] = x /\ \A q \in Run \ {r} : request'[q] = request[q]
    BY <1>4, <2>1
  <2>4. /\ outcome'[r] = "running"
        /\ \A q \in Run \ {r} : outcome'[q] = outcome[q]
    BY <1>1, <2>1
  <2>5. QED
    BY <2>2, <2>3, <2>4
<1>6. RunShape'
  <2>1. Len(p) \in Nat
    BY PipelineConstants
  <2>2. /\ pipeline' \in [Run -> Pipeline \cup {<<>>}]
        /\ request' \in [Run -> Value]
        /\ outcome' \in [Run -> {"none", "running", "ok", "error"}]
    <3>1. /\ pipeline \in [Run -> Pipeline \cup {<<>>}]
          /\ request \in [Run -> Value]
          /\ outcome \in [Run -> {"none", "running", "ok", "error"}]
      BY <1>1 DEF RunShape
    <3>2. pipeline' \in [Run -> Pipeline \cup {<<>>}]
      BY <1>3, <3>1
    <3>3. request' \in [Run -> Value]
      BY <1>4, <3>1
    <3>4. outcome' \in [Run -> {"none", "running", "ok", "error"}]
      BY <1>1, <3>1
    <3>5. QED
      BY <3>2, <3>3, <3>4
  <2>3. \A q \in Run : pc[q] >= 1 /\ pc[q] <= Len(pipeline'[q]) + 1
    BY <1>1, <1>2, <1>5, <2>1 DEF RunShape
  <2>4. QED
    BY <1>1, <1>5, <2>2, <2>3 DEF RunShape
<1>7. Owns'
  <2>1. section' = section
    BY <1>1 DEF disk
  <2>2. section[r].at = "none"
    BY <1>1 DEF Owns, Attempted, Pending
  <2>3. QED
    BY <1>1, <1>5, <2>1, <2>2 DEF Owns, Attempted, Pending, At, StepInput
<1>8. Asked'
  BY <1>1, <1>4, <1>5 DEF Asked
<1>9. ASSUME NEW q \in Run PROVE Carries(q)'
  BY <1>1, <1>2, <1>5 DEF Carries, disk
<1>10. QED
  BY <1>1, <1>6, <1>7, <1>8, <1>9, DiskStays DEF PipeInv

\* A run that is not in the file moves on.
LEMMA OwnsKept ==
  ASSUME Owns, NEW r \in Run, section'[r].at = "none", UNCHANGED pipeline,
         \A q \in Run \ {r} :
           /\ section'[q] = section[q] /\ pc'[q] = pc[q]
           /\ outcome'[q] = outcome[q]
           /\ results'[q] = results[q] /\ request'[q] = request[q]
  PROVE  Owns'
BY DEF Owns, Attempted, Pending, At, StepInput

LEMMA FailKeeps ==
  ASSUME PipeInv, NEW r \in Run, Pending(r), Throw(r) \/ Missing(r),
         section'[r].at = "none", DiskShape', Files', UNCHANGED kept,
         \A q \in Run \ {r} : section'[q] = section[q]
  PROVE  PipeInv'
<1>1. RunShape /\ Owns /\ Asked /\ \A q \in Run : Carries(q)
  BY DEF PipeInv
<1>2. /\ RunShape' /\ UNCHANGED <<pipeline, request, results>>
      /\ \A q \in Run \ {r} : pc'[q] = pc[q] /\ outcome'[q] = outcome[q]
  BY <1>1, ThrowFacts
<1>3. Owns'
  BY <1>1, <1>2, OwnsKept
<1>4. Asked'
  BY <1>1, <1>2 DEF Asked
<1>5. \A q \in Run : Carries(q)'
  BY <1>1, CarriesThrow
<1>6. QED
  BY <1>2, <1>3, <1>4, <1>5 DEF PipeInv

LEMMA ReturnKeeps ==
  ASSUME PipeInv, NEW r \in Run, Pending(r), NEW v \in Value, Return(r, v),
         section'[r].at = "none", DiskShape', Files',
         \A q \in Run \ {r} : section'[q] = section[q],
         \A q \in Run : q # r \/ At(r).type # "store" => kept'[q] = kept[q],
         Chained(pipeline[r]) =>
           /\ Hands(v, request[r], pc[r])
           /\ At(r).type = "store" =>
                \A d \in request[r].path \cup request[r].documents :
                  KeptAs(v, kept'[r], d)
  PROVE  PipeInv'
<1>1. RunShape /\ Owns /\ Asked /\ \A q \in Run : Carries(q)
  BY DEF PipeInv
<1>2. /\ RunShape' /\ UNCHANGED <<pipeline, request, outcome>>
      /\ \A q \in Run \ {r} : pc'[q] = pc[q] /\ results'[q] = results[q]
  BY <1>1, ReturnFacts
<1>3. Owns'
  BY <1>1, <1>2, OwnsKept
<1>4. Asked'
  BY <1>1, <1>2 DEF Asked
<1>5. \A q \in Run : Carries(q)'
  BY <1>1, CarriesReturn
<1>6. QED
  BY <1>2, <1>3, <1>4, <1>5 DEF PipeInv

\* What every step of a run starts from.
LEMMA StepFacts ==
  ASSUME PipeInv, NEW r \in Run
  PROVE  /\ DiskShape /\ Files /\ Owns /\ RunShape /\ Asked /\ Carries(r)
         /\ StepInput(r) \in Value /\ request[r] \in Value
         /\ r \in Writer /\ Run \subseteq Writer
BY InputFacts, WriterFacts DEF PipeInv, RunShape

\* What a step of a chain that neither ingests nor processes returns, if it
\* keeps documents and chunks.
LEMMA PassOn ==
  ASSUME PipeInv, NEW r \in Run, Pending(r), Chained(pipeline[r]),
         At(r).type \in {"store", "recall"}, NEW v,
         v.chunks = StepInput(r).chunks, v.documents = StepInput(r).documents
  PROVE  /\ Hands(v, request[r], pc[r])
         /\ Stand(v.chunks, request[r].path \cup request[r].documents)
<1>1. /\ RunShape /\ Asked /\ Carries(r)
  BY StepFacts
<1>2. pc[r] \in Nat /\ pc[r] >= 1
  BY <1>1 DEF RunShape
<1>3. pc[r] > 2
  BY <1>1, <1>2, ChainInput
<1>4. Hands(StepInput(r), request[r], pc[r] - 1) /\ pc[r] - 1 # 1 /\ pc[r] # 1
  BY <1>1, <1>2, <1>3, ChainInput
<1>5. QED
  BY <1>4 DEF Hands

LEMMA UnattemptedKeeps ==
  ASSUME PipeInv, NEW r \in Run, Unattempted(r)
  PROVE  PipeInv'
<1>1. /\ Pending(r) /\ At(r).retries = NoAttempt /\ UNCHANGED <<world, disk>>
      /\ Return(r, Nothing) /\ At(r).type # "unknown"
  BY DEF Unattempted, Return, InStep
<1>2. ~ Chained(pipeline[r])
  BY <1>1, StepFacts, PendingFacts DEF Chained, At
<1>3. DiskShape' /\ Files' /\ section' = section /\ kept' = kept
  BY <1>1, DiskStays DEF disk
<1>4. section[r].at = "none"
  BY <1>1, StepFacts DEF Owns, Attempted
<1>5. Nothing \in Value
  BY StepFacts, ValueFacts
<1>6. QED
  BY <1>1, <1>2, <1>3, <1>4, <1>5, ReturnKeeps

LEMMA IngestKeeps ==
  ASSUME PipeInv, NEW r \in Run, Ingest(r)
  PROVE  PipeInv'
<1>1. /\ Pending(r) /\ At(r).type = "ingest" /\ UNCHANGED <<world, disk>>
      /\ (\E v \in Ingested(StepInput(r)) : Return(r, v)) \/ Throw(r)
  BY DEF Ingest, Attempted, Return, Throw, InStep
<1>2. /\ DiskShape' /\ Files' /\ section[r].at = "none" /\ section' = section
      /\ kept' = kept
  BY <1>1, DiskStays, StepFacts DEF Owns, disk
<1>3. CASE Throw(r)
  BY <1>1, <1>2, <1>3, FailKeeps
<1>4. ASSUME NEW v \in Ingested(StepInput(r)), Return(r, v)
      PROVE  PipeInv'
  <2>1. v \in Value
    BY StepFacts, ValueFacts
  <2>2. ASSUME Chained(pipeline[r])
        PROVE  Hands(v, request[r], pc[r])
    <3>1. StepInput(r) = request[r] /\ pc[r] = 1
      <4>1. pc[r] \in Nat /\ pc[r] >= 1
        BY StepFacts DEF RunShape
      <4>2. QED
        BY <1>1, <2>2, <4>1, StepFacts, ChainInput
    <3>2. request[r].path = {} \/ request[r].documents = {}
      BY StepFacts DEF Asked
    <3>3. ASSUME NEW x \in Value, x.path = {} \/ x.documents = {},
                 NEW y \in Ingested(x)
          PROVE  /\ y.documents = x.documents /\ Stand(y.chunks, x.path)
                 /\ x.path = {} => y.chunks = {}
      <4>1. CASE x.path = {}
        BY <3>3, <4>1 DEF Ingested, Input, Stand
      <4>2. CASE x.path # {}
        <5>1. PICK unread \in SUBSET x.path :
                y = [Nothing EXCEPT !.chunks =
                       {Text(d) : d \in x.path \ unread}
                         \cup {Unread(d) : d \in unread}]
          BY <3>3, <4>2 DEF Ingested
        <5>2. /\ y.documents = {}
              /\ y.chunks = {Text(d) : d \in x.path \ unread}
                               \cup {Unread(d) : d \in unread}
          BY <5>1 DEF Nothing, Input
        <5>3. \A d : Text(d).of = d /\ Unread(d).of = d
          BY DEF Text, Unread
        <5>4. ASSUME NEW d \in x.path PROVE \E c \in y.chunks : c.of = d
          BY <5>2, <5>3
        <5>5. QED
          BY <3>3, <4>2, <5>2, <5>4 DEF Stand
      <4>3. QED
        BY <4>1, <4>2
    <3>4. QED
      BY <3>1, <3>2, <3>3, StepFacts DEF Hands
  <2>3. QED
    BY <1>1, <1>2, <1>4, <2>1, <2>2, ReturnKeeps
<1>5. QED
  BY <1>1, <1>3, <1>4

LEMMA ProcessKeeps ==
  ASSUME PipeInv, NEW r \in Run, Process(r)
  PROVE  PipeInv'
<1> DEFINE v == Processed(StepInput(r))
<1>1. /\ Pending(r) /\ At(r).type = "process" /\ UNCHANGED <<world, disk>>
      /\ Return(r, v)
  BY DEF Process, Attempted, Return, InStep
<1>2. /\ DiskShape' /\ Files' /\ section[r].at = "none" /\ section' = section
      /\ kept' = kept
  BY <1>1, DiskStays, StepFacts DEF Owns, disk
<1>3. /\ v \in Value /\ v.documents = StepInput(r).documents
      /\ v.chunks = IF StepInput(r).chunks # {} THEN StepInput(r).chunks
                    ELSE {Text(d) : d \in StepInput(r).documents}
  BY StepFacts, ValueFacts
<1> HIDE DEF v
<1>4. ASSUME Chained(pipeline[r])
      PROVE  Hands(v, request[r], pc[r])
  <2>1. pc[r] \in Nat /\ pc[r] > 1
    BY <1>1, <1>4, StepFacts, ChainInput DEF RunShape
  <2>2. Hands(StepInput(r), request[r], pc[r] - 1)
    BY <1>1, <1>4, <2>1, StepFacts, ChainInput
  <2>3. request[r].path = {} \/ request[r].documents = {}
    BY StepFacts DEF Asked
  <2>4. v.documents \subseteq request[r].documents
    BY <1>3, <2>2 DEF Hands
  <2>5. Stand(v.chunks, request[r].path \cup request[r].documents)
    <3>1. CASE pc[r] = 2 /\ request[r].path = {}
      <4>1. \A d : Text(d).of = d
        BY DEF Text
      <4>2. v.chunks = {Text(d) : d \in request[r].documents}
        BY <1>3, <2>2, <3>1 DEF Hands
      <4>3. QED
        BY <3>1, <4>1, <4>2 DEF Stand
    <3>2. CASE pc[r] = 2 /\ request[r].path # {}
      BY <1>3, <2>2, <2>3, <3>2 DEF Hands, Stand
    <3>3. CASE pc[r] # 2
      <4>1. pc[r] - 1 # 1
        BY <2>1, <3>3
      <4>2. Stand(StepInput(r).chunks, request[r].path \cup request[r].documents)
        BY <2>2, <4>1 DEF Hands
      <4>3. CASE StepInput(r).chunks # {}
        BY <1>3, <4>2, <4>3
      <4>4. CASE StepInput(r).chunks = {}
        BY <4>2, <4>4 DEF Stand
      <4>5. QED
        BY <4>3, <4>4
    <3>4. QED
      BY <3>1, <3>2, <3>3
  <2>6. QED
    BY <2>1, <2>4, <2>5 DEF Hands
<1>5. QED
  BY <1>1, <1>2, <1>3, <1>4, ReturnKeeps

LEMMA RecallKeeps ==
  ASSUME PipeInv, NEW r \in Run, Recall(r)
  PROVE  PipeInv'
<1> DEFINE v == [StepInput(r) EXCEPT !.found = {e.chunk : e \in file}]
<1>1. /\ Pending(r) /\ At(r).type = "recall" /\ UNCHANGED <<world, disk>>
      /\ Return(r, v)
  BY DEF Recall, Attempted, Return, InStep
<1>2. /\ DiskShape' /\ Files' /\ section[r].at = "none" /\ section' = section
      /\ kept' = kept
  BY <1>1, DiskStays, StepFacts DEF Owns, disk
<1>3. {e.chunk : e \in file} \in SUBSET Chunk
  BY StepFacts DEF DiskShape, Entry
<1>4. /\ v \in Value /\ v.documents = StepInput(r).documents
      /\ v.chunks = StepInput(r).chunks
  BY <1>3, StepFacts, ValueFacts
<1> HIDE DEF v
<1>5. QED
  BY <1>1, <1>2, <1>4, PassOn, ReturnKeeps

LEMMA StoreReturns ==
  ASSUME PipeInv, NEW r \in Run, Pending(r), At(r).type = "store",
         Return(r, Stored(StepInput(r))), section'[r].at = "none",
         DiskShape', Files',
         \A q \in Run \ {r} : section'[q] = section[q] /\ kept'[q] = kept[q],
         \A c \in Accepted(StepInput(r)) :
           \E k \in kept'[r] \cap StepInput(r).chunks : IdOf[k] = IdOf[c]
  PROVE  PipeInv'
<1> DEFINE v == Stored(StepInput(r))
<1>1. /\ v \in Value /\ v.documents = StepInput(r).documents
      /\ v.chunks = StepInput(r).chunks
      /\ v.quarantined = v.chunks \ Accepted(StepInput(r))
  BY StepFacts, ValueFacts
<1> HIDE DEF v
<1>2. ASSUME Chained(pipeline[r])
      PROVE  /\ Hands(v, request[r], pc[r])
             /\ \A d \in request[r].path \cup request[r].documents :
                  KeptAs(v, kept'[r], d)
  <2>1. /\ Hands(v, request[r], pc[r])
        /\ Stand(v.chunks, request[r].path \cup request[r].documents)
    BY <1>1, <1>2, PassOn
  <2>2. ASSUME NEW d \in request[r].path \cup request[r].documents
        PROVE  KeptAs(v, kept'[r], d)
    <3>1. PICK c \in v.chunks : c.of = d
      BY <2>1 DEF Stand
    <3>2. CASE c \in v.quarantined
      BY <3>1, <3>2 DEF KeptAs
    <3>3. CASE c \in Accepted(StepInput(r))
      BY <1>1, <3>1, <3>3 DEF KeptAs
    <3>4. QED
      BY <1>1, <3>2, <3>3
  <2>3. QED
    BY <2>1, <2>2
<1>3. QED
  BY <1>1, <1>2, ReturnKeeps DEF v

LEMMA StoreKeeps ==
  ASSUME PipeInv, NEW r \in Run,
         \/ StoreReads(r) \/ StoreNothing(r) \/ StoreCuts(r)
         \/ StoreWrites(r) \/ StoreFails(r)
  PROVE  PipeInv'
<1>1. /\ DiskShape /\ Files /\ Owns /\ RunShape /\ r \in Writer
      /\ Run \subseteq Writer
  BY StepFacts
<1>2. CASE StoreReads(r)
  <2>1. PICK change \in Upserts(r, Accepted(StepInput(r))) :
          /\ Attempted(r) /\ Accepted(StepInput(r)) # {} /\ At(r).type = "store" /\ Read(r, change)
          /\ UNCHANGED <<world, runs>>
    BY <1>2 DEF StoreReads
  <2>2. change \in Change
    BY <1>1, StepFacts, ValueFacts, UpsertFacts
  <2>3. /\ DiskShape' /\ Files' /\ kept' = kept /\ section'[r].change = change
        /\ \A q \in Run \ {r} : section'[q] = section[q]
    BY <1>1, <2>1, <2>2, ReadKeeps
  <2>4. Owns'
    BY <1>1, <2>1, <2>3 DEF Owns, Attempted, Pending, At, StepInput, runs
  <2>5. QED
    BY <2>1, <2>3, <2>4, RunsStay DEF PipeInv
<1>3. CASE StoreNothing(r)
  <2>1. /\ Pending(r) /\ At(r).type = "store" /\ UNCHANGED <<world, disk>>
        /\ Return(r, Stored(StepInput(r)))
        /\ Accepted(StepInput(r)) = {}
    BY <1>3 DEF StoreNothing, Attempted, Return, InStep
  <2>2. section[r].at = "none"
    BY <1>1, <2>1 DEF Owns
  <2>3. DiskShape' /\ Files' /\ section' = section /\ kept' = kept
    BY <2>1, DiskStays DEF disk
  <2>4. QED
    BY <2>1, <2>2, <2>3, StoreReturns
<1>4. CASE StoreCuts(r)
  <2>1. Cut(r) /\ UNCHANGED <<world, runs>>
    BY <1>4 DEF StoreCuts
  <2>2. /\ DiskShape' /\ Files' /\ section[r].at = "read" /\ kept' = kept
        /\ section'[r].change = section[r].change
        /\ \A q \in Run \ {r} : section'[q] = section[q]
    BY <1>1, <2>1, CutKeeps
  <2>3. Owns'
    BY <1>1, <2>1, <2>2 DEF Owns, Attempted, Pending, At, StepInput, runs
  <2>4. QED
    BY <2>1, <2>2, <2>3, RunsStay DEF PipeInv
<1>5. CASE StoreWrites(r)
  <2>1. Fill(r) /\ UNCHANGED world /\ Return(r, Stored(StepInput(r)))
    BY <1>5 DEF StoreWrites, Return, InStep
  <2>2. /\ DiskShape' /\ Files' /\ section[r].at = "cut"
        /\ section'[r].at = "none"
        /\ \A q \in Run \ {r} : section'[q] = section[q] /\ kept'[q] = kept[q]
        /\ \A k : [by |-> r, chunk |-> k] \in section[r].change.saved =>
             k \in kept'[r]
    BY <1>1, <2>1, FillKeeps
  <2>3. /\ Pending(r) /\ At(r).type = "store"
        /\ section[r].change \in Upserts(r, Accepted(StepInput(r)))
    BY <1>1, <2>2 DEF Owns, Attempted
  <2>4. ASSUME NEW c \in Accepted(StepInput(r))
        PROVE  \E k \in kept'[r] \cap StepInput(r).chunks : IdOf[k] = IdOf[c]
    <3>1. Accepted(StepInput(r)) \in SUBSET Chunk
      BY StepFacts, ValueFacts
    <3>2. PICK k \in Accepted(StepInput(r)) :
            /\ IdOf[k] = IdOf[c]
            /\ [by |-> r, chunk |-> k] \in section[r].change.saved
      BY <1>1, <2>3, <3>1, UpsertFacts
    <3>3. k \in StepInput(r).chunks
      BY DEF Accepted
    <3>4. QED
      BY <2>2, <3>2, <3>3
  <2>5. QED
    BY <2>1, <2>2, <2>3, <2>4, StoreReturns
<1>6. CASE StoreFails(r)
  <2>1. Break(r) /\ UNCHANGED world /\ Throw(r)
    BY <1>6 DEF StoreFails, Throw, InStep
  <2>2. /\ DiskShape' /\ Files' /\ section[r].at \in {"read", "cut"}
        /\ section'[r].at = "none" /\ kept' = kept
        /\ \A q \in Run \ {r} : section'[q] = section[q]
    BY <1>1, <2>1, BreakKeeps
  <2>3. Pending(r)
    BY <1>1, <2>2 DEF Owns, Attempted
  <2>4. QED
    BY <2>1, <2>2, <2>3, FailKeeps
<1>7. QED
  BY <1>2, <1>3, <1>4, <1>5, <1>6

LEMMA MissingKeeps ==
  ASSUME PipeInv, NEW r \in Run, Missing(r)
  PROVE  PipeInv'
<1>1. Pending(r) /\ At(r).type = "unknown" /\ UNCHANGED <<world, disk>>
  BY DEF Missing, InStep
<1>2. /\ DiskShape' /\ Files' /\ section[r].at = "none" /\ section' = section
  BY <1>1, DiskStays, StepFacts DEF Owns, disk
<1>3. kept' = kept
  BY <1>1 DEF disk
<1>4. QED
  BY <1>1, <1>2, <1>3, FailKeeps

LEMMA FinishKeeps ==
  ASSUME PipeInv, NEW r \in Run, Finish(r)
  PROVE  PipeInv'
<1>1. /\ outcome[r] = "running" /\ pc[r] > Len(pipeline[r])
      /\ outcome' = [outcome EXCEPT ![r] = "ok"]
      /\ UNCHANGED <<world, disk, pipeline, request, pc, attempt, results>>
  BY DEF Finish
<1>2. /\ RunShape /\ Owns /\ Asked /\ \A q \in Run : Carries(q)
      /\ section' = section
  BY <1>1 DEF PipeInv, disk
<1>3. /\ outcome' \in [Run -> {"none", "running", "ok", "error"}]
      /\ outcome'[r] = "ok" /\ \A q \in Run \ {r} : outcome'[q] = outcome[q]
  BY <1>1, <1>2 DEF RunShape
<1>4. RunShape'
  BY <1>1, <1>2, <1>3 DEF RunShape
<1>5. section[r].at = "none"
  <2>1. pc[r] \in Nat /\ Len(pipeline[r]) \in Nat
    BY <1>2, PipelineConstants DEF RunShape
  <2>2. ~ Pending(r)
    BY <1>1, <2>1 DEF Pending
  <2>3. QED
    BY <1>2, <2>2, StepFacts DEF Owns, Attempted, DiskShape, Section
<1>6. Owns'
  BY <1>1, <1>2, <1>3, <1>5, OwnsKept
<1>7. Asked' /\ \A q \in Run : Carries(q)'
  BY <1>1, <1>2 DEF Asked, Carries, disk
<1>8. QED
  BY <1>1, <1>4, <1>6, <1>7, DiskStays DEF PipeInv

LEMMA ServiceKeeps ==
  ASSUME PipeInv, ServiceStep(Next) \/ UNCHANGED allVars
  PROVE  PipeInv'
<1>1. UNCHANGED <<world, disk, runs>>
  BY DEF ServiceStep, allVars, pipeVars
<1>2. Owns'
  BY <1>1 DEF PipeInv, Owns, Attempted, Pending, At, StepInput, runs, disk
<1>3. QED
  BY <1>1, <1>2, RunsStay, DiskStays DEF PipeInv, disk

LEMMA PipeInvNext == PipeInv /\ [PipelineNext]_allVars => PipeInv'
<1> SUFFICES ASSUME PipeInv, [PipelineNext]_allVars PROVE PipeInv'
  OBVIOUS
<1>1. CASE SyncReads \/ SyncWrites
  BY <1>1, SyncKeeps
<1>2. CASE ServiceStep(Next) \/ UNCHANGED allVars
  BY <1>2, ServiceKeeps
<1>3. ASSUME NEW r \in Run, RunPipeline(r) PROVE PipeInv'
  BY <1>3, RunPipelineKeeps
<1>4. ASSUME NEW r \in Run, RunStep(r) PROVE PipeInv'
  BY <1>4, MissingKeeps, UnattemptedKeeps, IngestKeeps, ProcessKeeps, StoreKeeps, RecallKeeps,
     FinishKeeps DEF RunStep
<1>5. QED
  BY <1>1, <1>2, <1>3, <1>4 DEF PipelineNext

LEMMA PipeInvHolds == PipelineSpec => []PipeInv
BY PipeInvInit, PipeInvNext, PTL DEF PipelineSpec

\* Types of what the pipelines add to the service, with the index of a run's
\* step within its pipeline.
THEOREM PipelineTypes == PipelineSpec => [](DiskShape /\ RunShape)
<1>1. PipeInv => DiskShape /\ RunShape
  BY DEF PipeInv
<1>2. QED
  BY <1>1, PipeInvHolds, PTL

\* Where writers do not meet and no write fails, the chunk file is what the
\* saves and removals that returned amount to.
THEOREM StoredAlwaysKept == PipelineSpec => []StoredIsKept
<1>1. PipeInv => StoredIsKept
  BY DEF PipeInv, Files, Serial, StoredIsKept
<1>2. QED
  BY <1>1, PipeInvHolds, PTL

\* A run of a chain of steps that is answered 200 has put aside or left in the
\* chunk file every document of its request, whatever it had to try again and
\* whichever chunks share an id.
THEOREM AnswerAlwaysStored == PipelineSpec => []AnsweredIsStored
<1>1. PipeInv => AnsweredIsStored
  BY DEF PipeInv, Carries, KeptAs, Kept, AnsweredIsStored
<1>2. QED
  BY <1>1, PipeInvHolds, PTL
=============================================================================
