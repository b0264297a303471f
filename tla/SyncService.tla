---------------------------- MODULE SyncService ----------------------------
(***************************************************************************)
(* How the API server drives the synchronisation: the interval timer and   *)
(* the clients of POST /api/sync all call the scheduler's runTick, whose   *)
(* `running' flag lets one of them through; onTick runs the pipeline (see  *)
(* SyncRuntime), keeps the result as lastSyncResult and appends a snapshot *)
(* to the drift history, once more when the tick fails.                    *)
(***************************************************************************)
EXTENDS Naturals, Sequences, FiniteSets

CONSTANTS
  Client,         \* the clients of POST /api/sync
  MaxTicks,       \* bound on the number of ticks that start a run
  MaxHistory      \* driftMaxHistory

Timer == "timer"

ASSUME ServiceConstants ==
  /\ Timer \notin Client
  /\ MaxTicks \in Nat /\ MaxHistory \in Nat \ {0}

Caller == Client \cup {Timer}

VARIABLES
  diskFails,      \* whether the drift history's file may fail; never changes
  timerOn,        \* the interval timer is set (status.started)
  nextRun,        \* status.nextRunAt is not empty
  running,        \* the flag of runTick (status.running)
  runCount, successCount, failureCount,
  stage,          \* where each caller is in its tick
  lastSync,       \* lastSyncResult: the tick it is of, and its status
  history,        \* the drift history, oldest first
  served,         \* the tick a client started with its request, 0 if none
  answered,       \* the client's last request was answered, with status 200
  reported        \* the tick whose result the answer gave

counters == <<runCount, successCount, failureCount>>
answers  == <<served, answered, reported>>
vars == <<diskFails, timerOn, nextRun, running, counters, stage, lastSync,
          history, answers>>

NoRun == 0
Statuses == {"never", "ok", "partial", "error"}
Snapshot == [tick : 0 .. MaxTicks, status : Statuses]
Ticking == {c \in Caller : stage[c] # "idle"}

Init ==
  /\ diskFails \in BOOLEAN
  /\ timerOn = TRUE /\ nextRun = TRUE
  /\ running = FALSE
  /\ runCount = 0 /\ successCount = 0 /\ failureCount = 0
  /\ stage = [c \in Caller |-> "idle"]
  /\ lastSync = [tick |-> NoRun, status |-> "never"]
  /\ history = <<>>
  /\ served = [c \in Client |-> NoRun]
  /\ answered = [c \in Client |-> FALSE]
  /\ reported = [c \in Client |-> NoRun]

\* history.push and slice(-maxHistory).
Recorded(snapshot) ==
  LET longer == Append(history, snapshot)
      extra  == Len(longer) - MaxHistory
  IN IF extra > 0 THEN SubSeq(longer, extra + 1, Len(longer)) ELSE longer
-----------------------------------------------------------------------------
(* runTick *)

\* Mutant of BeginTick: no test of the flag.
BeginTickUnguarded(c) ==
  /\ stage[c] = "idle"
  /\ runCount < MaxTicks
  /\ running' = TRUE
  /\ runCount' = runCount + 1
  /\ stage' = [stage EXCEPT ![c] = "run"]
  /\ UNCHANGED <<diskFails, timerOn, nextRun, successCount, failureCount,
                 lastSync, history, reported>>

BeginTick(c) ==
  /\ ~ running
  /\ runCount < MaxTicks
  /\ running' = TRUE
  /\ runCount' = runCount + 1
  /\ stage' = [stage EXCEPT ![c] = "run"]
  /\ UNCHANGED <<diskFails, timerOn, nextRun, successCount, failureCount,
                 lastSync, history, reported>>

\* The interval elapses.  While a tick is running this has no effect.
TimerFires ==
  /\ timerOn
  /\ BeginTick(Timer)
  /\ UNCHANGED <<served, answered>>

Post(c) ==
  /\ stage[c] = "idle"
  /\ BeginTick(c)
  /\ served' = [served EXCEPT ![c] = runCount + 1]
  /\ answered' = [answered EXCEPT ![c] = FALSE]

\* A tick is running: runNow returns at once and the route answers.
PostDropped(c) ==
  /\ stage[c] = "idle"
  /\ running
  /\ served' = [served EXCEPT ![c] = NoRun]
  /\ answered' = [answered EXCEPT ![c] = TRUE]
  /\ reported' = [reported EXCEPT ![c] = lastSync.tick]
  /\ UNCHANGED <<diskFails, timerOn, nextRun, running, counters, stage,
                 lastSync, history>>

\* The finally block; the route of a client answers as soon as its tick is
\* over, with the result that is there then.
EndTick(c) ==
  /\ running' = FALSE
  /\ nextRun' = TRUE
  /\ stage' = [stage EXCEPT ![c] = "idle"]
  /\ IF c \in Client
     THEN /\ answered' = [answered EXCEPT ![c] = TRUE]
          /\ reported' = [reported EXCEPT ![c] = lastSync'.tick]
     ELSE UNCHANGED <<answered, reported>>
  /\ UNCHANGED <<diskFails, timerOn, runCount, served>>

Succeed(c) ==
  /\ successCount' = successCount + 1
  /\ UNCHANGED failureCount
  /\ EndTick(c)

\* Mutant of Fail: the flag is lowered on success only.
FailStaysRunning(c) ==
  /\ failureCount' = failureCount + 1
  /\ stage' = [stage EXCEPT ![c] = "idle"]
  /\ IF c \in Client
     THEN /\ answered' = [answered EXCEPT ![c] = TRUE]
          /\ reported' = [reported EXCEPT ![c] = lastSync'.tick]
     ELSE UNCHANGED <<answered, reported>>
  /\ UNCHANGED <<diskFails, timerOn, nextRun, running, runCount, successCount,
                 served>>

Fail(c) ==
  /\ failureCount' = failureCount + 1
  /\ UNCHANGED successCount
  /\ EndTick(c)
-----------------------------------------------------------------------------
(* onTick *)

InProgress == UNCHANGED <<diskFails, timerOn, nextRun, running, counters,
                          answers>>

RunReturns(c) ==
  /\ stage[c] = "run"
  /\ \E st \in {"ok", "partial", "error"} :
       lastSync' = [tick |-> runCount, status |-> st]
  /\ stage' = [stage EXCEPT ![c] = "record"]
  /\ InProgress /\ UNCHANGED history

\* The catch block puts a placeholder with status error in lastSyncResult.
ToCatch(c) ==
  /\ lastSync' = [tick |-> runCount, status |-> "error"]
  /\ stage' = [stage EXCEPT ![c] = "catch"]
  /\ InProgress

RunThrows(c) ==
  /\ stage[c] = "run"
  /\ ToCatch(c)
  /\ UNCHANGED history

Record(c) ==
  /\ stage[c] = "record"
  /\ history' = Recorded(lastSync)
  /\ IF lastSync.status = "error"
     THEN ToCatch(c)
     ELSE UNCHANGED lastSync /\ Succeed(c)

RecordFails(c) ==
  /\ stage[c] = "record"
  /\ diskFails
  /\ ToCatch(c)
  /\ UNCHANGED history

\* The catch block records the placeholder and rethrows.
RecordError(c) ==
  /\ stage[c] = "catch"
  /\ history' = Recorded(lastSync)
  /\ UNCHANGED lastSync
  /\ Fail(c)

RecordErrorFails(c) ==
  /\ stage[c] = "catch"
  /\ diskFails
  /\ UNCHANGED <<history, lastSync>>
  /\ Fail(c)
-----------------------------------------------------------------------------
Start ==
  /\ ~ timerOn
  /\ timerOn' = TRUE
  /\ nextRun' = TRUE
  /\ UNCHANGED <<diskFails, running, counters, stage, lastSync, history,
                 answers>>

Stop ==
  /\ timerOn
  /\ timerOn' = FALSE
  /\ nextRun' = FALSE
  /\ UNCHANGED <<diskFails, running, counters, stage, lastSync, history,
                 answers>>

TickStep(c) ==
  \/ RunReturns(c) \/ RunThrows(c)
  \/ Record(c) \/ RecordFails(c)
  \/ RecordError(c) \/ RecordErrorFails(c)

Next ==
  \/ TimerFires
  \/ \E c \in Client : Post(c) \/ PostDropped(c)
  \/ \E c \in Caller : TickStep(c)
  \/ Start \/ Stop

Spec == Init /\ [][Next]_vars

\* Every await of a tick settles.
FairSpec == Spec /\ \A c \in Caller : WF_vars(TickStep(c))
-----------------------------------------------------------------------------
(* Properties *)

\* Types, and the history's limit.
TypeOK ==
  /\ diskFails \in BOOLEAN
  /\ timerOn \in BOOLEAN /\ nextRun \in BOOLEAN /\ running \in BOOLEAN
  /\ runCount \in 0 .. MaxTicks
  /\ successCount \in Nat /\ failureCount \in Nat
  /\ stage \in [Caller -> {"idle", "run", "record", "catch"}]
  /\ lastSync \in Snapshot
  /\ history \in Seq(Snapshot) /\ Len(history) <= MaxHistory
  /\ served \in [Client -> 0 .. MaxTicks]
  /\ answered \in [Client -> BOOLEAN]
  /\ reported \in [Client -> 0 .. MaxTicks]

\* Two runs of the pipeline never overlap, whoever starts them: SyncRuntime
\* and the files it writes without locks rely on it.  Every run started is
\* counted once as a success or a failure when it is over.
OneRunAtATime ==
  /\ running <=> Ticking # {}
  /\ Cardinality(Ticking) <= 1
  /\ runCount = successCount + failureCount + Cardinality(Ticking)

\* A client whose request started a run is answered the result of that very
\* run, whatever the timer and other clients do meanwhile.
OwnRunReported ==
  \A c \in Client :
    answered[c] /\ served[c] # NoRun => reported[c] = served[c]

\* A tick that fails anywhere never leaves the scheduler locked.
NeverStuck == running ~> ~ running

=============================================================================
