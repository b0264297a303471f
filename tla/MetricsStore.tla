---------------------------- MODULE MetricsStore ----------------------------
(***************************************************************************)
(* The metrics store of src/observability: recorded metrics wait in a      *)
(* buffer until a timer, a full buffer, a report or the end of the process *)
(* has them flushed, which reads the file, counts the batch in and writes  *)
(* the file.  A process has one flush in flight at most; processes share   *)
(* the file without a lock.                                                *)
(*                                                                         *)
(* The file's counters are modelled by the sequence of metrics counted.    *)
(***************************************************************************)
EXTENDS Naturals, Sequences

CONSTANTS
  Process,      \* command line runs and servers in one directory
  Threshold,    \* METRIC_BUFFER_FLUSH_THRESHOLD
  MaxMetrics,   \* bound on the metrics recorded
  World         \* what may happen: every behaviour is in one of these

WorldType ==
  [processes : SUBSET Process,
   exits     : BOOLEAN,    \* processes come to an end of their own
   slow      : BOOLEAN,    \* a flush may take longer than the timer
   faults    : SUBSET {"read", "write", "torn", "kill"},
   strikes   : Nat]        \* bound on the number of failures

ASSUME MetricsConstants ==
  /\ Threshold \in Nat \ {0} /\ MaxMetrics \in Nat
  /\ World \subseteq WorldType

Metric == 1 .. MaxMetrics      \* in the order they are recorded

VARIABLES
  world,      \* the world of this behaviour; it never changes
  count,      \* metrics recorded so far
  by,         \* the process that recorded each
  answer,     \* what recordCommandMetric answered it
  file,       \* observability.json
  buffer,     \* metricBufferByPath
  timer,      \* metricFlushTimers
  flight,     \* metricFlushInFlight: what the flush does next
  batch,      \* the metrics it has taken out of the buffer
  loaded,     \* the file as it was loaded
  closing,    \* the beforeExit hook has run
  faults      \* failures so far

flush == <<flight, batch, loaded>>
metricsVars ==
  <<world, count, by, answer, file, buffer, timer, flush, closing, faults>>

RangeOf(s) == {s[i] : i \in 1 .. Len(s)}

MetricsInit ==
  /\ world \in World
  /\ count = 0
  /\ by \in [Metric -> world.processes]
  /\ answer = [m \in Metric |-> "none"]
  /\ file = <<>>
  /\ buffer = [p \in Process |-> <<>>]
  /\ timer = [p \in Process |-> FALSE]
  /\ flight = [p \in Process |-> "none"]
  /\ batch = buffer /\ loaded = buffer
  /\ closing = timer
  /\ faults = 0

Fault(kind) ==
  /\ kind \in world.faults /\ faults < world.strikes
  /\ faults' = faults + 1
-----------------------------------------------------------------------------
\* flushMetricsPath with this buffer: nothing while a flush is in flight.
Flush(p, queue) ==
  IF flight[p] # "none" \/ queue = <<>>
  THEN /\ buffer' = [buffer EXCEPT ![p] = queue]
       /\ UNCHANGED flush
  ELSE /\ batch' = [batch EXCEPT ![p] = queue]
       /\ buffer' = [buffer EXCEPT ![p] = <<>>]
       /\ flight' = [flight EXCEPT ![p] = "load"]
       /\ UNCHANGED loaded

\* A flush that is not joined to another clears the timer.
ClearTimer(p) == timer' = [timer EXCEPT ![p] = @ /\ flight[p] # "none"]

\* Mutant of Record: no timer is set.
RecordNoTimer(p) ==
  /\ ~ closing[p] /\ count < MaxMetrics /\ by[count + 1] = p
  /\ count' = count + 1
  /\ LET queue == Append(buffer[p], count + 1)
     IN IF Len(queue) >= Threshold
        THEN /\ answer' = [answer EXCEPT ![count + 1] = "waiting"]
             /\ Flush(p, queue) /\ ClearTimer(p)
        ELSE /\ answer' = [answer EXCEPT ![count + 1] = "stored"]
             /\ buffer' = [buffer EXCEPT ![p] = queue]
             /\ UNCHANGED <<timer, flush>>
  /\ UNCHANGED <<world, by, file, closing, faults>>

\* recordCommandMetric: a full buffer is flushed at once, and the answer
\* waits for that flush.
Record(p) ==
  /\ ~ closing[p] /\ count < MaxMetrics /\ by[count + 1] = p
  /\ count' = count + 1
  /\ LET queue == Append(buffer[p], count + 1)
     IN IF Len(queue) >= Threshold
        THEN /\ answer' = [answer EXCEPT ![count + 1] = "waiting"]
             /\ Flush(p, queue) /\ ClearTimer(p)
        ELSE /\ answer' = [answer EXCEPT ![count + 1] = "stored"]
             /\ buffer' = [buffer EXCEPT ![p] = queue]
             /\ timer' = [timer EXCEPT ![p] = TRUE]
             /\ UNCHANGED flush
  /\ UNCHANGED <<world, by, file, closing, faults>>

\* The timer of scheduleMetricFlush.
TimerFires(p) ==
  /\ timer[p] /\ (world.slow \/ flight[p] = "none")
  /\ timer' = [timer EXCEPT ![p] = FALSE]
  /\ Flush(p, buffer[p])
  /\ UNCHANGED <<world, count, by, answer, file, closing, faults>>

\* getObservabilityReport and the SIGTERM hook flush what there is.
Report(p) ==
  /\ p \in world.processes /\ ~ closing[p]
  /\ Flush(p, buffer[p]) /\ ClearTimer(p)
  /\ UNCHANGED <<world, count, by, answer, file, closing, faults>>
-----------------------------------------------------------------------------
(* The flush in flight *)

Load(p) ==
  /\ flight[p] = "load"
  /\ loaded' = [loaded EXCEPT ![p] = file]
  /\ flight' = [flight EXCEPT ![p] = "write"]
  /\ UNCHANGED <<world, count, by, answer, file, buffer, timer, batch, closing,
                 faults>>

\* loadStore answers an empty store with an error, and nobody looks at it.
LoadFails(p) ==
  /\ flight[p] = "load"
  /\ Fault("read")
  /\ loaded' = [loaded EXCEPT ![p] = <<>>]
  /\ flight' = [flight EXCEPT ![p] = "write"]
  /\ UNCHANGED <<world, count, by, answer, file, buffer, timer, batch, closing>>

\* The flush is over and those who wait for it are answered.
Landed(p, reply) ==
  /\ answer' = [m \in Metric |-> IF answer[m] = "waiting" /\ by[m] = p
                                 THEN reply ELSE answer[m]]
  /\ flight' = [flight EXCEPT ![p] = "none"]
  /\ batch' = [batch EXCEPT ![p] = <<>>]
  /\ loaded' = [loaded EXCEPT ![p] = <<>>]

\* Mutant of Write: what was in the file is not kept.
WriteBatch(p) ==
  /\ flight[p] = "write"
  /\ file' = batch[p]
  /\ Landed(p, "stored")
  /\ UNCHANGED <<world, count, by, buffer, timer, closing, faults>>

Write(p) ==
  /\ flight[p] = "write"
  /\ file' = loaded[p] \o batch[p]
  /\ Landed(p, "stored")
  /\ UNCHANGED <<world, count, by, buffer, timer, closing, faults>>

\* writeFile empties the file before it fills it.
Torn ==
  \/ UNCHANGED file
  \/ "torn" \in world.faults /\ file' = <<>>

\* Mutant of WriteFails: the batch is put back behind the buffer.
WriteFailsAppends(p) ==
  /\ flight[p] = "write"
  /\ Fault("write") /\ Torn
  /\ buffer' = [buffer EXCEPT ![p] = @ \o batch[p]]
  /\ Landed(p, "refused")
  /\ UNCHANGED <<world, count, by, timer, closing>>

\* The batch is put back in front of the buffer; no timer is set.
WriteFails(p) ==
  /\ flight[p] = "write"
  /\ Fault("write") /\ Torn
  /\ buffer' = [buffer EXCEPT ![p] = batch[p] \o @]
  /\ Landed(p, "refused")
  /\ UNCHANGED <<world, count, by, timer, closing>>
-----------------------------------------------------------------------------
(* The end of a process, and its next start *)

\* Nothing is left to do but the hook, which runs once.
BeforeExit(p) ==
  /\ p \in world.processes /\ world.exits
  /\ ~ closing[p] /\ flight[p] = "none"
  /\ closing' = [closing EXCEPT ![p] = TRUE]
  /\ Flush(p, buffer[p])
  /\ timer' = [timer EXCEPT ![p] = @ /\ buffer[p] = <<>>]
  /\ UNCHANGED <<world, count, by, answer, file, faults>>

\* What the process holds in memory is gone.
Forget(p) ==
  /\ buffer' = [buffer EXCEPT ![p] = <<>>]
  /\ timer' = [timer EXCEPT ![p] = FALSE]
  /\ flight' = [flight EXCEPT ![p] = "none"]
  /\ batch' = [batch EXCEPT ![p] = <<>>]
  /\ loaded' = [loaded EXCEPT ![p] = <<>>]
  /\ closing' = [closing EXCEPT ![p] = FALSE]

Exit(p) ==
  /\ closing[p] /\ flight[p] = "none"
  /\ Forget(p)
  /\ UNCHANGED <<world, count, by, answer, file, faults>>

\* A crash, or the process.exit of the server's own signal handlers.
Kill(p) ==
  /\ Fault("kill")
  /\ buffer[p] # <<>> \/ flight[p] # "none"
  /\ IF flight[p] = "write" THEN Torn ELSE UNCHANGED file
  /\ Forget(p)
  /\ answer' = [m \in Metric |-> IF answer[m] = "waiting" /\ by[m] = p
                                 THEN "none" ELSE answer[m]]
  /\ UNCHANGED <<world, count, by>>

FlushStep(p) == Load(p) \/ LoadFails(p) \/ Write(p) \/ WriteFails(p)

MetricsNext ==
  \E p \in Process :
    \/ Record(p) \/ TimerFires(p) \/ Report(p)
    \/ FlushStep(p)
    \/ BeforeExit(p) \/ Exit(p) \/ Kill(p)

MetricsSpec == MetricsInit /\ [][MetricsNext]_metricsVars

\* Timers fire and file operations come to an end.
FairSpec ==
  /\ MetricsSpec
  /\ \A p \in Process :
       WF_metricsVars(TimerFires(p)) /\ WF_metricsVars(FlushStep(p))
-----------------------------------------------------------------------------
(* Properties *)

Alone == \A p, q \in world.processes : p = q

Held(p) == RangeOf(batch[p]) \cup RangeOf(buffer[p])

\* Metrics of one process are counted once and in the order they were
\* recorded, so that the last run the file tells of is the last: through
\* failed writes, kills and other processes.  And every metric recorded is in
\* the file, in the batch in flight or in the buffer, as long as one process
\* runs at a time and files can be read and written; a write that fails costs
\* no metric until the process ends.
KeptInOrder ==
  /\ \A p \in Process :
       LET all == file \o batch[p] \o buffer[p]
       IN \A i, j \in 1 .. Len(all) :
            i < j /\ by[all[i]] = p /\ by[all[j]] = p => all[i] < all[j]
  /\ Alone /\ world.faults \subseteq (IF world.exits THEN {} ELSE {"write"}) =>
       1 .. count \subseteq RangeOf(file) \cup UNION {Held(p) : p \in Process}

\* What is counted stays counted, as long as one process runs at a time, the
\* file can be read and no write is cut short.
HistoryKept ==
  [][Alone /\ world.faults \cap {"read", "torn"} = {} =>
       RangeOf(file) \subseteq RangeOf(file')]_metricsVars

\* A metric that waits in the buffer is counted in the end, as long as flushes
\* succeed and take less than the timer.
Flushes ==
  \A p \in Process, m \in Metric :
    m \in RangeOf(buffer[p]) /\ Alone /\ world.faults = {} /\ ~ world.slow
      ~> m \in RangeOf(file)
=============================================================================
