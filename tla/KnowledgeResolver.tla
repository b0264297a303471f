------------------------- MODULE KnowledgeResolver -------------------------
(***************************************************************************)
(* The knowledge resolver of src/integrations: an entry that a backend     *)
(* cannot take is written to the dead letter queue of its project, and     *)
(* retry loops, one per resolver and its timer, read the queue, offer the  *)
(* due entries to the backend and write back what is left; an entry older  *)
(* than the TTL goes to the quarantine file.                               *)
(*                                                                         *)
(* Both files are read, changed and written as a whole, with awaits in     *)
(* between and no lock.                                                    *)
(***************************************************************************)
EXTENDS Naturals, FiniteSets

CONSTANTS
  Entry,        \* knowledge entries, each given to sync() at most once
  Invalid,      \* those the backend refuses with ProviderValidationError
  Loop,         \* the retry loops that may run
  Ttl,          \* dlq.ttlDays
  Backoff,      \* retryPolicy.backoffMs
  MaxBackoff,   \* retryPolicy.maxBackoffMs
  MaxTries,     \* retryPolicy.maxAttempts
  LastSend,     \* sync() is called up to this time
  MaxTime,      \* bound on the clock
  World         \* what may happen: every behaviour is in one of these

FaultKinds == {"refuse", "unanswered", "unhealthy", "read", "write", "crash"}

WorldType ==
  [overlap : BOOLEAN,           \* calls of sync() and retry loops may overlap
   faults  : SUBSET FaultKinds, \* the failures that may occur
   strikes : Nat]               \* bound on their number, refusals and ill
                                \* health aside

ASSUME ResolverConstants ==
  /\ Invalid \subseteq Entry
  /\ Entry \cap Loop = {}
  /\ {Ttl, Backoff, MaxBackoff, MaxTries, LastSend, MaxTime} \subseteq Nat
  /\ Backoff >= 1 /\ MaxBackoff >= Backoff /\ MaxTries >= 1
  /\ World \subseteq WorldType

VARIABLES
  world,        \* the world of this behaviour; it never changes
  now,          \* the clock
  stage,        \* the state of the sync() call of every entry
  copy,         \* the pending file as a sync() call read it
  loop,         \* the stage of every retry loop
  due,          \* the items a loop has still to offer
  keep,         \* the items a loop will write back
  expired,      \* the items a loop will append to the quarantine
  seen,         \* the quarantine file as a loop read it
  pending,      \* pending.jsonl
  quarantine,   \* quarantine.jsonl
  delivered,    \* how often the backend has taken every entry
  queuedAt,     \* when an entry was put in the queue
  faults        \* failures so far

client == <<world, stage, copy, queuedAt>>
loops  == <<loop, due, keep, expired, seen>>
files  == <<pending, quarantine>>
vars   == <<now, client, loops, files, delivered, faults>>

\* nextRetryAt waits backoff * 2^(attempts - 1), at most maxBackoff.
Delay(attempts) ==
  LET wait == Backoff * 2 ^ (attempts - 1)
  IN IF wait > MaxBackoff THEN MaxBackoff ELSE wait

Item == [entry : Entry, created : 0 .. MaxTime, attempts : 1 .. MaxTime + 1,
         next : 0 .. MaxTime + MaxBackoff]

Queued(items) == {item.entry : item \in items}

Expired(item) == now - item.created > Ttl
Waiting(item) == item.next > now

Sending == {e \in Entry : stage[e] \in {"send", "list", "enqueue", "write"}}
Retrying == {l \in Loop : loop[l] # "idle"}

\* A worker may begin.
Free == world.overlap \/ Sending \cup Retrying = {}

Init ==
  /\ world \in World
  /\ now = 0
  /\ stage = [e \in Entry |-> "new"]
  /\ copy = [e \in Entry |-> {}]
  /\ loop = [l \in Loop |-> "idle"]
  /\ due = [l \in Loop |-> {}] /\ keep = due /\ expired = due
  /\ seen = [l \in Loop |-> {}]
  /\ pending = {} /\ quarantine = {}
  /\ delivered = [e \in Entry |-> 0]
  /\ queuedAt = [e \in Entry |-> 0]
  /\ faults = 0

Fault(kind) ==
  /\ kind \in world.faults /\ faults < world.strikes
  /\ faults' = faults + 1

\* The clock.  It waits at LastSend for the calls of sync(), so that the TTL
\* of everything queued ends before the clock does.
Tick ==
  /\ now < MaxTime
  /\ now >= LastSend => Sending = {}
  /\ now' = now + 1
  /\ UNCHANGED <<client, loops, files, delivered, faults>>
-----------------------------------------------------------------------------
(* The backend behind withRetry: up to MaxTries attempts, and an attempt   *)
(* may be taken while its answer is lost.  No attempt touches anything     *)
(* another worker can see, so they are one step.                           *)

Unanswered(k) ==
  /\ k > 0 => "unanswered" \in world.faults
  /\ faults + k <= world.strikes
  /\ faults' = faults + k

\* The k attempts before the last one were taken all the same.
Takes(e) ==
  \E k \in 0 .. MaxTries - 1 :
    Unanswered(k) /\ delivered' = [delivered EXCEPT ![e] = @ + k + 1]

\* The last attempt fails, or an earlier one with an error that is not
\* transient; k attempts were taken all the same.
Fails(e) ==
  \E k \in 0 .. MaxTries :
    /\ k < MaxTries => "refuse" \in world.faults
    /\ Unanswered(k) /\ delivered' = [delivered EXCEPT ![e] = @ + k]
-----------------------------------------------------------------------------
(* sync(entry) *)

Send(e) ==
  /\ stage[e] = "new" /\ now <= LastSend
  /\ Free
  /\ stage' = [stage EXCEPT ![e] = "send"]
  /\ UNCHANGED <<now, world, copy, queuedAt, loops, files, delivered, faults>>

\* provider.sync resolves; the call has still to list what is pending.
Sent(e) ==
  /\ stage[e] = "send" /\ e \notin Invalid
  /\ Takes(e)
  /\ stage' = [stage EXCEPT ![e] = "list"]
  /\ UNCHANGED <<now, world, copy, queuedAt, loops, files>>

Listed(e) ==
  /\ stage[e] = "list"
  /\ stage' = [stage EXCEPT ![e] = "synced"]
  /\ UNCHANGED <<now, world, copy, queuedAt, loops, files, delivered, faults>>

\* getPendingSyncs is awaited inside the same try: when it rejects, the entry
\* that the backend has taken goes to the queue as if it had not.
ListFails(e) ==
  /\ stage[e] = "list"
  /\ Fault("read")
  /\ stage' = [stage EXCEPT ![e] = "enqueue"]
  /\ UNCHANGED <<now, world, copy, queuedAt, loops, files, delivered>>

\* A validation error is thrown to the caller.
Reject(e) ==
  /\ stage[e] = "send" /\ e \in Invalid
  /\ stage' = [stage EXCEPT ![e] = "rejected"]
  /\ UNCHANGED <<now, world, copy, queuedAt, loops, files, delivered, faults>>

\* Any other error leads to enqueueDlq.
Refused(e) ==
  /\ stage[e] = "send" /\ e \notin Invalid
  /\ Fails(e)
  /\ stage' = [stage EXCEPT ![e] = "enqueue"]
  /\ UNCHANGED <<now, world, copy, queuedAt, loops, files>>

\* enqueueDlq reads the queue and stamps the new item with the time...
Enqueue(e) ==
  /\ stage[e] = "enqueue"
  /\ copy' = [copy EXCEPT ![e] =
       pending \cup {[entry |-> e, created |-> now, attempts |-> 1,
                     next |-> now + Delay(1)]}]
  /\ queuedAt' = [queuedAt EXCEPT ![e] = now]
  /\ stage' = [stage EXCEPT ![e] = "write"]
  /\ UNCHANGED <<now, world, loops, files, delivered, faults>>

\* ... and writes it with the item.  The caller is answered "queued", unless
\* the list of what is pending, which goes with the answer, cannot be read.
Enqueued(e) ==
  /\ stage[e] = "write"
  /\ pending' = copy[e]
  /\ copy' = [copy EXCEPT ![e] = {}]
  /\ \/ stage' = [stage EXCEPT ![e] = "queued"] /\ UNCHANGED faults
     \/ stage' = [stage EXCEPT ![e] = "failed"] /\ Fault("read")
  /\ UNCHANGED <<now, world, queuedAt, loops, quarantine, delivered>>

\* enqueueDlq rejects, and so does sync().
EnqueueFails(e) ==
  /\ \/ stage[e] = "enqueue" /\ Fault("read")
     \/ stage[e] = "write" /\ Fault("write")
  /\ copy' = [copy EXCEPT ![e] = {}]
  /\ stage' = [stage EXCEPT ![e] = "failed"]
  /\ UNCHANGED <<now, world, queuedAt, loops, files, delivered>>
-----------------------------------------------------------------------------
(* retryPendingProject *)

\* The queue is read before the backend's health is asked for.
StartRetry(l) ==
  /\ loop[l] = "idle" /\ pending # {}
  /\ Free
  /\ due' = [due EXCEPT ![l] = pending]
  /\ loop' = [loop EXCEPT ![l] = "health"]
  /\ UNCHANGED <<now, client, keep, expired, seen, files, delivered,
                 faults>>

Forget(l) ==
  /\ loop' = [loop EXCEPT ![l] = "idle"]
  /\ due' = [due EXCEPT ![l] = {}]
  /\ keep' = [keep EXCEPT ![l] = {}]
  /\ expired' = [expired EXCEPT ![l] = {}]
  /\ seen' = [seen EXCEPT ![l] = {}]

Unhealthy(l) ==
  /\ loop[l] = "health" /\ "unhealthy" \in world.faults
  /\ Forget(l)
  /\ UNCHANGED <<now, client, files, delivered, faults>>

\* Mutant of Healthy: the TTL is not looked at.
HealthyKeepsExpired(l) ==
  /\ loop[l] = "health"
  /\ keep' = [keep EXCEPT ![l] = {i \in due[l] : Waiting(i)}]
  /\ due' = [due EXCEPT ![l] = {i \in due[l] : ~ Waiting(i)}]
  /\ loop' = [loop EXCEPT ![l] = "offer"]
  /\ UNCHANGED <<now, client, expired, seen, files, delivered, faults>>

\* Items past the TTL and items not due yet are set apart.
Healthy(l) ==
  /\ loop[l] = "health"
  /\ expired' = [expired EXCEPT ![l] = {i \in due[l] : Expired(i)}]
  /\ keep' = [keep EXCEPT ![l] =
                {i \in due[l] : ~ Expired(i) /\ Waiting(i)}]
  /\ due' = [due EXCEPT ![l] =
               {i \in due[l] : ~ Expired(i) /\ ~ Waiting(i)}]
  /\ loop' = [loop EXCEPT ![l] = "offer"]
  /\ UNCHANGED <<now, client, seen, files, delivered, faults>>

\* Mutant of Offer: the item is written back although it was taken.
OfferKeeps(l, i) ==
  /\ loop[l] = "offer" /\ i \in due[l]
  /\ Takes(i.entry)
  /\ due' = [due EXCEPT ![l] = @ \ {i}]
  /\ keep' = [keep EXCEPT ![l] = @ \cup {i}]
  /\ UNCHANGED <<now, client, loop, expired, seen, files>>

Offer(l, i) ==
  /\ loop[l] = "offer" /\ i \in due[l]
  /\ Takes(i.entry)
  /\ due' = [due EXCEPT ![l] = @ \ {i}]
  /\ UNCHANGED <<now, client, loop, keep, expired, seen, files>>

\* Mutant of OfferFails: a failure is counted and nothing else.
OfferFailsDrops(l, i) ==
  /\ loop[l] = "offer" /\ i \in due[l]
  /\ Fails(i.entry)
  /\ due' = [due EXCEPT ![l] = @ \ {i}]
  /\ UNCHANGED <<now, client, loop, keep, expired, seen, files>>

OfferFails(l, i) ==
  /\ loop[l] = "offer" /\ i \in due[l]
  /\ Fails(i.entry)
  /\ due' = [due EXCEPT ![l] = @ \ {i}]
  /\ keep' = [keep EXCEPT ![l] = @ \cup
       {[i EXCEPT !.attempts = @ + 1, !.next = now + Delay(i.attempts + 1)]}]
  /\ UNCHANGED <<now, client, loop, expired, seen, files>>

\* Mutant of WriteBack: expired items are not quarantined.
WriteBackOnly(l) ==
  /\ loop[l] = "offer" /\ due[l] = {}
  /\ pending' = keep[l]
  /\ Forget(l)
  /\ UNCHANGED <<now, client, quarantine, delivered, faults>>

\* writePending(keep); appendQuarantine returns at once without items.
WriteBack(l) ==
  /\ loop[l] = "offer" /\ due[l] = {}
  /\ pending' = keep[l]
  /\ IF expired[l] = {} THEN Forget(l)
     ELSE /\ loop' = [loop EXCEPT ![l] = "quarantine"]
          /\ UNCHANGED <<due, keep, expired, seen>>
  /\ UNCHANGED <<now, client, quarantine, delivered, faults>>

ReadQuarantine(l) ==
  /\ loop[l] = "quarantine"
  /\ seen' = [seen EXCEPT ![l] = quarantine]
  /\ loop' = [loop EXCEPT ![l] = "append"]
  /\ UNCHANGED <<now, client, due, keep, expired, files, delivered,
                 faults>>

AppendQuarantine(l) ==
  /\ loop[l] = "append"
  /\ quarantine' = seen[l] \cup expired[l]
  /\ Forget(l)
  /\ UNCHANGED <<now, client, pending, delivered, faults>>

\* One of the two writes fails, or the quarantine cannot be read: the retry is
\* given up.
RetryFails(l) ==
  /\ \/ loop[l] = "offer" /\ due[l] = {} /\ Fault("write")
     \/ loop[l] = "quarantine" /\ Fault("read")
     \/ loop[l] = "append" /\ Fault("write")
  /\ Forget(l)
  /\ UNCHANGED <<now, client, files, delivered>>

\* The process dies: calls in progress are never answered.
Crash ==
  /\ Sending \cup Retrying # {}
  /\ Fault("crash")
  /\ stage' = [e \in Entry |-> IF e \in Sending THEN "failed" ELSE stage[e]]
  /\ copy' = [e \in Entry |-> {}]
  /\ loop' = [l \in Loop |-> "idle"]
  /\ due' = [l \in Loop |-> {}] /\ keep' = due' /\ expired' = due'
  /\ seen' = [l \in Loop |-> {}]
  /\ UNCHANGED <<now, world, queuedAt, files, delivered>>
-----------------------------------------------------------------------------
SyncStep(e) ==
  \/ Sent(e) \/ Listed(e) \/ ListFails(e)
  \/ Reject(e) \/ Refused(e)
  \/ Enqueue(e) \/ Enqueued(e) \/ EnqueueFails(e)

OfferStep(l) ==
  \E i \in due[l] : Offer(l, i) \/ OfferFails(l, i)

RetryStep(l) ==
  \/ Unhealthy(l) \/ Healthy(l)
  \/ OfferStep(l)
  \/ WriteBack(l) \/ ReadQuarantine(l) \/ AppendQuarantine(l) \/ RetryFails(l)

Next ==
  \/ Tick
  \/ \E e \in Entry : Send(e) \/ SyncStep(e)
  \/ \E l \in Loop : StartRetry(l) \/ RetryStep(l)
  \/ Crash

Spec == Init /\ [][Next]_vars

\* Time passes, timers keep firing, calls settle, and the backend is healthy
\* again and again.
FairSpec ==
  /\ Spec
  /\ WF_vars(Tick)
  /\ \A e \in Entry : WF_vars(SyncStep(e))
  /\ SF_vars(\E l \in Loop : StartRetry(l))
  /\ \A l \in Loop : WF_vars(RetryStep(l)) /\ SF_vars(Healthy(l))
-----------------------------------------------------------------------------
(* Properties *)

\* The entries a loop has taken out of the queue and not put anywhere yet.
InHand == UNION {Queued(expired[l]) : l \in Loop}

Accounted ==
  Queued(pending) \cup Queued(quarantine) \cup InHand
    \cup {e \in Entry : delivered[e] > 0}

\* An entry whose caller was told that it is queued is in the queue or in
\* quarantine until the backend has taken it.
QueuedIsKept == \A e \in Entry : stage[e] = "queued" => e \in Accounted

\* One worker at a time and files that can be read and written.
Serial ==
  /\ ~ world.overlap
  /\ world.faults \subseteq {"refuse", "unanswered", "unhealthy"}

\* No queued entry is lost while workers do not meet and files can be read and
\* written, whatever the backend does; and whatever crashes and whatever file
\* access fails, a queued entry can only get lost once it is past the TTL: on
\* its way from the queue to the quarantine.
NothingLost ==
  /\ Serial => QueuedIsKept
  /\ ~ world.overlap =>
       \A e \in Entry :
         stage[e] = "queued" /\ e \notin Accounted => now > queuedAt[e] + Ttl

\* While workers do not meet, the backend takes an entry again only for a
\* failure: an answer that is lost, a queue that cannot be listed after the
\* entry was taken, a write or a process that is cut short before the queue
\* is written back.  Each failure costs at most one more delivery.
TakenOnce ==
  ~ world.overlap => \A e \in Entry : delivered[e] <= 1 + faults

Place ==
  [e \in Entry |-> IF delivered[e] > 0 THEN "backend"
                   ELSE IF e \in Queued(quarantine) THEN "quarantine"
                   ELSE IF e \in Queued(pending) \cup InHand THEN "queue"
                   ELSE "caller"]

Abstract == INSTANCE DeliveryQueue
              WITH place <- IF Serial THEN Place
                            ELSE [e \in Entry |-> "caller"]

\* In a serial world the files, the loops' local lists and the backend's
\* answers together implement the queue of DeliveryQueue.
ImplementsQueue == Abstract!Spec

\* Every entry that was queued leaves the queue again, whatever fails.
Drains == \A e \in Entry : e \in Queued(pending) ~> e \notin Queued(pending)
=============================================================================
