---------------------- MODULE KnowledgeResolver_proofs ----------------------
(***************************************************************************)
(* What the dead letter queue promises, for any entries, loops, limits and *)
(* worlds.  The lists of items are followed from the file through a loop   *)
(* and back.                                                               *)
(***************************************************************************)
EXTENDS KnowledgeResolver, TLAPS

\* Attempts and times of the next one play no part here.
IsItem(i) ==
  /\ {"entry", "created"} \subseteq DOMAIN i
  /\ i.entry \in Entry /\ i.created \in Nat

Held(l) == due[l] \cup keep[l] \cup expired[l]

Stages == {"new", "send", "list", "enqueue", "write", "synced", "rejected",
           "queued", "failed"}
Settled == {"queued", "failed"}
LoopStages == {"idle", "health", "offer", "quarantine", "append"}

Shape ==
  /\ world \in World /\ now \in Nat /\ faults \in Nat
  /\ stage \in [Entry -> Stages] /\ DOMAIN copy = Entry
  /\ loop \in [Loop -> LoopStages]
  /\ DOMAIN due = Loop /\ DOMAIN keep = Loop /\ DOMAIN expired = Loop
  /\ DOMAIN seen = Loop
  /\ delivered \in [Entry -> Nat] /\ queuedAt \in [Entry -> Nat]

\* At most one call or one loop is under way.
OneWorker ==
  /\ \A e, f \in Entry : e \in Sending /\ f \in Sending => e = f
  /\ \A l, m \in Loop : loop[l] # "idle" /\ loop[m] # "idle" => l = m
  /\ \A e \in Entry, l \in Loop : ~ (e \in Sending /\ loop[l] # "idle")

\* What a worker read is still what the file holds, and a call adds its item.
UpToDate ==
  /\ \A e \in Entry : stage[e] = "write" =>
       \E i : /\ IsItem(i) /\ i.entry = e /\ i.created = queuedAt[e]
             /\ copy[e] = pending \cup {i}
  /\ \A l \in Loop : loop[l] = "health" => due[l] = pending
  /\ \A l \in Loop : loop[l] = "append" => seen[l] = quarantine

\* An entry has one item in a set.
Single(items) == \A i, j \in items : i.entry = j.entry => i = j

\* An item tells of the call that queued it; the call may have failed after.
Genuine(items) ==
  \A i \in items :
    IsItem(i) /\ stage[i.entry] \in Settled /\ queuedAt[i.entry] = i.created

\* The lists of a loop, stage by stage.  While entries are offered, the file
\* names no entry that is neither held nor taken; then it has what the loop
\* keeps.
Lists(l) ==
  /\ Genuine(Held(l)) /\ Single(Held(l))
  /\ due[l] \cap keep[l] = {} /\ due[l] \cap expired[l] = {}
  /\ keep[l] \cap expired[l] = {}
  /\ \A i \in expired[l] : now > i.created + Ttl
  /\ loop[l] \in {"idle", "health"} => keep[l] = {} /\ expired[l] = {}
  /\ loop[l] \in {"idle", "quarantine", "append"} => due[l] = {}
  /\ loop[l] = "offer" =>
       /\ Queued(Held(l)) \subseteq Queued(pending)
       /\ \A e \in Entry : e \in Queued(pending) =>
            e \in Queued(Held(l)) \/ delivered[e] > 0
  /\ loop[l] \in {"quarantine", "append"} =>
       pending = keep[l] /\ Queued(expired[l]) \cap Queued(quarantine) = {}

Files ==
  /\ Genuine(pending) /\ Single(pending)
  /\ Genuine(quarantine)
  /\ Queued(pending) \cap Queued(quarantine) = {}

\* Nothing is lost, or what is lost is past the TTL.
Traced ==
  \A e \in Entry : stage[e] = "queued" =>
    \/ e \in Accounted
    \/ now > queuedAt[e] + Ttl /\ ~ Serial

\* What is still to be offered was taken at most once for every failure.
Untaken ==
  /\ \A e \in Entry : delivered[e] <= 1 + faults
  /\ \A e \in Entry :
       stage[e] \in {"new", "send", "enqueue", "write"} => delivered[e] <= faults
  /\ \A l \in Loop : \A i \in Held(l) : delivered[i.entry] <= faults
  /\ (\A l \in Loop : loop[l] # "offer") =>
       \A i \in pending : delivered[i.entry] <= faults

Ordered ==
  /\ OneWorker /\ UpToDate
  /\ \A l \in Loop : Lists(l)
  /\ Files /\ Traced /\ Untaken

Inv == Shape /\ (~ world.overlap => Ordered)

\* What all steps have in common.
Grows ==
  /\ world' = world /\ now' \in Nat /\ now' >= now
  /\ faults' \in Nat /\ faults' >= faults
  /\ \A e \in Entry : stage[e] \in Settled =>
       stage'[e] = stage[e] /\ queuedAt'[e] = queuedAt[e]
  /\ delivered' \in [Entry -> Nat]
  /\ \A e \in Entry : delivered'[e] >= delivered[e]

-----------------------------------------------------------------------------
LEMMA WorldFacts == ASSUME Shape PROVE world \in WorldType
  BY ResolverConstants DEF Shape

\* An offer that is taken, and one that fails.
LEMMA TakesFacts ==
  ASSUME Shape, NEW e, Takes(e)
  PROVE  /\ delivered' \in [Entry -> Nat] /\ faults' \in Nat /\ faults' >= faults
         /\ e \in Entry => delivered'[e] > 0
         /\ \A f \in Entry : delivered'[f] >= delivered[f]
         /\ \A f \in Entry : f # e => delivered'[f] = delivered[f]
         /\ e \in Entry => delivered'[e] + faults <= delivered[e] + 1 + faults'
<1>1. PICK k \in 0 .. MaxTries - 1 :
         Unanswered(k) /\ delivered' = [delivered EXCEPT ![e] = @ + k + 1]
  BY DEF Takes
<1>2. MaxTries \in Nat
  BY ResolverConstants
<1>3. k \in Nat /\ faults \in Nat /\ faults' = faults + k
  BY <1>1, <1>2 DEF Unanswered, Shape
<1>5. delivered \in [Entry -> Nat]
  BY DEF Shape
<1>6. /\ delivered' \in [Entry -> Nat]
      /\ e \in Entry => delivered'[e] = delivered[e] + k + 1
  <2>1. CASE e \in Entry
    BY <1>1, <1>3, <1>5, <2>1
  <2>2. CASE e \notin Entry
    BY <1>1, <1>5, <2>2
  <2>3. QED
    BY <2>1, <2>2
<1>7. \A f \in Entry : f # e => delivered'[f] = delivered[f]
  BY <1>1, <1>5
<1>8. QED
  BY <1>3, <1>5, <1>6, <1>7

LEMMA FailsFacts ==
  ASSUME Shape, NEW e, Fails(e)
  PROVE  /\ delivered' \in [Entry -> Nat] /\ faults' \in Nat /\ faults' >= faults
         /\ \A f \in Entry : delivered'[f] >= delivered[f]
         /\ \A f \in Entry : f # e => delivered'[f] = delivered[f]
         /\ e \in Entry => delivered'[e] + faults <= delivered[e] + faults'
<1>1. PICK k \in 0 .. MaxTries :
         Unanswered(k) /\ delivered' = [delivered EXCEPT ![e] = @ + k]
  BY DEF Fails
<1>2. MaxTries \in Nat
  BY ResolverConstants
<1>3. k \in Nat /\ faults \in Nat /\ faults' = faults + k
  BY <1>1, <1>2 DEF Unanswered, Shape
<1>5. delivered \in [Entry -> Nat]
  BY DEF Shape
<1>6. /\ delivered' \in [Entry -> Nat]
      /\ e \in Entry => delivered'[e] = delivered[e] + k
  <2>1. CASE e \in Entry
    BY <1>1, <1>3, <1>5, <2>1
  <2>2. CASE e \notin Entry
    BY <1>1, <1>5, <2>2
  <2>3. QED
    BY <2>1, <2>2
<1>7. \A f \in Entry : f # e => delivered'[f] = delivered[f]
  BY <1>1, <1>5
<1>8. QED
  BY <1>3, <1>5, <1>6, <1>7

\* In a serial world nothing breaks.
LEMMA SerialFacts ==
  ASSUME Serial, NEW kind, Fault(kind)
  PROVE  kind \in {"refuse", "unanswered", "unhealthy"}
  BY DEF Serial, Fault

LEMMA FaultFacts ==
  ASSUME Shape, NEW kind, Fault(kind)
  PROVE  faults' \in Nat /\ faults' = faults + 1 /\ faults' > faults
  BY DEF Shape, Fault

LEMMA StageGrows ==
  ASSUME Shape, NEW e \in Entry, stage[e] \notin Settled, NEW s \in Stages,
         stage' = [stage EXCEPT ![e] = s]
  PROVE  /\ stage' \in [Entry -> Stages]
         /\ stage'[e] = s
         /\ \A f \in Entry : f # e => stage'[f] = stage[f]
         /\ \A f \in Entry : stage[f] \in Settled => stage'[f] = stage[f]
  BY DEF Shape

\* What stays when a step leaves lists and files alone.
LEMMA GenuineStays ==
  ASSUME Grows, NEW items, Genuine(items)
  PROVE  \A i \in items :
           /\ IsItem(i) /\ stage'[i.entry] \in Settled
           /\ queuedAt'[i.entry] = i.created
  BY DEF Grows, Genuine, IsItem

LEMMA ListsStay ==
  ASSUME Shape, Grows, NEW l \in Loop, Lists(l),
         loop'[l] = loop[l], due'[l] = due[l], keep'[l] = keep[l],
         expired'[l] = expired[l],
         loop[l] # "idle" => UNCHANGED files
  PROVE  Lists(l)'
<1>1. Held(l)' = Held(l) /\ loop[l] \in LoopStages
  BY DEF Held, Shape
<1>2. Genuine(Held(l))' /\ Single(Held(l))'
  BY <1>1, GenuineStays DEF Lists, Genuine, Single
<1>3. ASSUME NEW i \in expired[l] PROVE now' > i.created + Ttl
  BY ResolverConstants DEF Lists, Grows, Genuine, Held, IsItem, Shape
<1>4. ASSUME loop[l] = "offer"
      PROVE  /\ Queued(Held(l)') \subseteq Queued(pending')
             /\ \A e \in Entry : e \in Queued(pending') =>
                  e \in Queued(Held(l)') \/ delivered'[e] > 0
  <2>1. pending' = pending
    BY <1>4 DEF files
  <2>2. Queued(Held(l)) \subseteq Queued(pending)
    BY <1>4 DEF Lists
  <2>3. ASSUME NEW e \in Entry, e \in Queued(pending)
        PROVE  e \in Queued(Held(l)) \/ delivered'[e] > 0
    <3>1. e \in Queued(Held(l)) \/ delivered[e] > 0
      BY <1>4, <2>3 DEF Lists
    <3>2. QED
      BY <3>1 DEF Grows, Shape
  <2>4. QED
    BY <1>1, <2>1, <2>2, <2>3
<1>5. loop[l] \in {"quarantine", "append"} =>
        pending' = keep[l] /\ Queued(expired[l]) \cap Queued(quarantine') = {}
  BY DEF Lists, files
<1>6. QED
  BY <1>1, <1>2, <1>3, <1>4, <1>5 DEF Lists, Queued

LEMMA FilesStay ==
  ASSUME Grows, Files, UNCHANGED files
  PROVE  Files'
  BY GenuineStays DEF Files, files, Genuine, Single, Queued

LEMMA TracedStays ==
  ASSUME Shape, Grows, Traced,
         \A e \in Entry : stage'[e] = "queued" => stage[e] = "queued",
         \A e \in Entry : stage[e] = "queued" /\ e \in Accounted => e \in Accounted'
  PROVE  Traced'
<1> SUFFICES ASSUME NEW e \in Entry, stage'[e] = "queued"
             PROVE  e \in Accounted' \/ (now' > queuedAt'[e] + Ttl /\ ~ Serial')
  BY DEF Traced
<1>1. stage[e] = "queued" /\ queuedAt'[e] = queuedAt[e] /\ now' >= now
  BY DEF Grows, Settled
<1>2. Serial' <=> Serial
  BY DEF Serial, Grows
<1>3. e \in Accounted \/ (now > queuedAt[e] + Ttl /\ ~ Serial)
  BY <1>1 DEF Traced
<1>4. CASE e \in Accounted
  BY <1>1, <1>4
<1>5. CASE now > queuedAt[e] + Ttl /\ ~ Serial
  BY <1>1, <1>2, <1>5, ResolverConstants DEF Shape, Grows
<1>6. QED
  BY <1>3, <1>4, <1>5

\* Without a loop under way nothing is held.
LEMMA NothingHeld ==
  ASSUME NEW l \in Loop, Lists(l), loop[l] = "idle"
  PROVE  Held(l) = {} /\ due[l] = {} /\ keep[l] = {} /\ expired[l] = {}
  BY DEF Lists, Held
-----------------------------------------------------------------------------
(* Calls of sync().  While one is under way no loop is. *)

\* A step of a call that leaves the files alone.
LEMMA CallKeeps ==
  ASSUME Inv, NEW e \in Entry,
         NEW s \in {"send", "list", "enqueue", "write", "synced", "rejected", "failed"},
         e \in Sending \/ (stage[e] = "new" /\ Free),
         stage' = [stage EXCEPT ![e] = s],
         DOMAIN copy' = Entry, queuedAt' \in [Entry -> Nat],
         \A f \in Entry : f # e => copy'[f] = copy[f] /\ queuedAt'[f] = queuedAt[f],
         s = "write" => \E i : /\ IsItem(i) /\ i.entry = e /\ i.created = queuedAt'[e]
                               /\ copy'[e] = pending \cup {i},
         faults' \in Nat, faults' >= faults,
         delivered' \in [Entry -> Nat],
         \A f \in Entry : delivered'[f] >= delivered[f],
         \A f \in Entry : f # e => delivered'[f] = delivered[f],
         Untaken => /\ delivered'[e] <= 1 + faults'
                    /\ s \in {"send", "enqueue", "write"} => delivered'[e] <= faults',
         UNCHANGED <<now, world, loops, files>>
  PROVE  Inv'
<1> USE DEF loops, files
<1>0. stage[e] \notin Settled
  BY DEF Settled, Sending
<1>1. /\ stage' \in [Entry -> Stages] /\ stage'[e] = s
      /\ \A f \in Entry : f # e => stage'[f] = stage[f]
      /\ \A f \in Entry : stage[f] \in Settled => stage'[f] = stage[f]
  BY <1>0, StageGrows DEF Inv, Stages
<1>2. Grows
  BY <1>0, <1>1 DEF Grows, Inv, Shape
<1>3. Shape'
  BY <1>1 DEF Inv, Shape
<1> SUFFICES ASSUME ~ world.overlap PROVE Ordered'
  BY <1>2, <1>3 DEF Inv, Grows
<1>4. Ordered /\ Shape
  BY DEF Inv
<1>5. \A l \in Loop : loop[l] = "idle"
  BY <1>4 DEF Ordered, OneWorker, Free, Retrying
<1>6. \A f \in Entry : f \in Sending => f = e
  BY <1>4 DEF Ordered, OneWorker, Free
<1>7. OneWorker'
  <2>1. \A f \in Entry : f \in Sending' => f = e
    BY <1>1, <1>6 DEF Sending
  <2>2. QED
    BY <2>1, <1>5 DEF OneWorker, Sending
<1>8. UpToDate'
  BY <1>1, <1>5, <1>6 DEF UpToDate, Sending
<1>9. ASSUME NEW l \in Loop PROVE Lists(l)'
  BY <1>2, <1>4, ListsStay DEF Ordered
<1>10. Files'
  BY <1>2, <1>4, FilesStay DEF Ordered
<1>11. Traced'
  <2>1. ASSUME NEW f \in Entry, f \in Accounted PROVE f \in Accounted'
    <3>1. delivered[f] > 0 => delivered'[f] > 0
      BY <1>2, <1>4 DEF Grows, Shape
    <3>2. InHand' = InHand
      BY DEF InHand
    <3>3. QED
      BY <2>1, <3>1, <3>2 DEF Accounted
  <2>2. QED
    BY <1>1, <1>2, <1>4, <2>1, TracedStays DEF Ordered
<1>12. Untaken'
  <2>1. /\ \A f \in Entry : delivered[f] <= 1 + faults
        /\ \A f \in Entry :
             stage[f] \in {"new", "send", "enqueue", "write"} => delivered[f] <= faults
        /\ \A i \in pending : delivered[i.entry] <= faults
    BY <1>4, <1>5 DEF Ordered, Untaken
  <2>2. /\ delivered'[e] <= 1 + faults'
        /\ s \in {"send", "enqueue", "write"} => delivered'[e] <= faults'
    BY <1>4 DEF Ordered
  <2>3. \A f \in Entry : delivered'[f] \in Nat /\ delivered[f] \in Nat /\ faults \in Nat
    BY <1>4 DEF Shape
  <2>4. \A f \in Entry : delivered'[f] <= 1 + faults'
    BY <2>1, <2>2, <2>3
  <2>5. ASSUME NEW f \in Entry, stage'[f] \in {"new", "send", "enqueue", "write"}
        PROVE  delivered'[f] <= faults'
    BY <1>1, <2>1, <2>2, <2>3, <2>5
  <2>6. ASSUME NEW i \in pending PROVE delivered'[i.entry] <= faults'
    <3>1. i.entry \in Entry /\ i.entry # e
      BY <1>0, <1>4 DEF Ordered, Files, Genuine, IsItem
    <3>2. QED
      BY <2>1, <2>3, <3>1
  <2>7. \A l \in Loop : Held(l)' = {}
    BY <1>4, <1>5, NothingHeld DEF Ordered, Held
  <2>8. QED
    BY <2>4, <2>5, <2>6, <2>7 DEF Untaken
<1>13. QED
  BY <1>7, <1>8, <1>9, <1>10, <1>11, <1>12 DEF Ordered

LEMMA SyncKeeps ==
  ASSUME Inv, NEW e \in Entry,
         \/ Send(e) \/ Sent(e) \/ Listed(e) \/ ListFails(e)
         \/ Reject(e) \/ Refused(e) \/ Enqueue(e) \/ EnqueueFails(e)
  PROVE  Inv'
<1>1. /\ Shape /\ stage \in [Entry -> Stages] /\ DOMAIN copy = Entry
      /\ faults \in Nat /\ faults >= faults /\ now \in Nat
      /\ delivered \in [Entry -> Nat] /\ queuedAt \in [Entry -> Nat]
      /\ \A f \in Entry : delivered[f] \in Nat /\ delivered[f] >= delivered[f]
  BY DEF Inv, Shape
<1>2. Untaken => /\ delivered[e] <= 1 + faults
                 /\ stage[e] \in {"new", "send", "enqueue", "write"} =>
                      delivered[e] <= faults
  BY DEF Untaken
<1>3. CASE Send(e)
  <2>1. /\ UNCHANGED <<delivered, copy, queuedAt, faults, now, world, loops, files>>
        /\ stage' = [stage EXCEPT ![e] = "send"] /\ stage[e] = "new" /\ Free
    BY <1>3 DEF Send
  <2>2. QED
    BY <1>1, <1>2, <2>1, CallKeeps
<1>4. CASE Sent(e)
  <2>1. /\ UNCHANGED <<copy, queuedAt, now, world, loops, files>>
        /\ stage' = [stage EXCEPT ![e] = "list"] /\ e \in Sending /\ Takes(e)
        /\ stage[e] = "send"
    BY <1>4 DEF Sent, Sending
  <2>2. /\ delivered' \in [Entry -> Nat] /\ faults' \in Nat /\ faults' >= faults
        /\ \A f \in Entry : delivered'[f] >= delivered[f]
        /\ \A f \in Entry : f # e => delivered'[f] = delivered[f]
        /\ delivered'[e] + faults <= delivered[e] + 1 + faults'
        /\ delivered'[e] \in Nat
    BY <1>1, <2>1, TakesFacts
  <2>3. Untaken => delivered'[e] <= 1 + faults'
    BY <1>1, <1>2, <2>1, <2>2
  <2>4. QED
    BY <1>1, <2>1, <2>2, <2>3, CallKeeps
<1>5. CASE Listed(e)
  <2>1. /\ UNCHANGED <<delivered, copy, queuedAt, faults, now, world, loops, files>>
        /\ stage' = [stage EXCEPT ![e] = "synced"] /\ e \in Sending
    BY <1>5 DEF Listed, Sending
  <2>2. QED
    BY <1>1, <1>2, <2>1, CallKeeps
<1>6. CASE ListFails(e)
  <2>1. /\ UNCHANGED <<delivered, copy, queuedAt, now, world, loops, files>>
        /\ stage' = [stage EXCEPT ![e] = "enqueue"] /\ e \in Sending
    BY <1>6 DEF ListFails, Sending
  <2>2. faults' \in Nat /\ faults' = faults + 1 /\ faults' >= faults
    BY <1>1, <1>6, FaultFacts DEF ListFails
  <2>3. Untaken => delivered'[e] <= faults' /\ delivered'[e] <= 1 + faults'
    BY <1>1, <1>2, <2>1, <2>2
  <2>4. QED
    BY <1>1, <2>1, <2>2, <2>3, CallKeeps
<1>7. CASE Reject(e)
  <2>1. /\ UNCHANGED <<delivered, copy, queuedAt, faults, now, world, loops, files>>
        /\ stage' = [stage EXCEPT ![e] = "rejected"] /\ e \in Sending
    BY <1>7 DEF Reject, Sending
  <2>2. QED
    BY <1>1, <1>2, <2>1, CallKeeps
<1>8. CASE Refused(e)
  <2>1. /\ UNCHANGED <<copy, queuedAt, now, world, loops, files>>
        /\ stage' = [stage EXCEPT ![e] = "enqueue"] /\ e \in Sending /\ Fails(e)
        /\ stage[e] = "send"
    BY <1>8 DEF Refused, Sending
  <2>2. /\ delivered' \in [Entry -> Nat] /\ faults' \in Nat /\ faults' >= faults
        /\ \A f \in Entry : delivered'[f] >= delivered[f]
        /\ \A f \in Entry : f # e => delivered'[f] = delivered[f]
        /\ delivered'[e] + faults <= delivered[e] + faults'
        /\ delivered'[e] \in Nat
    BY <1>1, <2>1, FailsFacts
  <2>3. Untaken => delivered'[e] <= faults' /\ delivered'[e] <= 1 + faults'
    BY <1>1, <1>2, <2>1, <2>2
  <2>4. QED
    BY <1>1, <2>1, <2>2, <2>3, CallKeeps
<1>9. CASE Enqueue(e)
  <2> DEFINE new == [entry |-> e, created |-> now, attempts |-> 1,
                     next |-> now + Delay(1)]
  <2>1. /\ UNCHANGED <<delivered, faults, now, world, loops, files>>
        /\ stage' = [stage EXCEPT ![e] = "write"] /\ e \in Sending
        /\ stage[e] = "enqueue"
    BY <1>9 DEF Enqueue, Sending
  <2>2. new.entry = e /\ new.created = now /\ IsItem(new)
    BY <1>1 DEF IsItem
  <2>3. copy' = [copy EXCEPT ![e] = pending \cup {new}]
    BY <1>9 DEF Enqueue
  <2> HIDE DEF new
  <2>4. queuedAt' = [queuedAt EXCEPT ![e] = now]
    BY <1>9 DEF Enqueue
  <2>5. /\ DOMAIN copy' = Entry /\ queuedAt' \in [Entry -> Nat]
        /\ \A f \in Entry : f # e => copy'[f] = copy[f] /\ queuedAt'[f] = queuedAt[f]
        /\ copy'[e] = pending \cup {new} /\ queuedAt'[e] = now
    BY <1>1, <2>3, <2>4
  <2>6. \E i : /\ IsItem(i) /\ i.entry = e /\ i.created = queuedAt'[e]
               /\ copy'[e] = pending \cup {i}
    BY <2>2, <2>5
  <2>7. QED
    BY <1>1, <1>2, <2>1, <2>5, <2>6, CallKeeps
<1>10. CASE EnqueueFails(e)
  <2>1. /\ UNCHANGED <<delivered, queuedAt, now, world, loops, files>>
        /\ stage' = [stage EXCEPT ![e] = "failed"] /\ e \in Sending
        /\ stage[e] \in {"enqueue", "write"}
    BY <1>10 DEF EnqueueFails, Sending
  <2>2. DOMAIN copy' = Entry /\ \A f \in Entry : f # e => copy'[f] = copy[f]
    BY <1>1, <1>10 DEF EnqueueFails
  <2>3. faults' \in Nat /\ faults' = faults + 1 /\ faults' >= faults
    BY <1>1, <1>10, FaultFacts DEF EnqueueFails
  <2>4. Untaken => delivered'[e] <= 1 + faults'
    BY <1>1, <1>2, <2>1, <2>3
  <2>5. QED
    BY <1>1, <2>1, <2>2, <2>3, <2>4, CallKeeps
<1>11. QED
  BY <1>3, <1>4, <1>5, <1>6, <1>7, <1>8, <1>9, <1>10

LEMMA EnqueuedKeeps ==
  ASSUME Inv, NEW e \in Entry, Enqueued(e)
  PROVE  Inv'
<1> USE DEF loops, files
<1>1. /\ Shape /\ stage[e] = "write" /\ stage[e] \notin Settled /\ e \in Sending
      /\ UNCHANGED <<now, world, queuedAt, loops, quarantine, delivered>>
      /\ delivered \in [Entry -> Nat] /\ faults \in Nat
      /\ \A f \in Entry : delivered[f] >= delivered[f]
  BY DEF Inv, Enqueued, Shape, Settled, Sending
<1>2. PICK s \in Settled : stage' = [stage EXCEPT ![e] = s]
  BY DEF Enqueued, Settled
<1>3. s \in Stages
  BY DEF Settled, Stages
<1>4. /\ stage' \in [Entry -> Stages] /\ stage'[e] = s
      /\ \A f \in Entry : f # e => stage'[f] = stage[f]
      /\ \A f \in Entry : stage[f] \in Settled => stage'[f] = stage[f]
  BY <1>1, <1>2, <1>3, StageGrows
<1>5. faults' \in Nat /\ faults' >= faults
  BY <1>1, FaultFacts DEF Enqueued
<1>6. Grows
  BY <1>1, <1>4, <1>5 DEF Grows, Shape
<1>7. Shape'
  <2>1. DOMAIN copy' = Entry
    BY <1>1 DEF Enqueued, Shape
  <2>2. QED
    BY <1>1, <1>4, <1>5, <2>1 DEF Shape
<1> SUFFICES ASSUME ~ world.overlap PROVE Ordered'
  BY <1>6, <1>7 DEF Inv, Grows
<1>8. Ordered
  BY DEF Inv
<1>9. \A l \in Loop : loop[l] = "idle"
  BY <1>1, <1>8 DEF Ordered, OneWorker
<1>10. PICK new : /\ IsItem(new) /\ new.entry = e /\ new.created = queuedAt[e]
                  /\ copy[e] = pending \cup {new}
  BY <1>1, <1>8 DEF Ordered, UpToDate
<1>11. pending' = pending \cup {new}
  BY <1>10 DEF Enqueued
<1>12. \A f \in Entry : f \in Sending' => f # e /\ f \in Sending
  BY <1>2, <1>4 DEF Sending, Settled
<1>13. \A f \in Entry : f \notin Sending'
  BY <1>1, <1>8, <1>12 DEF Ordered, OneWorker
<1>14. OneWorker' /\ UpToDate'
  BY <1>1, <1>9, <1>13 DEF OneWorker, UpToDate, Sending
<1>15. ASSUME NEW l \in Loop PROVE Lists(l)'
  BY <1>1, <1>6, <1>8, <1>9, ListsStay DEF Ordered
<1>16. \A i \in pending \cup quarantine : i.entry # e
  BY <1>1, <1>8 DEF Ordered, Files, Genuine
<1>17. Files'
  <2>1. /\ IsItem(new) /\ stage'[new.entry] \in Settled
        /\ queuedAt'[new.entry] = new.created
    BY <1>1, <1>4, <1>10
  <2>2. Genuine(pending)' /\ Genuine(quarantine)'
    BY <1>1, <1>6, <1>8, <1>11, <2>1, GenuineStays DEF Ordered, Files, Genuine
  <2>3. Single(pending)'
    BY <1>8, <1>10, <1>11, <1>16 DEF Ordered, Files, Single
  <2>4. Queued(pending') \cap Queued(quarantine') = {}
    BY <1>1, <1>8, <1>10, <1>11, <1>16 DEF Ordered, Files, Queued
  <2>5. QED
    BY <2>2, <2>3, <2>4 DEF Files
<1>18. Traced'
  <2> SUFFICES ASSUME NEW f \in Entry, stage'[f] = "queued"
               PROVE  \/ f \in Accounted'
                      \/ (now' > queuedAt'[f] + Ttl /\ ~ Serial')
    BY DEF Traced
  <2>1. CASE f = e
    BY <1>10, <1>11, <2>1 DEF Accounted, Queued
  <2>2. CASE f # e
    <3>1. f \in Accounted => f \in Accounted'
      BY <1>1, <1>11 DEF Accounted, InHand, Queued
    <3>2. f \in Accounted \/ (now > queuedAt[f] + Ttl /\ ~ Serial)
      BY <1>4, <1>8, <2>2 DEF Ordered, Traced
    <3>3. Serial' <=> Serial
      BY <1>1 DEF Serial
    <3>4. QED
      BY <1>1, <3>1, <3>2, <3>3
  <2>3. QED
    BY <2>1, <2>2
<1>19. Untaken'
  <2>1. /\ \A f \in Entry : delivered[f] <= 1 + faults
        /\ \A f \in Entry :
             stage[f] \in {"new", "send", "enqueue", "write"} => delivered[f] <= faults
        /\ \A i \in pending : delivered[i.entry] <= faults
    BY <1>8, <1>9 DEF Ordered, Untaken
  <2>2. \A l \in Loop : Held(l)' = {}
    BY <1>1, <1>8, <1>9, NothingHeld DEF Ordered, Held
  <2>3. \A f \in Entry : delivered'[f] = delivered[f] /\ delivered[f] \in Nat
    BY <1>1
  <2>4. \A f \in Entry : delivered'[f] <= 1 + faults'
    BY <1>1, <1>5, <2>1, <2>3
  <2>5. ASSUME NEW f \in Entry, stage'[f] \in {"new", "send", "enqueue", "write"}
        PROVE  delivered'[f] <= faults'
    BY <1>1, <1>2, <1>4, <1>5, <2>1, <2>3, <2>5 DEF Settled
  <2>6. ASSUME NEW i \in pending' PROVE delivered'[i.entry] <= faults'
    <3>1. i.entry \in Entry /\ delivered[i.entry] <= faults
      BY <1>1, <1>8, <1>10, <1>11, <2>1, <2>6
         DEF Ordered, Files, Genuine, IsItem
    <3>2. QED
      BY <1>1, <1>5, <2>3, <3>1
  <2>7. QED
    BY <2>2, <2>4, <2>5, <2>6 DEF Untaken
<1>20. QED
  BY <1>14, <1>15, <1>17, <1>18, <1>19 DEF Ordered
-----------------------------------------------------------------------------
(* Retry loops.  While one is under way there is no call and no other loop. *)

\* A step of a loop that ends in stage s touches nothing of the others.
Alone(l, s) ==
  /\ Shape' /\ Grows
  /\ loop'[l] = s
  /\ ~ world.overlap =>
       /\ Ordered /\ OneWorker'
       /\ \A e \in Entry : e \notin Sending
       /\ \A m \in Loop : m # l =>
            /\ loop[m] = "idle" /\ loop'[m] = "idle" /\ Lists(m)'
            /\ expired[m] = {} /\ expired'[m] = {} /\ Held(m)' = {}

LEMMA LoopFrame ==
  ASSUME Inv, NEW l \in Loop, NEW s \in LoopStages,
         loop[l] # "idle" \/ Free,
         loop' = [loop EXCEPT ![l] = s],
         DOMAIN due' = Loop, DOMAIN keep' = Loop, DOMAIN expired' = Loop,
         DOMAIN seen' = Loop,
         \A m \in Loop : m # l =>
           due'[m] = due[m] /\ keep'[m] = keep[m] /\ expired'[m] = expired[m],
         faults' \in Nat, faults' >= faults,
         delivered' \in [Entry -> Nat],
         \A f \in Entry : delivered'[f] >= delivered[f],
         UNCHANGED <<now, client>>
  PROVE  Alone(l, s)
<1> USE DEF client
<1>1. /\ loop' \in [Loop -> LoopStages] /\ loop'[l] = s
      /\ \A m \in Loop : m # l => loop'[m] = loop[m]
  BY DEF Inv, Shape
<1>2. Grows
  BY DEF Grows, Inv, Shape
<1>3. Shape'
  BY <1>1 DEF Inv, Shape
<1>4. ASSUME ~ world.overlap
      PROVE  /\ Ordered /\ OneWorker'
             /\ \A e \in Entry : e \notin Sending
             /\ \A m \in Loop : m # l =>
                  /\ loop[m] = "idle" /\ loop'[m] = "idle" /\ Lists(m)'
                  /\ expired[m] = {} /\ expired'[m] = {} /\ Held(m)' = {}
  <2>1. Ordered /\ Shape
    BY <1>4 DEF Inv
  <2>2. \A m \in Loop : m # l => loop[m] = "idle"
    BY <1>4, <2>1 DEF Ordered, OneWorker, Free, Retrying
  <2>3. \A e \in Entry : e \notin Sending
    BY <1>4, <2>1 DEF Ordered, OneWorker, Free
  <2>4. OneWorker'
    BY <1>1, <2>2, <2>3 DEF OneWorker, Sending
  <2>5. ASSUME NEW m \in Loop, m # l
        PROVE  /\ loop'[m] = "idle" /\ Lists(m)'
               /\ expired[m] = {} /\ expired'[m] = {} /\ Held(m)' = {}
    <3>1. loop'[m] = "idle" /\ loop[m] = "idle"
      BY <1>1, <2>2, <2>5
    <3>2. Lists(m)'
      BY <1>2, <2>1, <2>5, <3>1, ListsStay DEF Ordered
    <3>3. Held(m) = {} /\ expired[m] = {}
      BY <2>1, <3>1, NothingHeld DEF Ordered
    <3>4. QED
      BY <2>5, <3>1, <3>2, <3>3 DEF Held
  <2>6. QED
    BY <2>1, <2>2, <2>3, <2>4, <2>5
<1>5. QED
  BY <1>1, <1>2, <1>3, <1>4 DEF Alone

\* A loop that is given up.
LEMMA ForgetFacts ==
  ASSUME Shape, NEW l \in Loop, Forget(l)
  PROVE  /\ loop' = [loop EXCEPT ![l] = "idle"]
         /\ DOMAIN due' = Loop /\ DOMAIN keep' = Loop /\ DOMAIN expired' = Loop
         /\ DOMAIN seen' = Loop
         /\ due'[l] = {} /\ keep'[l] = {} /\ expired'[l] = {} /\ Held(l)' = {}
         /\ \A m \in Loop : m # l =>
              due'[m] = due[m] /\ keep'[m] = keep[m] /\ expired'[m] = expired[m]
  BY DEF Shape, Forget, Held

LEMMA EmptyLists ==
  ASSUME NEW l \in Loop, loop'[l] = "idle",
         due'[l] = {}, keep'[l] = {}, expired'[l] = {}, Held(l)' = {}
  PROVE  Lists(l)'
  BY DEF Lists, Genuine, Single

LEMMA StartRetryKeeps ==
  ASSUME Inv, NEW l \in Loop, StartRetry(l)
  PROVE  Inv'
<1> USE DEF client, files
<1>1. /\ Shape /\ loop[l] = "idle" /\ Free
      /\ UNCHANGED <<now, client, keep, expired, seen, files, delivered, faults>>
  BY DEF Inv, StartRetry
<1>2. /\ DOMAIN due' = Loop /\ due'[l] = pending
      /\ \A m \in Loop : m # l => due'[m] = due[m]
  BY <1>1 DEF StartRetry, Shape
<1>3. Alone(l, "health")
  <2>1. loop' = [loop EXCEPT ![l] = "health"] /\ "health" \in LoopStages
    BY DEF StartRetry, LoopStages
  <2>2. /\ DOMAIN keep' = Loop /\ DOMAIN expired' = Loop /\ DOMAIN seen' = Loop
        /\ faults' \in Nat /\ faults' >= faults /\ delivered' \in [Entry -> Nat]
        /\ \A f \in Entry : delivered'[f] >= delivered[f]
    BY <1>1 DEF Shape
  <2>3. QED
    BY <1>1, <1>2, <2>1, <2>2, LoopFrame
<1> USE <1>3 DEF Alone
<1> SUFFICES ASSUME ~ world.overlap PROVE Ordered'
  BY <1>3 DEF Inv, Grows
<1>4. keep'[l] = {} /\ expired'[l] = {} /\ keep[l] = {} /\ expired[l] = {}
  BY <1>1, <1>3, NothingHeld DEF Ordered
<1>5. Held(l)' = pending
  BY <1>2, <1>4 DEF Held
<1>6. UpToDate'
  BY <1>1, <1>2, <1>3 DEF UpToDate, Ordered
<1>7. Lists(l)'
  <2>1. Genuine(pending)' /\ Single(pending)'
    BY <1>1, <1>3, GenuineStays DEF Ordered, Files, Genuine, Single
  <2>2. QED
    BY <1>1, <1>2, <1>3, <1>4, <1>5, <2>1 DEF Lists, Genuine, Single
<1>8. Files'
  BY <1>1, <1>3, FilesStay DEF Ordered
<1>9. Traced'
  <2>1. InHand' = InHand
    BY <1>1 DEF InHand
  <2>2. \A e \in Entry : e \in Accounted => e \in Accounted'
    BY <1>1, <2>1 DEF Accounted
  <2>3. QED
    BY <1>1, <1>3, <2>2, TracedStays DEF Ordered
<1>10. Untaken'
  <2>1. \A m \in Loop : Held(m)' = Held(m) \/ Held(m)' = pending
    BY <1>1, <1>2, <1>5 DEF Held
  <2>2. \A m \in Loop : loop[m] # "offer"
    BY <1>1, <1>3
  <2>3. \A m \in Loop : loop'[m] # "offer"
    BY <1>3
  <2>4. QED
    BY <1>1, <1>3, <2>1, <2>2, <2>3 DEF Untaken, Ordered, Serial
<1>11. QED
  BY <1>3, <1>6, <1>7, <1>8, <1>9, <1>10 DEF Ordered

\* A loop that ends without a write.
LEMMA GivenUpKeeps ==
  ASSUME Inv, NEW l \in Loop, loop[l] # "idle", Forget(l),
         faults' \in Nat, faults' >= faults,
         UNCHANGED <<now, client, files, delivered>>,
         loop[l] = "health" \/ (~ Serial /\ faults' > faults)
  PROVE  Inv'
<1> USE DEF client, files
<1>1. Shape /\ delivered \in [Entry -> Nat]
  BY DEF Inv, Shape
<1>2. /\ DOMAIN due' = Loop /\ DOMAIN keep' = Loop /\ DOMAIN expired' = Loop
      /\ DOMAIN seen' = Loop /\ loop' = [loop EXCEPT ![l] = "idle"]
      /\ due'[l] = {} /\ keep'[l] = {} /\ expired'[l] = {} /\ Held(l)' = {}
      /\ \A m \in Loop : m # l =>
           due'[m] = due[m] /\ keep'[m] = keep[m] /\ expired'[m] = expired[m]
  BY <1>1, ForgetFacts
<1>3. Alone(l, "idle")
  <2>1. "idle" \in LoopStages /\ \A f \in Entry : delivered'[f] >= delivered[f]
    BY <1>1 DEF LoopStages
  <2>2. QED
    BY <1>1, <1>2, <2>1, LoopFrame
<1> USE <1>3 DEF Alone
<1> SUFFICES ASSUME ~ world.overlap PROVE Ordered'
  BY DEF Inv, Grows
<1>4. Lists(l)'
  BY <1>2, EmptyLists
<1>5. UpToDate'
  BY <1>2 DEF UpToDate, Ordered
<1>6. Files'
  BY FilesStay DEF Ordered
<1>7. Traced'
  <2> SUFFICES ASSUME NEW e \in Entry, stage'[e] = "queued"
               PROVE  \/ e \in Accounted'
                      \/ (now' > queuedAt'[e] + Ttl /\ ~ Serial')
    BY DEF Traced
  <2>1. Serial' <=> Serial
    BY DEF Serial
  <2>2. e \in Accounted \/ (now > queuedAt[e] + Ttl /\ ~ Serial)
    BY DEF Ordered, Traced
  <2>3. CASE e \in InHand
    <3>1. PICK m \in Loop : e \in Queued(expired[m])
      BY <2>3 DEF InHand
    <3>2. m = l
      BY <3>1 DEF Queued
    <3>3. PICK i \in expired[l] : i.entry = e
      BY <3>1, <3>2 DEF Queued
    <3>4. now > queuedAt[e] + Ttl
      <4>1. now > i.created + Ttl /\ i \in Held(l) /\ Genuine(Held(l))
        BY DEF Ordered, Lists, Held
      <4>2. queuedAt[e] = i.created
        BY <3>3, <4>1 DEF Genuine
      <4>3. QED
        BY <4>1, <4>2
    <3>5. loop[l] # "health"
      BY <3>3 DEF Ordered, Lists
    <3>6. QED
      BY <2>1, <3>4, <3>5
  <2>4. CASE e \in Accounted /\ e \notin InHand
    BY <2>4 DEF Accounted
  <2>5. QED
    BY <2>1, <2>2, <2>3, <2>4
<1>8. Untaken'
  <2>1. /\ \A f \in Entry : delivered[f] <= 1 + faults
        /\ \A f \in Entry :
             stage[f] \in {"new", "send", "enqueue", "write"} => delivered[f] <= faults
        /\ loop[l] = "health" => \A i \in pending : delivered[i.entry] <= faults
    BY DEF Ordered, Untaken
  <2>2. \A m \in Loop : Held(m)' = {}
    BY <1>2
  <2>3. /\ \A f \in Entry : delivered'[f] = delivered[f] /\ delivered[f] \in Nat
        /\ faults \in Nat /\ faults' \in Nat /\ faults' >= faults
    BY <1>1 DEF Shape
  <2>4. \A i \in pending : i.entry \in Entry
    BY DEF Ordered, Files, Genuine, IsItem
  <2>5. \A f \in Entry : delivered'[f] <= 1 + faults'
    BY <2>1, <2>3
  <2>6. \A f \in Entry :
          stage'[f] \in {"new", "send", "enqueue", "write"} => delivered'[f] <= faults'
    BY <2>1, <2>3
  <2>7. \A i \in pending' : delivered'[i.entry] <= faults'
    BY <2>1, <2>3, <2>4
  <2>8. QED
    BY <2>2, <2>5, <2>6, <2>7 DEF Untaken
<1>9. QED
  BY <1>4, <1>5, <1>6, <1>7, <1>8 DEF Ordered

LEMMA UnhealthyKeeps ==
  ASSUME Inv, NEW l \in Loop, Unhealthy(l)
  PROVE  Inv'
  BY GivenUpKeeps DEF Unhealthy, Inv, Shape

LEMMA RetryFailsKeeps ==
  ASSUME Inv, NEW l \in Loop, RetryFails(l)
  PROVE  Inv'
<1>1. ~ Serial
  BY SerialFacts DEF RetryFails
<1>2. faults' \in Nat /\ faults' > faults /\ faults \in Nat
  BY FaultFacts DEF RetryFails, Inv, Shape
<1>3. loop[l] # "idle" /\ Forget(l) /\ UNCHANGED <<now, client, files, delivered>>
  BY DEF RetryFails
<1>4. QED
  BY <1>1, <1>2, <1>3, GivenUpKeeps

LEMMA HealthyKeeps ==
  ASSUME Inv, NEW l \in Loop, Healthy(l)
  PROVE  Inv'
<1> USE DEF client, files
<1>1. /\ Shape /\ delivered \in [Entry -> Nat] /\ loop[l] = "health"
      /\ UNCHANGED <<now, client, seen, files, delivered, faults>>
  BY DEF Inv, Shape, Healthy
<1>2. /\ DOMAIN due' = Loop /\ DOMAIN keep' = Loop /\ DOMAIN expired' = Loop
      /\ expired'[l] = {i \in due[l] : Expired(i)}
      /\ keep'[l] = {i \in due[l] : ~ Expired(i) /\ Waiting(i)}
      /\ due'[l] = {i \in due[l] : ~ Expired(i) /\ ~ Waiting(i)}
      /\ \A m \in Loop : m # l =>
           due'[m] = due[m] /\ keep'[m] = keep[m] /\ expired'[m] = expired[m]
  BY <1>1 DEF Shape, Healthy
<1>3. Alone(l, "offer")
  <2>1. loop' = [loop EXCEPT ![l] = "offer"] /\ "offer" \in LoopStages
    BY DEF Healthy, LoopStages
  <2>2. /\ DOMAIN seen' = Loop /\ faults' \in Nat /\ faults' >= faults
        /\ delivered' \in [Entry -> Nat]
    BY <1>1 DEF Shape
  <2>3. \A f \in Entry : delivered'[f] >= delivered[f]
    BY <1>1
  <2>4. QED
    BY <1>1, <1>2, <2>1, <2>2, <2>3, LoopFrame
<1> USE <1>3 DEF Alone
<1> SUFFICES ASSUME ~ world.overlap PROVE Ordered'
  BY DEF Inv, Grows
<1>4. due[l] = pending /\ Genuine(pending) /\ Single(pending)
  BY <1>1 DEF Ordered, UpToDate, Files
<1>5. Held(l)' = pending
  BY <1>2, <1>4 DEF Held
<1>6. Lists(l)'
  <2>1. Genuine(pending)' /\ Single(pending)'
    BY <1>1, <1>4, GenuineStays DEF Genuine, Single
  <2>2. ASSUME NEW i \in expired'[l] PROVE now' > i.created + Ttl
    <3>1. i.created \in Nat /\ now - i.created > Ttl /\ now \in Nat /\ now' = now
      BY <1>1, <1>2, <1>4, <2>2 DEF Genuine, IsItem, Expired, Shape
    <3>2. QED
      BY <3>1, ResolverConstants
  <2>3. /\ due'[l] \cap keep'[l] = {} /\ due'[l] \cap expired'[l] = {}
        /\ keep'[l] \cap expired'[l] = {}
    BY <1>2
  <2>4. pending' = pending
    BY <1>1
  <2>5. Genuine(Held(l))' /\ Single(Held(l))'
    BY <1>5, <2>1, <2>4 DEF Genuine, Single
  <2>6. QED
    BY <1>5, <2>2, <2>3, <2>4, <2>5 DEF Lists
<1>7. UpToDate'
  BY <1>1 DEF UpToDate, Ordered
<1>8. Files'
  BY <1>1, FilesStay DEF Ordered
<1>9. Traced'
  <2>1. \A e \in Entry : e \in Accounted => e \in Accounted'
    <3>1. expired[l] = {}
      BY <1>1 DEF Ordered, Lists
    <3>2. ASSUME NEW e \in InHand PROVE FALSE
      BY <3>1, <3>2 DEF InHand, Queued
    <3>3. QED
      BY <1>1, <3>2 DEF Accounted
  <2>2. QED
    BY <1>1, <2>1, TracedStays DEF Ordered
<1>10. Untaken'
  <2>1. \A m \in Loop : Held(m)' = {} \/ Held(m)' = pending
    BY <1>5
  <2>2. \A m \in Loop : loop[m] # "offer"
    BY <1>1
  <2>3. QED
    BY <1>1, <2>1, <2>2 DEF Untaken, Ordered, Serial
<1>11. QED
  BY <1>6, <1>7, <1>8, <1>9, <1>10 DEF Ordered

\* An item is offered: taken, it is held no longer; otherwise its like, with
\* another time, is kept.
LEMMA OffersKeep ==
  ASSUME Inv, NEW l \in Loop, NEW i \in due[l], loop[l] = "offer",
         NEW more, \A n \in more : IsItem(n) /\ n.entry = i.entry
                                     /\ n.created = i.created,
         Single(more),
         more = {} => delivered'[i.entry] > 0,
         DOMAIN due' = Loop, DOMAIN keep' = Loop,
         due'[l] = due[l] \ {i}, keep'[l] = keep[l] \cup more,
         \A m \in Loop : m # l => due'[m] = due[m] /\ keep'[m] = keep[m],
         UNCHANGED <<now, client, loop, expired, seen, files>>,
         faults' \in Nat, faults' >= faults, delivered' \in [Entry -> Nat],
         \A f \in Entry : delivered'[f] >= delivered[f],
         \A f \in Entry : f # i.entry => delivered'[f] = delivered[f],
         i.entry \in Entry =>
           /\ delivered'[i.entry] + faults <= delivered[i.entry] + 1 + faults'
           /\ more # {} =>
                delivered'[i.entry] + faults <= delivered[i.entry] + faults'
  PROVE  Inv'
<1> USE DEF client, files
<1>1. /\ Shape /\ delivered \in [Entry -> Nat]
      /\ UNCHANGED <<now, client, loop, expired, seen, files>>
  BY DEF Inv, Shape
<1>2. expired'[l] = expired[l]
  BY <1>1
<1>3. Alone(l, "offer")
  <2>1. loop' = [loop EXCEPT ![l] = "offer"] /\ "offer" \in LoopStages
    BY <1>1 DEF Shape, LoopStages
  <2>2. UNCHANGED <<now, client>> /\ loop[l] # "idle"
    BY <1>1
  <2>3. DOMAIN expired' = Loop /\ DOMAIN seen' = Loop
    BY <1>1 DEF Shape
  <2>4. \A m \in Loop : m # l =>
          due'[m] = due[m] /\ keep'[m] = keep[m] /\ expired'[m] = expired[m]
    BY <1>1
  <2>5. QED
    BY <2>1, <2>2, <2>3, <2>4, LoopFrame
<1> USE <1>3 DEF Alone
<1> SUFFICES ASSUME ~ world.overlap PROVE Ordered'
  BY DEF Inv, Grows
<1>4. /\ Genuine(Held(l)) /\ Single(Held(l)) /\ i \in Held(l)
      /\ due[l] \cap keep[l] = {} /\ due[l] \cap expired[l] = {}
      /\ keep[l] \cap expired[l] = {}
  BY DEF Ordered, Lists, Held
<1>5. i.entry \in Entry /\ IsItem(i)
  BY <1>4 DEF Genuine, IsItem
<1>6. Held(l)' = (Held(l) \ {i}) \cup more
  BY <1>2, <1>4 DEF Held
<1>7. \A n \in more : n.entry = i.entry /\ n.created = i.created /\ IsItem(n)
  OBVIOUS
<1>8. \A j \in Held(l) \ {i} : j.entry # i.entry
  BY <1>4 DEF Single
<1>9. Lists(l)'
  <2>1. Genuine(Held(l))'
    BY <1>4, <1>6, <1>7, GenuineStays DEF Genuine
  <2>2. Single(Held(l))'
    BY <1>4, <1>6, <1>7, <1>8 DEF Single
  <2>3. /\ due'[l] \cap keep'[l] = {} /\ due'[l] \cap expired'[l] = {}
        /\ keep'[l] \cap expired'[l] = {}
    BY <1>2, <1>4, <1>7, <1>8 DEF Held
  <2>4. \A j \in expired'[l] : now' > j.created + Ttl
    BY <1>1, <1>2 DEF Ordered, Lists
  <2>5. Queued(Held(l)') \subseteq Queued(pending')
    <3>1. Queued(Held(l)) \subseteq Queued(pending)
      BY DEF Ordered, Lists
    <3>2. Queued(Held(l)') \subseteq Queued(Held(l))
      BY <1>4, <1>6, <1>7 DEF Queued
    <3>3. QED
      BY <1>1, <3>1, <3>2
  <2>6. ASSUME NEW e \in Entry, e \in Queued(pending')
        PROVE  e \in Queued(Held(l)') \/ delivered'[e] > 0
    <3>1. e \in Queued(Held(l)) \/ delivered[e] > 0
      BY <1>1, <2>6 DEF Ordered, Lists
    <3>2. CASE delivered[e] > 0
      BY <1>1, <3>2
    <3>3. CASE e \in Queued(Held(l))
      <4>1. PICK j \in Held(l) : j.entry = e
        BY <3>3 DEF Queued
      <4>2. CASE j # i
        BY <1>6, <4>1, <4>2 DEF Queued
      <4>3. CASE j = i
        BY <1>6, <1>7, <4>1, <4>3 DEF Queued
      <4>4. QED
        BY <4>2, <4>3
    <3>4. QED
      BY <3>1, <3>2, <3>3
  <2>7. QED
    BY <2>1, <2>2, <2>3, <2>4, <2>5, <2>6 DEF Lists
<1>10. UpToDate'
  BY <1>1 DEF UpToDate, Ordered
<1>11. Files'
  BY <1>1, FilesStay DEF Ordered
<1>12. Traced'
  <2>1. InHand' = InHand
    BY <1>1 DEF InHand
  <2>2. ASSUME NEW e \in Entry, e \in Accounted PROVE e \in Accounted'
    <3>1. delivered[e] > 0 => delivered'[e] > 0
      BY <1>1
    <3>2. QED
      BY <1>1, <2>1, <2>2, <3>1 DEF Accounted
  <2>3. QED
    BY <1>1, <2>2, TracedStays DEF Ordered
<1>13. Untaken'
  <2>1. /\ \A f \in Entry : delivered[f] <= 1 + faults
        /\ \A f \in Entry :
             stage[f] \in {"new", "send", "enqueue", "write"} => delivered[f] <= faults
        /\ \A j \in Held(l) : delivered[j.entry] <= faults
    BY DEF Ordered, Untaken
  <2>2. /\ \A f \in Entry : delivered[f] \in Nat /\ delivered'[f] \in Nat
        /\ faults \in Nat
    BY <1>1 DEF Shape
  <2>3. /\ delivered'[i.entry] <= 1 + faults'
        /\ more # {} => delivered'[i.entry] <= faults'
    BY <1>4, <1>5, <2>1, <2>2
  <2>4. \A f \in Entry : delivered'[f] <= 1 + faults'
    BY <2>1, <2>2, <2>3
  <2>5. ASSUME NEW j \in Held(l)' PROVE delivered'[j.entry] <= faults'
    <3>1. CASE j \in more
      BY <1>7, <2>3, <3>1
    <3>2. CASE j \in Held(l) \ {i}
      <4>1. j.entry \in Entry /\ j.entry # i.entry
        BY <1>4, <1>8, <3>2 DEF Genuine, IsItem
      <4>2. QED
        BY <2>1, <2>2, <3>2, <4>1
    <3>3. QED
      BY <1>6, <3>1, <3>2
  <2>6. stage[i.entry] \in Settled
    BY <1>4 DEF Genuine
  <2>7. ASSUME NEW f \in Entry, stage'[f] \in {"new", "send", "enqueue", "write"}
        PROVE  delivered'[f] <= faults'
    <3>1. f # i.entry /\ stage[f] \in {"new", "send", "enqueue", "write"}
      BY <1>1, <2>6, <2>7 DEF Settled
    <3>2. QED
      BY <2>1, <2>2, <3>1
  <2>8. \A m \in Loop : \A j \in Held(m)' : delivered'[j.entry] <= faults'
    BY <2>5
  <2>9. loop'[l] = "offer"
    BY <1>1
  <2>10. QED
    BY <2>4, <2>7, <2>8, <2>9 DEF Untaken
<1>14. QED
  BY <1>9, <1>10, <1>11, <1>12, <1>13 DEF Ordered

LEMMA OtherItem ==
  ASSUME NEW i, IsItem(i), NEW a, NEW t
  PROVE  LET n == [i EXCEPT !.attempts = a, !.next = t]
         IN n.entry = i.entry /\ n.created = i.created /\ IsItem(n)
  BY DEF IsItem

LEMMA OfferStepKeeps ==
  ASSUME Inv, NEW l \in Loop, NEW i \in due[l], Offer(l, i) \/ OfferFails(l, i)
  PROVE  Inv'
<1>1. Shape /\ loop[l] = "offer"
  BY DEF Inv, Offer, OfferFails
<1>2. CASE world.overlap
  BY <1>1, <1>2, TakesFacts, FailsFacts
     DEF Inv, Shape, Offer, OfferFails, client, files
<1>3. CASE ~ world.overlap
  <2>1. i.entry \in Entry /\ IsItem(i)
    BY <1>3 DEF Inv, Ordered, Lists, Genuine, Held, IsItem
  <2>2. CASE Offer(l, i)
    <3>1. /\ UNCHANGED <<now, client, loop, keep, expired, seen, files>>
          /\ due' = [due EXCEPT ![l] = @ \ {i}] /\ Takes(i.entry)
      BY <2>2 DEF Offer
    <3>2. /\ DOMAIN due' = Loop /\ DOMAIN keep' = Loop
          /\ due'[l] = due[l] \ {i} /\ keep'[l] = keep[l] \cup {}
          /\ \A m \in Loop : m # l => due'[m] = due[m] /\ keep'[m] = keep[m]
      BY <1>1, <3>1 DEF Shape
    <3>3. Single({}) /\ delivered[i.entry] \in Nat
      BY <1>1, <2>1 DEF Single, Shape
    <3>4. QED
      BY <1>1, <2>1, <3>1, <3>2, <3>3, TakesFacts, OffersKeep
  <2>3. CASE OfferFails(l, i)
    <3> DEFINE n == [i EXCEPT !.attempts = @ + 1,
                              !.next = now + Delay(i.attempts + 1)]
    <3>1. n.entry = i.entry /\ n.created = i.created /\ IsItem(n)
      BY <2>1, OtherItem
    <3>2. /\ UNCHANGED <<now, client, loop, expired, seen, files>>
          /\ due' = [due EXCEPT ![l] = @ \ {i}] /\ Fails(i.entry)
          /\ keep' = [keep EXCEPT ![l] = @ \cup {n}]
      BY <2>3 DEF OfferFails
    <3> HIDE DEF n
    <3>3. /\ DOMAIN due' = Loop /\ DOMAIN keep' = Loop
          /\ due'[l] = due[l] \ {i} /\ keep'[l] = keep[l] \cup {n}
          /\ \A m \in Loop : m # l => due'[m] = due[m] /\ keep'[m] = keep[m]
      BY <1>1, <3>2 DEF Shape
    <3>4. Single({n}) /\ {n} # {} /\ delivered[i.entry] \in Nat
      BY <1>1, <2>1 DEF Single, Shape
    <3>5. /\ delivered'[i.entry] + faults <= delivered[i.entry] + faults'
          /\ delivered'[i.entry] + faults <= delivered[i.entry] + 1 + faults'
      <4>1. delivered'[i.entry] + faults <= delivered[i.entry] + faults'
        BY <1>1, <2>1, <3>2, FailsFacts
      <4>2. /\ delivered'[i.entry] \in Nat /\ delivered[i.entry] \in Nat
            /\ faults \in Nat /\ faults' \in Nat
        BY <1>1, <2>1, <3>2, FailsFacts DEF Shape
      <4>3. QED
        BY <4>1, <4>2
    <3>6. QED
      BY <1>1, <2>1, <3>1, <3>2, <3>3, <3>4, <3>5, FailsFacts, OffersKeep
  <2>4. QED
    BY <2>2, <2>3
<1>4. QED
  BY <1>2, <1>3

LEMMA WriteBackKeeps ==
  ASSUME Inv, NEW l \in Loop, WriteBack(l)
  PROVE  Inv'
<1> USE DEF client, files
<1>1. /\ Shape /\ delivered \in [Entry -> Nat] /\ loop[l] = "offer"
      /\ due[l] = {} /\ pending' = keep[l]
      /\ UNCHANGED <<now, client, quarantine, delivered, faults>>
      /\ \A f \in Entry : delivered'[f] >= delivered[f]
  BY DEF Inv, Shape, WriteBack
<1> DEFINE s == IF expired[l] = {} THEN "idle" ELSE "quarantine"
<1>2. /\ loop' = [loop EXCEPT ![l] = s]
      /\ DOMAIN due' = Loop /\ DOMAIN keep' = Loop /\ DOMAIN expired' = Loop
      /\ DOMAIN seen' = Loop
      /\ due'[l] = {} /\ expired'[l] = expired[l]
      /\ IF expired[l] = {} THEN keep'[l] = {} ELSE keep'[l] = keep[l]
      /\ \A m \in Loop : m # l =>
           due'[m] = due[m] /\ keep'[m] = keep[m] /\ expired'[m] = expired[m]
  BY <1>1, ForgetFacts DEF WriteBack, Shape
<1>3. s \in LoopStages /\ s \in {"idle", "quarantine"}
  BY DEF LoopStages
<1>4. Alone(l, s)
  <2>1. faults' \in Nat /\ faults' >= faults /\ delivered' \in [Entry -> Nat]
    BY <1>1 DEF Shape
  <2> HIDE DEF s
  <2>2. QED
    BY <1>1, <1>2, <1>3, <2>1, LoopFrame
<1>5. s = "idle" <=> expired[l] = {}
  OBVIOUS
<1> HIDE DEF s
<1> USE <1>4 DEF Alone
<1> SUFFICES ASSUME ~ world.overlap PROVE Ordered'
  BY DEF Inv, Grows
<1>6. /\ Genuine(Held(l)) /\ Single(Held(l)) /\ keep[l] \cap expired[l] = {}
      /\ Held(l) = keep[l] \cup expired[l]
      /\ Queued(Held(l)) \subseteq Queued(pending)
      /\ \A i \in expired[l] : now > i.created + Ttl
      /\ \A e \in Entry : e \in Queued(pending) =>
           e \in Queued(Held(l)) \/ delivered[e] > 0
  BY <1>1 DEF Ordered, Lists, Held
<1>7. Genuine(Held(l))' /\ Single(Held(l))'
  <2>1. Held(l)' \subseteq Held(l)
    BY <1>2, <1>6 DEF Held
  <2>2. QED
    BY <1>1, <1>6, <2>1, GenuineStays DEF Genuine, Single
<1>8. Queued(Held(l)) \cap Queued(quarantine) = {}
  BY <1>6 DEF Ordered, Files
<1>9. Lists(l)'
  <2>1. loop'[l] \in {"idle", "quarantine"}
    BY <1>3
  <2>2. loop'[l] = "idle" => keep'[l] = {} /\ expired'[l] = {}
    BY <1>2, <1>5
  <2>3. loop'[l] = "quarantine" =>
          pending' = keep'[l] /\ Queued(expired'[l]) \cap Queued(quarantine') = {}
    BY <1>1, <1>2, <1>5, <1>6, <1>8 DEF Queued
  <2>4. QED
    BY <1>1, <1>2, <1>6, <1>7, <2>1, <2>2, <2>3 DEF Lists
<1>10. UpToDate'
  BY <1>1, <1>3 DEF UpToDate, Ordered, Sending
<1>11. Files'
  <2>1. Genuine(pending)' /\ Single(pending)'
    BY <1>1, <1>6, GenuineStays DEF Genuine, Single
  <2>2. Genuine(quarantine)'
    BY <1>1, GenuineStays DEF Ordered, Files, Genuine
  <2>3. Queued(pending') \cap Queued(quarantine') = {}
    BY <1>1, <1>6, <1>8 DEF Queued
  <2>4. QED
    BY <2>1, <2>2, <2>3 DEF Files
<1>12. Traced'
  <2>1. ASSUME NEW e \in Entry, e \in Accounted PROVE e \in Accounted'
    <3>1. e \in InHand => e \in InHand'
      BY <1>2 DEF InHand, Queued
    <3>2. ASSUME e \in Queued(pending)
          PROVE  e \in Queued(pending') \/ e \in InHand' \/ delivered'[e] > 0
      <4>1. e \in Queued(Held(l)) \/ delivered'[e] > 0
        BY <1>1, <1>6, <3>2
      <4>2. Queued(Held(l)) = Queued(pending') \cup Queued(expired'[l])
        BY <1>1, <1>2, <1>6 DEF Queued
      <4>3. QED
        BY <4>1, <4>2 DEF InHand
    <3>3. QED
      BY <1>1, <2>1, <3>1, <3>2 DEF Accounted
  <2>2. QED
    BY <1>1, <2>1, TracedStays DEF Ordered
<1>13. Untaken'
  <2>1. /\ \A f \in Entry : delivered[f] <= 1 + faults
        /\ \A f \in Entry :
             stage[f] \in {"new", "send", "enqueue", "write"} => delivered[f] <= faults
        /\ \A j \in Held(l) : delivered[j.entry] <= faults
    BY DEF Ordered, Untaken
  <2>2. Held(l)' \subseteq Held(l)
    BY <1>2, <1>6 DEF Held
  <2>3. \A m \in Loop : \A j \in Held(m)' : delivered'[j.entry] <= faults'
    BY <1>1, <2>1, <2>2
  <2>4. \A j \in pending' : delivered'[j.entry] <= faults'
    BY <1>1, <1>6, <2>1
  <2>5. QED
    BY <1>1, <2>1, <2>3, <2>4 DEF Untaken
<1>14. QED
  BY <1>9, <1>10, <1>11, <1>12, <1>13 DEF Ordered

LEMMA ReadQuarantineKeeps ==
  ASSUME Inv, NEW l \in Loop, ReadQuarantine(l)
  PROVE  Inv'
<1> USE DEF client, files
<1>1. /\ Shape /\ delivered \in [Entry -> Nat] /\ loop[l] = "quarantine"
      /\ UNCHANGED <<now, client, due, keep, expired, files, delivered, faults>>
      /\ \A f \in Entry : delivered'[f] >= delivered[f]
  BY DEF Inv, Shape, ReadQuarantine
<1>2. seen'[l] = quarantine /\ DOMAIN seen' = Loop
  BY <1>1 DEF Shape, ReadQuarantine
<1>3. Alone(l, "append")
  <2>1. loop' = [loop EXCEPT ![l] = "append"] /\ "append" \in LoopStages
    BY DEF ReadQuarantine, LoopStages
  <2>2. /\ faults' \in Nat /\ faults' >= faults /\ delivered' \in [Entry -> Nat]
        /\ DOMAIN due' = Loop /\ DOMAIN keep' = Loop /\ DOMAIN expired' = Loop
    BY <1>1 DEF Shape
  <2>3. QED
    BY <1>1, <1>2, <2>1, <2>2, LoopFrame
<1> USE <1>3 DEF Alone
<1> SUFFICES ASSUME ~ world.overlap PROVE Ordered'
  BY DEF Inv, Grows
<1>4. Lists(l)'
  <2>1. Held(l)' = Held(l)
    BY <1>1 DEF Held
  <2>2. Genuine(Held(l))' /\ Single(Held(l))'
    BY <1>1, <2>1, GenuineStays DEF Ordered, Lists, Genuine, Single
  <2>3. QED
    BY <1>1, <2>1, <2>2 DEF Ordered, Lists
<1>5. UpToDate'
  BY <1>1, <1>2 DEF UpToDate, Ordered
<1>6. Files'
  BY <1>1, FilesStay DEF Ordered
<1>7. Traced'
  <2>1. InHand' = InHand
    BY <1>1 DEF InHand
  <2>2. \A e \in Entry : e \in Accounted => e \in Accounted'
    BY <1>1, <2>1 DEF Accounted
  <2>3. QED
    BY <1>1, <2>2, TracedStays DEF Ordered
<1>8. Untaken'
  <2>1. \A m \in Loop : Held(m)' = Held(m) /\ loop[m] # "offer"
    BY <1>1 DEF Held
  <2>2. QED
    BY <1>1, <2>1 DEF Ordered, Untaken, Serial
<1>9. QED
  BY <1>4, <1>5, <1>6, <1>7, <1>8 DEF Ordered

LEMMA AppendQuarantineKeeps ==
  ASSUME Inv, NEW l \in Loop, AppendQuarantine(l)
  PROVE  Inv'
<1> USE DEF client, files
<1>1. /\ Shape /\ delivered \in [Entry -> Nat] /\ loop[l] = "append"
      /\ quarantine' = seen[l] \cup expired[l] /\ Forget(l)
      /\ UNCHANGED <<now, client, pending, delivered, faults>>
      /\ \A f \in Entry : delivered'[f] >= delivered[f]
      /\ faults' \in Nat /\ faults' >= faults /\ delivered' \in [Entry -> Nat]
  BY DEF Inv, Shape, AppendQuarantine
<1>2. /\ DOMAIN due' = Loop /\ DOMAIN keep' = Loop /\ DOMAIN expired' = Loop
      /\ DOMAIN seen' = Loop /\ loop' = [loop EXCEPT ![l] = "idle"]
      /\ due'[l] = {} /\ keep'[l] = {} /\ expired'[l] = {} /\ Held(l)' = {}
      /\ \A m \in Loop : m # l =>
           due'[m] = due[m] /\ keep'[m] = keep[m] /\ expired'[m] = expired[m]
  BY <1>1, ForgetFacts
<1>3. Alone(l, "idle")
  <2>1. "idle" \in LoopStages /\ loop[l] # "idle"
    BY <1>1 DEF LoopStages
  <2>2. QED
    BY <1>1, <1>2, <2>1, LoopFrame
<1> USE <1>3 DEF Alone
<1> SUFFICES ASSUME ~ world.overlap PROVE Ordered'
  BY DEF Inv, Grows
<1>4. quarantine' = quarantine \cup expired[l]
  BY <1>1 DEF Ordered, UpToDate
<1>5. /\ Genuine(Held(l)) /\ Single(Held(l)) /\ keep[l] \cap expired[l] = {}
      /\ pending = keep[l]
  BY <1>1 DEF Ordered, Lists
<1>6. Lists(l)'
  BY <1>2, EmptyLists
<1>7. UpToDate'
  BY <1>1 DEF UpToDate, Ordered
<1>8. Files'
  <2>1. Genuine(quarantine)'
    BY <1>4, <1>5, GenuineStays DEF Ordered, Files, Genuine, Held
  <2>2. Genuine(pending)' /\ Single(pending)'
    BY <1>1, GenuineStays DEF Ordered, Files, Genuine, Single
  <2>3. Queued(expired[l]) \cap Queued(pending) = {}
    <3> SUFFICES ASSUME NEW i \in expired[l], NEW j \in pending, i.entry = j.entry
                 PROVE  FALSE
      BY DEF Queued
    <3>1. i = j
      BY <1>5 DEF Single, Held
    <3>2. QED
      BY <1>5, <3>1
  <2>4. Queued(pending') \cap Queued(quarantine') = {}
    BY <1>1, <1>4, <2>3 DEF Ordered, Files, Queued
  <2>5. QED
    BY <2>1, <2>2, <2>4 DEF Files
<1>9. Traced'
  <2>1. ASSUME NEW e \in Entry, e \in Accounted PROVE e \in Accounted'
    <3>1. ASSUME e \in InHand PROVE e \in Queued(quarantine')
      <4>1. PICK m \in Loop : e \in Queued(expired[m])
        BY <3>1 DEF InHand
      <4>2. m = l
        BY <4>1 DEF Queued
      <4>3. QED
        BY <1>4, <4>1, <4>2 DEF Queued
    <3>2. e \in Queued(quarantine) => e \in Queued(quarantine')
      BY <1>4 DEF Queued
    <3>3. QED
      BY <1>1, <2>1, <3>1, <3>2 DEF Accounted
  <2>2. QED
    BY <1>1, <2>1, TracedStays DEF Ordered
<1>10. Untaken'
  <2>1. \A m \in Loop : Held(m)' = {} /\ loop[m] # "offer"
    BY <1>1, <1>2
  <2>2. QED
    BY <1>1, <2>1 DEF Ordered, Untaken, Serial
<1>11. QED
  BY <1>6, <1>7, <1>8, <1>9, <1>10 DEF Ordered
-----------------------------------------------------------------------------
(* The clock and the death of the process. *)

LEMMA TickKeeps ==
  ASSUME Inv, Tick
  PROVE  Inv'
<1> USE DEF client, files, loops
<1>1. /\ Shape /\ now \in Nat /\ now' = now + 1
      /\ UNCHANGED <<client, loops, files, delivered, faults>>
  BY DEF Inv, Shape, Tick
<1>2. Grows /\ Shape'
  BY <1>1 DEF Grows, Shape
<1> SUFFICES ASSUME ~ world.overlap PROVE Ordered'
  BY <1>1, <1>2 DEF Inv
<1>3. Ordered
  BY DEF Inv
<1>4. OneWorker' /\ UpToDate'
  BY <1>1, <1>3 DEF Ordered, OneWorker, UpToDate, Sending
<1>5. ASSUME NEW l \in Loop PROVE Lists(l)'
  BY <1>1, <1>2, <1>3, ListsStay DEF Ordered
<1>6. Files'
  BY <1>1, <1>2, <1>3, FilesStay DEF Ordered
<1>7. Accounted' = Accounted
  BY <1>1 DEF Accounted, InHand
<1>8. Traced'
  BY <1>1, <1>2, <1>3, <1>7, TracedStays DEF Ordered
<1>9. Untaken'
  BY <1>1, <1>3 DEF Ordered, Untaken, Serial, Held
<1>10. QED
  BY <1>4, <1>5, <1>6, <1>8, <1>9 DEF Ordered

LEMMA CrashKeeps ==
  ASSUME Inv, Crash
  PROVE  Inv'
<1> USE DEF client, files
<1>1. /\ Shape /\ ~ Serial /\ faults' \in Nat /\ faults' = faults + 1
      /\ UNCHANGED <<now, world, queuedAt, files, delivered>>
  BY SerialFacts, FaultFacts DEF Inv, Crash
<1>2. /\ \A e \in Entry : stage'[e] = IF e \in Sending THEN "failed" ELSE stage[e]
      /\ stage' \in [Entry -> Stages] /\ DOMAIN copy' = Entry
  BY <1>1 DEF Crash, Shape, Stages
<1>3. /\ loop' \in [Loop -> LoopStages]
      /\ DOMAIN due' = Loop /\ DOMAIN keep' = Loop /\ DOMAIN expired' = Loop
      /\ DOMAIN seen' = Loop
      /\ \A l \in Loop : loop'[l] = "idle" /\ due'[l] = {} /\ keep'[l] = {}
                           /\ expired'[l] = {}
  BY DEF Crash, LoopStages
<1>4. Grows /\ Shape'
  BY <1>1, <1>2, <1>3 DEF Grows, Shape, Sending, Settled
<1> SUFFICES ASSUME ~ world.overlap PROVE Ordered'
  BY <1>1, <1>4 DEF Inv
<1>5. Ordered
  BY DEF Inv
<1>6. OneWorker' /\ UpToDate'
  BY <1>2, <1>3 DEF OneWorker, UpToDate, Sending
<1>7. ASSUME NEW l \in Loop PROVE Lists(l)'
  BY <1>3, EmptyLists DEF Held
<1>8. Files'
  BY <1>1, <1>4, <1>5, FilesStay DEF Ordered
<1>9. Traced'
  <2> SUFFICES ASSUME NEW e \in Entry, stage'[e] = "queued"
               PROVE  e \in Accounted' \/ now' > queuedAt'[e] + Ttl
    BY <1>1 DEF Traced, Serial
  <2>1. e \in Accounted \/ now > queuedAt[e] + Ttl
    BY <1>2, <1>5 DEF Ordered, Traced
  <2>2. CASE e \in InHand
    <3>1. PICK l \in Loop : e \in Queued(expired[l])
      BY <2>2 DEF InHand
    <3>2. PICK i \in expired[l] : i.entry = e
      BY <3>1 DEF Queued
    <3>3. now > queuedAt[e] + Ttl
      BY <1>5, <3>2 DEF Ordered, Lists, Genuine, Held
    <3>4. QED
      BY <1>1, <3>3
  <2>3. CASE e \notin InHand
    BY <1>1, <2>1, <2>3 DEF Accounted
  <2>4. QED
    BY <2>2, <2>3
<1>10. Untaken'
  <2>1. /\ \A e \in Entry : delivered'[e] <= faults' /\ delivered'[e] \in Nat
        /\ faults' \in Nat
    BY <1>1, <1>5 DEF Ordered, Untaken, Shape
  <2>2. \A l \in Loop : Held(l)' = {}
    BY <1>3 DEF Held
  <2>3. \A i \in pending' : i.entry \in Entry
    BY <1>8 DEF Files, Genuine, IsItem
  <2>4. QED
    BY <2>1, <2>2, <2>3 DEF Untaken
<1>11. QED
  BY <1>6, <1>7, <1>8, <1>9, <1>10 DEF Ordered
-----------------------------------------------------------------------------
LEMMA InvInit == Init => Inv
<1> SUFFICES ASSUME Init PROVE Inv
  OBVIOUS
<1>1. Shape
  BY DEF Init, Shape, Stages, LoopStages
<1>2. OneWorker /\ UpToDate
  BY DEF Init, OneWorker, UpToDate, Sending
<1>3. ASSUME NEW l \in Loop PROVE Lists(l) /\ Held(l) = {}
  BY DEF Init, Lists, Held, Genuine, Single
<1>4. Files
  BY DEF Init, Files, Genuine, Single, Queued
<1>5. Traced
  BY DEF Init, Traced
<1>6. Untaken
  BY <1>3 DEF Init, Untaken
<1>7. QED
  BY <1>1, <1>2, <1>3, <1>4, <1>5, <1>6 DEF Inv, Ordered

LEMMA InvNext == Inv /\ [Next]_vars => Inv'
<1> SUFFICES ASSUME Inv, [Next]_vars PROVE Inv'
  OBVIOUS
<1>1. CASE Tick
  BY <1>1, TickKeeps
<1>2. ASSUME NEW e \in Entry, Send(e) \/ SyncStep(e) PROVE Inv'
  BY <1>2, SyncKeeps, EnqueuedKeeps DEF SyncStep
<1>3. ASSUME NEW l \in Loop, StartRetry(l) \/ RetryStep(l) PROVE Inv'
  BY <1>3, StartRetryKeeps, UnhealthyKeeps, HealthyKeeps, OfferStepKeeps,
     WriteBackKeeps, ReadQuarantineKeeps, AppendQuarantineKeeps, RetryFailsKeeps
     DEF RetryStep, OfferStep
<1>4. CASE Crash
  BY <1>4, CrashKeeps
<1>5. CASE UNCHANGED vars
  <2> USE <1>5 DEF vars, client, loops, files
  <2>1. Shape' /\ OneWorker' = OneWorker /\ UpToDate' = UpToDate
    BY DEF Inv, Shape, OneWorker, UpToDate, Sending
  <2>2. \A l \in Loop : Lists(l)' = Lists(l) /\ Held(l)' = Held(l)
    BY DEF Lists, Held, Genuine, Single, Queued
  <2>3. Files' = Files /\ Traced' = Traced /\ Untaken' = Untaken
    BY <2>2 DEF Files, Genuine, Single, Queued, Traced, Untaken, Accounted,
              InHand, Serial
  <2>4. QED
    BY <2>1, <2>2, <2>3 DEF Inv, Ordered
<1>6. QED
  BY <1>1, <1>2, <1>3, <1>4, <1>5 DEF Next

LEMMA InvHolds == Spec => []Inv
  BY InvInit, InvNext, PTL DEF Spec

\* An entry reported as queued is in the queue, in a loop's hands or in
\* quarantine until the backend has taken it; where workers do not overlap and
\* no write is torn, only a crash or a file access that fails between the two
\* files can lose it, and only when it is past the TTL.
THEOREM NothingEverLost == Spec => []NothingLost
<1>1. Inv => NothingLost
  BY DEF Inv, Ordered, Traced, NothingLost, QueuedIsKept, Serial
<1>2. QED
  BY <1>1, InvHolds, PTL

\* While workers do not overlap, the backend takes an entry once and at most
\* once more for every failure.
THEOREM AlwaysTakenOnce == Spec => []TakenOnce
<1>1. Inv => TakenOnce
  BY DEF Inv, Ordered, Untaken, TakenOnce
<1>2. QED
  BY <1>1, InvHolds, PTL
-----------------------------------------------------------------------------
(* The queue that DeliveryQueue promises.  Outside serial worlds its place *)
(* is made constant.                                                       *)

Mapped == IF Serial THEN Place ELSE [e \in Entry |-> "caller"]

\* An entry that is neither delivered, in quarantine nor queued before a step
\* and after it is where it was.
LEMMA SamePlace ==
  ASSUME \A e \in Entry :
           /\ delivered'[e] > 0 <=> delivered[e] > 0
           /\ delivered[e] > 0
                \/ /\ e \in Queued(quarantine') <=> e \in Queued(quarantine)
                   /\ e \in Queued(pending') \cup InHand'
                        <=> e \in Queued(pending) \cup InHand
  PROVE  Place' = Place
  BY DEF Place

LEMMA MayDeliver ==
  ASSUME Serial, Serial', NEW e \in Entry, e \notin Queued(quarantine),
         UNCHANGED <<pending, quarantine>>, InHand' = InHand,
         delivered \in [Entry -> Nat], delivered' \in [Entry -> Nat],
         delivered'[e] >= delivered[e],
         \A f \in Entry : f # e => delivered'[f] = delivered[f]
  PROVE  Place' = Place \/ Abstract!Deliver(e)
<1>1. CASE delivered[e] > 0 \/ ~ (delivered'[e] > 0)
  BY <1>1, SamePlace
<1>2. CASE ~ (delivered[e] > 0) /\ delivered'[e] > 0
  <2>1. Place[e] \in {"caller", "queue"} /\ Place'[e] = "backend"
    BY <1>2 DEF Place
  <2>2. \A f \in Entry : f # e => Place'[f] = Place[f]
    BY DEF Place
  <2>3. Place' = [Place EXCEPT ![e] = "backend"]
    <3>1. /\ Place = [f \in Entry |-> Place[f]]
          /\ Place' = [f \in Entry |-> Place'[f]]
      BY DEF Place
    <3> HIDE DEF Place
    <3>2. QED
      BY <2>1, <2>2, <3>1
  <2>4. QED
    BY <2>1, <2>3 DEF Abstract!Deliver
<1>3. QED
  BY <1>1, <1>2

\* While a loop is under way only it has entries in hand.
LEMMA OneHand ==
  ASSUME Inv, Serial, NEW l \in Loop, loop[l] # "idle"
  PROVE  /\ Shape /\ Ordered
         /\ \A m \in Loop : m # l => expired[m] = {}
         /\ InHand = Queued(expired[l])
<1>1. Shape /\ Ordered
  BY DEF Inv, Serial
<1>2. \A m \in Loop : m # l => expired[m] = {}
  BY <1>1 DEF Ordered, OneWorker, Lists
<1>3. InHand = Queued(expired[l])
  BY <1>2 DEF InHand, Queued
<1>4. QED
  BY <1>1, <1>2, <1>3

LEMMA HandAfter ==
  ASSUME Inv, Serial, NEW l \in Loop, loop[l] # "idle",
         \A m \in Loop : m # l => expired'[m] = expired[m]
  PROVE  InHand' = Queued(expired'[l])
<1>1. \A m \in Loop : m # l => expired'[m] = {}
  BY OneHand
<1>2. QED
  BY <1>1 DEF InHand, Queued

\* An entry about to be sent or queued is not in quarantine, and an item
\* about to be offered neither.
LEMMA NotQuarantined ==
  ASSUME Inv, Serial
  PROVE  /\ \A e \in Entry : stage[e] \notin Settled =>
              e \notin Queued(quarantine) \cup Queued(pending) \cup InHand
         /\ \A l \in Loop : \A i \in due[l] :
              loop[l] = "offer" => i.entry \in Entry \ Queued(quarantine)
<1>1. Ordered
  BY DEF Inv, Serial
<1>2. ASSUME NEW e \in Entry, stage[e] \notin Settled
      PROVE  e \notin Queued(quarantine) \cup Queued(pending) \cup InHand
  <2>1. e \notin Queued(quarantine) /\ e \notin Queued(pending)
    BY <1>1, <1>2 DEF Ordered, Files, Genuine, Queued
  <2>2. \A l \in Loop : e \notin Queued(expired[l])
    BY <1>1, <1>2 DEF Ordered, Lists, Genuine, Held, Queued
  <2>3. QED
    BY <2>1, <2>2 DEF InHand
<1>3. ASSUME NEW l \in Loop, NEW i \in due[l], loop[l] = "offer"
      PROVE  i.entry \in Entry \ Queued(quarantine)
  <2>1. i.entry \in Entry
    BY <1>1 DEF Ordered, Lists, Genuine, Held, IsItem
  <2>2. i.entry \in Queued(pending)
    <3>1. i.entry \in Queued(Held(l))
      BY DEF Held, Queued
    <3>2. Queued(Held(l)) \subseteq Queued(pending)
      BY <1>1, <1>3 DEF Ordered, Lists
    <3>3. QED
      BY <3>1, <3>2
  <2>3. QED
    BY <1>1, <2>1, <2>2 DEF Ordered, Files
<1>4. QED
  BY <1>2, <1>3

LEMMA CallMaps ==
  ASSUME Inv, Serial, Serial', NEW e \in Entry, Send(e) \/ SyncStep(e)
  PROVE  Place' = Place \/ Abstract!Deliver(e) \/ Abstract!Queue(e)
<1> USE DEF loops, files
<1>1. Shape /\ delivered \in [Entry -> Nat] /\ \A f \in Entry : delivered[f] >= delivered[f]
  BY DEF Inv, Shape
<1>2. CASE \/ Send(e) \/ Listed(e) \/ ListFails(e)
           \/ Reject(e) \/ Enqueue(e) \/ EnqueueFails(e)
  <2>1. UNCHANGED <<delivered, quarantine, pending, expired>>
    BY <1>2 DEF Send, Listed, ListFails, Reject, Enqueue, EnqueueFails
  <2>2. QED
    BY <2>1, SamePlace DEF InHand
<1>3. CASE Sent(e) \/ Refused(e)
  <2>1. UNCHANGED <<quarantine, pending, expired>> /\ stage[e] = "send"
    BY <1>3 DEF Sent, Refused
  <2>2. InHand' = InHand /\ e \notin Queued(quarantine)
    BY <2>1, NotQuarantined DEF InHand, Settled
  <2>3. /\ delivered' \in [Entry -> Nat] /\ delivered'[e] >= delivered[e]
        /\ \A f \in Entry : f # e => delivered'[f] = delivered[f]
    BY <1>1, <1>3, TakesFacts, FailsFacts DEF Sent, Refused
  <2>4. QED
    BY <1>1, <2>1, <2>2, <2>3, MayDeliver
<1>4. CASE Enqueued(e)
  <2>1. UNCHANGED <<quarantine, expired, delivered>> /\ stage[e] = "write"
    BY <1>4 DEF Enqueued
  <2>2. InHand' = InHand /\ e \notin Queued(quarantine) \cup Queued(pending) \cup InHand
    BY <2>1, NotQuarantined DEF InHand, Settled
  <2>3. PICK new : new.entry = e /\ copy[e] = pending \cup {new}
    BY <2>1 DEF Inv, Serial, Ordered, UpToDate
  <2>4. Queued(pending') = Queued(pending) \cup {e}
    BY <1>4, <2>3 DEF Enqueued, Queued
  <2>5. CASE delivered[e] > 0
    BY <2>1, <2>2, <2>4, <2>5, SamePlace
  <2>6. CASE ~ (delivered[e] > 0)
    <3>1. Place[e] = "caller" /\ Place'[e] = "queue"
      BY <2>1, <2>2, <2>4, <2>6 DEF Place
    <3>2. \A f \in Entry : f # e => Place'[f] = Place[f]
      BY <2>1, <2>2, <2>4 DEF Place
    <3>3. Place' = [Place EXCEPT ![e] = "queue"]
      <4>1. /\ Place = [f \in Entry |-> Place[f]]
            /\ Place' = [f \in Entry |-> Place'[f]]
        BY DEF Place
      <4> HIDE DEF Place
      <4>2. QED
        BY <3>1, <3>2, <4>1
    <3>4. QED
      BY <3>1, <3>3 DEF Abstract!Queue
  <2>7. QED
    BY <2>5, <2>6
<1>5. QED
  BY <1>2, <1>3, <1>4 DEF SyncStep

LEMMA OfferMaps ==
  ASSUME Inv, Serial, Serial', NEW l \in Loop, NEW i \in due[l],
         Offer(l, i) \/ OfferFails(l, i)
  PROVE  Place' = Place \/ Abstract!Deliver(i.entry)
<1>1. Shape /\ delivered \in [Entry -> Nat]
  BY DEF Inv, Shape
<1>2. UNCHANGED <<expired, pending, quarantine>> /\ loop[l] = "offer"
  BY DEF Offer, OfferFails, files
<1>3. i.entry \in Entry /\ i.entry \notin Queued(quarantine)
  BY <1>2, NotQuarantined
<1>4. InHand' = InHand
  BY <1>2 DEF InHand
<1>5. /\ delivered' \in [Entry -> Nat] /\ delivered'[i.entry] >= delivered[i.entry]
      /\ \A f \in Entry : f # i.entry => delivered'[f] = delivered[f]
  BY <1>1, <1>3, TakesFacts, FailsFacts DEF Offer, OfferFails
<1>6. QED
  BY <1>1, <1>2, <1>3, <1>4, <1>5, MayDeliver

\* The lists of a loop that changes no file hold what the file holds.
LEMMA LoopStutters ==
  ASSUME Inv, Serial, Serial', NEW l \in Loop,
         StartRetry(l) \/ Unhealthy(l) \/ Healthy(l) \/ ReadQuarantine(l)
           \/ RetryFails(l)
  PROVE  Place' = Place
<1> USE DEF files
<1>1. Shape /\ Ordered
  BY DEF Inv, Serial
<1>2. ~ RetryFails(l)
  BY SerialFacts DEF RetryFails
<1>3. UNCHANGED <<pending, quarantine, delivered>>
  BY <1>2 DEF StartRetry, Unhealthy, Healthy, ReadQuarantine
<1>4. CASE StartRetry(l) \/ ReadQuarantine(l)
  <2>1. InHand' = InHand
    BY <1>4 DEF InHand, StartRetry, ReadQuarantine
  <2>2. QED
    BY <1>3, <2>1, SamePlace
<1>5. CASE Unhealthy(l) \/ Healthy(l)
  <2>1. loop[l] = "health"
    BY <1>5 DEF Unhealthy, Healthy
  <2>2. /\ \A m \in Loop : m # l => expired'[m] = expired[m]
        /\ expired'[l] \subseteq due[l]
    BY <1>1, <1>5, ForgetFacts DEF Shape, Unhealthy, Healthy
  <2>3. expired[l] = {} /\ due[l] = pending
    BY <1>1, <2>1 DEF Ordered, Lists, UpToDate
  <2>4. InHand = Queued(expired[l]) /\ InHand' = Queued(expired'[l])
    BY <2>1, <2>2, OneHand, HandAfter
  <2>5. InHand = {} /\ InHand' \subseteq Queued(pending)
    BY <2>2, <2>3, <2>4 DEF Queued
  <2>6. QED
    BY <1>3, <2>5, SamePlace
<1>6. QED
  BY <1>2, <1>4, <1>5

LEMMA WriteBackStutters ==
  ASSUME Inv, Serial, Serial', NEW l \in Loop, WriteBack(l)
  PROVE  Place' = Place
<1>1. Shape /\ Ordered /\ loop[l] = "offer" /\ due[l] = {}
  BY DEF Inv, Serial, WriteBack
<1>2. UNCHANGED <<quarantine, delivered>> /\ pending' = keep[l]
  BY DEF WriteBack
<1>3. expired'[l] = expired[l] /\ \A m \in Loop : m # l => expired'[m] = expired[m]
  BY <1>1, ForgetFacts DEF WriteBack
<1>4. InHand = Queued(expired[l]) /\ InHand' = Queued(expired[l])
  BY <1>1, <1>3, OneHand, HandAfter
<1>5. /\ Queued(Held(l)) \subseteq Queued(pending)
      /\ \A e \in Entry : e \in Queued(pending) =>
           e \in Queued(Held(l)) \/ delivered[e] > 0
  BY <1>1 DEF Ordered, Lists
<1>6. Queued(Held(l)) = Queued(pending') \cup InHand'
  BY <1>1, <1>2, <1>4 DEF Held, Queued
<1>7. InHand \subseteq Queued(pending)
  BY <1>4, <1>5, <1>6
<1>8. QED
  BY <1>2, <1>5, <1>6, <1>7, SamePlace

LEMMA AppendMaps ==
  ASSUME Inv, Serial, Serial', NEW l \in Loop, AppendQuarantine(l)
  PROVE  \E some \in SUBSET Entry : Abstract!Quarantine(some)
<1> DEFINE some == {e \in Queued(expired[l]) : ~ (delivered[e] > 0)}
<1>1. Shape /\ Ordered /\ loop[l] = "append"
  BY DEF Inv, Serial, AppendQuarantine
<1>2. UNCHANGED <<pending, delivered>> /\ quarantine' = quarantine \cup expired[l]
  BY <1>1 DEF AppendQuarantine, Ordered, UpToDate
<1>3. expired'[l] = {} /\ \A m \in Loop : m # l => expired'[m] = expired[m]
  BY <1>1, ForgetFacts DEF AppendQuarantine
<1>4. InHand = Queued(expired[l]) /\ InHand' = {}
  BY <1>1, <1>3, OneHand, HandAfter DEF Queued
<1>5. Queued(expired[l]) \cap Queued(quarantine) = {}
  BY <1>1 DEF Ordered, Lists
<1>6. Queued(expired[l]) \subseteq Entry
  <2>1. \A i \in expired[l] : i.entry \in Entry
    BY <1>1 DEF Ordered, Lists, Genuine, Held, IsItem
  <2>2. QED
    BY <2>1 DEF Queued
<1>7. Queued(quarantine') = Queued(quarantine) \cup Queued(expired[l])
  BY <1>2 DEF Queued
<1>8. \A e \in some : Place[e] = "queue"
  BY <1>4, <1>5, <1>6 DEF Place
<1>9. Place' = [e \in Entry |-> IF e \in some THEN "quarantine" ELSE Place[e]]
  BY <1>2, <1>4, <1>5, <1>7 DEF Place
<1>10. some \in SUBSET Entry
  BY <1>6
<1>11. QED
  BY <1>8, <1>9, <1>10 DEF Abstract!Quarantine

\* Every step of a serial world is one of the abstract queue or none.
LEMMA StepMaps ==
  ASSUME Inv, [Next]_vars
  PROVE  [Abstract!Next]_Mapped
<1>1. Serial' <=> Serial
  BY DEF Serial, Next, Tick, Send, SyncStep, Sent, Listed, ListFails, Reject,
         Refused, Enqueue, Enqueued,
         EnqueueFails, StartRetry, RetryStep, Unhealthy, Healthy, OfferStep,
         Offer, OfferFails, WriteBack, ReadQuarantine, AppendQuarantine,
         RetryFails, Crash, vars, client
<1>2. CASE ~ Serial
  BY <1>1, <1>2 DEF Mapped
<1>3. CASE Serial
  <2> USE <1>1, <1>3
  <2>1. Place' = Place => Mapped' = Mapped
    BY DEF Mapped
  <2>2. CASE Tick \/ UNCHANGED vars
    <3>1. UNCHANGED <<pending, quarantine, delivered, expired>>
      BY <2>2 DEF Tick, vars, files, loops
    <3>2. QED
      BY <3>1, <2>1 DEF Place, InHand
  <2>3. ASSUME NEW e \in Entry, Send(e) \/ SyncStep(e)
        PROVE  [Abstract!Next]_Mapped
    BY <2>1, <2>3, CallMaps DEF Abstract!Next
  <2>4. ASSUME NEW l \in Loop, OfferStep(l)
        PROVE  [Abstract!Next]_Mapped
    <3>1. PICK i \in due[l] : Offer(l, i) \/ OfferFails(l, i)
      BY <2>4 DEF OfferStep
    <3>2. i.entry \in Entry
      BY <3>1, NotQuarantined DEF Offer, OfferFails
    <3>3. QED
      BY <2>1, <3>1, <3>2, OfferMaps DEF Abstract!Next
  <2>5. ASSUME NEW l \in Loop, StartRetry(l) \/ RetryStep(l)
        PROVE  [Abstract!Next]_Mapped
    BY <2>1, <2>4, <2>5, LoopStutters, WriteBackStutters, AppendMaps
       DEF RetryStep, Abstract!Next
  <2>6. ~ Crash
    BY SerialFacts DEF Crash
  <2>7. QED
    BY <2>2, <2>3, <2>5, <2>6 DEF Next
<1>4. QED
  BY <1>2, <1>3

\* In a serial world an entry moves from its caller to the queue or to the
\* backend, and from the queue to the backend or into quarantine, never back:
\* files, lists and answers together implement the queue of DeliveryQueue.
THEOREM QueueImplemented == Spec => ImplementsQueue
<1>1. Init => Abstract!Init
  BY DEF Init, Abstract!Init, Place, InHand, Queued
<1>2. Inv /\ [Next]_vars => [Abstract!Next]_Mapped
  BY StepMaps
<1>3. QED
  BY <1>1, <1>2, InvHolds, PTL DEF Spec, ImplementsQueue, Abstract!Spec, Mapped

=============================================================================
