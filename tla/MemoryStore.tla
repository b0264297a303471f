---------------------------- MODULE MemoryStore ----------------------------
(***************************************************************************)
(* The local memory store of one project and its hygiene commands          *)
(* (src/memory): memories.jsonl, temp-memories.jsonl, the quarantine files *)
(* and the file of the older layout, from which every store migrates.      *)
(*                                                                         *)
(* Every operation reads a file as a whole and writes it as a whole, with  *)
(* awaits in between and no lock.  save and delete write atomically; purge,*)
(* prune and compact first truncate the file and then fill it.             *)
(***************************************************************************)
EXTENDS Naturals, FiniteSets, FiniteSetsExt

CONSTANTS
  Memory,       \* memories, each saved at most once
  Temporary,    \* those saved as temporary ones
  Legacy,       \* those in the file of the older layout
  Summary,      \* those a compaction creates
  Noise,        \* those with test noise or generic, low-signal content
  TestNoise,    \* the former of them
  Protected,    \* those with a protected topic
  Reviewable,   \* those of a reviewable type
  Text, Topic,  \* title and content, and topic, of every memory
  NoTopic,      \* the topic of a memory without one
  Worker,       \* who runs the operations
  Ttl,          \* ttlMinutes
  MaxTemp,      \* maxTempEntries
  MaxTime,      \* bound on the clock
  MaxCopies,    \* bound on the copies of a memory in one file
  World         \* what may happen: every behaviour is in one of these

WorldType ==
  [memories : SUBSET Memory,    \* those there are
   ops      : SUBSET {"save", "delete", "search", "prune", "compact"},
   workers  : SUBSET Worker,    \* operations of one worker never overlap
   scoped   : BOOLEAN,          \* a search names the project
   faults   : SUBSET {"crash", "torn", "write"},
   strikes  : Nat]              \* bound on the number of failures

ASSUME MemoryStoreConstants ==
  /\ IsFiniteSet(Memory)
  /\ Temporary \cup Legacy \cup Summary \cup Noise \cup Protected
       \cup Reviewable \subseteq Memory
  /\ Temporary \cap (Legacy \cup Summary) = {} /\ TestNoise \subseteq Noise
  /\ Legacy \cap Summary = {} /\ Summary \subseteq Reviewable
  /\ \A m \in Reviewable : Topic[m] # NoTopic
  /\ {Ttl, MaxTemp, MaxTime, MaxCopies} \subseteq Nat
  /\ MaxTemp >= 1 /\ MaxCopies >= 1
  /\ World \subseteq WorldType

VARIABLES
  world,        \* the world of this behaviour; it never changes
  now,          \* the clock
  born,         \* createdAt of every memory
  saved,        \* memories saved, by the older layout or a compaction too
  deleted,      \* memories whose delete was answered
  durable,      \* memories.jsonl: how often it holds every memory
  temp,         \* temp-memories.jsonl
  quar,         \* the quarantine files
  legacy,       \* the file of the older layout
  checked,      \* migrationChecked, of the store the operations share
  pc,           \* where every worker is
  op, arg,      \* what it does, and with which memory
  since,        \* when it began
  hold,         \* what it has read, later what it will write to memories.jsonl
  small,        \* the same for the temporary, the older or the found memories
  out,          \* the same for the quarantine
  faults        \* failures so far

files == <<durable, temp, quar, legacy>>
local == <<op, arg, since, hold, small, out>>
vars  ==
  <<world, now, born, saved, deleted, files, checked, pc, local, faults>>

None == [m \in Memory |-> 0]
In(bag) == {m \in Memory : bag[m] > 0}
Count(bag, S) == MapThenSumSet(LAMBDA m : bag[m], S)

\* Mutant of Expired: one unit too late.
ExpiredLate(m) == m \in Temporary /\ born[m] + Ttl < now

Expired(m) == m \in Temporary /\ born[m] + Ttl <= now

\* evaluateEntry: noise, the second of one text or the third of one topic.
Candidate(m, bag) ==
  /\ m \notin Protected
  /\ \/ m \in Noise
     \/ Count(bag, {n \in Memory : Text[n] = Text[m]}) > 1
     \/ /\ Topic[m] # NoTopic
        /\ Count(bag, {n \in Memory : Topic[n] = Topic[m]}) > 2

\* buildCompactionGroups
Member(m, bag) ==
  bag[m] > 0 /\ m \in Reviewable \ (Protected \cup TestNoise)

GroupOf(k, bag) == {m \in Memory : Member(m, bag) /\ Topic[m] = k}

Groups(bag) ==
  {k \in {Topic[m] : m \in Reviewable} : Count(bag, GroupOf(k, bag)) > 1}

Busy == {w \in Worker : pc[w] # "idle"}

Goto(w, label) == pc' = [pc EXCEPT ![w] = label]
Fault(kind) ==
  /\ kind \in world.faults /\ faults < world.strikes
  /\ faults' = faults + 1

\* An operation that ends forgets what it has read.
Leave(w, label) ==
  /\ Goto(w, label)
  /\ IF label # "idle" THEN UNCHANGED local
     ELSE /\ op' = [op EXCEPT ![w] = "none"]
          /\ arg' = [arg EXCEPT ![w] = {}]
          /\ since' = [since EXCEPT ![w] = 0]
          /\ hold' = [hold EXCEPT ![w] = None]
          /\ small' = [small EXCEPT ![w] = {}]
          /\ out' = [out EXCEPT ![w] = {}]

Init ==
  /\ world \in World
  /\ now = 0
  /\ born = [m \in Memory |-> 0]
  /\ legacy = Legacy \cap world.memories
  /\ saved = legacy /\ deleted = {}
  /\ durable = None /\ temp = {} /\ quar = {} /\ checked = FALSE
  /\ pc = [w \in Worker |-> "idle"]
  /\ op = [w \in Worker |-> "none"] /\ arg = [w \in Worker |-> {}]
  /\ since = [w \in Worker |-> 0]
  /\ hold = [w \in Worker |-> None]
  /\ small = arg /\ out = arg
  /\ faults = 0

Tick ==
  /\ now < MaxTime
  /\ now' = now + 1
  /\ UNCHANGED <<world, checked, born, saved, deleted, files, pc, local,
                 faults>>
-----------------------------------------------------------------------------
(* An operation begins.  Those of the store migrate first: one that this   *)
(* process has not begun to migrate yet, or a store of another process.     *)

Begin(w, o, M) ==
  /\ pc[w] = "idle" /\ w \in world.workers /\ o \in world.ops
  /\ op' = [op EXCEPT ![w] = o]
  /\ arg' = [arg EXCEPT ![w] = M]
  /\ since' = [since EXCEPT ![w] = now]
  /\ IF o \in {"prune", "compact"}
     THEN Goto(w, "read") /\ UNCHANGED checked
     ELSE /\ Goto(w, "legacy") \/ (checked /\ Goto(w, "read"))
          /\ checked' = TRUE
  /\ UNCHANGED <<world, now, born, saved, deleted, files, hold, small, out,
                 faults>>

\* A memory is saved once: no other call of save has it.
Save(w) ==
  \E m \in world.memories \ (saved \cup Legacy \cup Summary) :
    /\ \A v \in Busy : op[v] = "save" => m \notin arg[v]
    /\ Begin(w, "save", {m})

Delete(w) == \E m \in saved \ deleted : Begin(w, "delete", {m})

Search(w) == Begin(w, "search", {})

Hygiene(w) ==
  /\ \A m \in Memory : durable[m] < MaxCopies
  /\ Begin(w, "prune", {}) \/ Begin(w, "compact", {})
-----------------------------------------------------------------------------
(* migrateIfNeeded *)

ReadLegacy(w) ==
  /\ pc[w] = "legacy"
  /\ small' = [small EXCEPT ![w] = legacy]
  /\ Goto(w, IF legacy = {} THEN "read" ELSE "existing")
  /\ UNCHANGED <<world, checked, now, born, saved, deleted, files, op, arg,
                 since, hold, out, faults>>

\* Mutant of ReadExisting: what is there already is not looked at.
ReadExistingAddsAll(w) ==
  /\ pc[w] = "existing"
  /\ hold' = [hold EXCEPT ![w] =
       [m \in Memory |-> durable[m] + (IF m \in small[w] THEN 1 ELSE 0)]]
  /\ Goto(w, "merge")
  /\ UNCHANGED <<world, checked, now, born, saved, deleted, files, op, arg,
                 since, small, out, faults>>

\* Nothing is written if the file has them all.
ReadExisting(w) ==
  /\ pc[w] = "existing"
  /\ hold' = [hold EXCEPT ![w] =
       [m \in Memory |-> IF m \in small[w] /\ durable[m] = 0 THEN 1
                         ELSE durable[m]]]
  /\ Goto(w, IF hold'[w] = durable THEN "rename" ELSE "merge")
  /\ UNCHANGED <<world, checked, now, born, saved, deleted, files, op, arg,
                 since, small, out, faults>>

Merge(w) ==
  /\ pc[w] = "merge"
  /\ durable' = hold[w]
  /\ Goto(w, "rename")
  /\ UNCHANGED <<world, checked, now, born, saved, deleted, temp, quar, legacy,
                 local, faults>>

Rename(w) ==
  /\ pc[w] = "rename"
  /\ legacy' = {}
  /\ Goto(w, "read")
  /\ UNCHANGED <<world, checked, now, born, saved, deleted, durable, temp,
                 quar, local, faults>>

\* A migration that cannot write is given up, and the operation goes on.
MergeFails(w) ==
  /\ pc[w] \in {"merge", "rename"} /\ Fault("write")
  /\ Goto(w, "read")
  /\ UNCHANGED <<world, checked, now, born, saved, deleted, files, local>>
-----------------------------------------------------------------------------
(* save and delete *)

\* Mutant of Kept: the list is cut before the new memory is added.
KeptOneMore(S) ==
  {K \in SUBSET S :
     /\ Cardinality(K) = IF Cardinality(S) < MaxTemp THEN Cardinality(S)
                         ELSE MaxTemp
     /\ \A k \in K, m \in S \ K : born[m] <= born[k]}

\* What may stay when one memory is added: the newest, as many as fit.
Kept(S) ==
  {K \in SUBSET S :
     /\ Cardinality(K) = IF Cardinality(S) < MaxTemp THEN Cardinality(S)
                         ELSE MaxTemp - 1
     /\ \A k \in K, m \in S \ K : born[m] <= born[k]}

SaveRead(w) ==
  /\ pc[w] = "read" /\ op[w] = "save"
  /\ born' = [m \in Memory |-> IF m \in arg[w] THEN now ELSE born[m]]
  /\ IF arg[w] \subseteq Temporary
     THEN /\ \E K \in Kept(temp) :
               small' = [small EXCEPT ![w] = K \cup arg[w]]
          /\ UNCHANGED hold
     ELSE /\ hold' = [hold EXCEPT ![w] =
               [m \in Memory |-> IF m \in arg[w] THEN 1 ELSE durable[m]]]
          /\ UNCHANGED small
  /\ Goto(w, "write")
  /\ UNCHANGED <<world, checked, now, saved, deleted, files, op, arg, since,
                 out, faults>>

SaveWrite(w) ==
  /\ pc[w] = "write" /\ op[w] = "save"
  /\ IF arg[w] \subseteq Temporary
     THEN temp' = small[w] /\ UNCHANGED durable
     ELSE durable' = hold[w] /\ UNCHANGED temp
  /\ saved' = saved \cup arg[w]
  /\ Leave(w, "idle")
  /\ UNCHANGED <<world, checked, now, born, deleted, quar, legacy, faults>>

\* Only memories.jsonl is searched for the id.
DeleteRead(w) ==
  /\ pc[w] = "read" /\ op[w] = "delete"
  /\ IF arg[w] \subseteq In(durable)
     THEN /\ hold' = [hold EXCEPT ![w] =
               [m \in Memory |-> IF m \in arg[w] THEN 0 ELSE durable[m]]]
          /\ Goto(w, "write")
          /\ UNCHANGED <<op, arg, since, small, out>>
     ELSE Leave(w, "idle")
  /\ UNCHANGED <<world, checked, now, born, saved, deleted, files, faults>>

DeleteWrite(w) ==
  /\ pc[w] = "write" /\ op[w] = "delete"
  /\ durable' = hold[w]
  /\ deleted' = deleted \cup arg[w]
  /\ Leave(w, "idle")
  /\ UNCHANGED <<world, checked, now, born, saved, temp, quar, legacy, faults>>
-----------------------------------------------------------------------------
(* search: purgeExpiredTempMemories, then both files are read *)

\* Without a project the purge looks for a file that nothing writes to.
PurgeRead(w) ==
  /\ pc[w] = "read" /\ op[w] = "search"
  /\ small' = [small EXCEPT ![w] = {m \in temp : ~ Expired(m)}]
  /\ Goto(w, IF world.scoped /\ small'[w] # temp THEN "write" ELSE "look")
  /\ UNCHANGED <<world, checked, now, born, saved, deleted, files, op, arg,
                 since, hold, out, faults>>

\* Both files are read; nothing is written on the way.
Look(w) ==
  /\ pc[w] = "look"
  /\ small' = [small EXCEPT ![w] = In(durable) \cup temp]
  /\ Goto(w, "found")
  /\ UNCHANGED <<world, checked, now, born, saved, deleted, files, op, arg,
                 since, hold, out, faults>>

Found(w) ==
  /\ pc[w] = "found"
  /\ Leave(w, "idle")
  /\ UNCHANGED <<world, checked, now, born, saved, deleted, files, faults>>
-----------------------------------------------------------------------------
(* runMemoryPrune and runMemoryCompact with --apply *)

HygieneRead(w) ==
  /\ pc[w] = "read" /\ op[w] \in {"prune", "compact"}
  /\ hold' = [hold EXCEPT ![w] = durable]
  /\ Goto(w, "readTemp")
  /\ UNCHANGED <<world, checked, now, born, saved, deleted, files, op, arg,
                 since, small, out, faults>>

\* readScopedMemoryFiles counts the active temporary memories in.
All(w) ==
  [m \in Memory |->
     hold[w][m] + (IF m \in temp /\ ~ Expired(m) THEN 1 ELSE 0)]

PlanPrune(w) ==
  /\ pc[w] = "readTemp" /\ op[w] = "prune"
  /\ LET bag == All(w)
         gone == {m \in In(bag) : Candidate(m, bag)}
     IN IF gone = {} THEN Leave(w, "idle")
        ELSE /\ out' = [out EXCEPT ![w] = gone]
             /\ hold' = [hold EXCEPT ![w] =
                  [m \in Memory |-> IF m \in gone THEN 0 ELSE bag[m]]]
             /\ Goto(w, "readQuar")
             /\ UNCHANGED <<op, arg, since, small>>
  /\ UNCHANGED <<world, checked, now, born, saved, deleted, files, faults>>

\* All groups, or the one of a topic, are replaced by one memory each.
PlanCompact(w) ==
  /\ pc[w] = "readTemp" /\ op[w] = "compact"
  /\ LET bag == All(w)
     IN \/ Groups(bag) = {} /\ Leave(w, "idle")
        \/ \E G \in {Groups(bag)} \cup {{k} : k \in Groups(bag)},
              new \in SUBSET ((Summary \cap world.memories) \ saved) :
             LET gone == UNION {GroupOf(k, bag) : k \in G}
             IN /\ G # {} /\ {Topic[s] : s \in new} = G
                /\ Cardinality(new) = Cardinality(G)
                /\ out' = [out EXCEPT ![w] = gone]
                /\ arg' = [arg EXCEPT ![w] = new]
                /\ hold' = [hold EXCEPT ![w] =
                     [m \in Memory |-> IF m \in gone THEN 0
                                       ELSE IF m \in new THEN 1 ELSE bag[m]]]
                /\ Goto(w, "readQuar")
                /\ UNCHANGED <<op, since, small>>
  /\ UNCHANGED <<world, checked, now, born, saved, deleted, files, faults>>

\* Mutant of ReadQuarantine: what is there is not read.
ReadQuarantineFresh(w) ==
  /\ pc[w] = "readQuar"
  /\ Goto(w, IF op[w] = "prune" THEN "append" ELSE "write")
  /\ UNCHANGED <<world, checked, now, born, saved, deleted, files, local,
                 faults>>

\* Prune writes the quarantine first, compact last.
ReadQuarantine(w) ==
  /\ pc[w] = "readQuar"
  /\ out' = [out EXCEPT ![w] = @ \cup quar]
  /\ Goto(w, IF op[w] = "prune" THEN "append" ELSE "write")
  /\ UNCHANGED <<world, checked, now, born, saved, deleted, files, op, arg,
                 since, hold, small, faults>>
-----------------------------------------------------------------------------
(* writeFile empties the file before it fills it. *)

Truncate(w) ==
  /\ \/ pc[w] = "write" /\ op[w] \in {"search", "prune", "compact"}
     \/ pc[w] = "append"
  /\ durable' = IF pc[w] = "write" /\ op[w] # "search" THEN None ELSE durable
  /\ temp' = IF op[w] = "search" THEN {} ELSE temp
  /\ quar' = IF pc[w] = "append" THEN {} ELSE quar
  /\ Goto(w, IF pc[w] = "write" THEN "fill" ELSE "refill")
  /\ UNCHANGED <<world, checked, now, born, saved, deleted, legacy, local,
                 faults>>

PurgeWrite(w) ==
  /\ pc[w] = "fill" /\ op[w] = "search"
  /\ temp' = small[w]
  /\ Goto(w, "look")
  /\ UNCHANGED <<world, checked, now, born, saved, deleted, durable, quar,
                 legacy, local, faults>>

StoreWrite(w) ==
  /\ pc[w] = "fill" /\ op[w] # "search"
  /\ durable' = hold[w]
  /\ saved' = saved \cup arg[w]
  /\ born' = [m \in Memory |-> IF m \in arg[w] THEN now ELSE born[m]]
  /\ Leave(w, IF op[w] = "prune" THEN "idle" ELSE "append")
  /\ UNCHANGED <<world, checked, now, deleted, temp, quar, legacy, faults>>

QuarantineWrite(w) ==
  /\ pc[w] = "refill"
  /\ quar' = out[w]
  /\ Leave(w, IF op[w] = "prune" THEN "write" ELSE "idle")
  /\ UNCHANGED <<world, checked, now, born, saved, deleted, durable, temp,
                 legacy, faults>>

\* A write that fails before it began ends the operation.
WriteFails(w) ==
  /\ pc[w] \in {"write", "append"} /\ Fault("write")
  /\ Leave(w, "idle")
  /\ UNCHANGED <<world, checked, now, born, saved, deleted, files>>

\* The process dies.  A crash between emptying and filling is a torn write.
Crash ==
  /\ Busy # {} /\ Fault("crash")
  /\ "torn" \in world.faults \/ \A w \in Busy : pc[w] \notin {"fill", "refill"}
  /\ pc' = [w \in Worker |-> "idle"]
  /\ op' = [w \in Worker |-> "none"] /\ since' = [w \in Worker |-> 0]
  /\ hold' = [w \in Worker |-> None]
  /\ arg' = [w \in Worker |-> {}] /\ small' = arg' /\ out' = arg'
  /\ checked' = FALSE
  /\ UNCHANGED <<world, now, born, saved, deleted, files>>
-----------------------------------------------------------------------------
Step(w) ==
  \/ Save(w) \/ Delete(w) \/ Search(w) \/ Hygiene(w)
  \/ ReadLegacy(w) \/ ReadExisting(w) \/ Merge(w) \/ Rename(w) \/ MergeFails(w)
  \/ SaveRead(w) \/ SaveWrite(w) \/ DeleteRead(w) \/ DeleteWrite(w)
  \/ PurgeRead(w) \/ Look(w) \/ Found(w)
  \/ HygieneRead(w) \/ PlanPrune(w) \/ PlanCompact(w) \/ ReadQuarantine(w)
  \/ Truncate(w) \/ PurgeWrite(w) \/ StoreWrite(w) \/ QuarantineWrite(w)
  \/ WriteFails(w)

Next == Tick \/ (\E w \in Worker : Step(w)) \/ Crash

Spec == Init /\ [][Next]_vars
-----------------------------------------------------------------------------
(* Properties *)

\* Types; temp-memories.jsonl never holds more than MaxTemp memories, however
\* operations overlap and fail, and only temporary ones.
TypeOK ==
  /\ world \in World
  /\ now \in 0 .. MaxTime
  /\ born \in [Memory -> 0 .. MaxTime]
  /\ saved \subseteq Memory /\ deleted \subseteq saved
  /\ durable \in [Memory -> Nat]
  /\ temp \subseteq Temporary /\ Cardinality(temp) <= MaxTemp
  /\ quar \subseteq Memory /\ legacy \subseteq Legacy
  /\ checked \in BOOLEAN
  /\ pc \in [Worker -> {"idle", "legacy", "existing", "merge", "rename", "read",
       "readTemp", "readQuar", "write", "fill", "append", "refill", "look",
       "found"}]
  /\ op \in [Worker -> {"none", "save", "delete", "search", "prune", "compact"}]
  /\ arg \in [Worker -> SUBSET Memory]
  /\ since \in [Worker -> 0 .. MaxTime]
  /\ hold \in [Worker -> [Memory -> Nat]]
  /\ small \in [Worker -> SUBSET Memory] /\ out \in [Worker -> SUBSET Memory]
  /\ faults \in 0 .. world.strikes

\* What is in a file, or in the hands of the operation that is writing it.
Stored ==
  In(durable) \cup temp \cup quar \cup legacy
    \cup (UNION {IF op[w] = "search" THEN small[w] ELSE In(hold[w]) :
                   w \in {v \in Worker : pc[v] = "fill"}})
    \cup (UNION {out[w] :
                   w \in {v \in Worker : pc[v] \in {"append", "fill", "refill"}}})

\* MaxTemp other memories are as new as m or newer.
Displaced(m) ==
  Cardinality({n \in (saved \cap Temporary) \ {m} : born[n] >= born[m]})
    >= MaxTemp

\* Operations one after the other, and no write that leaves a file empty.
Serial ==
  (\A v, w \in world.workers : v = w) /\ "torn" \notin world.faults

Hygienic == world.ops \cap {"prune", "compact"} # {}

\* A memory that was saved is kept, in the store or in quarantine, until it is
\* deleted, expires or is displaced by newer temporary ones: whatever else
\* fails, and through purge and prune; through compact, if nothing fails.
NothingLost ==
  Serial /\ ("compact" \in world.ops => world.faults = {}) =>
    \A m \in saved \ deleted :
      \/ m \in Stored
      \/ m \in Temporary /\ (now >= born[m] + Ttl \/ Displaced(m))

\* A migration that is cut short and begun again leaves every memory once, and
\* brings no deleted one back.
MigratesOnce ==
  Serial =>
    /\ \A m \in Legacy : durable[m] <= 1
    /\ "write" \notin world.faults =>
         \A m \in deleted \ Temporary : m \notin In(durable) \cup legacy

\* A search returns no temporary memory that had expired when it began: of a
\* project, as long as no prune or compact has moved temporary memories to
\* the file whose readers do not look at expiresAt.
SearchFresh ==
  Serial /\ world.scoped /\ ~ Hygienic =>
    \A w \in Worker : pc[w] = "found" =>
      \A m \in small[w] \cap Temporary : born[m] + Ttl > since[w]
=============================================================================
