------------------------- MODULE MemoryStore_proofs -------------------------
(***************************************************************************)
(* What the local memory store promises, for any memories, workers, bounds *)
(* and worlds.                                                             *)
(***************************************************************************)
EXTENDS MemoryStore, TLAPS, FiniteSetTheorems

\* Which operations may be where.
Places ==
  [idle |-> {"none"},
   legacy |-> {"save", "delete", "search"},
   existing |-> {"save", "delete", "search"},
   merge |-> {"save", "delete", "search"},
   rename |-> {"save", "delete", "search"},
   read |-> {"save", "delete", "search", "prune", "compact"},
   readTemp |-> {"prune", "compact"}, readQuar |-> {"prune", "compact"},
   write |-> {"save", "delete", "search", "prune", "compact"},
   fill |-> {"search", "prune", "compact"},
   append |-> {"prune", "compact"}, refill |-> {"prune", "compact"},
   look |-> {"search"}, found |-> {"search"}]

\* The types of the files, and of what the workers have.
Types ==
  /\ world \in World
  /\ now \in 0 .. MaxTime
  /\ born \in [Memory -> 0 .. MaxTime]
  /\ saved \subseteq Memory /\ deleted \subseteq saved
  /\ durable \in [Memory -> Nat]
  /\ temp \subseteq Temporary /\ Cardinality(temp) <= MaxTemp
  /\ quar \subseteq Memory /\ legacy \subseteq Legacy
  /\ faults \in 0 .. world.strikes

Holdings ==
  /\ pc \in [Worker -> DOMAIN Places]
  /\ op \in [Worker -> {"none", "save", "delete", "search", "prune", "compact"}]
  /\ arg \in [Worker -> SUBSET Memory]
  /\ since \in [Worker -> 0 .. MaxTime]
  /\ hold \in [Worker -> [Memory -> Nat]]
  /\ small \in [Worker -> SUBSET Memory] /\ out \in [Worker -> SUBSET Memory]

\* What a worker has, whatever the others do.
Local(w) ==
  /\ op[w] \in Places[pc[w]]
  /\ pc[w] # "idle" => w \in world.workers /\ op[w] \in world.ops
  /\ pc[w] = "idle" =>
       arg[w] = {} /\ hold[w] = None /\ small[w] = {} /\ out[w] = {}
  /\ op[w] = "save" => \E m \in Memory \ (Legacy \cup Summary) : arg[w] = {m}
  /\ op[w] = "delete" => arg[w] \subseteq saved
  /\ op[w] \in {"search", "prune"} => arg[w] = {}
  /\ op[w] = "compact" => arg[w] \subseteq Summary
  /\ op[w] = "compact" /\ pc[w] \in {"read", "readTemp"} => arg[w] = {}
  /\ op[w] \in {"save", "delete", "search"} => out[w] = {}
  /\ \/ op[w] = "save" /\ pc[w] = "write" /\ arg[w] \subseteq Temporary
     \/ op[w] = "search" /\ pc[w] \in {"write", "fill"}
     => small[w] \subseteq Temporary /\ Cardinality(small[w]) <= MaxTemp
  /\ since[w] <= now
  /\ In(hold[w]) \subseteq saved \cup arg[w] /\ small[w] \subseteq saved \cup arg[w]
  /\ pc[w] = "existing" => small[w] \subseteq saved
  /\ pc[w] = "merge" => In(hold[w]) \subseteq saved
  /\ \A m \in Legacy : hold[w][m] <= 1

\* What the files are, whatever the workers do.
Files ==
  /\ In(durable) \cup temp \cup legacy \subseteq saved
  /\ \A m \in Legacy : durable[m] <= 1
  /\ \A m \in Memory : born[m] <= now

Gone(m) == m \in Temporary /\ (now >= born[m] + Ttl \/ Displaced(m))

\* What a worker that is alone knows of the files.
Migrates(w) ==
  /\ pc[w] = "existing" => small[w] = legacy /\ legacy # {}
  /\ pc[w] = "merge" => legacy # {} /\ In(durable) \cup legacy \subseteq In(hold[w])
  /\ pc[w] = "rename" => legacy \subseteq In(durable)
  /\ "write" \notin world.faults
       /\ op[w] \in {"save", "delete", "search"} /\ pc[w] \in {"read", "write"}
     => legacy = {}

Writes(w) ==
  /\ op[w] = "save" => arg[w] \cap saved = {}
  /\ op[w] = "save" /\ pc[w] = "write" =>
       IF arg[w] \subseteq Temporary
       THEN /\ arg[w] \subseteq small[w]
            /\ \A m \in temp \ small[w] :
                 /\ MaxTemp <= Cardinality(small[w])
                 /\ \A k \in small[w] : born[m] <= born[k]
       ELSE In(durable) \cup arg[w] \subseteq In(hold[w])
  /\ op[w] = "delete" /\ pc[w] = "write" =>
       In(durable) \ arg[w] \subseteq In(hold[w]) /\ In(hold[w]) \cap arg[w] = {}
  /\ op[w] = "search" /\ pc[w] = "write" => \A m \in temp \ small[w] : Expired(m)
  /\ op[w] = "search" /\ pc[w] = "fill" => temp = {}

Cleans(w) ==
  /\ pc[w] = "readTemp" => hold[w] = durable
  /\ \/ op[w] \in {"prune", "compact"} /\ pc[w] \in {"readQuar", "write", "fill"}
     \/ op[w] = "prune" /\ pc[w] \in {"append", "refill"}
     => In(durable) \subseteq In(hold[w]) \cup out[w]
  /\ op[w] = "prune" /\ pc[w] \in {"readQuar", "append"} =>
       out[w] \subseteq In(durable) \cup temp \cup quar
  /\ op[w] = "prune" /\ pc[w] \in {"append", "refill"} => quar \subseteq out[w]
  /\ op[w] = "prune" /\ pc[w] \in {"write", "fill"} => out[w] \subseteq quar
  /\ op[w] = "compact" /\ pc[w] \in {"write", "fill", "append", "refill"} =>
       quar \subseteq out[w]
  /\ op[w] = "compact" /\ pc[w] \in {"readQuar", "write", "fill"} =>
       arg[w] \subseteq In(hold[w]) /\ arg[w] \cap saved = {}

\* What was deleted is in no list that will be written.
StaysDeleted ==
  "write" \notin world.faults =>
    /\ deleted # {} => legacy = {}
    /\ In(durable) \cap (deleted \ Temporary) = {}
    /\ \A w \in Worker : In(hold[w]) \cap (deleted \ Temporary) = {}

\* Without hygiene commands temporary memories are in their file alone.
Apart ==
  /\ In(durable) \cap Temporary = {}
  /\ \A w \in Worker :
       /\ In(hold[w]) \cap Temporary = {}
       /\ world.scoped /\ op[w] = "search" =>
            /\ pc[w] \in {"write", "fill", "found"} =>
                 \A m \in small[w] \cap Temporary : born[m] + Ttl > since[w]
            /\ pc[w] = "look" => \A m \in temp : born[m] + Ttl > since[w]

Held == \A m \in saved \ deleted : m \in Stored \/ Gone(m)

StoreShape == Types /\ Holdings /\ Files /\ \A w \in Worker : Local(w)

Careful == Serial /\ ("compact" \in world.ops => world.faults = {})
CleanInv == Careful => Held /\ \A w \in Worker : Cleans(w)
SerialInv == Serial => StaysDeleted /\ \A w \in Worker : Migrates(w) /\ Writes(w)
ApartInv == Serial /\ ~ Hygienic => Apart

Migrating == {"legacy", "existing", "merge", "rename"}

\* A store that is asked again has migrated, or somebody is at it.
Checks ==
  /\ checked \in BOOLEAN
  /\ Serial /\ "write" \notin world.faults /\ checked =>
       legacy = {} \/ \E w \in Worker : pc[w] \in Migrating

StoreInv == StoreShape /\ Checks /\ SerialInv /\ CleanInv /\ ApartInv

-----------------------------------------------------------------------------
\* A step of w leaves the other workers where they are and what they have.
StepOf(w) ==
  /\ UNCHANGED <<world, now>>
  /\ \A v \in Worker \ {w} :
       /\ pc'[v] = pc[v] /\ op'[v] = op[v] /\ arg'[v] = arg[v]
       /\ since'[v] = since[v] /\ hold'[v] = hold[v]
       /\ small'[v] = small[v] /\ out'[v] = out[v]
  /\ saved \subseteq saved'

LEMMA PlacesHave ==
  DOMAIN Places = {"idle", "legacy", "existing", "merge", "rename", "read",
                   "readTemp", "readQuar", "write", "fill", "append", "refill",
                   "look", "found"}
BY DEF Places

LEMMA OthersLocal ==
  ASSUME StoreShape, NEW w \in Worker, StepOf(w), Local(w)'
  PROVE  \A v \in Worker : Local(v)'
<1> SUFFICES ASSUME NEW v \in Worker, v # w
             PROVE  Local(v)'
  OBVIOUS
<1>1. Local(v)
  BY DEF StoreShape
<1>2. QED
  BY <1>1 DEF Local, StepOf, In, None, Places

\* An operation that ends, or goes on elsewhere.
LEMMA LeaveHoldings ==
  ASSUME MemoryStoreConstants, Holdings, NEW w \in Worker,
         NEW label \in DOMAIN Places, Leave(w, label)
  PROVE  /\ Holdings'
         /\ pc'[w] = label
         /\ label = "idle" =>
              op'[w] = "none" /\ arg'[w] = {} /\ since'[w] = 0 /\ hold'[w] = None
                /\ small'[w] = {} /\ out'[w] = {}
         /\ label # "idle" => UNCHANGED local
         /\ \A v \in Worker \ {w} :
              /\ pc'[v] = pc[v] /\ op'[v] = op[v] /\ arg'[v] = arg[v]
              /\ since'[v] = since[v] /\ hold'[v] = hold[v]
              /\ small'[v] = small[v] /\ out'[v] = out[v]
<1>1. CASE label = "idle"
  <2>1. /\ pc' = [pc EXCEPT ![w] = label] /\ op' = [op EXCEPT ![w] = "none"]
        /\ arg' = [arg EXCEPT ![w] = {}] /\ since' = [since EXCEPT ![w] = 0]
        /\ hold' = [hold EXCEPT ![w] = None] /\ small' = [small EXCEPT ![w] = {}]
        /\ out' = [out EXCEPT ![w] = {}]
    BY <1>1 DEF Leave, Goto
  <2>2. 0 \in 0 .. MaxTime /\ None \in [Memory -> Nat]
    BY DEF None, MemoryStoreConstants
  <2> QED
    BY <1>1, <2>1, <2>2 DEF Holdings
<1>2. CASE label # "idle"
  BY <1>2 DEF Leave, Goto, Holdings, local
<1>3. QED
  BY <1>1, <1>2

LEMMA WorldTypes ==
  ASSUME MemoryStoreConstants, Types
  PROVE  /\ world \in WorldType /\ world.strikes \in Nat /\ world.memories \subseteq Memory
         /\ MaxTime \in Nat /\ MaxTemp \in Nat /\ MaxTemp >= 1 /\ Ttl \in Nat
         /\ IsFiniteSet(Memory)
         /\ Temporary \subseteq Memory /\ Legacy \subseteq Memory /\ Summary \subseteq Memory
         /\ Temporary \cap Legacy = {} /\ Temporary \cap Summary = {}
         /\ Legacy \cap Summary = {}
BY DEF MemoryStoreConstants, Types, WorldType

\* A part of the temporary file is no larger than what fits.
LEMMA TempFits ==
  ASSUME MemoryStoreConstants, Types, NEW S \in SUBSET temp
  PROVE  Cardinality(S) <= MaxTemp
<1>1. IsFiniteSet(temp)
  BY WorldTypes, FS_Subset DEF Types
<1>2. Cardinality(S) <= Cardinality(temp) /\ Cardinality(S) \in Nat
  BY <1>1, FS_Subset, FS_CardinalityType
<1>3. Cardinality(temp) \in Nat
  BY <1>1, FS_CardinalityType
<1>4. QED
  BY <1>2, <1>3, WorldTypes DEF Types

\* Steps that read, or write what was read.
LEMMA MovesShape ==
  ASSUME MemoryStoreConstants, StoreShape, NEW w \in Worker,
         \/ ReadLegacy(w) \/ ReadExisting(w) \/ Merge(w) \/ Rename(w) \/ MergeFails(w)
         \/ Look(w) \/ HygieneRead(w) \/ ReadQuarantine(w) \/ PurgeWrite(w)
  PROVE  StoreShape'
<1>1. Types /\ Holdings /\ Files /\ Local(w)
  BY DEF StoreShape
<1>2. Types' /\ Files' /\ StepOf(w)
  BY <1>1, WorldTypes DEF ReadLegacy, ReadExisting, Merge, Rename, MergeFails, Look,
     HygieneRead, ReadQuarantine, PurgeWrite, Goto, Fault, files, local, Types, Holdings,
     Files, Local, Places, In, StepOf
<1>3. CASE ReadLegacy(w)
  BY <1>1, <1>2, <1>3, OthersLocal DEF ReadLegacy, Goto, StoreShape, Types,
       Holdings, Files, Local, Places, In, None, files, local
<1>4. CASE ReadExisting(w)
  <2>1. /\ pc[w] = "existing"
        /\ hold' = [hold EXCEPT ![w] =
             [m \in Memory |-> IF m \in small[w] /\ durable[m] = 0 THEN 1
                               ELSE durable[m]]]
        /\ \E place \in {"rename", "merge"} : pc' = [pc EXCEPT ![w] = place]
        /\ UNCHANGED <<world, now, saved, durable, op, arg, since, small, out>>
    BY <1>4 DEF ReadExisting, Goto, files
  <2>2. Holdings'
    BY <1>1, <2>1, PlacesHave DEF Holdings, Types
  <2>3. /\ In(hold'[w]) \subseteq saved
        /\ \A m \in Legacy : hold'[w][m] <= 1
    BY <1>1, <2>1, WorldTypes DEF In, Local, Files, Holdings, Types
  <2>4. op[w] \in {"save", "delete", "search"}
    BY <1>1, <2>1 DEF Local, Places
  <2>5. /\ pc'[w] \in {"rename", "merge"} /\ op'[w] = op[w] /\ arg'[w] = arg[w]
        /\ since'[w] = since[w] /\ small'[w] = small[w] /\ out'[w] = out[w]
        /\ In(hold[w])' = In(hold'[w])
    BY <1>1, <2>1 DEF Holdings, In
  <2>6. op'[w] \in Places[pc'[w]]
    BY <2>4, <2>5 DEF Places
  <2>7. Local(w)'
    BY <1>1, <2>1, <2>3, <2>4, <2>5, <2>6 DEF Local
  <2>8. QED
    BY <1>2, <2>2, <2>7, OthersLocal DEF StoreShape
<1>5. CASE Merge(w) \/ Rename(w) \/ MergeFails(w) \/ PurgeWrite(w)
  <2>1. pc' = [pc EXCEPT ![w] = pc'[w]] /\ pc'[w] \in {"rename", "read", "look"} /\ UNCHANGED local
    BY <1>1, <1>5 DEF Merge, Rename, MergeFails, PurgeWrite, Goto, Fault, Holdings
  <2>2. Holdings'
    BY <1>1, <2>1, PlacesHave DEF Holdings, local
  <2>3. op[w] \in {"save", "delete", "search"} /\ op'[w] \in Places[pc'[w]]
          /\ pc'[w] \notin {"write", "fill", "existing", "merge"}
    BY <1>1, <1>5, <2>1 DEF Merge, Rename, MergeFails, PurgeWrite, Goto, Holdings, Local, Places,
                            local
  <2>4. Local(w)'
    BY <1>1, <1>2, <2>1, <2>3 DEF Holdings, Local, Places, In, local, StepOf
  <2>5. QED
    BY <1>2, <2>2, <2>4, OthersLocal DEF StoreShape
<1>6. CASE Look(w)
  BY <1>1, <1>2, <1>6, OthersLocal DEF Look, Goto, StoreShape, Types, Holdings,
       Files, Local, Places, In, None, files, local
<1>7. CASE HygieneRead(w)
  BY <1>1, <1>2, <1>7, OthersLocal DEF HygieneRead, Goto, StoreShape, Types,
       Holdings, Files, Local, Places, In, None, files, local
<1>8. CASE ReadQuarantine(w)
  BY <1>1, <1>2, <1>8, OthersLocal DEF ReadQuarantine, Goto, StoreShape, Types,
       Holdings, Files, Local, Places, In, None, files, local
<1>9. QED
  BY <1>3, <1>4, <1>5, <1>6, <1>7, <1>8

LEMMA PurgeReadShape ==
  ASSUME MemoryStoreConstants, StoreShape, NEW w \in Worker, PurgeRead(w)
  PROVE  StoreShape'
<1>1. Types /\ Holdings /\ Files /\ Local(w)
  BY DEF StoreShape
<1>2. Types'
  BY <1>1, WorldTypes DEF PurgeRead, Goto, Expired, Types, Holdings, Files, Local, Places, files
<1>3. Holdings'
  BY <1>1 DEF PurgeRead, Goto, Expired, Types, Holdings, Places, files, local
<1>4. Files'
  BY <1>1 DEF PurgeRead, Goto, Expired, Types, Holdings, Files, Local, Places, In, files, local
<1>5. StepOf(w)
  BY <1>1 DEF PurgeRead, Goto, Expired, Types, Holdings, StepOf, files, local
<1>6. Local(w)'
  <2>1. Cardinality({m \in temp : ~ Expired(m)}) <= MaxTemp
    BY <1>1, WorldTypes, TempFits DEF Types
  <2>2. {m \in temp : ~ Expired(m)} \subseteq temp
    OBVIOUS
  <2>3. QED
    BY <1>1, <2>1, <2>2 DEF PurgeRead, Goto, Types, Holdings, Files, Local, Places,
                            In, None, files
<1>7. QED
  BY <1>2, <1>3, <1>4, <1>5, <1>6, OthersLocal DEF StoreShape

LEMMA TruncateShape ==
  ASSUME MemoryStoreConstants, StoreShape, NEW w \in Worker, Truncate(w)
  PROVE  StoreShape'
<1>1. Types /\ Holdings /\ Files /\ Local(w)
  BY DEF StoreShape
<1>2. Types'
  <2>1. None \in [Memory -> Nat] /\ Cardinality({}) = 0
    BY FS_EmptySet DEF None
  <2>2. QED
    BY <1>1, <2>1, WorldTypes DEF Truncate, Types, Goto
<1>3. Holdings'
  BY <1>1 DEF Truncate, Goto, Types, Holdings, Places, files, local
<1>4. Files'
  <2>1. In(None) = {} /\ \A m \in Memory : None[m] = 0
    BY DEF In, None
  <2>2. durable' \in {durable, None} /\ temp' \in {temp, {}}
          /\ UNCHANGED <<saved, legacy, born, now>>
    BY DEF Truncate
  <2>3. QED
    BY <1>1, <2>1, <2>2, WorldTypes DEF Files, In
<1>5. StepOf(w)
  BY <1>1 DEF Truncate, Goto, Types, Holdings, StepOf, files, local
<1>6. Local(w)'
  BY <1>1 DEF Truncate, Goto, Types, Holdings, Files, Local, Places, In, None, files, local
<1>7. QED
  BY <1>2, <1>3, <1>4, <1>5, <1>6, OthersLocal DEF StoreShape

\* A worker that has ended its operation.
LEMMA EndedLocal ==
  ASSUME MemoryStoreConstants, StoreShape, NEW w \in Worker, Leave(w, "idle"),
         UNCHANGED <<world, now>>, saved \subseteq saved', Types', Files'
  PROVE  StoreShape'
<1>1. "idle" \in DOMAIN Places
  BY DEF Places
<1>2. /\ Holdings' /\ pc'[w] = "idle" /\ op'[w] = "none" /\ arg'[w] = {}
      /\ since'[w] = 0 /\ hold'[w] = None /\ small'[w] = {} /\ out'[w] = {}
  BY <1>1, LeaveHoldings DEF StoreShape
<1>3. StepOf(w)
  BY <1>1, LeaveHoldings DEF StoreShape, StepOf
<1>4. Local(w)'
  <2>1. now' \in Nat /\ \A m \in Legacy : None[m] <= 1
    BY WorldTypes DEF StoreShape, Types, None
  <2>2. In(None) = {}
    BY DEF In, None
  <2>3. QED
    BY <1>2, <2>1, <2>2 DEF Local, Places, In
<1>5. QED
  BY <1>2, <1>3, <1>4, OthersLocal DEF StoreShape

LEMMA EndShape ==
  ASSUME MemoryStoreConstants, StoreShape, NEW w \in Worker,
         Found(w) \/ WriteFails(w)
  PROVE  StoreShape'
<1>1. /\ Leave(w, "idle") /\ UNCHANGED <<world, now, born, saved, deleted, files>>
      /\ Types
      /\ faults' \in {faults, faults + 1} /\ faults' <= world.strikes
  BY WorldTypes DEF Found, WriteFails, Fault, StoreShape, Types
<1>2. Types'
  BY <1>1, WorldTypes DEF Types, files
<1>3. Files'
  BY <1>1 DEF StoreShape, Files, In, files
<1>4. QED
  BY <1>1, <1>2, <1>3, EndedLocal

\* One more memory fits into what is kept of the temporary ones.
LEMMA OneMoreFits ==
  ASSUME MemoryStoreConstants, Types, NEW m \in Memory, NEW K \in Kept(temp)
  PROVE  /\ K \subseteq temp /\ Cardinality(K \cup {m}) <= MaxTemp
         /\ IsFiniteSet(K) /\ Cardinality(K) \in Nat
         /\ K # temp => Cardinality(K) + 1 = MaxTemp
<1>1. IsFiniteSet(temp) /\ K \in SUBSET temp
  BY WorldTypes, FS_Subset DEF Types, Kept
<1>2. IsFiniteSet(K) /\ Cardinality(K) \in Nat /\ Cardinality(temp) \in Nat
  BY <1>1, FS_Subset, FS_CardinalityType
<1>3. Cardinality(K) = IF Cardinality(temp) < MaxTemp THEN Cardinality(temp)
                       ELSE MaxTemp - 1
  BY DEF Kept
<1>4. Cardinality(K \cup {m}) <= Cardinality(K) + 1
  <2>1. Cardinality(K \cup {m})
          = IF m \in K THEN Cardinality(K) ELSE Cardinality(K) + 1
    BY <1>2, FS_AddElement
  <2>2. QED
    BY <1>2, <2>1
<1>5. Cardinality(K \cup {m}) \in Nat
  BY <1>2, FS_AddElement, FS_CardinalityType
<1>6. Cardinality(K) + 1 <= MaxTemp
  BY <1>2, <1>3, WorldTypes
<1>7. K # temp => Cardinality(K) + 1 = MaxTemp
  <2>1. Cardinality(K) = Cardinality(temp) => K = temp
    BY <1>1, FS_Subset
  <2>2. QED
    BY <1>2, <1>3, <2>1, WorldTypes
<1>8. QED
  BY <1>1, <1>2, <1>4, <1>5, <1>6, <1>7, WorldTypes

LEMMA SaveReadShape ==
  ASSUME MemoryStoreConstants, StoreShape, NEW w \in Worker, SaveRead(w)
  PROVE  StoreShape'
<1>1. /\ Types /\ Holdings /\ Files /\ Local(w)
      /\ pc[w] = "read" /\ op[w] = "save" /\ pc' = [pc EXCEPT ![w] = "write"]
      /\ UNCHANGED <<world, now, saved, deleted, durable, temp, quar, legacy, op, arg,
                     since, out, faults>>
      /\ born' = [m \in Memory |-> IF m \in arg[w] THEN now ELSE born[m]]
  BY DEF StoreShape, SaveRead, Goto, files
<1>2. PICK a \in Memory \ (Legacy \cup Summary) : arg[w] = {a}
  BY <1>1 DEF Local
<1>3. CASE arg[w] \subseteq Temporary
  <2>1. PICK K \in Kept(temp) : small' = [small EXCEPT ![w] = K \cup arg[w]]
    BY <1>1, <1>3 DEF SaveRead
  <2>2. hold' = hold
    BY <1>1, <1>3 DEF SaveRead
  <2>3. K \subseteq temp /\ Cardinality(K \cup {a}) <= MaxTemp
    BY <1>1, OneMoreFits
  <2>4. Types' /\ Files'
    BY <1>1, WorldTypes DEF Types, Files, In
  <2>5. Holdings'
    BY <1>1, <1>2, <2>1, <2>2, <2>3, WorldTypes, PlacesHave DEF Holdings, Types
  <2>6. StepOf(w)
    BY <1>1, <2>1, <2>2 DEF StepOf, Holdings
  <2>7. Local(w)'
    BY <1>1, <1>2, <1>3, <2>1, <2>2, <2>3, WorldTypes
       DEF Local, Holdings, Files, Types, Places, In
  <2>8. QED
    BY <2>4, <2>5, <2>6, <2>7, OthersLocal DEF StoreShape
<1>4. CASE ~ (arg[w] \subseteq Temporary)
  <2>1. hold' = [hold EXCEPT ![w] = [m \in Memory |-> IF m \in arg[w] THEN 1 ELSE durable[m]]]
        /\ small' = small
    BY <1>1, <1>4 DEF SaveRead
  <2>2. Types' /\ Files'
    BY <1>1, WorldTypes DEF Types, Files, In
  <2>3. Holdings'
    BY <1>1, <2>1, PlacesHave DEF Holdings, Types
  <2>4. StepOf(w)
    BY <1>1, <2>1 DEF StepOf, Holdings
  <2>5. Local(w)'
    BY <1>1, <1>2, <1>4, <2>1, WorldTypes
       DEF Local, Holdings, Files, Types, Places, In
  <2>6. QED
    BY <2>2, <2>3, <2>4, <2>5, OthersLocal DEF StoreShape
<1>5. QED
  BY <1>3, <1>4

LEMMA SaveWriteShape ==
  ASSUME MemoryStoreConstants, StoreShape, NEW w \in Worker, SaveWrite(w)
  PROVE  StoreShape'
<1>1. /\ Types /\ Holdings /\ Files /\ Local(w)
      /\ pc[w] = "write" /\ op[w] = "save" /\ Leave(w, "idle")
      /\ saved' = saved \cup arg[w]
      /\ UNCHANGED <<world, now, born, deleted, quar, legacy, faults>>
  BY DEF StoreShape, SaveWrite
<1>2. PICK a \in Memory \ (Legacy \cup Summary) : arg[w] = {a}
  BY <1>1 DEF Local
<1>3. CASE arg[w] \subseteq Temporary
  <2>1. temp' = small[w] /\ durable' = durable
    BY <1>3 DEF SaveWrite
  <2>2. Types' /\ Files'
    BY <1>1, <1>2, <1>3, <2>1, WorldTypes DEF Types, Files, Local, Holdings, In
  <2>3. QED
    BY <1>1, <2>2, EndedLocal
<1>4. CASE ~ (arg[w] \subseteq Temporary)
  <2>1. durable' = hold[w] /\ temp' = temp
    BY <1>4 DEF SaveWrite
  <2>2. Types' /\ Files'
    BY <1>1, <1>2, <2>1, WorldTypes DEF Types, Files, Local, Holdings, In
  <2>3. QED
    BY <1>1, <2>2, EndedLocal
<1>5. QED
  BY <1>3, <1>4

LEMMA DeleteShape ==
  ASSUME MemoryStoreConstants, StoreShape, NEW w \in Worker,
         DeleteRead(w) \/ DeleteWrite(w)
  PROVE  StoreShape'
<1>1. /\ Types /\ Holdings /\ Files /\ Local(w) /\ op[w] = "delete"
      /\ UNCHANGED <<world, now, born, saved, temp, quar, legacy, faults>>
  BY DEF StoreShape, DeleteRead, DeleteWrite, files
<1>2. CASE DeleteRead(w) /\ ~ (arg[w] \subseteq In(durable))
  <2>1. Leave(w, "idle") /\ UNCHANGED <<durable, deleted>>
    BY <1>2 DEF DeleteRead, files
  <2>2. Types' /\ Files'
    BY <1>1, <2>1 DEF Types, Files, In
  <2>3. QED
    BY <1>1, <2>1, <2>2, EndedLocal
<1>3. CASE DeleteRead(w) /\ arg[w] \subseteq In(durable)
  <2>1. /\ hold' = [hold EXCEPT ![w] =
                      [m \in Memory |-> IF m \in arg[w] THEN 0 ELSE durable[m]]]
        /\ pc' = [pc EXCEPT ![w] = "write"]
        /\ UNCHANGED <<durable, deleted, op, arg, since, small, out>>
    BY <1>3 DEF DeleteRead, Goto, files
  <2>2. Types' /\ Files'
    BY <1>1, <2>1 DEF Types, Files, In
  <2>3. Holdings'
    BY <1>1, <2>1, PlacesHave DEF Holdings, Types
  <2>4. StepOf(w)
    BY <1>1, <2>1 DEF StepOf, Holdings
  <2>5. Local(w)'
    BY <1>1, <2>1, WorldTypes DEF Local, Holdings, Files, Types, Places, In
  <2>6. QED
    BY <2>2, <2>3, <2>4, <2>5, OthersLocal DEF StoreShape
<1>4. CASE DeleteWrite(w)
  <2>1. /\ Leave(w, "idle") /\ durable' = hold[w]
        /\ deleted' = deleted \cup arg[w]
    BY <1>4 DEF DeleteWrite
  <2>2. Types' /\ Files'
    BY <1>1, <2>1, WorldTypes DEF Types, Files, Local, Holdings, In
  <2>3. QED
    BY <1>1, <2>1, <2>2, EndedLocal
<1>5. QED
  BY <1>2, <1>3, <1>4

\* What the hygiene commands read is what was saved.
LEMMA AllSaved ==
  ASSUME MemoryStoreConstants, Types, Holdings, Files, NEW w \in Worker, Local(w),
         op[w] = "prune" \/ arg[w] \subseteq saved
  PROVE  /\ All(w) \in [Memory -> Nat] /\ In(All(w)) \subseteq saved
         /\ \A m \in Legacy : All(w)[m] <= 1
         /\ \A m \in Memory : All(w)[m] = 0 <=>
              hold[w][m] = 0 /\ ~ (m \in temp /\ ~ Expired(m))
<1>1. /\ hold[w] \in [Memory -> Nat] /\ temp \subseteq saved
      /\ In(hold[w]) \subseteq saved
  BY DEF Holdings, Files, Local
<1>2. \A m \in Memory :
        All(w)[m] = hold[w][m] + (IF m \in temp /\ ~ Expired(m) THEN 1 ELSE 0)
  BY DEF All
<1>3. All(w) \in [Memory -> Nat]
  BY <1>1 DEF All
<1>4. In(All(w)) \subseteq saved
  BY <1>1, <1>2 DEF In
<1>5. \A m \in Legacy : m \notin temp /\ hold[w][m] <= 1 /\ m \in Memory
  BY WorldTypes DEF Types, Local
<1>6. \A m \in Legacy : All(w)[m] <= 1
  BY <1>1, <1>2, <1>5
<1>7. QED
  BY <1>1, <1>2, <1>3, <1>4, <1>6

LEMMA PlanPruneShape ==
  ASSUME MemoryStoreConstants, StoreShape, NEW w \in Worker, PlanPrune(w)
  PROVE  StoreShape'
<1> DEFINE bag == All(w)
           gone == {m \in In(bag) : Candidate(m, bag)}
<1>1. /\ Types /\ Holdings /\ Files /\ Local(w)
      /\ pc[w] = "readTemp" /\ op[w] = "prune"
      /\ UNCHANGED <<world, now, born, saved, deleted, durable, temp, quar, legacy, faults>>
  BY DEF StoreShape, PlanPrune, files
<1>2. Types' /\ Files'
  BY <1>1 DEF Types, Files, In
<1>3. CASE gone = {}
  <2>1. Leave(w, "idle")
    BY <1>3 DEF PlanPrune
  <2>2. QED
    BY <1>1, <1>2, <2>1, EndedLocal
<1>4. CASE gone # {}
  <2>1. /\ out' = [out EXCEPT ![w] = gone]
        /\ hold' = [hold EXCEPT ![w] =
                      [m \in Memory |-> IF m \in gone THEN 0 ELSE bag[m]]]
        /\ pc' = [pc EXCEPT ![w] = "readQuar"]
        /\ UNCHANGED <<op, arg, since, small>>
    BY <1>4 DEF PlanPrune, Goto
  <2>2. /\ bag \in [Memory -> Nat] /\ In(bag) \subseteq saved
        /\ \A m \in Legacy : bag[m] <= 1
    BY <1>1, AllSaved
  <2>3. gone \subseteq Memory
    BY DEF In
  <2> HIDE DEF bag, gone
  <2>4. Holdings'
    BY <1>1, <2>1, <2>2, <2>3, PlacesHave DEF Holdings
  <2>5. StepOf(w)
    BY <1>1, <2>1 DEF StepOf, Holdings
  <2>6. Local(w)'
    BY <1>1, <2>1, <2>2, <2>3, WorldTypes DEF Local, Holdings, Places, In
  <2>7. QED
    BY <1>2, <2>4, <2>5, <2>6, OthersLocal DEF StoreShape
<1>5. QED
  BY <1>3, <1>4

LEMMA PlanCompactShape ==
  ASSUME MemoryStoreConstants, StoreShape, NEW w \in Worker, PlanCompact(w)
  PROVE  StoreShape'
<1> DEFINE bag == All(w)
<1>1. /\ Types /\ Holdings /\ Files /\ Local(w)
      /\ pc[w] = "readTemp" /\ op[w] = "compact"
      /\ UNCHANGED <<world, now, born, saved, deleted, durable, temp, quar, legacy, faults>>
  BY DEF StoreShape, PlanCompact, files
<1>2. Types' /\ Files'
  BY <1>1 DEF Types, Files, In
<1>3. CASE Leave(w, "idle")
  BY <1>1, <1>2, <1>3, EndedLocal
<1>4. CASE \E G \in {Groups(bag)} \cup {{k} : k \in Groups(bag)},
              new \in SUBSET ((Summary \cap world.memories) \ saved) :
             LET gone == UNION {GroupOf(k, bag) : k \in G}
             IN /\ out' = [out EXCEPT ![w] = gone]
                /\ arg' = [arg EXCEPT ![w] = new]
                /\ hold' = [hold EXCEPT ![w] =
                     [m \in Memory |-> IF m \in gone THEN 0
                                       ELSE IF m \in new THEN 1 ELSE bag[m]]]
                /\ pc' = [pc EXCEPT ![w] = "readQuar"]
                /\ UNCHANGED <<op, since, small>>
  <2>1. PICK gone \in SUBSET Memory, new \in SUBSET (Summary \ saved) :
          /\ out' = [out EXCEPT ![w] = gone]
          /\ arg' = [arg EXCEPT ![w] = new]
          /\ hold' = [hold EXCEPT ![w] =
               [m \in Memory |-> IF m \in gone THEN 0
                                 ELSE IF m \in new THEN 1 ELSE bag[m]]]
          /\ pc' = [pc EXCEPT ![w] = "readQuar"]
          /\ UNCHANGED <<op, since, small>>
    <3>1. PICK G \in {Groups(bag)} \cup {{k} : k \in Groups(bag)},
               new \in SUBSET ((Summary \cap world.memories) \ saved) :
             LET gone == UNION {GroupOf(k, bag) : k \in G}
             IN /\ out' = [out EXCEPT ![w] = gone]
                /\ arg' = [arg EXCEPT ![w] = new]
                /\ hold' = [hold EXCEPT ![w] =
                     [m \in Memory |-> IF m \in gone THEN 0
                                       ELSE IF m \in new THEN 1 ELSE bag[m]]]
                /\ pc' = [pc EXCEPT ![w] = "readQuar"]
                /\ UNCHANGED <<op, since, small>>
      BY <1>4
    <3>2. UNION {GroupOf(k, bag) : k \in G} \in SUBSET Memory
      BY DEF GroupOf
    <3>3. new \in SUBSET (Summary \ saved)
      OBVIOUS
    <3>4. QED
      BY <3>1, <3>2, <3>3
  <2>2. /\ bag \in [Memory -> Nat] /\ In(bag) \subseteq saved
        /\ \A m \in Legacy : bag[m] <= 1
    BY <1>1, AllSaved DEF Local
  <2> HIDE DEF bag
  <2>3. Holdings'
    BY <1>1, <2>1, <2>2, PlacesHave, WorldTypes DEF Holdings
  <2>4. StepOf(w)
    BY <1>1, <2>1 DEF StepOf, Holdings
  <2>5. Local(w)'
    BY <1>1, <2>1, <2>2, WorldTypes DEF Local, Holdings, Places, In
  <2>6. QED
    BY <1>2, <2>3, <2>4, <2>5, OthersLocal DEF StoreShape
<1>5. QED
  BY <1>3, <1>4 DEF PlanCompact, Goto

LEMMA StoreWriteShape ==
  ASSUME MemoryStoreConstants, StoreShape, NEW w \in Worker, StoreWrite(w)
  PROVE  StoreShape'
<1>1. /\ Types /\ Holdings /\ Files /\ Local(w)
      /\ pc[w] = "fill" /\ op[w] \in {"prune", "compact"}
      /\ durable' = hold[w] /\ saved' = saved \cup arg[w]
      /\ born' = [m \in Memory |-> IF m \in arg[w] THEN now ELSE born[m]]
      /\ UNCHANGED <<world, now, deleted, temp, quar, legacy, faults>>
  BY DEF StoreShape, StoreWrite, Local, Places
<1>2. Types'
  BY <1>1 DEF Types, Holdings
<1>3. Files'
  <2>1. \A m \in Memory : born'[m] <= now
    BY <1>1 DEF Files, Types
  <2>2. QED
    BY <1>1, <2>1, WorldTypes DEF Files, Local, In, Holdings, Types
<1>4. CASE op[w] = "prune"
  BY <1>1, <1>2, <1>3, <1>4, EndedLocal DEF StoreWrite
<1>5. CASE op[w] = "compact"
  <2>1. /\ pc' = [pc EXCEPT ![w] = "append"]
        /\ UNCHANGED <<op, arg, since, hold, small, out>>
    BY <1>5 DEF StoreWrite, Leave, Goto, local
  <2>2. Holdings'
    BY <1>1, <2>1, PlacesHave DEF Holdings
  <2>3. StepOf(w)
    BY <1>1, <2>1 DEF StepOf, Holdings
  <2>4. Local(w)'
    BY <1>1, <1>5, <2>1 DEF Local, Holdings, Places, In
  <2>5. QED
    BY <1>2, <1>3, <2>2, <2>3, <2>4, OthersLocal DEF StoreShape
<1>6. QED
  BY <1>1, <1>4, <1>5

LEMMA QuarantineWriteShape ==
  ASSUME MemoryStoreConstants, StoreShape, NEW w \in Worker, QuarantineWrite(w)
  PROVE  StoreShape'
<1>1. /\ Types /\ Holdings /\ Files /\ Local(w)
      /\ pc[w] = "refill" /\ op[w] \in {"prune", "compact"}
      /\ quar' = out[w]
      /\ UNCHANGED <<world, now, born, saved, deleted, durable, temp, legacy, faults>>
  BY DEF StoreShape, QuarantineWrite, Local, Places
<1>2. Types' /\ Files'
  BY <1>1 DEF Types, Files, In, Holdings
<1>3. CASE op[w] = "compact"
  BY <1>1, <1>2, <1>3, EndedLocal DEF QuarantineWrite
<1>4. CASE op[w] = "prune"
  <2>1. /\ pc' = [pc EXCEPT ![w] = "write"]
        /\ UNCHANGED <<op, arg, since, hold, small, out>>
    BY <1>4 DEF QuarantineWrite, Leave, Goto, local
  <2>2. Holdings'
    BY <1>1, <2>1, PlacesHave DEF Holdings
  <2>3. StepOf(w)
    BY <1>1, <2>1 DEF StepOf, Holdings
  <2>4. Local(w)'
    BY <1>1, <1>4, <2>1 DEF Local, Holdings, Places, In
  <2>5. QED
    BY <1>2, <2>2, <2>3, <2>4, OthersLocal DEF StoreShape
<1>5. QED
  BY <1>1, <1>3, <1>4

LEMMA BeginShape ==
  ASSUME MemoryStoreConstants, StoreShape, NEW w \in Worker, NEW o,
         NEW M \in SUBSET Memory, Begin(w, o, M),
         o \in {"save", "delete", "search", "prune", "compact"},
         o = "save" => \E m \in Memory \ (Legacy \cup Summary) : M = {m},
         o = "delete" => M \subseteq saved,
         o \in {"search", "prune", "compact"} => M = {}
  PROVE  StoreShape'
<1>1. /\ Types /\ Holdings /\ Files /\ Local(w) /\ pc[w] = "idle"
      /\ UNCHANGED <<world, now, born, saved, deleted, durable, temp, quar, legacy, hold,
                     small, out, faults>>
      /\ op' = [op EXCEPT ![w] = o] /\ arg' = [arg EXCEPT ![w] = M]
      /\ since' = [since EXCEPT ![w] = now]
      /\ \/ pc' = [pc EXCEPT ![w] = "read"]
         \/ pc' = [pc EXCEPT ![w] = "legacy"] /\ o \notin {"prune", "compact"}
      /\ w \in world.workers /\ o \in world.ops
  BY DEF Begin, Goto, StoreShape, files
<1>2. Types' /\ Files'
  BY <1>1 DEF Types, Files, In
<1>3. Holdings'
  BY <1>1, PlacesHave DEF Holdings, Types
<1>4. StepOf(w)
  BY <1>1 DEF StepOf, Holdings
<1>5. Local(w)'
  <2>1. None \in [Memory -> Nat] /\ In(None) = {} /\ \A m \in Legacy : None[m] <= 1
    BY WorldTypes, <1>1 DEF None, In
  <2>2. now \in Nat
    BY <1>1, WorldTypes DEF Types
  <2>3. QED
    BY <1>1, <2>1, <2>2 DEF Local, Holdings, Places
<1>6. QED
  BY <1>2, <1>3, <1>4, <1>5, OthersLocal DEF StoreShape

LEMMA CallShape ==
  ASSUME MemoryStoreConstants, StoreShape, NEW w \in Worker,
         Save(w) \/ Delete(w) \/ Search(w) \/ Hygiene(w)
  PROVE  StoreShape'
<1>1. CASE Save(w)
  <2>1. PICK m \in world.memories \ (saved \cup Legacy \cup Summary) :
          Begin(w, "save", {m})
    BY <1>1 DEF Save
  <2>2. m \in Memory
    BY <2>1, WorldTypes DEF StoreShape
  <2>3. QED
    BY <2>1, <2>2, BeginShape
<1>2. CASE Delete(w)
  <2>1. PICK m \in saved \ deleted : Begin(w, "delete", {m})
    BY <1>2 DEF Delete
  <2>2. m \in Memory /\ {m} \subseteq saved
    BY <2>1 DEF StoreShape, Types
  <2>3. QED
    BY <2>1, <2>2, BeginShape
<1>3. CASE Search(w)
  BY <1>3, BeginShape DEF Search
<1>4. CASE Hygiene(w)
  BY <1>4, BeginShape DEF Hygiene
<1>5. QED
  BY <1>1, <1>2, <1>3, <1>4

LEMMA TickShape ==
  ASSUME MemoryStoreConstants, StoreShape, Tick
  PROVE  StoreShape'
<1>1. /\ now < MaxTime /\ now' = now + 1 /\ now \in Nat
      /\ UNCHANGED <<world, born, saved, deleted, durable, temp, quar, legacy, pc, op,
                     arg, since, hold, small, out, faults>>
      /\ Types /\ Holdings /\ Files
  BY WorldTypes DEF Tick, files, local, StoreShape, Types
<1>2. Types' /\ Holdings'
  BY <1>1, WorldTypes DEF Types, Holdings, Places
<1>3. Files'
  BY <1>1 DEF Files, In, Types
<1>4. ASSUME NEW w \in Worker
      PROVE  Local(w)'
  <2>1. Local(w) /\ since[w] \in Nat
    BY <1>1, WorldTypes DEF StoreShape, Holdings
  <2>2. since'[w] <= now'
    BY <1>1, <2>1 DEF Local
  <2>3. QED
    BY <1>1, <2>1, <2>2 DEF Local, In, None, Places
<1>5. QED
  BY <1>2, <1>3, <1>4 DEF StoreShape

LEMMA CrashShape ==
  ASSUME MemoryStoreConstants, StoreShape, Crash
  PROVE  StoreShape'
<1>1. /\ pc' = [w \in Worker |-> "idle"] /\ op' = [w \in Worker |-> "none"]
      /\ since' = [w \in Worker |-> 0] /\ hold' = [w \in Worker |-> None]
      /\ arg' = [w \in Worker |-> {}] /\ small' = arg' /\ out' = arg'
      /\ UNCHANGED <<world, now, born, saved, deleted, durable, temp, quar, legacy>>
      /\ faults' = faults + 1 /\ faults < world.strikes
      /\ Types /\ Files
  BY DEF Crash, Fault, files, StoreShape
<1>2. Types' /\ Files'
  BY <1>1, WorldTypes DEF Types, Files, In
<1>3. None \in [Memory -> Nat] /\ In(None) = {} /\ \A m \in Legacy : None[m] <= 1
  BY WorldTypes DEF None, In, StoreShape
<1>4. Holdings'
  BY <1>1, <1>3, PlacesHave, WorldTypes DEF Holdings
<1>5. ASSUME NEW w \in Worker
      PROVE  Local(w)'
  BY <1>1, <1>3, WorldTypes DEF Local, Places, In, Types
<1>6. QED
  BY <1>2, <1>4, <1>5 DEF StoreShape

LEMMA InitShape ==
  ASSUME MemoryStoreConstants, Init
  PROVE  StoreShape
<1>1. None \in [Memory -> Nat] /\ In(None) = {} /\ \A m \in Memory : None[m] = 0
  BY DEF None, In
<1>2. Types
  BY <1>1, FS_EmptySet DEF Init, Types, MemoryStoreConstants, WorldType
<1>3. Holdings
  BY <1>1, PlacesHave DEF Init, Holdings, MemoryStoreConstants
<1>4. Files
  BY <1>1, <1>2, WorldTypes DEF Init, Files
<1>5. ASSUME NEW w \in Worker
      PROVE  Local(w)
  BY <1>1, <1>2, WorldTypes DEF Init, Local, Places
<1>6. QED
  BY <1>2, <1>3, <1>4, <1>5 DEF StoreShape
-----------------------------------------------------------------------------
(* One worker at a time *)

LEMMA StepIsOf ==
  ASSUME MemoryStoreConstants, StoreShape, NEW w \in Worker, Step(w)
  PROVE  StepOf(w) /\ w \in world.workers
<1>1. Holdings /\ Local(w)
  BY DEF StoreShape
<1>2. CASE Save(w) \/ Delete(w) \/ Search(w) \/ Hygiene(w)
  BY <1>1, <1>2 DEF Save, Delete, Search, Hygiene, Begin, Goto, StepOf, Holdings
<1>3. CASE ReadLegacy(w) \/ ReadExisting(w) \/ Merge(w) \/ Rename(w) \/ MergeFails(w)
  BY <1>1, <1>3 DEF ReadLegacy, ReadExisting, Merge, Rename, MergeFails, Goto, StepOf,
                    Holdings, Local, local, files
<1>4. CASE SaveRead(w) \/ PurgeRead(w) \/ Look(w) \/ HygieneRead(w) \/ ReadQuarantine(w)
           \/ Truncate(w) \/ PurgeWrite(w)
  BY <1>1, <1>4 DEF SaveRead, PurgeRead, Look, HygieneRead, ReadQuarantine, Truncate,
                    PurgeWrite, Goto, StepOf, Holdings, Local, local, files
<1>5. ASSUME NEW label \in DOMAIN Places, Leave(w, label), UNCHANGED <<world, now>>,
             saved \subseteq saved', pc[w] # "idle"
      PROVE  StepOf(w) /\ w \in world.workers
  BY <1>1, <1>5, LeaveHoldings DEF StepOf, Local
<1>6. {"idle", "append", "write"} \subseteq DOMAIN Places
  BY PlacesHave
<1>7. CASE SaveWrite(w) \/ DeleteWrite(w) \/ Found(w) \/ StoreWrite(w)
           \/ QuarantineWrite(w) \/ WriteFails(w)
  BY <1>5, <1>6, <1>7 DEF SaveWrite, DeleteWrite, Found, StoreWrite, QuarantineWrite,
                          WriteFails, files
<1>8. CASE DeleteRead(w) \/ PlanPrune(w) \/ PlanCompact(w)
  <2>1. CASE Leave(w, "idle")
    BY <1>5, <1>6, <1>8, <2>1 DEF DeleteRead, PlanPrune, PlanCompact, files
  <2>2. CASE ~ Leave(w, "idle")
    BY <1>1, <1>8, <2>2 DEF DeleteRead, PlanPrune, PlanCompact, Goto, StepOf, Holdings,
                            Local, files
  <2>3. QED
    BY <2>1, <2>2
<1>9. QED
  BY <1>2, <1>3, <1>4, <1>7, <1>8 DEF Step

\* Where operations do not overlap, the other workers have nothing to do.
LEMMA OthersIdle ==
  ASSUME StoreShape, Serial, NEW w \in world.workers, NEW v \in Worker, v # w
  PROVE  /\ pc[v] = "idle" /\ op[v] = "none" /\ hold[v] = None
         /\ arg[v] = {} /\ small[v] = {} /\ out[v] = {}
<1>1. Local(v)
  BY DEF StoreShape
<1>2. pc[v] = "idle"
  BY <1>1 DEF Local, Serial
<1>3. QED
  BY <1>1, <1>2 DEF Local, Places

\* So it is enough to look at the worker that takes the step.
LEMMA OnlyOne ==
  ASSUME MemoryStoreConstants, StoreShape, Serial, NEW w \in Worker, Step(w)
  PROVE  \A v \in Worker \ {w} :
           /\ Migrates(v)' /\ Writes(v)' /\ Cleans(v)'
           /\ hold'[v] = None /\ op'[v] = "none" /\ pc'[v] = "idle"
<1>1. StepOf(w) /\ w \in world.workers
  BY StepIsOf
<1>2. ASSUME NEW v \in Worker, v # w
      PROVE  /\ Migrates(v)' /\ Writes(v)' /\ Cleans(v)'
             /\ hold'[v] = None /\ op'[v] = "none" /\ pc'[v] = "idle"
  <2>1. pc'[v] = "idle" /\ op'[v] = "none" /\ hold'[v] = None
    BY <1>1, <1>2, OthersIdle DEF StepOf
  <2>2. QED
    BY <2>1 DEF Migrates, Writes, Cleans
<1>3. QED
  BY <1>2

LEMMA MovesSerial ==
  ASSUME MemoryStoreConstants, StoreShape, NEW w \in Worker,
         \/ ReadLegacy(w) \/ ReadExisting(w) \/ Merge(w) \/ Rename(w) \/ MergeFails(w)
         \/ PurgeRead(w) \/ Look(w) \/ HygieneRead(w) \/ ReadQuarantine(w) \/ Truncate(w)
         \/ PurgeWrite(w),
         Migrates(w), Writes(w)
  PROVE  Migrates(w)' /\ Writes(w)'
<1> USE DEF ReadLegacy, ReadExisting, Merge, Rename, MergeFails, PurgeRead, Look, HygieneRead,
            ReadQuarantine, Truncate, PurgeWrite, Goto, Fault, Expired, None, files, local
<1>1. Types /\ Holdings /\ Files /\ Local(w)
  BY DEF StoreShape
<1>2. Migrates(w)'
  BY <1>1 DEF Types, Holdings, Local, Places, In, Migrates
<1>3. Writes(w)'
  BY <1>1 DEF Types, Holdings, Local, Places, In, Writes
<1>4. QED
  BY <1>2, <1>3

LEMMA SaveReadSerial ==
  ASSUME MemoryStoreConstants, StoreShape, NEW w \in Worker, SaveRead(w),
         Migrates(w), Writes(w)
  PROVE  Migrates(w)' /\ Writes(w)'
<1>1. /\ Types /\ Holdings /\ Files /\ Local(w)
      /\ pc[w] = "read" /\ op[w] = "save" /\ pc' = [pc EXCEPT ![w] = "write"]
      /\ UNCHANGED <<world, now, saved, deleted, durable, temp, quar, legacy, op, arg,
                     since, out, faults>>
      /\ born' = [m \in Memory |-> IF m \in arg[w] THEN now ELSE born[m]]
      /\ arg[w] \cap saved = {}
  BY DEF StoreShape, SaveRead, Goto, files, Writes
<1>2. Migrates(w)'
  BY <1>1 DEF Migrates, Holdings
<1>3. PICK a \in Memory \ (Legacy \cup Summary) : arg[w] = {a}
  BY <1>1 DEF Local
<1>4. pc'[w] = "write" /\ op'[w] = "save"
  BY <1>1 DEF Holdings
<1>5. CASE arg[w] \subseteq Temporary
  <2>1. PICK K \in Kept(temp) : small' = [small EXCEPT ![w] = K \cup arg[w]]
    BY <1>1, <1>5 DEF SaveRead
  <2>2. /\ K \subseteq temp /\ IsFiniteSet(K) /\ Cardinality(K) \in Nat
        /\ K # temp => Cardinality(K) + 1 = MaxTemp
    BY <1>1, OneMoreFits
  <2>3. small'[w] = K \cup {a} /\ a \notin K
    BY <1>1, <1>3, <2>1, <2>2 DEF Holdings, Files
  <2>4. Cardinality(K \cup {a}) = Cardinality(K) + 1
    BY <2>2, <2>3, FS_AddElement
  <2>5. ASSUME NEW m \in temp \ small'[w]
        PROVE  /\ MaxTemp <= Cardinality(small'[w])
               /\ \A k \in small'[w] : born'[m] <= born'[k]
    <3>1. m \in temp \ K /\ m # a /\ K # temp /\ m \in Memory /\ MaxTemp \in Nat
      BY <2>3, <1>1, WorldTypes DEF Types
    <3>2. MaxTemp <= Cardinality(small'[w])
      BY <2>2, <2>3, <2>4, <3>1
    <3>3. \A k \in K : born[m] <= born[k] /\ k \in Memory /\ k # a
      BY <3>1, <2>2, <2>3, <1>1, WorldTypes DEF Kept, Types
    <3>4. born'[m] = born[m] /\ born[m] <= now /\ born'[a] = now
      BY <1>1, <1>3, <3>1 DEF Files
    <3>5. \A k \in K : born'[k] = born[k]
      BY <1>1, <1>3, <3>3
    <3>6. QED
      BY <2>3, <3>2, <3>3, <3>4, <3>5
  <2>6. Writes(w)'
    BY <1>1, <1>3, <1>4, <1>5, <2>3, <2>5 DEF Writes
  <2>7. QED
    BY <1>2, <2>6
<1>6. CASE ~ (arg[w] \subseteq Temporary)
  <2>1. hold' = [hold EXCEPT ![w] = [m \in Memory |-> IF m \in arg[w] THEN 1 ELSE durable[m]]]
    BY <1>1, <1>6 DEF SaveRead
  <2>2. In(durable) \cup arg[w] \subseteq In(hold'[w])
    BY <1>1, <1>3, <2>1 DEF In, Holdings, Types
  <2>3. In(hold[w])' = In(hold'[w])
    BY DEF In
  <2>4. QED
    BY <1>1, <1>2, <1>4, <1>6, <2>2, <2>3 DEF Writes, In
<1>7. QED
  BY <1>5, <1>6

\* A worker that has nothing to do.
LEMMA NothingToDo ==
  ASSUME NEW w \in Worker, pc'[w] = "idle", op'[w] = "none"
  PROVE  Migrates(w)' /\ Writes(w)' /\ Cleans(w)'
BY DEF Migrates, Writes, Cleans

LEMMA LeaveEnds ==
  ASSUME MemoryStoreConstants, StoreShape, NEW w \in Worker, Leave(w, "idle")
  PROVE  /\ pc'[w] = "idle" /\ op'[w] = "none" /\ hold'[w] = None
         /\ Migrates(w)' /\ Writes(w)' /\ Cleans(w)'
<1>1. pc'[w] = "idle" /\ op'[w] = "none" /\ hold'[w] = None
  BY LeaveHoldings, PlacesHave DEF StoreShape
<1>2. QED
  BY <1>1, NothingToDo

\* Before an operation begins, a store that has been asked has migrated.
LEMMA IdleMigrated ==
  ASSUME StoreShape, Serial, Checks, NEW w \in world.workers, w \in Worker,
         pc[w] \notin Migrating, "write" \notin world.faults, checked
  PROVE  legacy = {}
<1>1. \A v \in Worker : pc[v] \notin Migrating
  BY OthersIdle DEF Migrating
<1>2. QED
  BY <1>1 DEF Checks

LEMMA StepChecks ==
  ASSUME MemoryStoreConstants, StoreShape, NEW w \in Worker, Step(w), Checks
  PROVE  Checks'
<1>1. StepOf(w) /\ w \in world.workers /\ Holdings
  BY StepIsOf DEF StoreShape
<1>2. Serial' <=> Serial
  BY <1>1 DEF StepOf, Serial
<1>3. CASE Save(w) \/ Delete(w) \/ Search(w) \/ Hygiene(w)
  <2>1. /\ pc[w] = "idle" /\ legacy' = legacy
        /\ \/ checked' = checked
           \/ checked' = TRUE /\ pc'[w] = "legacy"
           \/ checked' = TRUE /\ checked = TRUE
    BY <1>1, <1>3 DEF Save, Delete, Search, Hygiene, Begin, Goto, files, Checks, Holdings
  <2>2. checked' \in BOOLEAN
    BY <2>1 DEF Checks
  <2>3. CASE checked' = TRUE /\ pc'[w] = "legacy"
    BY <2>2, <2>3 DEF Checks, Migrating
  <2>4. CASE checked' = checked
    <3>1. Serial /\ "write" \notin world.faults /\ checked => legacy = {}
      BY <1>1, <2>1, IdleMigrated DEF Migrating
    <3>2. world' = world
      BY <1>1 DEF StepOf
    <3>3. QED
      BY <1>2, <2>1, <2>2, <2>4, <3>1, <3>2 DEF Checks
  <2>5. QED
    BY <2>1, <2>3, <2>4
<1>4. CASE ReadLegacy(w) \/ ReadExisting(w) \/ Merge(w) \/ Rename(w) \/ MergeFails(w)
  BY <1>1, <1>2, <1>4 DEF ReadLegacy, ReadExisting, Merge, Rename, MergeFails, Goto,
       Fault, files, Checks, Migrating, StepOf, Holdings
<1>5. ASSUME checked' = checked, legacy' = legacy, pc[w] \notin Migrating
      PROVE  Checks'
  BY <1>1, <1>2, <1>5, IdleMigrated DEF Checks, StepOf
<1>6. QED
  BY <1>3, <1>4, <1>5
     DEF Step, SaveRead, SaveWrite, DeleteRead, DeleteWrite, PurgeRead, Look, Found,
         HygieneRead, PlanPrune, PlanCompact, ReadQuarantine, Truncate, PurgeWrite,
         StoreWrite, QuarantineWrite, WriteFails, files, Migrating

LEMMA OtherSerial ==
  ASSUME MemoryStoreConstants, StoreShape, Serial, Checks, NEW w \in Worker,
         Step(w), Migrates(w), Writes(w),
         \/ Save(w) \/ Delete(w) \/ Search(w) \/ Hygiene(w) \/ SaveWrite(w)
         \/ DeleteRead(w) \/ DeleteWrite(w) \/ Found(w) \/ PlanPrune(w)
         \/ PlanCompact(w) \/ StoreWrite(w) \/ QuarantineWrite(w) \/ WriteFails(w)
  PROVE  Migrates(w)' /\ Writes(w)'
<1>1. Types /\ Holdings /\ Files /\ Local(w)
  BY DEF StoreShape
<1>2. CASE Leave(w, "idle")
  BY <1>2, LeaveEnds
<1>3. CASE Save(w)
  <2>1. PICK m \in world.memories \ (saved \cup Legacy \cup Summary) :
          Begin(w, "save", {m})
    BY <1>3 DEF Save
  <2>2. /\ op'[w] = "save" /\ arg'[w] = {m}
        /\ UNCHANGED <<world, saved, legacy>>
        /\ pc'[w] \in {"legacy", "read"}
        /\ pc'[w] = "read" => checked /\ pc[w] = "idle"
    BY <1>1, <2>1 DEF Begin, Goto, files, Holdings
  <2>3. pc'[w] = "read" /\ "write" \notin world.faults => legacy = {}
    BY <2>2, StepIsOf, IdleMigrated DEF Migrating
  <2>4. QED
    BY <2>1, <2>2, <2>3 DEF Migrates, Writes
<1>4. CASE Delete(w) \/ Search(w) \/ Hygiene(w)
  <2>1. /\ op'[w] \in {"delete", "search", "prune", "compact"}
        /\ pc'[w] \in {"legacy", "read"}
        /\ op'[w] \in {"delete", "search"} /\ pc'[w] = "read" =>
             checked /\ pc[w] = "idle"
        /\ UNCHANGED <<world, legacy>>
    BY <1>1, <1>4 DEF Delete, Search, Hygiene, Begin, Goto, files, Holdings
  <2>2. /\ op'[w] \in {"delete", "search"} /\ pc'[w] = "read"
        /\ "write" \notin world.faults
        => legacy = {}
    BY <2>1, StepIsOf, IdleMigrated DEF Migrating
  <2>3. QED
    BY <2>1, <2>2 DEF Migrates, Writes
<1>5. CASE DeleteRead(w) /\ ~ Leave(w, "idle")
  <2>1. /\ pc[w] = "read" /\ op[w] = "delete" /\ pc'[w] = "write" /\ op'[w] = "delete"
        /\ UNCHANGED <<world, durable, legacy, arg>>
        /\ hold'[w] = [m \in Memory |-> IF m \in arg[w] THEN 0 ELSE durable[m]]
    BY <1>1, <1>5 DEF DeleteRead, Goto, files, Holdings
  <2>2. In(hold'[w]) = In(durable) \ arg[w]
    BY <1>1, <2>1 DEF In, Types
  <2>3. QED
    BY <2>1, <2>2 DEF Migrates, Writes, In
<1>6. CASE (PlanPrune(w) \/ PlanCompact(w) \/ StoreWrite(w) \/ QuarantineWrite(w))
             /\ ~ Leave(w, "idle")
  <2>1. op'[w] \in {"prune", "compact"} /\ pc'[w] \in {"readQuar", "append", "write"}
    BY <1>1, <1>6 DEF PlanPrune, PlanCompact, StoreWrite, QuarantineWrite, Leave, Goto, local,
              Holdings, Local, Places
  <2>2. QED
    BY <2>1 DEF Migrates, Writes
<1>7. QED
  BY <1>2, <1>3, <1>4, <1>5, <1>6
     DEF SaveWrite, DeleteWrite, Found, WriteFails

\* What a worker that is alone knows of the files stays true.
LEMMA StepSerial ==
  ASSUME MemoryStoreConstants, StoreShape, Serial, Checks, NEW w \in Worker, Step(w),
         \A v \in Worker : Migrates(v) /\ Writes(v)
  PROVE  \A v \in Worker : Migrates(v)' /\ Writes(v)'
<1>1. Migrates(w)' /\ Writes(w)'
  BY MovesSerial, SaveReadSerial, OtherSerial DEF Step
<1>2. QED
  BY <1>1, OnlyOne
-----------------------------------------------------------------------------
(* What was deleted stays deleted. *)

\* What the plan of a hygiene command is: it takes gone out and puts new in.
LEMMA PlanMade ==
  ASSUME MemoryStoreConstants, StoreShape, NEW w \in Worker, PlanPrune(w) \/ PlanCompact(w),
         ~ Leave(w, "idle")
  PROVE  /\ pc[w] = "readTemp" /\ pc'[w] = "readQuar" /\ op'[w] = op[w]
         /\ UNCHANGED <<world, now, born, saved, deleted, durable, temp, quar, legacy>>
         /\ All(w) \in [Memory -> Nat] /\ In(All(w)) \subseteq saved
         /\ \A m \in Memory : All(w)[m] = 0 <=>
              hold[w][m] = 0 /\ ~ (m \in temp /\ ~ Expired(m))
         /\ \E gone \in SUBSET In(All(w)), new \in SUBSET (Summary \ saved) :
              /\ op[w] = "prune" => new = {}
              /\ arg'[w] = new /\ out'[w] = gone
              /\ hold'[w] = [m \in Memory |-> IF m \in gone THEN 0
                                              ELSE IF m \in new THEN 1 ELSE All(w)[m]]
<1> DEFINE bag == All(w)
<1>1. /\ Types /\ Holdings /\ Files /\ Local(w)
      /\ pc[w] = "readTemp" /\ op[w] \in {"prune", "compact"}
      /\ UNCHANGED <<world, now, born, saved, deleted, durable, temp, quar, legacy>>
  BY DEF StoreShape, PlanPrune, PlanCompact, files
<1>2. pc'[w] = "readQuar" /\ op'[w] = op[w]
  BY <1>1 DEF PlanPrune, PlanCompact, Goto, Holdings
<1>3. /\ bag \in [Memory -> Nat] /\ In(bag) \subseteq saved
      /\ \A m \in Memory : bag[m] = 0 <=>
           hold[w][m] = 0 /\ ~ (m \in temp /\ ~ Expired(m))
  BY <1>1, AllSaved DEF Local
<1>4. \E gone \in SUBSET In(bag), new \in SUBSET (Summary \ saved) :
        /\ op[w] = "prune" => new = {}
        /\ arg'[w] = new /\ out'[w] = gone
        /\ hold'[w] = [m \in Memory |-> IF m \in gone THEN 0
                                        ELSE IF m \in new THEN 1 ELSE bag[m]]
  <2>1. CASE PlanPrune(w)
    <3> DEFINE gone == {m \in In(bag) : Candidate(m, bag)}
    <3>1. /\ out'[w] = gone /\ arg'[w] = {}
          /\ hold'[w] = [m \in Memory |-> IF m \in gone THEN 0 ELSE bag[m]]
      BY <1>1, <2>1 DEF PlanPrune, Holdings, Local
    <3>2. hold'[w] = [m \in Memory |-> IF m \in gone THEN 0
                                       ELSE IF m \in {} THEN 1 ELSE bag[m]]
      BY <3>1
    <3>3. gone \in SUBSET In(bag) /\ {} \in SUBSET (Summary \ saved)
      OBVIOUS
    <3> HIDE DEF gone, bag
    <3>4. QED
      BY <3>1, <3>2, <3>3
  <2>2. CASE PlanCompact(w)
    <3>1. PICK G \in {Groups(bag)} \cup {{k} : k \in Groups(bag)},
               new \in SUBSET ((Summary \cap world.memories) \ saved) :
             LET gone == UNION {GroupOf(k, bag) : k \in G}
             IN /\ out' = [out EXCEPT ![w] = gone]
                /\ arg' = [arg EXCEPT ![w] = new]
                /\ hold' = [hold EXCEPT ![w] =
                     [m \in Memory |-> IF m \in gone THEN 0
                                       ELSE IF m \in new THEN 1 ELSE bag[m]]]
      BY <2>2 DEF PlanCompact
    <3>2. \A k : GroupOf(k, bag) \subseteq In(bag)
      BY DEF GroupOf, Member, In
    <3>3. UNION {GroupOf(k, bag) : k \in G} \in SUBSET In(bag)
      BY <3>2
    <3>4. new \in SUBSET (Summary \ saved) /\ op[w] # "prune"
      BY <2>2 DEF PlanCompact
    <3>5. QED
      BY <1>1, <3>1, <3>3, <3>4 DEF Holdings
  <2>3. QED
    BY <2>1, <2>2
<1>5. QED
  BY <1>1, <1>2, <1>3, <1>4

\* The memories a step of w newly gives a list that will be written.
LEMMA ListsGrow ==
  ASSUME MemoryStoreConstants, StoreShape, NEW w \in Worker, Step(w), Migrates(w),
         Writes(w), legacy = {}
  PROVE  In(hold'[w]) \ Temporary
           \subseteq In(hold[w]) \cup In(durable) \cup (Memory \ saved)
<1>1. Types /\ Holdings /\ Files /\ Local(w)
  BY DEF StoreShape
<1>2. In(None) = {}
  BY DEF In, None
<1>3. In(hold'[w]) \subseteq Memory
  BY DEF In
<1>4. CASE Leave(w, "idle")
  BY <1>2, <1>4, LeaveEnds
<1>5. CASE hold'[w] = hold[w]
  BY <1>5
<1>6. CASE ReadExisting(w)
  BY <1>1, <1>6 DEF ReadExisting, Migrates
<1>7. CASE SaveRead(w) /\ hold'[w] # hold[w]
  <2>1. /\ hold'[w] = [m \in Memory |-> IF m \in arg[w] THEN 1 ELSE durable[m]]
        /\ arg[w] \cap saved = {}
    BY <1>1, <1>7 DEF SaveRead, Writes, Holdings
  <2>2. QED
    BY <1>1, <2>1 DEF In, Types
<1>8. CASE DeleteRead(w) /\ ~ Leave(w, "idle")
  <2>1. hold'[w] = [m \in Memory |-> IF m \in arg[w] THEN 0 ELSE durable[m]]
    BY <1>1, <1>8 DEF DeleteRead, Holdings
  <2>2. QED
    BY <1>1, <2>1 DEF In, Types
<1>9. CASE HygieneRead(w)
  BY <1>1, <1>9 DEF HygieneRead, Holdings
<1>10. CASE (PlanPrune(w) \/ PlanCompact(w)) /\ ~ Leave(w, "idle")
  <2>1. \A m \in Memory : All(w)[m] = 0 <=> hold[w][m] = 0 /\ ~ (m \in temp /\ ~ Expired(m))
    BY <1>10, PlanMade
  <2>2. PICK gone \in SUBSET In(All(w)), new \in SUBSET (Summary \ saved) :
          hold'[w] = [m \in Memory |-> IF m \in gone THEN 0
                                       ELSE IF m \in new THEN 1 ELSE All(w)[m]]
    BY <1>10, PlanMade
  <2>3. hold[w] \in [Memory -> Nat] /\ All(w) \in [Memory -> Nat]
    BY <1>1, <1>10, PlanMade DEF Holdings
  <2>4. ASSUME NEW m \in In(hold'[w]), m \notin Temporary, m \in saved
        PROVE  m \in In(hold[w])
    <3>1. m \in Memory /\ m \notin temp /\ All(w)[m] > 0
      BY <1>1, <2>2, <2>4 DEF In, Types
    <3>2. QED
      BY <2>1, <2>3, <3>1 DEF In
  <2>5. QED
    BY <1>3, <2>4
<1>11. QED
  <2>1. Save(w) \/ Delete(w) \/ Search(w) \/ Hygiene(w) \/ ReadLegacy(w) \/ Merge(w)
        \/ Rename(w) \/ MergeFails(w) \/ PurgeRead(w) \/ Look(w) \/ ReadQuarantine(w)
        \/ Truncate(w) \/ PurgeWrite(w) => hold' = hold
    BY DEF Save, Delete, Search, Hygiene, Begin, ReadLegacy, Merge, Rename, MergeFails,
           PurgeRead, Look, ReadQuarantine, Truncate, PurgeWrite, local
  <2>2. SaveWrite(w) \/ DeleteWrite(w) \/ Found(w) \/ WriteFails(w) => Leave(w, "idle")
    BY DEF SaveWrite, DeleteWrite, Found, WriteFails
  <2>3. StoreWrite(w) \/ QuarantineWrite(w) => Leave(w, "idle") \/ hold' = hold
    BY DEF StoreWrite, QuarantineWrite, Leave, local
  <2>4. QED
    BY <1>4, <1>5, <1>6, <1>7, <1>8, <1>9, <1>10, <2>1, <2>2, <2>3 DEF Step

\* What a step does to the files that deletions are about.
LEMMA FilesChange ==
  ASSUME MemoryStoreConstants, StoreShape, NEW w \in Worker, Step(w)
  PROVE  /\ durable' \in {durable, hold[w], None} /\ legacy' \in {legacy, {}}
         /\ deleted' = deleted \/ DeleteWrite(w)
<1>1. CASE Save(w) \/ Delete(w) \/ Search(w) \/ Hygiene(w) \/ ReadLegacy(w)
           \/ ReadExisting(w) \/ Merge(w) \/ Rename(w) \/ MergeFails(w) \/ SaveRead(w)
           \/ SaveWrite(w)
  BY <1>1 DEF Save, Delete, Search, Hygiene, Begin, ReadLegacy, ReadExisting, Merge,
              Rename, MergeFails, SaveRead, SaveWrite, files
<1>2. CASE DeleteRead(w) \/ DeleteWrite(w) \/ PurgeRead(w) \/ Look(w) \/ Found(w)
           \/ HygieneRead(w) \/ PlanPrune(w) \/ PlanCompact(w) \/ ReadQuarantine(w)
           \/ Truncate(w) \/ PurgeWrite(w) \/ StoreWrite(w) \/ QuarantineWrite(w)
           \/ WriteFails(w)
  BY <1>2 DEF DeleteRead, DeleteWrite, PurgeRead, Look, Found, HygieneRead, PlanPrune,
              PlanCompact, ReadQuarantine, Truncate, PurgeWrite, StoreWrite,
              QuarantineWrite, WriteFails, files
<1>3. QED
  BY <1>1, <1>2 DEF Step

LEMMA StepStaysDeleted ==
  ASSUME MemoryStoreConstants, StoreShape, Serial, NEW w \in Worker, Step(w), Migrates(w),
         Writes(w), StaysDeleted
  PROVE  StaysDeleted'
<1>1. Types /\ Holdings /\ Files /\ Local(w) /\ StepOf(w)
  BY StepIsOf DEF StoreShape
<1> SUFFICES ASSUME "write" \notin world.faults
             PROVE  /\ deleted' # {} => legacy' = {}
                    /\ In(durable') \cap (deleted' \ Temporary) = {}
                    /\ \A v \in Worker : In(hold'[v]) \cap (deleted' \ Temporary) = {}
  BY <1>1 DEF StaysDeleted, StepOf, In
<1>2. /\ deleted # {} => legacy = {}
      /\ In(durable) \cap (deleted \ Temporary) = {}
      /\ In(hold[w]) \cap (deleted \ Temporary) = {}
      /\ deleted \subseteq saved
  BY <1>1 DEF StaysDeleted, Types
<1>3. \A v \in Worker \ {w} : hold'[v] = None
  BY OnlyOne
<1>4. In(None) = {}
  BY DEF In, None
<1>5. durable' \in {durable, hold[w], None} /\ legacy' \in {legacy, {}}
  BY FilesChange
<1>6. CASE DeleteWrite(w)
  <2>1. /\ pc[w] = "write" /\ op[w] = "delete" /\ durable' = hold[w]
        /\ deleted' = deleted \cup arg[w] /\ Leave(w, "idle")
    BY <1>6 DEF DeleteWrite
  <2>2. legacy = {} /\ In(hold[w]) \cap arg[w] = {}
    BY <2>1 DEF Migrates, Writes
  <2>3. hold'[w] = None
    BY <2>1, LeaveEnds
  <2>4. QED
    BY <1>2, <1>3, <1>4, <1>5, <2>1, <2>2, <2>3
<1>7. CASE deleted' = deleted /\ deleted = {}
  BY <1>7
<1>8. CASE deleted' = deleted /\ deleted # {}
  <2>1. In(hold'[w]) \cap (deleted \ Temporary) = {}
    BY <1>2, <1>8, ListsGrow
  <2>2. In(durable') \cap (deleted \ Temporary) = {}
    BY <1>2, <1>4, <1>5
  <2>3. QED
    BY <1>2, <1>3, <1>4, <1>5, <1>8, <2>1, <2>2
<1>9. QED
  BY <1>6, <1>7, <1>8, FilesChange
-----------------------------------------------------------------------------
(* Nothing that was saved is lost. *)

\* What w has in its hands, of what is in no file.
Hands(w) ==
  (IF pc[w] = "fill" THEN IF op[w] = "search" THEN small[w] ELSE In(hold[w]) ELSE {})
    \cup (IF pc[w] \in {"append", "fill", "refill"} THEN out[w] ELSE {})

LEMMA StoredIs ==
  Stored = In(durable) \cup temp \cup quar \cup legacy
             \cup UNION {Hands(w) : w \in Worker}
<1> DEFINE Filling == {v \in Worker : pc[v] = "fill"}
           Clearing == {v \in Worker : pc[v] \in {"append", "fill", "refill"}}
           Written == UNION {IF op[w] = "search" THEN small[w] ELSE In(hold[w]) : w \in Filling}
           Cleared == UNION {out[w] : w \in Clearing}
           Have == UNION {Hands(w) : w \in Worker}
<1>1. ASSUME NEW m
      PROVE  m \in Written <=> \E w \in Filling :
               m \in (IF op[w] = "search" THEN small[w] ELSE In(hold[w]))
  OBVIOUS
<1>2. ASSUME NEW m
      PROVE  m \in Cleared <=> \E w \in Clearing : m \in out[w]
  OBVIOUS
<1>3. ASSUME NEW m
      PROVE  m \in Have <=> \E w \in Worker : m \in Hands(w)
  OBVIOUS
<1>4. ASSUME NEW m, NEW w \in Worker
      PROVE  m \in Hands(w) <=>
               \/ w \in Filling /\ m \in (IF op[w] = "search" THEN small[w] ELSE In(hold[w]))
               \/ w \in Clearing /\ m \in out[w]
  BY DEF Hands
<1>5. Filling \subseteq Worker /\ Clearing \subseteq Worker
  OBVIOUS
<1>6. Stored = In(durable) \cup temp \cup quar \cup legacy \cup Written \cup Cleared
  BY DEF Stored
<1> HIDE DEF Filling, Clearing, Written, Cleared, Have
<1>7. Have = Written \cup Cleared
  BY <1>1, <1>2, <1>3, <1>4, <1>5
<1>8. Stored = In(durable) \cup temp \cup quar \cup legacy \cup Have
  BY <1>6, <1>7
<1>9. QED
  BY <1>8 DEF Have

LEMMA StoredHas ==
  ASSUME NEW w \in Worker
  PROVE  /\ In(durable') \cup temp' \cup quar' \cup legacy' \subseteq Stored'
         /\ pc'[w] = "fill" => IF op'[w] = "search" THEN small'[w] \subseteq Stored'
                               ELSE In(hold'[w]) \subseteq Stored'
         /\ pc'[w] \in {"append", "fill", "refill"} => out'[w] \subseteq Stored'
<1> DEFINE Filling == {v \in Worker : pc[v] = "fill"}
           Clearing == {v \in Worker : pc[v] \in {"append", "fill", "refill"}}
           Written == UNION {IF op[v] = "search" THEN small[v] ELSE In(hold[v]) : v \in Filling}
           Cleared == UNION {out[v] : v \in Clearing}
<1>1. Stored' = (In(durable) \cup temp \cup quar \cup legacy \cup Written \cup Cleared)'
  BY DEF Stored
<1>2. pc'[w] = "fill" => IF op'[w] = "search" THEN small'[w] \subseteq Written'
                         ELSE In(hold'[w]) \subseteq Written'
  BY DEF In
<1>3. pc'[w] \in {"append", "fill", "refill"} => out'[w] \subseteq Cleared'
  OBVIOUS
<1>4. In(durable)' = In(durable')
  BY DEF In
<1> HIDE DEF Written, Cleared
<1>5. QED
  BY <1>1, <1>2, <1>3, <1>4

LEMMA StoredOfOne ==
  ASSUME StoreShape, Serial, NEW w \in Worker, w \in world.workers
  PROVE  Stored = In(durable) \cup temp \cup quar \cup legacy \cup Hands(w)
<1>1. \A v \in Worker \ {w} : Hands(v) = {}
  BY OthersIdle DEF Hands
<1>2. QED
  BY <1>1, StoredIs

LEMMA GoneStays ==
  ASSUME MemoryStoreConstants, StoreShape, NEW m \in saved, Gone(m),
         saved \subseteq saved', saved' \subseteq Memory, now \in Nat, now' \in Nat, now <= now',
         \A n \in saved \cap Temporary : born'[n] = born[n]
  PROVE  Gone(m)'
<1>1. /\ m \in Temporary /\ born'[m] = born[m] /\ born[m] \in Nat /\ Ttl \in Nat
      /\ MaxTemp \in Nat /\ IsFiniteSet(Memory)
  BY WorldTypes DEF StoreShape, Types, Gone
<1>2. CASE now >= born[m] + Ttl
  BY <1>1, <1>2 DEF Gone
<1>3. CASE Displaced(m)
  <2> DEFINE A == {n \in (saved \cap Temporary) \ {m} : born[n] >= born[m]}
             B == {n \in (saved' \cap Temporary) \ {m} : born'[n] >= born'[m]}
  <2>1. A \subseteq B
    BY <1>1
  <2>2. IsFiniteSet(B)
    BY <1>1, FS_Subset
  <2>3. IsFiniteSet(A) /\ Cardinality(A) \in Nat /\ Cardinality(B) \in Nat
    BY <2>1, <2>2, FS_Subset, FS_CardinalityType
  <2>4. Cardinality(A) <= Cardinality(B)
    BY <2>1, <2>2, FS_Subset
  <2>5. Cardinality(A) >= MaxTemp
    BY <1>3 DEF Displaced
  <2>6. Displaced(m)'
    <3>1. Cardinality(B) >= MaxTemp
      BY <1>1, <2>3, <2>4, <2>5
    <3>2. QED
      BY <3>1 DEF Displaced
  <2>7. QED
    BY <1>1, <2>6 DEF Gone
<1>4. QED
  BY <1>2, <1>3 DEF Gone

LEMMA StepCleans ==
  ASSUME MemoryStoreConstants, StoreShape, NEW w \in Worker, Step(w), Cleans(w)
  PROVE  Cleans(w)'
<1>1. Types /\ Holdings /\ Files /\ Local(w)
  BY DEF StoreShape
<1>2. CASE Leave(w, "idle")
  BY <1>2, LeaveEnds
<1>3. CASE op'[w] \in {"save", "delete", "search"} /\ pc'[w] # "readTemp"
  BY <1>3 DEF Cleans
<1>4. CASE Save(w) \/ Delete(w) \/ Search(w) \/ Hygiene(w)
  <2>1. pc'[w] \in {"legacy", "read"}
    BY <1>1, <1>4 DEF Save, Delete, Search, Hygiene, Begin, Goto, Holdings
  <2>2. QED
    BY <2>1 DEF Cleans
<1>5. CASE ReadLegacy(w) \/ ReadExisting(w) \/ Merge(w) \/ Rename(w) \/ MergeFails(w)
           \/ SaveRead(w) \/ PurgeRead(w) \/ Look(w) \/ PurgeWrite(w)
           \/ (DeleteRead(w) /\ ~ Leave(w, "idle"))
  <2>1. op'[w] = op[w] /\ op[w] \in {"save", "delete", "search"} /\ pc'[w] # "readTemp"
    BY <1>1, <1>5 DEF ReadLegacy, ReadExisting, Merge, Rename, MergeFails, SaveRead,
              PurgeRead, Look, PurgeWrite, DeleteRead, Goto, Holdings, Local, Places, local
  <2>2. QED
    BY <1>3, <2>1
<1>6. CASE HygieneRead(w)
  BY <1>1, <1>6 DEF HygieneRead, Goto, Holdings, Cleans, files
<1>7. CASE (PlanPrune(w) \/ PlanCompact(w)) /\ ~ Leave(w, "idle")
  <2>1. /\ pc[w] = "readTemp" /\ pc'[w] = "readQuar" /\ op'[w] = op[w]
        /\ UNCHANGED <<saved, durable, temp, quar>>
        /\ All(w) \in [Memory -> Nat] /\ In(All(w)) \subseteq saved
        /\ \A m \in Memory : All(w)[m] = 0 <=>
             hold[w][m] = 0 /\ ~ (m \in temp /\ ~ Expired(m))
    BY <1>7, PlanMade
  <2>2. PICK gone \in SUBSET In(All(w)), new \in SUBSET (Summary \ saved) :
          /\ op[w] = "prune" => new = {}
          /\ arg'[w] = new /\ out'[w] = gone
          /\ hold'[w] = [m \in Memory |-> IF m \in gone THEN 0
                                          ELSE IF m \in new THEN 1 ELSE All(w)[m]]
    BY <1>7, PlanMade
  <2>3. hold[w] = durable /\ hold[w] \in [Memory -> Nat]
    BY <1>1, <2>1 DEF Cleans, Holdings
  <2>4. In(durable) \subseteq In(All(w)) /\ In(All(w)) \subseteq In(durable) \cup temp
    BY <2>1, <2>3 DEF In
  <2>5. In(All(w)) \subseteq In(hold'[w]) \cup gone
    BY <2>1, <2>2 DEF In
  <2>6. new \subseteq In(hold'[w])
    BY <1>1, <2>1, <2>2, WorldTypes DEF In
  <2>7. QED
    BY <2>1, <2>2, <2>4, <2>5, <2>6 DEF Cleans, In
<1>8. CASE ReadQuarantine(w)
  <2>1. /\ pc[w] = "readQuar" /\ out'[w] = out[w] \cup quar /\ op' = op
        /\ pc'[w] = (IF op[w] = "prune" THEN "append" ELSE "write")
        /\ UNCHANGED <<saved, durable, temp, quar, hold, arg>>
    BY <1>1, <1>8 DEF ReadQuarantine, Goto, Holdings, files
  <2>2. QED
    BY <2>1 DEF Cleans, In
<1>9. CASE Truncate(w)
  <2>1. /\ UNCHANGED <<saved, op, arg, hold, out>>
        /\ pc'[w] = (IF pc[w] = "write" THEN "fill" ELSE "refill")
        /\ durable' = (IF pc[w] = "write" /\ op[w] # "search" THEN None ELSE durable)
        /\ quar' = (IF pc[w] = "append" THEN {} ELSE quar)
        /\ \/ pc[w] = "write" /\ op[w] \in {"search", "prune", "compact"}
           \/ pc[w] = "append"
    BY <1>1, <1>9 DEF Truncate, Goto, Holdings, local
  <2>2. In(None) = {}
    BY DEF In, None
  <2>3. QED
    BY <2>1, <2>2 DEF Cleans, In
<1>10. CASE StoreWrite(w) /\ ~ Leave(w, "idle")
  <2>1. /\ UNCHANGED <<op, arg, hold, out, quar>> /\ op[w] # "prune"
        /\ pc[w] = "fill" /\ pc'[w] = "append"
    BY <1>1, <1>10 DEF StoreWrite, Leave, Goto, Holdings, local
  <2>2. QED
    BY <2>1 DEF Cleans
<1>11. CASE QuarantineWrite(w) /\ ~ Leave(w, "idle")
  <2>1. /\ UNCHANGED <<op, arg, hold, out, durable>> /\ op[w] = "prune"
        /\ pc[w] = "refill" /\ pc'[w] = "write" /\ quar' = out[w]
    BY <1>1, <1>11 DEF QuarantineWrite, Leave, Goto, Holdings, local
  <2>2. QED
    BY <2>1 DEF Cleans, In
<1>12. QED
  BY <1>2, <1>4, <1>5, <1>6, <1>7, <1>8, <1>9, <1>10, <1>11
     DEF Step, SaveWrite, DeleteWrite, Found, WriteFails

\* Every memory in a file or in w's hands is, after a step of w, in one of them
\* again or has expired or been displaced, unless it was deleted.
LEMMA StillThere ==
  ASSUME MemoryStoreConstants, StoreShape, Careful, NEW w \in Worker, Step(w),
         Migrates(w), Writes(w), Cleans(w), NEW m \in saved \ deleted',
         m \in In(durable) \cup temp \cup quar \cup legacy \cup Hands(w), ~ Gone(m)
  PROVE  \/ m \in In(durable') \cup temp' \cup quar' \cup legacy'
         \/ /\ pc'[w] = "fill"
            /\ m \in (IF op'[w] = "search" THEN small'[w] ELSE In(hold'[w]))
         \/ pc'[w] \in {"append", "fill", "refill"} /\ m \in out'[w]
         \/ Gone(m)'
<1>1. Types /\ Holdings /\ Files /\ Local(w)
  BY DEF StoreShape
<1>2. CASE UNCHANGED files /\ Hands(w) = {}
  BY <1>2 DEF files, In
<1>3. CASE Save(w) \/ Delete(w) \/ Search(w) \/ Hygiene(w) \/ ReadLegacy(w)
           \/ ReadExisting(w) \/ MergeFails(w) \/ SaveRead(w) \/ DeleteRead(w)
           \/ PurgeRead(w) \/ Look(w) \/ Found(w) \/ HygieneRead(w) \/ PlanPrune(w)
           \/ PlanCompact(w) \/ ReadQuarantine(w)
  <2>1. UNCHANGED files /\ pc[w] \notin {"append", "fill", "refill"}
    BY <1>3 DEF Save, Delete, Search, Hygiene, Begin, ReadLegacy, ReadExisting, MergeFails,
           SaveRead, DeleteRead, PurgeRead, Look, Found, HygieneRead, PlanPrune, PlanCompact,
           ReadQuarantine
  <2>2. QED
    BY <1>2, <2>1 DEF Hands
<1>4. CASE Merge(w)
  BY <1>4 DEF Merge, Migrates, Hands, In
<1>5. CASE Rename(w)
  BY <1>5 DEF Rename, Migrates, Hands, In
<1>6. CASE SaveWrite(w)
  <2>1. /\ pc[w] = "write" /\ op[w] = "save" /\ saved' = saved \cup arg[w]
        /\ UNCHANGED <<now, born, quar, legacy>> /\ Hands(w) = {}
        /\ small[w] \subseteq saved \cup arg[w]
    BY <1>1, <1>6 DEF SaveWrite, Hands, Local
  <2>2. CASE ~ (arg[w] \subseteq Temporary)
    BY <1>6, <2>1, <2>2 DEF SaveWrite, Writes, In
  <2>3. CASE arg[w] \subseteq Temporary
    <3>1. temp' = small[w] /\ durable' = durable
      BY <1>6, <2>3 DEF SaveWrite
    <3>2. CASE m \in temp \ small[w]
      <4>1. MaxTemp <= Cardinality(small[w]) /\ \A k \in small[w] : born[m] <= born[k]
        BY <2>1, <2>3, <3>2 DEF Writes
      <4> DEFINE B == {n \in (saved' \cap Temporary) \ {m} : born'[n] >= born'[m]}
      <4>2. small[w] \subseteq B
        <5>1. small[w] \subseteq Temporary
          BY <1>1, <2>1, <2>3 DEF Local
        <5>2. \A k \in small[w] : k \in Memory /\ born[k] \in Nat /\ born[m] \in Nat
          BY <1>1, WorldTypes, <5>1, <3>2 DEF Types
        <5>3. QED
          BY <2>1, <3>2, <4>1, <5>1, <5>2
      <4>3. IsFiniteSet(B)
        <5>1. B \subseteq Memory /\ IsFiniteSet(Memory)
          BY <1>1, WorldTypes
        <5>2. QED
          BY <5>1, FS_Subset
      <4>4. Cardinality(small[w]) <= Cardinality(B) /\ Cardinality(small[w]) \in Nat
            /\ Cardinality(B) \in Nat
        BY <4>2, <4>3, FS_Subset, FS_CardinalityType
      <4>5. Cardinality(B) >= MaxTemp
        BY <1>1, <4>1, <4>4, WorldTypes
      <4>6. Displaced(m)'
        BY <4>5 DEF Displaced
      <4>7. QED
        BY <1>1, <3>2, <4>6 DEF Gone, Types
    <3>3. CASE m \notin temp \ small[w]
      BY <2>1, <3>1, <3>3 DEF In
    <3>4. QED
      BY <3>2, <3>3
  <2>4. QED
    BY <2>2, <2>3
<1>7. CASE DeleteWrite(w)
  BY <1>7 DEF DeleteWrite, Writes, Hands, In
<1>8. CASE Truncate(w)
  <2>1. /\ UNCHANGED <<op, small, hold, out, legacy, deleted, saved, now, born>>
        /\ pc'[w] = (IF pc[w] = "write" THEN "fill" ELSE "refill")
        /\ durable' = (IF pc[w] = "write" /\ op[w] # "search" THEN None ELSE durable)
        /\ temp' = (IF op[w] = "search" THEN {} ELSE temp)
        /\ quar' = (IF pc[w] = "append" THEN {} ELSE quar)
        /\ \/ pc[w] = "write" /\ op[w] \in {"search", "prune", "compact"}
           \/ pc[w] = "append" /\ op[w] \in {"prune", "compact"}
    BY <1>1, <1>8 DEF Truncate, Goto, Holdings, local, Local, Places
  <2>2. CASE op[w] = "search"
    <3>1. \A n \in temp \ small[w] : Expired(n)
      BY <2>1, <2>2 DEF Writes
    <3>2. m \notin temp \ small[w]
      <4>1. SUFFICES ASSUME m \in temp \ small[w]
                     PROVE  Gone(m)
        OBVIOUS
      <4>2. m \in Temporary /\ born[m] + Ttl <= now
        BY <3>1, <4>1 DEF Expired
      <4>3. born[m] \in Nat /\ Ttl \in Nat /\ now \in Nat
        BY <1>1, <4>2, WorldTypes DEF Types
      <4>4. QED
        BY <4>2, <4>3 DEF Gone
    <3>3. QED
      BY <2>1, <2>2, <3>2 DEF Hands, In
  <2>3. CASE op[w] # "search" /\ pc[w] = "write"
    BY <2>1, <2>3 DEF Cleans, Hands, In
  <2>4. CASE pc[w] = "append"
    BY <2>1, <2>4 DEF Cleans, Hands, In
  <2>5. QED
    BY <2>1, <2>2, <2>3, <2>4
<1>9. CASE PurgeWrite(w)
  <2>1. /\ pc[w] = "fill" /\ op[w] = "search" /\ temp' = small[w] /\ temp = {}
        /\ UNCHANGED <<durable, quar, legacy>> /\ out[w] = {}
    BY <1>1, <1>9 DEF PurgeWrite, Local, Writes
  <2>2. QED
    BY <2>1 DEF Hands, In
<1>10. CASE StoreWrite(w)
  <2>1. /\ pc[w] = "fill" /\ op[w] \in {"prune", "compact"} /\ durable' = hold[w]
        /\ UNCHANGED <<temp, quar, legacy>>
        /\ In(durable) \subseteq In(hold[w]) \cup out[w]
    BY <1>1, <1>10 DEF StoreWrite, Local, Places, Cleans
  <2>2. CASE op[w] = "prune"
    BY <2>1, <2>2 DEF Hands, Cleans, In
  <2>3. CASE op[w] = "compact"
    <3>1. pc'[w] = "append" /\ out' = out
      BY <1>1, <1>10, <2>3 DEF StoreWrite, Leave, Goto, Holdings, local
    <3>2. QED
      BY <2>1, <2>3, <3>1 DEF Hands, In
  <2>4. QED
    BY <2>1, <2>2, <2>3
<1>11. CASE QuarantineWrite(w)
  <2>1. /\ pc[w] = "refill" /\ op[w] \in {"prune", "compact"} /\ quar' = out[w]
        /\ UNCHANGED <<durable, temp, legacy>> /\ quar \subseteq out[w]
    BY <1>1, <1>11 DEF QuarantineWrite, Local, Places, Cleans
  <2>2. QED
    BY <2>1 DEF Hands, In
<1>12. CASE WriteFails(w)
  <2>1. /\ pc[w] \in {"write", "append"} /\ UNCHANGED files
        /\ "write" \in world.faults /\ w \in world.workers /\ op[w] \in world.ops
    BY <1>1, <1>12 DEF WriteFails, Fault, Local
  <2>2. CASE pc[w] = "write"
    BY <1>2, <2>1, <2>2 DEF Hands
  <2>3. CASE pc[w] = "append"
    <3>1. op[w] = "prune"
      BY <1>1, <2>1, <2>3 DEF Careful, Local, Places
    <3>2. out[w] \subseteq In(durable) \cup temp \cup quar
      BY <2>3, <3>1 DEF Cleans
    <3>3. QED
      BY <2>1, <2>3, <3>2 DEF Hands, files, In
  <2>4. QED
    BY <2>1, <2>2, <2>3
<1>13. QED
  BY <1>3, <1>4, <1>5, <1>6, <1>7, <1>8, <1>9, <1>10, <1>11, <1>12 DEF Step

\* Memories that a step adds are in a file.
LEMMA SavedIsThere ==
  ASSUME MemoryStoreConstants, StoreShape, NEW w \in Worker, Step(w), Writes(w), Cleans(w)
  PROVE  saved' \ saved \subseteq In(durable') \cup temp'
<1>1. Local(w)
  BY DEF StoreShape
<1>2. CASE SaveWrite(w)
  BY <1>1, <1>2 DEF SaveWrite, Writes, In
<1>3. CASE StoreWrite(w)
  <2>1. /\ pc[w] = "fill" /\ op[w] \in {"prune", "compact"}
        /\ saved' = saved \cup arg[w] /\ durable' = hold[w]
    BY <1>1, <1>3 DEF StoreWrite, Local, Places
  <2>2. QED
    BY <1>1, <2>1 DEF Cleans, Local
<1>4. CASE saved' = saved
  BY <1>4
<1>5. QED
  BY <1>2, <1>3, <1>4 DEF Step, Save, Delete, Search, Hygiene, Begin, ReadLegacy, ReadExisting,
     Merge, Rename, MergeFails, SaveRead, DeleteRead, DeleteWrite, PurgeRead, Look,
     Found, HygieneRead, PlanPrune, PlanCompact, ReadQuarantine, Truncate, PurgeWrite,
     QuarantineWrite, WriteFails

\* createdAt of a temporary memory that was saved never changes.
LEMMA BornStays ==
  ASSUME MemoryStoreConstants, StoreShape, NEW w \in Worker, Step(w), Writes(w)
  PROVE  \A n \in saved \cap Temporary : born'[n] = born[n]
<1>1. Local(w) /\ Types
  BY DEF StoreShape
<1>2. CASE SaveRead(w)
  BY <1>1, <1>2, WorldTypes DEF SaveRead, Writes
<1>3. CASE StoreWrite(w)
  <2>1. /\ pc[w] = "fill" /\ op[w] \in {"prune", "compact"}
        /\ born' = [m \in Memory |-> IF m \in arg[w] THEN now ELSE born[m]]
    BY <1>1, <1>3 DEF StoreWrite, Local, Places
  <2>2. arg[w] \cap Temporary = {}
    BY <1>1, <2>1, WorldTypes DEF Local
  <2>3. QED
    BY <1>1, <2>1, <2>2, WorldTypes
<1>4. CASE born' = born
  BY <1>4
<1>5. QED
  BY <1>2, <1>3, <1>4 DEF Step, Save, Delete, Search, Hygiene, Begin, ReadLegacy, ReadExisting,
     Merge, Rename, MergeFails, SaveWrite, DeleteRead, DeleteWrite, PurgeRead, Look,
     Found, HygieneRead, PlanPrune, PlanCompact, ReadQuarantine, Truncate, PurgeWrite,
     QuarantineWrite, WriteFails

LEMMA StepHeld ==
  ASSUME MemoryStoreConstants, StoreShape, StoreShape', Careful, NEW w \in Worker, Step(w),
         Migrates(w), Writes(w), Cleans(w), Held
  PROVE  Held'
<1> SUFFICES ASSUME NEW m \in saved' \ deleted'
             PROVE  m \in Stored' \/ Gone(m)'
  BY DEF Held
<1>1. StepOf(w) /\ w \in world.workers /\ deleted \subseteq deleted'
  <2>1. DeleteWrite(w) => deleted \subseteq deleted'
    BY DEF DeleteWrite
  <2>2. QED
    BY <2>1, StepIsOf, FilesChange
<1>2. CASE m \notin saved
  BY <1>2, SavedIsThere, StoredHas
<1>3. CASE m \in saved /\ Gone(m)
  <2>1. /\ saved \subseteq saved' /\ saved' \subseteq Memory /\ now' = now /\ now \in Nat
    BY <1>1, WorldTypes DEF StepOf, StoreShape, Types
  <2>2. QED
    BY <1>3, <2>1, BornStays, GoneStays
<1>4. CASE m \in saved /\ ~ Gone(m)
  <2>1. m \in saved \ deleted
    BY <1>1, <1>4
  <2>2. m \in In(durable) \cup temp \cup quar \cup legacy \cup Hands(w)
    BY <1>1, <1>4, <2>1, StoredOfOne DEF Held, Careful
  <2>3. \/ m \in In(durable') \cup temp' \cup quar' \cup legacy'
        \/ /\ pc'[w] = "fill"
           /\ m \in (IF op'[w] = "search" THEN small'[w] ELSE In(hold'[w]))
        \/ pc'[w] \in {"append", "fill", "refill"} /\ m \in out'[w]
        \/ Gone(m)'
    BY <1>4, <2>1, <2>2, StillThere
  <2>4. QED
    BY <2>3, StoredHas
<1>5. QED
  BY <1>2, <1>3, <1>4
-----------------------------------------------------------------------------
(* Without hygiene commands temporary memories stay in their own file. *)

\* The operation of w finds no temporary memory that had expired when it began.
Fresh(w) ==
  world.scoped /\ op[w] = "search" =>
    /\ pc[w] \in {"write", "fill", "found"} =>
         \A m \in small[w] \cap Temporary : born[m] + Ttl > since[w]
    /\ pc[w] = "look" => \A m \in temp : born[m] + Ttl > since[w]

LEMMA StepFresh ==
  ASSUME MemoryStoreConstants, StoreShape, ~ Hygienic, NEW w \in Worker, Step(w),
         In(durable) \cap Temporary = {}, Fresh(w)
  PROVE  Fresh(w)'
<1>1. Types /\ Holdings /\ Files /\ Local(w) /\ StepOf(w)
  BY StepIsOf DEF StoreShape
<1>2. pc[w] # "idle" => op[w] \in {"save", "delete", "search"}
  BY <1>1 DEF Local, Hygienic, Places, Holdings
<1>3. CASE op'[w] # "search" \/ pc'[w] \notin {"write", "fill", "found", "look"}
  BY <1>3 DEF Fresh
<1>4. CASE PurgeRead(w)
  <2>1. /\ small'[w] = {m \in temp : ~ Expired(m)}
        /\ pc'[w] = (IF world.scoped /\ small'[w] # temp THEN "write" ELSE "look")
        /\ UNCHANGED <<world, now, temp, born, since>> /\ since[w] <= now
    BY <1>1, <1>4 DEF PurgeRead, Goto, Holdings, files, Local
  <2>2. now \in Nat /\ since[w] \in Nat /\ Ttl \in Nat
    BY <1>1, WorldTypes DEF Types, Holdings
  <2>3. ASSUME NEW m \in small'[w]
        PROVE  born[m] + Ttl > since[w]
    <3>1. m \in Temporary /\ born[m] \in Nat
      BY <1>1, <2>1, WorldTypes DEF Types
    <3>2. ~ (born[m] + Ttl <= now)
      BY <2>1, <3>1 DEF Expired
    <3>3. QED
      BY <2>1, <2>2, <3>1, <3>2
  <2>4. QED
    BY <2>1, <2>3 DEF Fresh
<1>5. CASE Look(w)
  <2>1. /\ pc[w] = "look" /\ pc'[w] = "found" /\ small'[w] = In(durable) \cup temp
        /\ UNCHANGED <<world, op, born, since>>
    BY <1>1, <1>5 DEF Look, Goto, Holdings
  <2>2. QED
    BY <2>1 DEF Fresh
<1>6. CASE Truncate(w)
  <2>1. /\ UNCHANGED <<world, op, born, since, small>>
        /\ pc[w] \in {"write", "append"}
        /\ pc'[w] = (IF pc[w] = "write" THEN "fill" ELSE "refill")
    BY <1>1, <1>6 DEF Truncate, Goto, Holdings, local
  <2>2. QED
    BY <2>1 DEF Fresh
<1>7. CASE PurgeWrite(w)
  <2>1. /\ UNCHANGED <<world, op, born, since, small>> /\ temp' = small[w]
        /\ pc[w] = "fill" /\ op[w] = "search" /\ pc'[w] = "look"
        /\ small[w] \subseteq Temporary
    BY <1>1, <1>7 DEF PurgeWrite, Goto, Holdings, local, Local
  <2>2. QED
    BY <2>1 DEF Fresh
<1>8. CASE Save(w) \/ Delete(w) \/ Search(w) \/ Hygiene(w) \/ ReadLegacy(w)
           \/ ReadExisting(w) \/ Merge(w) \/ Rename(w) \/ MergeFails(w)
  <2>1. pc'[w] \in {"legacy", "read", "existing", "merge", "rename"}
    BY <1>1, <1>8 DEF Save, Delete, Search, Hygiene, Begin, ReadLegacy, ReadExisting, Merge,
              Rename, MergeFails, Goto, Holdings
  <2>2. QED
    BY <1>3, <2>1
<1>9. CASE Leave(w, "idle")
  BY <1>3, <1>9, LeaveEnds
<1>10. CASE SaveRead(w) \/ (DeleteRead(w) /\ ~ Leave(w, "idle"))
  BY <1>1, <1>3, <1>10 DEF SaveRead, DeleteRead
<1>11. QED
  <2>1. ~ (HygieneRead(w) \/ PlanPrune(w) \/ PlanCompact(w) \/ StoreWrite(w))
    BY <1>1, <1>2 DEF HygieneRead, PlanPrune, PlanCompact, StoreWrite, Local, Places
  <2>2. ~ (ReadQuarantine(w) \/ QuarantineWrite(w))
    BY <1>1, <1>2 DEF ReadQuarantine, QuarantineWrite, Local, Places
  <2>3. QED
    BY <1>4, <1>5, <1>6, <1>7, <1>8, <1>9, <1>10, <2>1, <2>2
       DEF Step, SaveWrite, DeleteWrite, Found, WriteFails

LEMMA StepApart ==
  ASSUME MemoryStoreConstants, StoreShape, Serial, ~ Hygienic, NEW w \in Worker, Step(w),
         Migrates(w), Writes(w), Apart
  PROVE  Apart'
<1>1. Types /\ Holdings /\ Files /\ Local(w) /\ StepOf(w)
  BY StepIsOf DEF StoreShape
<1>2. \A v \in Worker \ {w} : hold'[v] = None /\ op'[v] = "none"
  BY OnlyOne
<1>3. In(None) = {}
  BY DEF In, None
<1>4. In(durable') \cap Temporary = {}
  BY <1>3, FilesChange DEF Apart
<1>5. Fresh(w)'
  BY StepFresh DEF Apart, Fresh
<1>6. In(hold'[w]) \cap Temporary = {}
  <2>1. CASE Leave(w, "idle")
    BY <1>3, <2>1, LeaveEnds
  <2>2. CASE ReadExisting(w)
    <3>1. /\ small[w] \cap Temporary = {}
          /\ hold'[w] = [m \in Memory |-> IF m \in small[w] /\ durable[m] = 0 THEN 1
                                         ELSE durable[m]]
      BY <1>1, <2>2, WorldTypes DEF ReadExisting, Migrates, Holdings, Types
    <3>2. QED
      BY <1>1, <3>1 DEF In, Apart, Types
  <2>3. CASE SaveRead(w) /\ hold' # hold
    <3>1. PICK a \in Memory : arg[w] = {a}
      BY <1>1, <2>3 DEF SaveRead, Local
    <3>2. /\ hold'[w] = [m \in Memory |-> IF m \in arg[w] THEN 1 ELSE durable[m]]
          /\ a \notin Temporary
      BY <1>1, <2>3, <3>1 DEF SaveRead, Holdings
    <3>3. QED
      BY <1>1, <3>1, <3>2 DEF In, Apart, Types
  <2>4. CASE DeleteRead(w) /\ ~ Leave(w, "idle")
    <3>1. hold'[w] = [m \in Memory |-> IF m \in arg[w] THEN 0 ELSE durable[m]]
      BY <1>1, <2>4 DEF DeleteRead, Holdings
    <3>2. QED
      BY <1>1, <3>1 DEF In, Apart, Types
  <2>5. CASE hold' = hold
    BY <2>5 DEF Apart
  <2>6. QED
    <3>1. ~ (HygieneRead(w) \/ PlanPrune(w) \/ PlanCompact(w))
      BY <1>1 DEF HygieneRead, PlanPrune, PlanCompact, Local, Hygienic
    <3>2. SaveWrite(w) \/ DeleteWrite(w) \/ Found(w) \/ WriteFails(w) => Leave(w, "idle")
      BY DEF SaveWrite, DeleteWrite, Found, WriteFails
    <3>3. StoreWrite(w) \/ QuarantineWrite(w) => Leave(w, "idle") \/ hold' = hold
      BY DEF StoreWrite, QuarantineWrite, Leave, local
    <3>4. Save(w) \/ Delete(w) \/ Search(w) \/ Hygiene(w) \/ ReadLegacy(w) \/ Merge(w)
          \/ Rename(w) \/ MergeFails(w) \/ PurgeRead(w) \/ Look(w) \/ ReadQuarantine(w)
          \/ Truncate(w) \/ PurgeWrite(w) => hold' = hold
      BY DEF Save, Delete, Search, Hygiene, Begin, ReadLegacy, Merge, Rename, MergeFails,
             PurgeRead, Look, ReadQuarantine, Truncate, PurgeWrite, local
    <3>5. QED
      BY <2>1, <2>2, <2>3, <2>4, <2>5, <3>1, <3>2, <3>3, <3>4 DEF Step
<1>7. QED
  BY <1>2, <1>3, <1>4, <1>5, <1>6 DEF Apart, Fresh, In
-----------------------------------------------------------------------------
(* The clock, crashes and the whole invariant *)

LEMMA StoreStep ==
  ASSUME MemoryStoreConstants, StoreInv, NEW w \in Worker, Step(w)
  PROVE  StoreInv'
<1>1. StoreShape /\ StoreShape'
  BY MovesShape, SaveReadShape, SaveWriteShape, DeleteShape, PurgeReadShape,
     PlanPruneShape, PlanCompactShape, TruncateShape, StoreWriteShape,
     QuarantineWriteShape, EndShape, CallShape DEF Step, StoreInv
<1>2. StepOf(w) /\ world' = world
  BY <1>1, StepIsOf DEF StepOf
<1>3. (Serial' <=> Serial) /\ (Careful' <=> Careful) /\ (Hygienic' <=> Hygienic)
  BY <1>2 DEF Serial, Careful, Hygienic
<1>4. SerialInv'
  BY <1>1, <1>3, StepSerial, StepStaysDeleted DEF StoreInv, SerialInv
<1>5. CleanInv'
  <2>1. SUFFICES ASSUME Careful
                 PROVE  Held' /\ \A v \in Worker : Cleans(v)'
    BY <1>3 DEF CleanInv
  <2>2. Serial /\ Held /\ \A v \in Worker : Cleans(v) /\ Migrates(v) /\ Writes(v)
    BY <2>1 DEF StoreInv, CleanInv, SerialInv, Careful
  <2>3. Held'
    BY <1>1, <2>1, <2>2, StepHeld
  <2>4. Cleans(w)'
    BY <1>1, <2>2, StepCleans
  <2>5. QED
    BY <1>1, <2>2, <2>3, <2>4, OnlyOne
<1>6. ApartInv'
  BY <1>1, <1>3, StepApart DEF StoreInv, ApartInv, SerialInv
<1>7. Checks'
  BY StepChecks DEF StoreInv
<1>8. QED
  BY <1>1, <1>4, <1>5, <1>6, <1>7 DEF StoreInv

LEMMA StoreTick ==
  ASSUME MemoryStoreConstants, StoreInv, Tick
  PROVE  StoreInv'
<1>1. /\ StoreShape /\ StoreShape' /\ now' = now + 1 /\ now \in Nat
      /\ UNCHANGED <<world, born, saved, deleted, durable, temp, quar, legacy, pc, op,
                     arg, since, hold, small, out, faults>>
  BY TickShape, WorldTypes DEF StoreInv, Tick, files, local, StoreShape, Types
<1>2. ASSUME NEW m, Expired(m)
      PROVE  Expired(m)'
  BY <1>1, <1>2, WorldTypes DEF Expired, StoreShape, Types
<1>3. SerialInv'
  <2>1. ASSUME NEW w \in Worker, Writes(w)
        PROVE  Writes(w)'
    BY <1>1, <1>2, <2>1 DEF Writes, In
  <2>2. QED
    BY <1>1, <2>1 DEF StoreInv, SerialInv, Serial, StaysDeleted, Migrates, In
<1>4. CleanInv'
  <2>1. ASSUME NEW m \in saved, Gone(m)
        PROVE  Gone(m)'
    BY <1>1, <2>1, GoneStays DEF StoreShape, Types
  <2>2. Stored' = Stored
    BY <1>1 DEF Stored, In
  <2>3. QED
    BY <1>1, <2>1, <2>2 DEF StoreInv, CleanInv, Careful, Serial, Held, Cleans, In
<1>5. ApartInv'
  BY <1>1 DEF StoreInv, ApartInv, Apart, Serial, Hygienic, In
<1>6. Checks'
  BY DEF StoreInv, Checks, Tick, files, Serial
<1>7. QED
  BY <1>1, <1>3, <1>4, <1>5, <1>6 DEF StoreInv

LEMMA StoreCrash ==
  ASSUME MemoryStoreConstants, StoreInv, Crash
  PROVE  StoreInv'
<1>1. /\ StoreShape /\ StoreShape'
      /\ UNCHANGED <<world, now, born, saved, deleted, durable, temp, quar, legacy>>
      /\ \A w \in Worker : pc'[w] = "idle" /\ op'[w] = "none" /\ hold'[w] = None
      /\ "crash" \in world.faults
      /\ "torn" \in world.faults \/ \A w \in Busy : pc[w] \notin {"fill", "refill"}
  BY CrashShape DEF StoreInv, Crash, Fault, files
<1>2. \A w \in Worker : Migrates(w)' /\ Writes(w)' /\ Cleans(w)'
  BY <1>1, NothingToDo
<1>3. In(None) = {}
  BY DEF In, None
<1>4. SerialInv'
  BY <1>1, <1>2, <1>3 DEF StoreInv, SerialInv, Serial, StaysDeleted, In
<1>5. CleanInv'
  <2>1. SUFFICES ASSUME Careful
                 PROVE  Held'
    BY <1>1, <1>2 DEF CleanInv, Careful, Serial
  <2>2. Serial /\ Held /\ \A w \in Worker : Cleans(w)
    BY <2>1 DEF StoreInv, CleanInv, Careful
  <2>3. ASSUME NEW w \in Worker
        PROVE  Hands(w) \subseteq In(durable) \cup temp \cup quar
    <3>1. Local(w) /\ pc[w] \notin {"fill", "refill"}
      BY <1>1, <2>2 DEF StoreShape, Serial, Busy
    <3>2. CASE pc[w] # "append"
      BY <3>1, <3>2 DEF Hands
    <3>3. CASE pc[w] = "append"
      <4>1. op[w] = "prune"
        BY <1>1, <2>1, <3>1, <3>3 DEF Local, Places, Careful
      <4>2. QED
        BY <2>2, <3>3, <4>1 DEF Cleans, Hands
    <3>4. QED
      BY <3>2, <3>3
  <2>4. Stored \subseteq In(durable) \cup temp \cup quar \cup legacy
    BY <2>3, StoredIs
  <2>5. In(durable) \cup temp \cup quar \cup legacy \subseteq Stored'
    BY <1>1 DEF Stored, In
  <2>6. ASSUME NEW m \in saved, Gone(m)
        PROVE  Gone(m)'
    BY <1>1, <2>6 DEF Gone, Displaced
  <2>7. QED
    BY <1>1, <2>2, <2>4, <2>5, <2>6 DEF Held
<1>6. ApartInv'
  BY <1>1, <1>3 DEF StoreInv, ApartInv, Apart, Serial, Hygienic, In
<1>7. Checks'
  BY DEF Crash, Checks
<1>8. QED
  BY <1>1, <1>4, <1>5, <1>6, <1>7 DEF StoreInv

LEMMA StoreInit ==
  ASSUME MemoryStoreConstants, Init
  PROVE  StoreInv
<1>1. StoreShape
  BY InitShape
<1>2. In(None) = {}
  BY DEF In, None
<1>3. /\ deleted = {} /\ saved = legacy /\ durable = None
      /\ \A w \in Worker : pc[w] = "idle" /\ op[w] = "none" /\ hold[w] = None
  BY DEF Init
<1>4. \A w \in Worker : Migrates(w) /\ Writes(w) /\ Cleans(w)
  BY <1>3 DEF Migrates, Writes, Cleans
<1>5. Held
  BY <1>3 DEF Held, Stored
<1>6. StaysDeleted /\ Apart
  BY <1>2, <1>3 DEF StaysDeleted, Apart
<1>7. Checks
  BY DEF Init, Checks
<1>8. QED
  BY <1>1, <1>4, <1>5, <1>6, <1>7 DEF StoreInv, SerialInv, CleanInv, ApartInv

LEMMA StoreStutters ==
  ASSUME StoreInv, UNCHANGED vars
  PROVE  StoreInv'
<1>1. UNCHANGED <<world, now, born, saved, deleted, durable, temp, quar, legacy, pc, op,
                  arg, since, hold, small, out, faults>>
  BY DEF vars, files, local
<1>2. StoreShape'
  BY <1>1 DEF StoreInv, StoreShape, Types, Holdings, Files, Local, In
<1>3. SerialInv'
  BY <1>1 DEF StoreInv, SerialInv, Serial, StaysDeleted, Migrates, Writes, In, Expired
<1>4. CleanInv'
  BY <1>1 DEF StoreInv, CleanInv, Careful, Serial, Held, Stored, Gone, Displaced, Cleans, In
<1>5. ApartInv'
  BY <1>1 DEF StoreInv, ApartInv, Apart, Serial, Hygienic, In
<1>6. Checks'
  BY DEF StoreInv, Checks, vars, files, Serial
<1>7. QED
  BY <1>2, <1>3, <1>4, <1>5, <1>6 DEF StoreInv

LEMMA StoreAlways ==
  ASSUME MemoryStoreConstants
  PROVE  Spec => []StoreInv
<1>1. Init => StoreInv
  BY StoreInit
<1>2. StoreInv /\ [Next]_vars => StoreInv'
  <2>1. SUFFICES ASSUME StoreInv, [Next]_vars
                 PROVE  StoreInv'
    OBVIOUS
  <2>2. QED
    BY <2>1, StoreStep, StoreTick, StoreCrash, StoreStutters DEF Next
<1>3. QED
  BY <1>1, <1>2, PTL DEF Spec

\* The types of the variables; whatever operations overlap and fail, the
\* temporary file never holds more than maxTempEntries.
THEOREM StoreTypesHold ==
  ASSUME MemoryStoreConstants
  PROVE  Spec => []TypeOK
<1>1. StoreInv => TypeOK
  BY PlacesHave DEF StoreInv, StoreShape, Checks, Types, Holdings, TypeOK
<1>2. QED
  BY <1>1, StoreAlways, PTL

\* With one operation at a time and no write that leaves a file empty, a saved
\* memory stays in the store, in quarantine or in the hands of who writes it
\* until it is deleted, expires or is displaced, through crashes, failing writes
\* and prune; through compact only if nothing fails.
THEOREM NothingEverLost ==
  ASSUME MemoryStoreConstants
  PROVE  Spec => []NothingLost
<1>1. StoreInv => NothingLost
  BY DEF StoreInv, CleanInv, Careful, Held, Gone, NothingLost
<1>2. QED
  BY <1>1, StoreAlways, PTL

\* With one operation at a time, a migration that is cut short and begun again
\* leaves every memory once and, where no write fails, brings no deleted one
\* back.
THEOREM AlwaysMigratesOnce ==
  ASSUME MemoryStoreConstants
  PROVE  Spec => []MigratesOnce
<1>1. StoreInv => MigratesOnce
  BY DEF StoreInv, StoreShape, Files, SerialInv, StaysDeleted, MigratesOnce
<1>2. QED
  BY <1>1, StoreAlways, PTL

\* With one operation at a time, a search that names a project finds no
\* temporary memory that had expired when it began, as long as no hygiene
\* command moves temporary memories.
THEOREM SearchAlwaysFresh ==
  ASSUME MemoryStoreConstants
  PROVE  Spec => []SearchFresh
<1>1. StoreInv => SearchFresh
  <2>1. SUFFICES ASSUME StoreInv, Serial, world.scoped, ~ Hygienic,
                        NEW w \in Worker, pc[w] = "found", NEW m \in small[w] \cap Temporary
                 PROVE  born[m] + Ttl > since[w]
    BY DEF SearchFresh
  <2>2. op[w] = "search"
    BY <2>1 DEF StoreInv, StoreShape, Local, Places
  <2>3. QED
    BY <2>1, <2>2 DEF StoreInv, ApartInv, Apart
<1>2. QED
  BY <1>1, StoreAlways, PTL
=============================================================================
