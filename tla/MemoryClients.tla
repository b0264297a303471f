--------------------------- MODULE MemoryClients ---------------------------
(***************************************************************************)
(* The memory clients that getMemoryClient puts together from three        *)
(* stores: a parallel client asks the local store and the Obsidian vault   *)
(* at once, a resilient client asks its fallback when its primary has      *)
(* failed, and the Engram battery is the last fallback.  A client is a     *)
(* sequence of tiers, each a set of stores that are asked together.        *)
(*                                                                         *)
(* The local store reads its file, changes what it read and writes all of  *)
(* it back, atomically and without a lock; the vault answers from a cache  *)
(* of its notes that the client has to itself.  MemoryStore has the other  *)
(* steps of the local store, its temporary memories, and its crashes.      *)
(***************************************************************************)
EXTENDS Naturals, Sequences, FiniteSets

CONSTANTS
  Client,       \* commands, with a client each, that use the stores
  Title,        \* titles of memories
  MaxSaves,     \* bound on the number of saves
  MaxCalls,     \* bound on the number of calls
  MaxPolls      \* bound on the refreshes of one cache under way

ASSUME ClientConstants ==
  MaxSaves \in Nat /\ MaxCalls \in Nat /\ MaxPolls \in Nat

Store  == {"local", "obsidian", "engram"}
Memory == 1 .. MaxSaves
Parallel == {"local", "obsidian"}

\* The modes of getMemoryClient: local-only, parallel and resilient, the
\* last two with the battery or without it, and resilient with the local
\* fallback switched off.
Chains ==
  {<<{"local"}>>, <<Parallel>>, <<Parallel, {"engram"}>>,
   <<{"local"}, {"engram"}>>, <<{"local"}, {"local"}>>,
   <<{"local"}, {"local"}, {"engram"}>>}

VARIABLES
  chain,        \* the tiers of the configured client; never changes
  calls,        \* how many calls there were
  titles,       \* titles of the saves so far, as they stand in file names
  stamp,        \* the time at which each was saved
  held,         \* the memories each store holds
  op,           \* the call each client makes, or made last
  filled,       \* whether a client has read the vault: "no", "yes", "polls"
  cache,        \* the notes it read, as it has changed them
  poll,         \* what the refreshes of the cache under way have read
  home,         \* the store whose id a save was answered with, or "none"
  whole,        \* saves answered without `degraded'
  deleted,      \* ids whose deletion was asked for
  raced,        \* memories saved while another call was about to write the
                \* local file (only observed)
  seen          \* notes a client cannot miss (only observed)

vault == <<filled, cache, poll, seen>>
vars  == <<chain, calls, titles, stamp, held, op, vault, home, whole, deleted,
           raced>>

Saves == DOMAIN titles

\* The vault names a note by its title; the local store adds the time, which
\* two saves may share, and the battery numbers what it is given.
Id(s, m) ==
  <<s, CASE s = "obsidian" -> <<titles[m]>>
         [] s = "local" -> <<titles[m], stamp[m]>>
         [] OTHER -> <<m>> >>

\* A call, and after it what a search that was not degraded found: the memory
\* to save or the id to delete, the tier being asked, the stores it waits for
\* and those that answered, what a search found, what it was due to find, and
\* the local file as it was read by a call about to write it.
NoOp == [kind |-> "none", stage |-> "idle", memory |-> 0, target |-> <<>>,
         tier |-> 1, waiting |-> {}, ok |-> {}, found |-> {}, due |-> {},
         read |-> FALSE, copy |-> {}]

Init ==
  /\ chain \in Chains
  /\ calls = 0 /\ titles = <<>> /\ stamp = <<>>
  /\ held = [s \in Store |-> {}]
  /\ op = [c \in Client |-> NoOp]
  /\ filled = [c \in Client |-> "no"]
  /\ cache = [c \in Client |-> {}]
  /\ poll = [c \in Client |-> {}]
  /\ seen = [c \in Client |-> {}]
  /\ home = [m \in Memory |-> "none"]
  /\ whole = {} /\ deleted = {} /\ raced = {}
-----------------------------------------------------------------------------
(* Calls *)

Begin(c, call) ==
  /\ op[c].stage # "busy" /\ calls < MaxCalls
  /\ calls' = calls + 1
  /\ op' = [op EXCEPT ![c] =
       [call EXCEPT !.stage = "busy", !.waiting = chain[1]]]

\* A command ends, and another one begins, with a client of its own.
Command(c) ==
  /\ op[c].stage # "busy"
  /\ op' = [op EXCEPT ![c] = NoOp]
  /\ filled' = [filled EXCEPT ![c] = "no"]
  /\ cache' = [cache EXCEPT ![c] = {}]
  /\ poll' = [poll EXCEPT ![c] = {}]
  /\ seen' = [seen EXCEPT ![c] = {}]
  /\ UNCHANGED <<chain, calls, titles, stamp, held, home, whole, deleted,
                 raced>>

\* Saves of one title at one time have one id.
Save(c, title) ==
  /\ Len(titles) < MaxSaves
  /\ Begin(c, [NoOp EXCEPT !.kind = "save", !.memory = Len(titles) + 1])
  /\ titles' = Append(titles, title)
  /\ \E time \in {Len(titles) + 1} \cup {stamp[m] : m \in Saves} :
       stamp' = Append(stamp, time)
  /\ UNCHANGED <<chain, held, vault, home, whole, deleted, raced>>

\* By an id that an answer gave.
Delete(c, id) ==
  /\ Begin(c, [NoOp EXCEPT !.kind = "delete", !.target = id])
  /\ deleted' = deleted \cup {id}
  /\ UNCHANGED <<chain, titles, stamp, held, vault, home, whole, raced>>

\* A search is due what its main tier has answered for; of the vault what the
\* client will read, or cannot have missed.
Search(c) ==
  /\ Begin(c, [NoOp EXCEPT !.kind = "search", !.due =
       {m \in Saves :
          /\ home[m] \in chain[1]
          /\ home[m] = "obsidian" /\ filled[c] # "no" => m \in seen[c]}])
  /\ UNCHANGED <<chain, titles, stamp, held, vault, home, whole, deleted,
                 raced>>
-----------------------------------------------------------------------------
(* The local store and the battery *)

Asked(c, s) == s \in op[c].waiting

Replies(c, s, found) ==
  op' = [op EXCEPT ![c].waiting = @ \ {s}, ![c].ok = @ \cup {s},
                   ![c].found = IF op[c].kind = "search" THEN @ \cup found
                                                         ELSE @]

\* save, and delete of an id that is there, read the file ...
ReadLocal(c) ==
  /\ Asked(c, "local") /\ ~ op[c].read
  /\ \/ op[c].kind = "save"
     \/ /\ op[c].kind = "delete"
        /\ \E m \in held["local"] : Id("local", m) = op[c].target
  /\ op' = [op EXCEPT ![c].read = TRUE, ![c].copy = held["local"]]
  /\ UNCHANGED <<chain, calls, titles, stamp, held, vault, home, whole, deleted,
                 raced>>

\* ... and write it; what others have written in between is lost.
WriteLocal(c) ==
  /\ op[c].read
  /\ held' = [held EXCEPT !["local"] =
       IF op[c].kind = "save" THEN op[c].copy \cup {op[c].memory}
       ELSE {m \in op[c].copy : Id("local", m) # op[c].target}]
  /\ raced' = IF op[c].kind = "save" /\ \E d \in Client \ {c} : op[d].read
              THEN raced \cup {op[c].memory} ELSE raced
  /\ op' = [op EXCEPT ![c].waiting = @ \ {"local"}, ![c].ok = @ \cup {"local"},
                      ![c].read = FALSE, ![c].copy = {}]
  /\ UNCHANGED <<chain, calls, titles, stamp, vault, home, whole, deleted>>

AnswersLocal(c) ==
  /\ Asked(c, "local") /\ ~ op[c].read
  /\ \/ op[c].kind = "search"
     \/ /\ op[c].kind = "delete"
        /\ \A m \in held["local"] : Id("local", m) # op[c].target
  /\ Replies(c, "local", held["local"])
  /\ UNCHANGED <<chain, calls, titles, stamp, held, vault, home, whole, deleted,
                 raced>>

\* Engram deletes nothing.
Filed(c) ==
  held' = IF op[c].kind = "save"
          THEN [held EXCEPT !["engram"] = @ \cup {op[c].memory}] ELSE held

AnswersEngram(c) ==
  /\ Asked(c, "engram")
  /\ Filed(c)
  /\ Replies(c, "engram", held["engram"])
  /\ UNCHANGED <<chain, calls, titles, stamp, vault, home, whole, deleted,
                 raced>>
-----------------------------------------------------------------------------
(* The vault *)

\* getProjectCache, and what it cannot miss.
Notes(c) == IF filled[c] = "no" THEN held["obsidian"] ELSE cache[c]
Found(c) == IF filled[c] = "no" THEN {m \in Saves : home[m] = "obsidian"}
                                ELSE seen[c]

\* The note of a title takes the place of the one before it.
Over(notes, m) == {n \in notes : titles[n] # titles[m]} \cup {m}

\* What the client has in its cache when a call ends, with the timer that
\* refreshes it or not.
Keeps(c, notes, new, timer) ==
  /\ cache' = [cache EXCEPT ![c] = notes]
  /\ seen' = [seen EXCEPT ![c] = Found(c) \cup new]
  /\ filled' = [filled EXCEPT ![c] = IF @ = "polls" THEN @ ELSE timer]

Noted(c) == held' = [held EXCEPT !["obsidian"] = Over(@, op[c].memory)]

\* sync: the note, then the cache; a refresh under way may undo the latter.
Sync(c) ==
  /\ op[c].kind = "save" /\ Noted(c)
  /\ Keeps(c, Over(Notes(c), op[c].memory),
           IF poll[c] = {} THEN {op[c].memory} ELSE {}, "polls")

\* delete: of a note that is in the cache, if it is in the vault as well.
Named(c, notes) == {m \in notes : Id("obsidian", m) = op[c].target}

Unlink(c) ==
  /\ op[c].kind = "delete" /\ Named(c, Notes(c)) # {}
  /\ Named(c, held["obsidian"]) # {}
  /\ held' = [held EXCEPT !["obsidian"] = @ \ Named(c, @)]
  /\ Keeps(c, Notes(c) \ Named(c, Notes(c)), {}, "yes")

\* A search, or a delete of a note that is not in the cache.
Look(c) ==
  /\ \/ op[c].kind = "search"
     \/ op[c].kind = "delete" /\ Named(c, Notes(c)) = {}
  /\ Keeps(c, Notes(c), {}, "yes") /\ UNCHANGED held

AnswersVault(c) ==
  /\ Asked(c, "obsidian")
  /\ Sync(c) \/ Unlink(c) \/ Look(c)
  /\ Replies(c, "obsidian", Notes(c))
  /\ UNCHANGED <<chain, calls, titles, stamp, poll, home, whole, deleted,
                 raced>>

\* The timer that sync starts: a refresh reads the notes, and at its end puts
\* what it read in the place of the cache.  One that fails does nothing.
PollReads(c) ==
  /\ filled[c] = "polls" /\ Cardinality(poll[c]) < MaxPolls
  /\ poll' = [poll EXCEPT ![c] = @ \cup {held["obsidian"]}]
  /\ UNCHANGED <<chain, calls, titles, stamp, held, op, filled, cache, seen,
                 home, whole, deleted, raced>>

PollEnds(c) ==
  /\ \E notes \in poll[c] :
       /\ cache' = [cache EXCEPT ![c] = notes]
       /\ poll' = [poll EXCEPT ![c] = @ \ {notes}]
  /\ UNCHANGED <<chain, calls, titles, stamp, held, op, filled, seen, home,
                 whole, deleted, raced>>
-----------------------------------------------------------------------------
(* Stores that reject *)

\* The local store has not written its file.
RejectsLocal(c) ==
  /\ Asked(c, "local")
  /\ op' = [op EXCEPT ![c].waiting = @ \ {"local"}, ![c].read = FALSE,
                      ![c].copy = {}]
  /\ UNCHANGED <<chain, calls, titles, stamp, held, vault, home, whole, deleted,
                 raced>>

\* Engram may time out after it saved.
RejectsEngram(c) ==
  /\ Asked(c, "engram")
  /\ Filed(c) \/ UNCHANGED held
  /\ op' = [op EXCEPT ![c].waiting = @ \ {"engram"}]
  /\ UNCHANGED <<chain, calls, titles, stamp, vault, home, whole, deleted,
                 raced>>

\* The vault may have written the note when its cache cannot be read or its
\* index written, or have removed it.
RejectsVault(c) ==
  /\ Asked(c, "obsidian")
  /\ \/ UNCHANGED <<held, filled, cache, seen>>
     \/ op[c].kind # "save" /\ UNCHANGED held /\ Keeps(c, Notes(c), {}, "yes")
     \/ op[c].kind = "save" /\ Noted(c) /\ UNCHANGED <<filled, cache, seen>>
     \/ /\ op[c].kind = "save" /\ Noted(c)
        /\ Keeps(c, Over(Notes(c), op[c].memory), {}, "yes")
     \/ Unlink(c)
  /\ op' = [op EXCEPT ![c].waiting = @ \ {"obsidian"}]
  /\ UNCHANGED <<chain, calls, titles, stamp, poll, home, whole, deleted,
                 raced>>
-----------------------------------------------------------------------------
(* Parallel and resilient clients, when all stores of a tier have settled *)

Settled(c) == op[c].stage = "busy" /\ op[c].waiting = {}

\* Mutant of TierFailed: one failure is a failure.
TierFailedByOne(c) == op[c].ok # chain[op[c].tier]

\* The parallel client's delete never rejects.
TierFailed(c) ==
  /\ op[c].ok = {}
  /\ ~ (op[c].kind = "delete" /\ chain[op[c].tier] = Parallel)

FallBack(c) ==
  /\ Settled(c) /\ TierFailed(c)
  /\ op[c].tier < Len(chain)
  /\ op' = [op EXCEPT ![c].tier = @ + 1,
                      ![c].waiting = chain[op[c].tier + 1],
                      ![c].ok = {}]
  /\ UNCHANGED <<chain, calls, titles, stamp, held, vault, home, whole, deleted,
                 raced>>

GiveUp(c) ==
  /\ Settled(c) /\ TierFailed(c)
  /\ op[c].tier = Len(chain)
  /\ op' = [op EXCEPT ![c] = NoOp]
  /\ UNCHANGED <<chain, calls, titles, stamp, held, vault, home, whole, deleted,
                 raced>>

\* Mutant of Degraded: only a fallback counts.
DegradedByFallback(c) == op[c].tier > 1

Degraded(c) == op[c].tier > 1 \/ op[c].ok # chain[op[c].tier]

\* Mutant of Home: the primary's id, whoever answered.
HomePrimary(c) ==
  IF "local" \in chain[op[c].tier] THEN "local" ELSE "engram"

\* The id of the primary, or else the secondary's.
Home(c) ==
  IF "local" \in op[c].ok THEN "local"
  ELSE IF "obsidian" \in op[c].ok THEN "obsidian" ELSE "engram"

Answer(c) ==
  /\ Settled(c) /\ ~ TierFailed(c)
  /\ op' = [op EXCEPT ![c] =
       IF @.kind # "search" \/ Degraded(c) THEN NoOp
       ELSE [NoOp EXCEPT !.kind = "search", !.stage = "done",
                         !.found = op[c].found, !.due = op[c].due]]
  /\ IF op[c].kind = "save"
     THEN /\ home' = [home EXCEPT ![op[c].memory] = Home(c)]
          /\ whole' = IF Degraded(c) THEN whole
                                     ELSE whole \cup {op[c].memory}
     ELSE UNCHANGED <<home, whole>>
  /\ UNCHANGED <<chain, calls, titles, stamp, held, vault, deleted, raced>>
-----------------------------------------------------------------------------
KnownIds == {Id(home[m], m) : m \in {n \in Saves : home[n] # "none"}}
              \cup UNION {{Id(s, m) : m \in held[s]} : s \in Parallel}

StoreStep(c) ==
  \/ ReadLocal(c) \/ WriteLocal(c) \/ AnswersLocal(c) \/ AnswersEngram(c)
  \/ AnswersVault(c) \/ PollReads(c) \/ PollEnds(c)
  \/ RejectsLocal(c) \/ RejectsEngram(c) \/ RejectsVault(c)

Next ==
  \E c \in Client :
    \/ Command(c)
    \/ \E t \in Title : Save(c, t)
    \/ \E id \in KnownIds : Delete(c, id)
    \/ Search(c)
    \/ StoreStep(c)
    \/ FallBack(c) \/ GiveUp(c) \/ Answer(c)

Spec == Init /\ [][Next]_vars
-----------------------------------------------------------------------------
(* Properties *)

\* Types; and the battery is a contingency: it never holds what the local
\* store took.
TypeOK ==
  /\ chain \in Chains
  /\ titles \in Seq(Title) /\ Len(titles) <= MaxSaves
  /\ stamp \in [Saves -> Saves]
  /\ held \in [Store -> SUBSET Saves]
  /\ \A c \in Client :
       /\ op[c].kind \in {"none", "save", "delete", "search"}
       /\ op[c].stage \in {"idle", "busy", "done"}
       /\ op[c].tier \in DOMAIN chain
       /\ op[c].waiting \cup op[c].ok \subseteq chain[op[c].tier]
       /\ op[c].kind = "save" => op[c].memory \in Saves
       /\ op[c].read => Asked(c, "local")
  /\ home \in [Memory -> Store \cup {"none"}]
  /\ whole \subseteq Saves /\ raced \subseteq Saves
  /\ filled \in [Client -> {"no", "yes", "polls"}]
  /\ cache \in [Client -> SUBSET Saves] /\ seen \in [Client -> SUBSET Saves]
  /\ \A c \in Client : poll[c] \subseteq SUBSET Saves
  /\ held["engram"] \cap held["local"] = {}

\* Another save of the same title may have taken the note of m; another call
\* that had read the local file before m was written may write it without m.
Shadowed(m) == \E n \in Saves \ {m} : titles[n] = titles[m]
Lost(s, m) ==
  \/ Id(s, m) \in deleted
  \/ s = "obsidian" /\ Shadowed(m)
  \/ s = "local" /\ m \in raced

\* The id a save is answered with is one under which the memory is kept,
\* and a save that is not called degraded is in every store of the main tier,
\* whichever stores failed and whatever other commands save and delete, as
\* long as no other call was about to write the local file.
SavesAreHeld ==
  /\ \A m \in Saves :
       home[m] # "none" /\ ~ Lost(home[m], m) => m \in held[home[m]]
  /\ \A m \in whole : \A s \in chain[1] : ~ Lost(s, m) => m \in held[s]

\* A search that is not called degraded finds, before it ranks and limits,
\* every memory that its main tier had answered for when it began, whether that
\* save was degraded or not: of the vault those that were answered for when the
\* client first read it, and its own.
RecallFinds ==
  \A c \in Client :
    op[c].kind = "search" /\ op[c].stage = "done" =>
      \A m \in op[c].due : ~ Lost(home[m], m) => m \in op[c].found

=============================================================================
