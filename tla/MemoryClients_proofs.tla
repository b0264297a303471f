------------------------ MODULE MemoryClients_proofs ------------------------
(***************************************************************************)
(* What the answers of memory clients promise, for any number of clients,  *)
(* titles, saves and calls.  A store loses a memory only to a deletion     *)
(* that was asked for, to a later note of the same title, or to a call     *)
(* that had read the local file before the memory was in it: everything    *)
(* else that is in the local file is in the copy of every call about to    *)
(* write it, and everything else that a client must have seen of the vault *)
(* is in its cache and in what the refreshes of the cache have read.       *)
(* Then, what the metrics store promises, for any number of processes and  *)
(* metrics and any threshold.                                              *)
(***************************************************************************)
EXTENDS MemoryClients, MetricsStore, TLAPS

Target == {<<>>} \cup (Store \X Seq(Title \cup Nat))

CallType ==
  [kind : {"none", "save", "delete", "search"},
   stage : {"idle", "busy", "done"}, memory : Nat, target : Target,
   tier : Nat, waiting : SUBSET Store, ok : SUBSET Store,
   found : SUBSET Nat, due : SUBSET Nat, read : BOOLEAN, copy : SUBSET Nat]

\* What a call waits for is in its tier; it saves a memory that exists, and
\* deletes an id whose deletion was asked for.
CallShape(c) ==
  /\ op[c].tier \in 1 .. Len(chain)
  /\ op[c].waiting \cup op[c].ok \subseteq chain[op[c].tier]
  /\ op[c].waiting # {} => op[c].stage = "busy"
  /\ op[c].kind = "save" => op[c].memory \in Saves
  /\ op[c].kind = "delete" => op[c].target \in deleted
  /\ op[c].read =>
       "local" \in op[c].waiting /\ op[c].kind \in {"save", "delete"}
  /\ op[c].copy \subseteq Saves

CacheShape(c) ==
  /\ filled[c] = "no" => seen[c] = {}
  /\ filled[c] # "polls" => poll[c] = {}

StoreShape ==
  /\ held \in [Store -> SUBSET Saves]
  /\ whole \subseteq Saves /\ raced \subseteq Saves
  /\ filled \in [Client -> {"no", "yes", "polls"}]
  /\ cache \in [Client -> SUBSET Saves]
  /\ seen \in [Client -> SUBSET Saves]
  /\ poll \in [Client -> SUBSET SUBSET Saves]

TitleShape ==
  /\ titles \in Seq(Title) /\ Len(titles) <= MaxSaves
  /\ stamp \in Seq(Nat) /\ Len(stamp) = Len(titles)
  /\ \A m \in Saves : stamp[m] \in Saves

Shape ==
  /\ chain \in Chains
  /\ TitleShape /\ StoreShape
  /\ home \in [Memory -> Store \cup {"none"}]
  /\ \A m \in Memory \ Saves : home[m] = "none"
  /\ op \in [Client -> CallType]
  /\ \A c \in Client : CallShape(c) /\ CacheShape(c)
-----------------------------------------------------------------------------
(* The calls *)

\* Every chain is a non-empty sequence of sets of stores; the battery is alone
\* in its tier, which is the last and not the first.
LEMMA ChainFacts ==
  ASSUME NEW x \in Chains
  PROVE  /\ x \in Seq(SUBSET Store) /\ Len(x) >= 1 /\ Len(x) \in Nat
         /\ "engram" \notin x[1]
         /\ \A i \in 1 .. Len(x) :
              /\ x[i] \subseteq Store
              /\ "engram" \in x[i] => i = Len(x) /\ x[i] = {"engram"}
<1>1. /\ {"local"} \in SUBSET Store /\ Parallel \in SUBSET Store
      /\ {"engram"} \in SUBSET Store
      /\ "engram" \notin {"local"} /\ "engram" \notin Parallel
  BY DEF Store, Parallel
<1> HIDE DEF Parallel
<1>2. CASE x = <<{"local"}>>
  BY <1>1, <1>2
<1>3. CASE x = <<Parallel>>
  BY <1>1, <1>3
<1>4. CASE x = <<Parallel, {"engram"}>>
  BY <1>1, <1>4
<1>5. CASE x = <<{"local"}, {"engram"}>>
  BY <1>1, <1>5
<1>6. CASE x = <<{"local"}, {"local"}>>
  BY <1>1, <1>6
<1>7. CASE x = <<{"local"}, {"local"}, {"engram"}>>
  BY <1>1, <1>7
<1>8. QED
  BY <1>2, <1>3, <1>4, <1>5, <1>6, <1>7 DEF Chains

\* The saves are numbered from 1 without a gap.
LEMMA SavesAreNumbers ==
  ASSUME Shape
  PROVE  Saves = 1 .. Len(titles) /\ Len(titles) \in Nat
         /\ Saves \subseteq Memory /\ Saves \subseteq Nat
BY ClientConstants DEF Shape, TitleShape, Saves, Memory

LEMMA IdFacts ==
  ASSUME Shape, NEW s \in Store, NEW m \in Saves
  PROVE  Id(s, m) \in Target
<1>1. titles[m] \in Title /\ stamp[m] \in Nat /\ m \in Nat
  BY SavesAreNumbers DEF Shape, TitleShape
<1>2. /\ <<titles[m]>> \in Seq(Title \cup Nat)
      /\ <<titles[m], stamp[m]>> \in Seq(Title \cup Nat)
      /\ <<m>> \in Seq(Title \cup Nat)
  BY <1>1
<1>3. QED
  BY <1>2 DEF Id, Target

\* A client without a call has a call's fields.
LEMMA NoOpFacts ==
  /\ NoOp \in CallType /\ NoOp.kind = "none" /\ NoOp.stage = "idle"
  /\ NoOp.tier = 1 /\ NoOp.waiting = {} /\ NoOp.ok = {} /\ NoOp.copy = {}
  /\ NoOp.read = FALSE /\ NoOp.due = {} /\ NoOp.found = {}
BY DEF NoOp, CallType, Target

\* The other clients' calls stay as they are.
OthersStay(c) == \A d \in Client \ {c} : op'[d] = op[d]

\* What a call becomes when it begins.
LEMMA BeginFacts ==
  ASSUME Shape, NEW c \in Client, NEW call \in CallType, call.tier = 1,
         call.ok = {}, call.read = FALSE, call.copy = {}, Begin(c, call)
  PROVE  /\ op' \in [Client -> CallType] /\ OthersStay(c)
         /\ op[c].stage # "busy" /\ op'[c].stage = "busy"
         /\ op'[c].kind = call.kind /\ op'[c].memory = call.memory
         /\ op'[c].target = call.target /\ op'[c].due = call.due
         /\ op'[c].tier = 1 /\ op'[c].waiting = chain[1] /\ op'[c].ok = {}
         /\ op'[c].read = FALSE /\ op'[c].copy = {}
<1>1. chain[1] \subseteq Store
  BY ChainFacts DEF Shape
<1>2. op \in [Client -> CallType]
  BY DEF Shape
<1> DEFINE new == [call EXCEPT !.stage = "busy", !.waiting = chain[1]]
<1>3. /\ new \in CallType /\ new.stage = "busy" /\ new.kind = call.kind
      /\ new.memory = call.memory /\ new.target = call.target
      /\ new.due = call.due /\ new.tier = 1 /\ new.waiting = chain[1]
      /\ new.ok = {} /\ new.read = FALSE /\ new.copy = {}
  BY <1>1 DEF CallType
<1>4. op[c].stage # "busy" /\ op' = [op EXCEPT ![c] = new]
  BY DEF Begin
<1> HIDE DEF new
<1>5. QED
  BY <1>2, <1>3, <1>4 DEF OthersStay

\* A call of a new kind asks all stores of the first tier.
Begins(c, kind) ==
  /\ op' \in [Client -> CallType] /\ OthersStay(c)
  /\ op[c].stage # "busy" /\ op'[c].stage = "busy" /\ op'[c].kind = kind
  /\ op'[c].tier = 1 /\ op'[c].waiting = chain[1] /\ op'[c].ok = {}
  /\ op'[c].read = FALSE /\ op'[c].copy = {}

LEMMA SaveFacts ==
  ASSUME Shape, NEW c \in Client, NEW t \in Title, Save(c, t)
  PROVE  Begins(c, "save") /\ op'[c].memory = Len(titles) + 1
<1> DEFINE call == [NoOp EXCEPT !.kind = "save", !.memory = Len(titles) + 1]
<1>1. Len(titles) + 1 \in Nat
  BY SavesAreNumbers
<1>2. /\ call \in CallType /\ call.kind = "save"
      /\ call.memory = Len(titles) + 1 /\ call.ok = {} /\ call.tier = 1
      /\ call.read = FALSE /\ call.copy = {}
  BY <1>1, NoOpFacts DEF CallType
<1>3. Begin(c, call)
  BY DEF Save
<1> HIDE DEF call
<1>4. QED
  BY <1>2, <1>3, BeginFacts DEF Begins

LEMMA DeleteFacts ==
  ASSUME Shape, NEW c \in Client, NEW id \in KnownIds, Delete(c, id)
  PROVE  Begins(c, "delete") /\ op'[c].target = id
<1> DEFINE call == [NoOp EXCEPT !.kind = "delete", !.target = id]
<1>1. id \in Target
  <2>1. \A m \in Saves : home[m] # "none" => home[m] \in Store
    BY SavesAreNumbers DEF Shape
  <2>2. \A s \in Parallel : s \in Store /\ held[s] \subseteq Saves
    BY DEF Parallel, Store, Shape, StoreShape
  <2>3. QED
    BY <2>1, <2>2, IdFacts DEF KnownIds
<1>2. /\ call \in CallType /\ call.kind = "delete" /\ call.target = id
      /\ call.ok = {} /\ call.tier = 1 /\ call.read = FALSE /\ call.copy = {}
  BY <1>1, NoOpFacts DEF CallType
<1>3. Begin(c, call)
  BY DEF Delete
<1> HIDE DEF call
<1>4. QED
  BY <1>2, <1>3, BeginFacts DEF Begins

Due(c) == {m \in Saves :
             /\ home[m] \in chain[1]
             /\ home[m] = "obsidian" /\ filled[c] # "no" => m \in seen[c]}

LEMMA SearchFacts ==
  ASSUME Shape, NEW c \in Client, Search(c)
  PROVE  Begins(c, "search") /\ op'[c].due = Due(c)
<1> DEFINE call == [NoOp EXCEPT !.kind = "search", !.due = Due(c)]
<1>1. Due(c) \subseteq Nat
  BY SavesAreNumbers DEF Due
<1>2. Begin(c, call)
  BY DEF Search, Due
<1>3. /\ call \in CallType /\ call.kind = "search" /\ call.due = Due(c)
      /\ call.ok = {} /\ call.tier = 1 /\ call.read = FALSE /\ call.copy = {}
  BY <1>1, NoOpFacts DEF CallType
<1> HIDE DEF call
<1>4. QED
  BY <1>2, <1>3, BeginFacts DEF Begins

\* What a call is about, which no store's answer changes.
Same(x, y) ==
  /\ x.kind = y.kind /\ x.stage = y.stage /\ x.memory = y.memory
  /\ x.target = y.target /\ x.tier = y.tier /\ x.due = y.due

LEMMA ReadFacts ==
  ASSUME Shape, NEW c \in Client, ReadLocal(c)
  PROVE  /\ op' \in [Client -> CallType] /\ OthersStay(c) /\ Same(op'[c], op[c])
         /\ op'[c].waiting = op[c].waiting /\ op'[c].ok = op[c].ok
         /\ op'[c].found = op[c].found
         /\ op'[c].read = TRUE /\ op'[c].copy = held["local"]
<1> DEFINE new == [op[c] EXCEPT !.read = TRUE, !.copy = held["local"]]
<1>1. op[c] \in CallType /\ op \in [Client -> CallType]
  BY DEF Shape
<1>2. held["local"] \subseteq Nat
  BY SavesAreNumbers DEF Shape, StoreShape, Store
<1>3. /\ new \in CallType /\ Same(new, op[c]) /\ new.waiting = op[c].waiting
      /\ new.ok = op[c].ok /\ new.found = op[c].found
      /\ new.read = TRUE /\ new.copy = held["local"]
  BY <1>1, <1>2 DEF CallType, Same
<1>4. op' = [op EXCEPT ![c] = new]
  BY <1>1 DEF ReadLocal, CallType
<1> HIDE DEF new
<1>5. QED
  BY <1>1, <1>3, <1>4 DEF OthersStay

\* Store s has settled: with an answer or not.
Settles(c, s, ok) ==
  /\ op' \in [Client -> CallType] /\ OthersStay(c) /\ Same(op'[c], op[c])
  /\ s \in op[c].waiting /\ op'[c].waiting = op[c].waiting \ {s}
  /\ op'[c].ok = IF ok THEN op[c].ok \cup {s} ELSE op[c].ok
  /\ op[c].found \subseteq op'[c].found
  /\ ~ ok => op'[c].found = op[c].found
  /\ s = "local" => op'[c].read = FALSE
  /\ s # "local" => op'[c].read = op[c].read
  /\ op'[c].copy \in {op[c].copy, {}}
  /\ op'[c].read = TRUE => op'[c].copy = op[c].copy

LEMMA WriteFacts ==
  ASSUME Shape, NEW c \in Client, WriteLocal(c)
  PROVE  Settles(c, "local", TRUE) /\ op'[c].found = op[c].found
<1> DEFINE new == [op[c] EXCEPT !.waiting = @ \ {"local"},
                                !.ok = @ \cup {"local"}, !.read = FALSE,
                                !.copy = {}]
<1>1. op[c] \in CallType /\ op \in [Client -> CallType] /\ CallShape(c)
  BY DEF Shape
<1>2. op[c].read /\ "local" \in op[c].waiting /\ "local" \in Store
  BY <1>1 DEF WriteLocal, CallShape, Store
<1>3. /\ new \in CallType /\ Same(new, op[c])
      /\ new.waiting = op[c].waiting \ {"local"}
      /\ new.ok = op[c].ok \cup {"local"} /\ new.found = op[c].found
      /\ new.read = FALSE /\ new.copy = {}
  BY <1>1, <1>2 DEF CallType, Same
<1>4. op' = [op EXCEPT ![c] = new]
  BY <1>1 DEF WriteLocal, CallType
<1> HIDE DEF new
<1>5. op' \in [Client -> CallType] /\ op'[c] = new /\ OthersStay(c)
  BY <1>1, <1>3, <1>4 DEF OthersStay
<1>6. QED
  BY <1>2, <1>3, <1>5 DEF Settles

LEMMA RepliesFacts ==
  ASSUME Shape, NEW c \in Client, NEW s \in Store, NEW F \in SUBSET Nat,
         Asked(c, s), s = "local" => ~ op[c].read, Replies(c, s, F)
  PROVE  /\ Settles(c, s, TRUE)
         /\ op'[c].found = IF op[c].kind = "search" THEN op[c].found \cup F
                                                   ELSE op[c].found
<1> DEFINE new == [op[c] EXCEPT !.waiting = @ \ {s}, !.ok = @ \cup {s},
                                !.found = IF op[c].kind = "search"
                                          THEN @ \cup F ELSE @]
<1>1. op[c] \in CallType /\ op \in [Client -> CallType]
  BY DEF Shape
<1>2. /\ new \in CallType /\ Same(new, op[c])
      /\ new.waiting = op[c].waiting \ {s} /\ new.ok = op[c].ok \cup {s}
      /\ new.found = IF op[c].kind = "search" THEN op[c].found \cup F
                                              ELSE op[c].found
      /\ new.read = op[c].read /\ new.copy = op[c].copy
  BY <1>1 DEF CallType, Same
<1>3. op' = [op EXCEPT ![c] = new]
  BY <1>1 DEF Replies, CallType
<1> HIDE DEF new
<1>4. op' \in [Client -> CallType] /\ op'[c] = new /\ OthersStay(c)
  BY <1>1, <1>2, <1>3 DEF OthersStay
<1>5. QED
  BY <1>1, <1>2, <1>4 DEF Settles, CallType, Asked

LEMMA RejectsLocalFacts ==
  ASSUME Shape, NEW c \in Client, RejectsLocal(c)
  PROVE  Settles(c, "local", FALSE)
<1> DEFINE new == [op[c] EXCEPT !.waiting = @ \ {"local"}, !.read = FALSE,
                                !.copy = {}]
<1>1. op[c] \in CallType /\ op \in [Client -> CallType]
  BY DEF Shape
<1>2. /\ new \in CallType /\ Same(new, op[c])
      /\ new.waiting = op[c].waiting \ {"local"}
      /\ new.ok = op[c].ok /\ new.found = op[c].found
      /\ new.read = FALSE /\ new.copy = {}
  BY <1>1 DEF CallType, Same
<1>3. op' = [op EXCEPT ![c] = new]
  BY <1>1 DEF RejectsLocal, CallType
<1> HIDE DEF new
<1>4. op' \in [Client -> CallType] /\ op'[c] = new /\ OthersStay(c)
  BY <1>1, <1>2, <1>3 DEF OthersStay
<1>5. QED
  BY <1>1, <1>2, <1>4 DEF Settles, CallType, RejectsLocal, Asked

LEMMA RejectsFacts ==
  ASSUME Shape, NEW c \in Client, NEW s \in Store \ {"local"}, Asked(c, s),
         op' = [op EXCEPT ![c].waiting = @ \ {s}]
  PROVE  Settles(c, s, FALSE)
<1> DEFINE new == [op[c] EXCEPT !.waiting = @ \ {s}]
<1>1. op[c] \in CallType /\ op \in [Client -> CallType]
  BY DEF Shape
<1>2. /\ new \in CallType /\ Same(new, op[c])
      /\ new.waiting = op[c].waiting \ {s}
      /\ new.ok = op[c].ok /\ new.found = op[c].found
      /\ new.read = op[c].read /\ new.copy = op[c].copy
  BY <1>1 DEF CallType, Same
<1>3. op' = [op EXCEPT ![c] = new]
  BY <1>1 DEF CallType
<1> HIDE DEF new
<1>4. op' \in [Client -> CallType] /\ op'[c] = new /\ OthersStay(c)
  BY <1>1, <1>2, <1>3 DEF OthersStay
<1>5. QED
  BY <1>1, <1>2, <1>4 DEF Settles, CallType, Asked

\* What a call becomes when its tier has failed and the next one is asked.
LEMMA FallBackFacts ==
  ASSUME Shape, NEW c \in Client, FallBack(c)
  PROVE  /\ op' \in [Client -> CallType] /\ OthersStay(c)
         /\ op'[c].kind = op[c].kind /\ op'[c].stage = "busy"
         /\ op'[c].memory = op[c].memory /\ op'[c].target = op[c].target
         /\ op[c].waiting = {} /\ op[c].ok = {} /\ op'[c].ok = {}
         /\ op'[c].tier = op[c].tier + 1 /\ op'[c].tier \in 1 .. Len(chain)
         /\ op[c].tier < Len(chain)
         /\ op'[c].waiting = chain[op'[c].tier]
         /\ op'[c].read = op[c].read /\ op'[c].copy = op[c].copy
         /\ op'[c].due = op[c].due
<1> DEFINE W == chain[op[c].tier + 1]
           new == [op[c] EXCEPT !.tier = @ + 1, !.waiting = W, !.ok = {}]
<1>1. op[c] \in CallType /\ op \in [Client -> CallType] /\ CallShape(c)
  BY DEF Shape
<1>2. /\ op[c].tier + 1 \in 1 .. Len(chain) /\ op[c].tier < Len(chain)
      /\ op[c].waiting = {} /\ op[c].ok = {} /\ op[c].stage = "busy"
  BY <1>1, ChainFacts DEF FallBack, CallShape, Settled, TierFailed, Shape
<1>3. W \subseteq Store /\ op[c].tier + 1 \in Nat
  BY <1>2, ChainFacts DEF Shape
<1>4. op' = [op EXCEPT ![c] = new]
  BY <1>1 DEF FallBack, CallType
<1> HIDE DEF W
<1>5. /\ new \in CallType /\ new.kind = op[c].kind
      /\ new.stage = op[c].stage /\ new.memory = op[c].memory
      /\ new.target = op[c].target /\ new.due = op[c].due
      /\ new.ok = {} /\ new.tier = op[c].tier + 1 /\ new.waiting = W
      /\ new.read = op[c].read /\ new.copy = op[c].copy
  BY <1>1, <1>3 DEF CallType
<1> HIDE DEF new
<1>6. QED
  BY <1>1, <1>2, <1>4, <1>5 DEF OthersStay, W

\* A call that has ended saves and deletes nothing more.
Idle(x) ==
  /\ x \in CallType /\ x.kind \notin {"save", "delete"} /\ x.stage # "busy"
  /\ x.tier = 1 /\ x.waiting = {} /\ x.ok = {} /\ x.read = FALSE
  /\ x.copy = {}

LEMMA AnswerFacts ==
  ASSUME Shape, NEW c \in Client, Answer(c) \/ GiveUp(c) \/ Command(c)
  PROVE  op' \in [Client -> CallType] /\ OthersStay(c) /\ Idle(op'[c])
<1>1. op \in [Client -> CallType] /\ op[c] \in CallType
  BY DEF Shape
<1>2. CASE GiveUp(c) \/ Command(c)
  BY <1>1, <1>2, NoOpFacts DEF GiveUp, Command, OthersStay, Idle
<1>3. CASE Answer(c)
  <2> DEFINE new == [NoOp EXCEPT !.kind = "search", !.stage = "done",
                       !.found = op[c].found, !.due = op[c].due]
  <2>1. new \in CallType /\ Idle(new)
    BY <1>1, NoOpFacts DEF CallType, Idle
  <2>2. op' = [op EXCEPT ![c] = NoOp] \/ op' = [op EXCEPT ![c] = new]
    BY <1>3 DEF Answer
  <2> HIDE DEF new
  <2>3. QED
    BY <1>1, <2>1, <2>2, NoOpFacts DEF OthersStay, Idle
<1>4. QED
  BY <1>2, <1>3
-----------------------------------------------------------------------------
(* Types *)

\* Memories keep their names, and what was given up stays given up.
Grows ==
  /\ Saves \subseteq Saves' /\ deleted \subseteq deleted'
  /\ raced \subseteq raced'
  /\ \A m \in Saves : titles'[m] = titles[m] /\ stamp'[m] = stamp[m]

LEMMA CallShapeStays ==
  ASSUME Grows, chain' = chain, NEW d \in Client, op'[d] = op[d],
         CallShape(d)
  PROVE  CallShape(d)'
BY DEF Grows, CallShape

LEMMA CacheShapeStays ==
  ASSUME NEW d \in Client, filled'[d] = filled[d], seen'[d] = seen[d],
         poll'[d] = poll[d], CacheShape(d)
  PROVE  CacheShape(d)'
BY DEF CacheShape

LEMMA NotesFacts ==
  ASSUME Shape, NEW c \in Client
  PROVE  /\ Notes(c) \subseteq Saves /\ Found(c) \subseteq Saves
         /\ held["obsidian"] \subseteq Saves /\ held["local"] \subseteq Saves
         /\ held["engram"] \subseteq Saves
BY DEF Shape, StoreShape, Notes, Found, Store

\* The cache of a client whose call ends, and the caches of the others.
LEMMA KeepsFacts ==
  ASSUME Shape, NEW c \in Client, NEW notes \in SUBSET Saves,
         NEW new \in SUBSET Saves, NEW now \in {"yes", "polls"},
         Keeps(c, notes, new, now), titles' = titles, poll' = poll
  PROVE  /\ filled' \in [Client -> {"no", "yes", "polls"}]
         /\ cache' \in [Client -> SUBSET Saves]
         /\ seen' \in [Client -> SUBSET Saves]
         /\ cache'[c] = notes /\ seen'[c] = Found(c) \cup new
         /\ filled'[c] # "no"
         /\ \A d \in Client \ {c} : cache'[d] = cache[d] /\ seen'[d] = seen[d]
                                      /\ filled'[d] = filled[d]
         /\ \A d \in Client : CacheShape(d)'
<1>1. /\ filled' \in [Client -> {"no", "yes", "polls"}]
      /\ cache' \in [Client -> SUBSET Saves]
      /\ seen' \in [Client -> SUBSET Saves]
      /\ cache'[c] = notes /\ seen'[c] = Found(c) \cup new
      /\ filled'[c] # "no" /\ (filled[c] = "polls" => filled'[c] = "polls")
      /\ \A d \in Client \ {c} : cache'[d] = cache[d] /\ seen'[d] = seen[d]
                                   /\ filled'[d] = filled[d]
  BY NotesFacts DEF Keeps, Shape, StoreShape
<1>2. ASSUME NEW d \in Client PROVE CacheShape(d)'
  <2>1. CASE d = c
    BY <1>1, <2>1 DEF CacheShape, Shape
  <2>2. CASE d # c
    BY <1>1, <2>2, CacheShapeStays DEF Shape
  <2>3. QED
    BY <2>1, <2>2
<1>3. QED
  BY <1>1, <1>2

\* What the vault holds after each of its answers, and the client's cache.
LEMMA VaultFacts ==
  ASSUME Shape, NEW c \in Client, AnswersVault(c) \/ RejectsVault(c)
  PROVE  /\ held' \in [Store -> SUBSET Saves]
         /\ filled' \in [Client -> {"no", "yes", "polls"}]
         /\ cache' \in [Client -> SUBSET Saves]
         /\ seen' \in [Client -> SUBSET Saves]
         /\ \A d \in Client : CacheShape(d)'
<1>1. /\ titles' = titles /\ poll' = poll
      /\ op[c].kind = "save" => op[c].memory \in Saves
  BY DEF AnswersVault, RejectsVault, Shape, CallShape
<1>2. /\ held \in [Store -> SUBSET Saves] /\ "obsidian" \in Store
      /\ Notes(c) \in SUBSET Saves /\ held["obsidian"] \subseteq Saves
  BY NotesFacts DEF Shape, StoreShape, Store
<1>3. op[c].kind = "save" => Over(Notes(c), op[c].memory) \in SUBSET Saves
  BY <1>1, <1>2 DEF Over
<1>4. Noted(c) /\ op[c].kind = "save" => held' \in [Store -> SUBSET Saves]
  BY <1>1, <1>2 DEF Noted, Over
<1>5. Unlink(c) => held' \in [Store -> SUBSET Saves]
  BY <1>2 DEF Unlink
<1>6. ASSUME UNCHANGED <<filled, cache, seen>>
      PROVE  /\ filled' \in [Client -> {"no", "yes", "polls"}]
             /\ cache' \in [Client -> SUBSET Saves]
             /\ seen' \in [Client -> SUBSET Saves]
             /\ \A d \in Client : CacheShape(d)'
  BY <1>1, <1>6, CacheShapeStays DEF Shape, StoreShape
<1>7. CASE Sync(c)
  <2>1. op[c].kind = "save" /\ Noted(c)
    BY <1>7 DEF Sync
  <2> DEFINE N == IF poll[c] = {} THEN {op[c].memory} ELSE {}
  <2>2. N \in SUBSET Saves
    BY <1>1, <2>1
  <2>3. Keeps(c, Over(Notes(c), op[c].memory), N, "polls")
    BY <1>7 DEF Sync
  <2> HIDE DEF N
  <2>4. QED
    BY <1>1, <1>3, <1>4, <2>1, <2>2, <2>3, KeepsFacts
<1>8. CASE Unlink(c)
  <2>1. Keeps(c, Notes(c) \ Named(c, Notes(c)), {}, "yes")
    BY <1>8 DEF Unlink
  <2>2. Notes(c) \ Named(c, Notes(c)) \in SUBSET Saves /\ {} \in SUBSET Saves
    BY <1>2
  <2>3. QED
    BY <1>1, <1>5, <1>8, <2>1, <2>2, KeepsFacts
<1>9. CASE UNCHANGED held /\ Keeps(c, Notes(c), {}, "yes")
  BY <1>1, <1>2, <1>9, KeepsFacts
<1>10. CASE op[c].kind = "save" /\ Noted(c)
              /\ Keeps(c, Over(Notes(c), op[c].memory), {}, "yes")
  BY <1>1, <1>3, <1>4, <1>10, KeepsFacts
<1>11. CASE UNCHANGED <<held, filled, cache, seen>>
  BY <1>2, <1>6, <1>11
<1>12. CASE op[c].kind = "save" /\ Noted(c) /\ UNCHANGED <<filled, cache, seen>>
  BY <1>4, <1>6, <1>12
<1>13. QED
  BY <1>7, <1>8, <1>9, <1>10, <1>11, <1>12
  DEF AnswersVault, RejectsVault, Look

LEMMA StoreFacts ==
  ASSUME Shape, NEW c \in Client,
         WriteLocal(c) \/ AnswersEngram(c) \/ RejectsEngram(c)
  PROVE  held' \in [Store -> SUBSET Saves]
<1>1. /\ held \in [Store -> SUBSET Saves]
      /\ "local" \in Store /\ "engram" \in Store
      /\ op[c].copy \subseteq Saves
      /\ op[c].kind = "save" => op[c].memory \in Saves
  BY DEF Shape, StoreShape, CallShape, Store
<1>2. CASE WriteLocal(c)
  BY <1>1, <1>2 DEF WriteLocal
<1>3. CASE Filed(c) \/ UNCHANGED held
  BY <1>1, <1>3 DEF Filed
<1>4. QED
  BY <1>2, <1>3 DEF AnswersEngram, RejectsEngram

\* A save adds one memory.
LEMMA TitlesFacts ==
  ASSUME Shape, NEW c \in Client, NEW t \in Title, Save(c, t)
  PROVE  /\ TitleShape' /\ Grows
         /\ Saves' = Saves \cup {Len(titles) + 1}
         /\ Len(titles) + 1 \notin Saves
<1>1. Len(titles) < MaxSaves /\ titles' = Append(titles, t)
      /\ UNCHANGED <<deleted, raced>>
  BY DEF Save
<1>2. PICK time \in {Len(titles) + 1} \cup {stamp[m] : m \in Saves} :
        stamp' = Append(stamp, time)
  BY DEF Save
<1>3. /\ Saves = 1 .. Len(titles) /\ Len(titles) \in Nat
      /\ titles \in Seq(Title) /\ stamp \in Seq(Nat)
      /\ Len(stamp) = Len(titles) /\ \A m \in Saves : stamp[m] \in Saves
  BY SavesAreNumbers DEF Shape, TitleShape
<1>4. time \in 1 .. Len(titles) + 1
  BY <1>2, <1>3
<1>5. Saves' = 1 .. Len(titles) + 1
  BY <1>1, <1>3 DEF Saves
<1>6. /\ titles' \in Seq(Title) /\ Len(titles') = Len(titles) + 1
      /\ stamp' \in Seq(Nat) /\ Len(stamp') = Len(titles) + 1
      /\ \A m \in 1 .. Len(titles) : titles'[m] = titles[m]
      /\ \A m \in 1 .. Len(titles) : stamp'[m] = stamp[m]
      /\ stamp'[Len(titles) + 1] = time
  BY <1>1, <1>2, <1>3, <1>4
<1>7. \A m \in Saves' : stamp'[m] \in Saves'
  BY <1>3, <1>4, <1>5, <1>6
<1>8. QED
  BY <1>1, <1>3, <1>5, <1>6, <1>7, ClientConstants DEF TitleShape, Grows

LEMMA GrowsNext == Shape /\ [Next]_vars => Grows
<1> SUFFICES ASSUME Shape, [Next]_vars PROVE Grows
  OBVIOUS
<1>1. ASSUME NEW c \in Client, NEW t \in Title, Save(c, t) PROVE Grows
  BY <1>1, TitlesFacts
<1>2. CASE UNCHANGED <<titles, stamp>> /\ deleted \subseteq deleted' /\ raced \subseteq raced'
  BY <1>2 DEF Grows, Saves
<1>3. CASE UNCHANGED vars
  BY <1>2, <1>3 DEF vars
<1>4. ASSUME NEW c \in Client, StoreStep(c)
      PROVE  UNCHANGED <<titles, stamp, deleted>> /\ raced \subseteq raced'
  BY <1>4 DEF StoreStep, ReadLocal, WriteLocal, AnswersLocal, AnswersEngram,
    AnswersVault, PollReads, PollEnds, RejectsLocal, RejectsEngram, RejectsVault
<1>5. ASSUME NEW c \in Client,
             Command(c) \/ Search(c) \/ FallBack(c) \/ GiveUp(c) \/ Answer(c)
      PROVE  UNCHANGED <<titles, stamp, deleted, raced>>
  BY <1>5 DEF Command, Search, FallBack, GiveUp, Answer
<1>6. ASSUME NEW c \in Client, NEW id \in KnownIds, Delete(c, id)
      PROVE  UNCHANGED <<titles, stamp, raced>> /\ deleted \subseteq deleted'
  BY <1>6 DEF Delete
<1>7. QED
  BY <1>1, <1>2, <1>3, <1>4, <1>5, <1>6 DEF Next

\* The shape of all calls after one has moved.
LEMMA OthersShape ==
  ASSUME Shape, Grows, chain' = chain, NEW c \in Client, OthersStay(c),
         CallShape(c)'
  PROVE  \A d \in Client : CallShape(d)'
<1>1. ASSUME NEW d \in Client \ {c} PROVE CallShape(d)'
  BY <1>1, CallShapeStays DEF OthersStay, Shape
<1>2. QED
  BY <1>1

LEMMA BeginsShape ==
  ASSUME Shape, Grows, chain' = chain, NEW c \in Client,
         NEW kind \in {"save", "delete", "search"}, Begins(c, kind),
         kind = "save" => op'[c].memory \in Saves',
         kind = "delete" => op'[c].target \in deleted'
  PROVE  \A d \in Client : CallShape(d)'
<1>1. 1 \in 1 .. Len(chain)
  BY ChainFacts DEF Shape
<1>2. CallShape(c)'
  BY <1>1 DEF Begins, CallShape
<1>3. QED
  BY <1>2, OthersShape DEF Begins

LEMMA SettlesShape ==
  ASSUME Shape, Grows, chain' = chain, NEW c \in Client, NEW s \in Store,
         NEW ok \in BOOLEAN, Settles(c, s, ok)
  PROVE  \A d \in Client : CallShape(d)'
<1>1. CallShape(c)
  BY DEF Shape
<1>2. CallShape(c)'
  BY <1>1 DEF Settles, Same, CallShape, Grows
<1>3. QED
  BY <1>2, OthersShape DEF Settles

LEMMA IdleShape ==
  ASSUME Shape, Grows, chain' = chain, NEW c \in Client, OthersStay(c),
         Idle(op'[c])
  PROVE  \A d \in Client : CallShape(d)'
<1>1. 1 \in 1 .. Len(chain)
  BY ChainFacts DEF Shape
<1>2. CallShape(c)'
  BY <1>1 DEF Idle, CallShape
<1>3. QED
  BY <1>2, OthersShape

\* Which store a step of a client's stores settles, and how.
LEMMA SettleFacts ==
  ASSUME Shape, NEW c \in Client
  PROVE  /\ WriteLocal(c) => Settles(c, "local", TRUE)
         /\ AnswersLocal(c) => Settles(c, "local", TRUE)
         /\ AnswersEngram(c) => Settles(c, "engram", TRUE)
         /\ AnswersVault(c) => Settles(c, "obsidian", TRUE)
         /\ RejectsLocal(c) => Settles(c, "local", FALSE)
         /\ RejectsEngram(c) => Settles(c, "engram", FALSE)
         /\ RejectsVault(c) => Settles(c, "obsidian", FALSE)
<1>1. /\ \A s \in Store : held[s] \subseteq Nat
      /\ Notes(c) \subseteq Nat
      /\ {"local", "obsidian", "engram"} = Store
  BY NotesFacts, SavesAreNumbers DEF Shape, StoreShape, Store
<1>2. WriteLocal(c) => Settles(c, "local", TRUE)
  BY WriteFacts
<1>3. ASSUME AnswersLocal(c) PROVE Settles(c, "local", TRUE)
  <2>1. Asked(c, "local") /\ ~ op[c].read /\ Replies(c, "local", held["local"])
    BY <1>3 DEF AnswersLocal
  <2>2. QED
    BY <1>1, <2>1, RepliesFacts
<1>4. ASSUME AnswersEngram(c) PROVE Settles(c, "engram", TRUE)
  <2>1. Asked(c, "engram") /\ Replies(c, "engram", held["engram"])
    BY <1>4 DEF AnswersEngram
  <2>2. QED
    BY <1>1, <2>1, RepliesFacts
<1>5. ASSUME AnswersVault(c) PROVE Settles(c, "obsidian", TRUE)
  <2>1. Asked(c, "obsidian") /\ Replies(c, "obsidian", Notes(c))
    BY <1>5 DEF AnswersVault
  <2>2. QED
    BY <1>1, <2>1, RepliesFacts
<1>6. RejectsLocal(c) => Settles(c, "local", FALSE)
  BY RejectsLocalFacts
<1>7. ASSUME RejectsEngram(c) PROVE Settles(c, "engram", FALSE)
  BY <1>1, <1>7, RejectsFacts DEF RejectsEngram
<1>8. ASSUME RejectsVault(c) PROVE Settles(c, "obsidian", FALSE)
  BY <1>1, <1>8, RejectsFacts DEF RejectsVault
<1>9. QED
  BY <1>2, <1>3, <1>4, <1>5, <1>6, <1>7, <1>8

LEMMA SettledShape ==
  ASSUME Shape, Grows, chain' = chain, NEW c \in Client,
         \/ WriteLocal(c) \/ AnswersLocal(c) \/ AnswersEngram(c)
         \/ AnswersVault(c) \/ RejectsLocal(c) \/ RejectsEngram(c)
         \/ RejectsVault(c)
  PROVE  op' \in [Client -> CallType] /\ \A d \in Client : CallShape(d)'
<1>1. PICK s \in Store, ok \in BOOLEAN : Settles(c, s, ok)
  BY SettleFacts DEF Store
<1>2. QED
  BY <1>1, SettlesShape DEF Settles

\* The cache of a refresh.
LEMMA PollFacts ==
  ASSUME Shape, NEW c \in Client, PollReads(c) \/ PollEnds(c)
  PROVE  /\ cache' \in [Client -> SUBSET Saves]
         /\ poll' \in [Client -> SUBSET SUBSET Saves]
         /\ \A d \in Client : CacheShape(d)'
<1>1. /\ cache \in [Client -> SUBSET Saves]
      /\ poll \in [Client -> SUBSET SUBSET Saves]
      /\ held["obsidian"] \subseteq Saves
      /\ \A d \in Client : CacheShape(d)
  BY NotesFacts DEF Shape, StoreShape
<1>2. CASE PollReads(c)
  BY <1>1, <1>2 DEF PollReads, CacheShape
<1>3. CASE PollEnds(c)
  <2>1. PICK notes \in poll[c] :
          /\ cache' = [cache EXCEPT ![c] = notes]
          /\ poll' = [poll EXCEPT ![c] = @ \ {notes}]
    BY <1>3 DEF PollEnds
  <2>2. filled' = filled /\ seen' = seen
    BY <1>3 DEF PollEnds
  <2>3. QED
    BY <1>1, <2>1, <2>2 DEF CacheShape
<1>4. QED
  BY <1>2, <1>3

\* The types hold of every state.
THEOREM ShapeHolds == Spec => []Shape
<1>1. Init => Shape
  <2> SUFFICES ASSUME Init PROVE Shape
    OBVIOUS
  <2>1. Saves = {} /\ TitleShape /\ StoreShape
    BY ClientConstants DEF Init, Saves, TitleShape, StoreShape
  <2>2. chain \in Chains /\ 1 \in 1 .. Len(chain)
    BY ChainFacts DEF Init
  <2>3. op \in [Client -> CallType] /\ \A c \in Client : op[c] = NoOp
    BY NoOpFacts DEF Init
  <2>4. \A c \in Client : CallShape(c)
    BY <2>2, <2>3, NoOpFacts DEF CallShape
  <2>5. \A c \in Client : CacheShape(c)
    BY DEF Init, CacheShape
  <2>6. home \in [Memory -> Store \cup {"none"}] /\ \A m \in Memory : home[m] = "none"
    BY DEF Init
  <2>7. QED
    BY <2>1, <2>2, <2>3, <2>4, <2>5, <2>6 DEF Shape
<1>2. Shape /\ [Next]_vars => Shape'
  <2> SUFFICES ASSUME Shape, [Next]_vars PROVE Shape'
    OBVIOUS
  <2>0. Grows
    BY GrowsNext
  <2>1. ASSUME UNCHANGED <<titles, stamp>> PROVE TitleShape' /\ Saves' = Saves
    BY <2>1 DEF Shape, TitleShape, Saves
  <2>2. ASSUME UNCHANGED vault PROVE \A d \in Client : CacheShape(d)'
    BY <2>2 DEF Shape, CacheShape, vault
  <2>3. ASSUME UNCHANGED <<held, vault, whole, raced>> PROVE StoreShape'
    BY <2>0, <2>3 DEF Shape, StoreShape, vault, Grows
  <2>4. ASSUME home' = home
        PROVE  /\ home' \in [Memory -> Store \cup {"none"}]
               /\ \A m \in Memory \ Saves' : home'[m] = "none"
    BY <2>0, <2>4 DEF Shape, Grows
  <2>5. ASSUME NEW c \in Client, NEW t \in Title, Save(c, t) PROVE Shape'
    <3>1. /\ UNCHANGED <<chain, held, vault, home, whole, deleted, raced>>
          /\ Begins(c, "save") /\ op'[c].memory = Len(titles) + 1
      BY <2>5, SaveFacts DEF Save
    <3>2. TitleShape' /\ Saves' = Saves \cup {Len(titles) + 1}
      BY <2>5, TitlesFacts
    <3>3. \A d \in Client : CallShape(d)'
      BY <2>0, <3>1, <3>2, BeginsShape
    <3>4. QED
      BY <2>2, <2>3, <2>4, <3>1, <3>2, <3>3 DEF Shape, Begins
  <2>6. ASSUME NEW c \in Client, NEW id \in KnownIds, Delete(c, id)
        PROVE  Shape'
    <3>1. /\ UNCHANGED <<chain, titles, stamp, held, vault, home, whole, raced>>
          /\ Begins(c, "delete") /\ op'[c].target \in deleted'
      BY <2>6, DeleteFacts DEF Delete
    <3>2. \A d \in Client : CallShape(d)'
      BY <2>0, <3>1, BeginsShape
    <3>3. QED
      BY <2>1, <2>2, <2>3, <2>4, <3>1, <3>2 DEF Shape, Begins
  <2>7. ASSUME NEW c \in Client, Search(c) PROVE Shape'
    <3>1. /\ UNCHANGED <<chain, titles, stamp, held, vault, home, whole, raced>>
          /\ Begins(c, "search")
      BY <2>7, SearchFacts DEF Search
    <3>2. \A d \in Client : CallShape(d)'
      BY <2>0, <3>1, BeginsShape
    <3>3. QED
      BY <2>1, <2>2, <2>3, <2>4, <3>1, <3>2 DEF Shape, Begins
  <2>8. ASSUME NEW c \in Client, Command(c) PROVE Shape'
    <3>1. /\ UNCHANGED <<chain, titles, stamp, held, home, whole, raced>>
          /\ \A d \in Client : CallShape(d)'
          /\ op' \in [Client -> CallType]
      BY <2>0, <2>8, AnswerFacts, IdleShape DEF Command
    <3>2. StoreShape' /\ \A d \in Client : CacheShape(d)'
      BY <2>1, <2>8, <3>1 DEF Command, Shape, StoreShape, CacheShape
    <3>3. QED
      BY <2>1, <2>4, <3>1, <3>2 DEF Shape
  <2>9. ASSUME NEW c \in Client, ReadLocal(c) PROVE Shape'
    <3>1. UNCHANGED <<chain, titles, stamp, held, vault, home, whole, raced>>
      BY <2>9 DEF ReadLocal
    <3>2. /\ CallShape(c) /\ held["local"] \subseteq Saves
          /\ "local" \in op[c].waiting /\ op[c].kind \in {"save", "delete"}
      BY <2>9, NotesFacts DEF Shape, ReadLocal, Asked
    <3>3. CallShape(c)'
      BY <2>0, <2>1, <2>9, <3>1, <3>2, ReadFacts DEF CallShape, Same, Grows
    <3>4. QED
      BY <2>0, <2>1, <2>2, <2>3, <2>4, <2>9, <3>1, <3>3, OthersShape, ReadFacts
      DEF Shape
  <2>10. ASSUME NEW c \in Client, WriteLocal(c) PROVE Shape'
    <3>1. UNCHANGED <<chain, titles, stamp, vault, home, whole>>
      BY <2>10 DEF WriteLocal
    <3>2. op' \in [Client -> CallType] /\ \A d \in Client : CallShape(d)'
      BY <2>0, <2>10, <3>1, SettledShape
    <3>3. raced' \subseteq Saves
      <4>1. op[c].kind = "save" => op[c].memory \in Saves
        BY DEF Shape, CallShape
      <4>2. raced \subseteq Saves
        BY DEF Shape, StoreShape
      <4>3. QED
        BY <2>10, <4>1, <4>2 DEF WriteLocal
    <3>4. StoreShape'
      BY <2>1, <2>10, <3>1, <3>3, StoreFacts DEF Shape, StoreShape, vault
    <3>5. QED
      BY <2>1, <2>2, <2>4, <3>1, <3>2, <3>4 DEF Shape
  <2>11. ASSUME NEW c \in Client, AnswersLocal(c) \/ RejectsLocal(c)
         PROVE  Shape'
    <3>1. UNCHANGED <<chain, titles, stamp, held, vault, home, whole, raced>>
      BY <2>11 DEF AnswersLocal, RejectsLocal
    <3>2. op' \in [Client -> CallType] /\ \A d \in Client : CallShape(d)'
      BY <2>0, <2>11, <3>1, SettledShape
    <3>3. QED
      BY <2>1, <2>2, <2>3, <2>4, <3>1, <3>2 DEF Shape
  <2>12. ASSUME NEW c \in Client, AnswersEngram(c) \/ RejectsEngram(c)
         PROVE  Shape'
    <3>1. UNCHANGED <<chain, titles, stamp, vault, home, whole, raced>>
      BY <2>12 DEF AnswersEngram, RejectsEngram
    <3>2. op' \in [Client -> CallType] /\ \A d \in Client : CallShape(d)'
      BY <2>0, <2>12, <3>1, SettledShape
    <3>3. StoreShape'
      BY <2>1, <2>12, <3>1, StoreFacts DEF Shape, StoreShape, vault
    <3>4. QED
      BY <2>1, <2>2, <2>4, <3>1, <3>2, <3>3 DEF Shape
  <2>13. ASSUME NEW c \in Client, AnswersVault(c) \/ RejectsVault(c)
         PROVE  Shape'
    <3>1. UNCHANGED <<chain, titles, stamp, poll, home, whole, raced>>
      BY <2>13 DEF AnswersVault, RejectsVault
    <3>2. op' \in [Client -> CallType] /\ \A d \in Client : CallShape(d)'
      BY <2>0, <2>13, <3>1, SettledShape
    <3>3. StoreShape' /\ \A d \in Client : CacheShape(d)'
      BY <2>1, <2>13, <3>1, VaultFacts DEF Shape, StoreShape
    <3>4. QED
      BY <2>1, <2>4, <3>1, <3>2, <3>3 DEF Shape
  <2>14. ASSUME NEW c \in Client, PollReads(c) \/ PollEnds(c) PROVE Shape'
    <3>1. UNCHANGED <<chain, titles, stamp, held, op, filled, seen, home, whole, raced>>
      BY <2>14 DEF PollReads, PollEnds
    <3>2. \A d \in Client : CallShape(d)'
      BY <2>0, <3>1, CallShapeStays DEF Shape
    <3>3. StoreShape' /\ \A d \in Client : CacheShape(d)'
      BY <2>1, <2>14, <3>1, PollFacts DEF Shape, StoreShape
    <3>4. QED
      BY <2>1, <2>4, <3>1, <3>2, <3>3 DEF Shape
  <2>15. ASSUME NEW c \in Client, FallBack(c) PROVE Shape'
    <3>1. UNCHANGED <<chain, titles, stamp, held, vault, home, whole, deleted, raced>>
      BY <2>15 DEF FallBack
    <3>2. CallShape(c)
      BY DEF Shape
    <3>3. CallShape(c)'
      BY <2>1, <2>15, <3>1, <3>2, FallBackFacts DEF CallShape
    <3>4. QED
      BY <2>0, <2>1, <2>2, <2>3, <2>4, <2>15, <3>1, <3>3, OthersShape,
        FallBackFacts DEF Shape
  <2>16. ASSUME NEW c \in Client, GiveUp(c) PROVE Shape'
    <3>1. UNCHANGED <<chain, titles, stamp, held, vault, home, whole, raced>>
      BY <2>16 DEF GiveUp
    <3>2. op' \in [Client -> CallType] /\ \A d \in Client : CallShape(d)'
      BY <2>0, <2>16, <3>1, AnswerFacts, IdleShape
    <3>3. QED
      BY <2>1, <2>2, <2>3, <2>4, <3>1, <3>2 DEF Shape
  <2>17. ASSUME NEW c \in Client, Answer(c) PROVE Shape'
    <3>1. UNCHANGED <<chain, titles, stamp, held, vault, raced>>
      BY <2>17 DEF Answer
    <3>2. op' \in [Client -> CallType] /\ \A d \in Client : CallShape(d)'
      BY <2>0, <2>17, <3>1, AnswerFacts, IdleShape
    <3>3. op[c].kind = "save" => op[c].memory \in Saves
      BY DEF Shape, CallShape
    <3>4. Home(c) \in Store /\ Saves' = Saves /\ Saves \subseteq Memory
      BY <2>1, <3>1, SavesAreNumbers DEF Home, Store
    <3>5. /\ home' \in [Memory -> Store \cup {"none"}]
          /\ \A m \in Memory \ Saves' : home'[m] = "none"
          /\ whole' \subseteq Saves
      BY <2>17, <3>3, <3>4 DEF Answer, Shape, StoreShape
    <3>6. StoreShape'
      BY <3>1, <3>4, <3>5 DEF Shape, StoreShape, vault
    <3>7. QED
      BY <2>1, <2>2, <3>1, <3>2, <3>5, <3>6 DEF Shape
  <2>18. CASE UNCHANGED vars
    <3>1. UNCHANGED <<chain, titles, stamp, held, op, vault, home, whole, deleted, raced>>
      BY <2>18 DEF vars
    <3>2. \A d \in Client : CallShape(d)'
      BY <2>0, <3>1, CallShapeStays DEF Shape
    <3>3. QED
      BY <2>1, <2>2, <2>3, <2>4, <3>1, <3>2 DEF Shape
  <2>19. QED
    BY <2>5, <2>6, <2>7, <2>8, <2>9, <2>10, <2>11, <2>12, <2>13, <2>14, <2>15,
      <2>16, <2>17, <2>18 DEF Next, StoreStep
<1>3. QED
  BY <1>1, <1>2, PTL DEF Spec
-----------------------------------------------------------------------------
(* What is kept *)

HeldOrLost(s, m) == m \in held[s] \/ Lost(s, m)

\* A call about to write the local file has read what is in it.
CopyKept(c) ==
  op[c].read = TRUE =>
    \A m \in Saves :
      Lost("local", m) \/ (m \in held["local"] <=> m \in op[c].copy)

\* What a client cannot miss is in its cache and in what replaces it.
CacheKept(c) ==
  \A m \in seen[c] :
    /\ HeldOrLost("obsidian", m)
    /\ \/ Lost("obsidian", m)
       \/ /\ m \in cache[c]
          /\ \A notes \in poll[c] : m \in notes

\* A store that has answered a save holds the memory.
CallKept(c) ==
  op[c].kind = "save" => \A s \in op[c].ok : HeldOrLost(s, op[c].memory)

AnswersKept ==
  \A m \in Saves :
    /\ home[m] # "none" => HeldOrLost(home[m], m)
    /\ m \in whole => \A s \in chain[1] : HeldOrLost(s, m)

Kept ==
  /\ AnswersKept
  /\ \A c \in Client : CallKept(c) /\ CopyKept(c) /\ CacheKept(c)

\* What is lost stays lost.
LEMMA LostStays ==
  ASSUME Grows, NEW s \in Store, NEW m \in Saves, Lost(s, m)
  PROVE  Lost(s, m)'
<1>1. Id(s, m)' = Id(s, m) /\ m \in Saves'
  BY DEF Grows, Id
<1>2. Shadowed(m) => Shadowed(m)'
  BY <1>1 DEF Grows, Shadowed
<1>3. QED
  BY <1>1, <1>2 DEF Grows, Lost

\* A call to delete makes its id one whose memory is lost.
LEMMA DeletesLose ==
  ASSUME Shape, NEW c \in Client, op[c].kind = "delete", NEW s \in Store,
         NEW m \in Saves, Id(s, m) = op[c].target
  PROVE  Lost(s, m)
BY DEF Shape, CallShape, Lost

\* A step of one store leaves the others alone.
LEMMA LocalOthers ==
  ASSUME Shape, NEW c \in Client, WriteLocal(c)
  PROVE  \A s \in Store \ {"local"} : held'[s] = held[s]
BY DEF WriteLocal, Shape, StoreShape

LEMMA VaultOthers ==
  ASSUME Shape, NEW c \in Client, AnswersVault(c) \/ RejectsVault(c)
  PROVE  \A s \in Store \ {"obsidian"} : held'[s] = held[s]
BY DEF AnswersVault, RejectsVault, Sync, Unlink, Look, Noted, Shape, StoreShape

\* A write of the local file keeps what is in it.
LEMMA LocalKeeps ==
  ASSUME Shape, Kept, Grows, NEW c \in Client, WriteLocal(c),
         NEW m \in Saves, ~ Lost("local", m)'
  PROVE  /\ m \in held["local"] => m \in held'["local"]
         /\ m \in held'["local"] =>
              \/ m \in held["local"]
              \/ op[c].kind = "save" /\ m = op[c].memory
<1>1. ~ Lost("local", m) /\ "local" \in Store
  BY LostStays DEF Store
<1>2. /\ op[c] \in CallType /\ op[c].read /\ held \in [Store -> SUBSET Saves]
      /\ op[c].kind # "save" => op[c].kind = "delete"
  BY DEF WriteLocal, Shape, StoreShape, CallShape
<1>3. m \in held["local"] <=> m \in op[c].copy
  BY <1>1, <1>2 DEF Kept, CopyKept, CallType
<1>4. held' = [held EXCEPT !["local"] =
       IF op[c].kind = "save" THEN op[c].copy \cup {op[c].memory}
       ELSE {x \in op[c].copy : Id("local", x) # op[c].target}]
  BY DEF WriteLocal
<1>5. CASE op[c].kind = "save"
  <2>1. held'["local"] = op[c].copy \cup {op[c].memory}
    BY <1>1, <1>2, <1>4, <1>5
  <2>2. QED
    BY <1>3, <1>5, <2>1
<1>6. CASE op[c].kind # "save"
  <2>1. Id("local", m) # op[c].target
    BY <1>1, <1>2, <1>6, DeletesLose
  <2>2. held'["local"] = {x \in op[c].copy : Id("local", x) # op[c].target}
    BY <1>1, <1>2, <1>4, <1>6
  <2>3. QED
    BY <1>3, <2>1, <2>2
<1>7. QED
  BY <1>5, <1>6

\* A note is only removed by one of its title, or because it is deleted.
LEMMA VaultKeeps ==
  ASSUME Shape, Grows, NEW c \in Client, AnswersVault(c) \/ RejectsVault(c),
         NEW m \in Saves, ~ Lost("obsidian", m)'
  PROVE  m \in held["obsidian"] => m \in held'["obsidian"]
<1>1. ~ Lost("obsidian", m) /\ "obsidian" \in Store
  BY LostStays DEF Store
<1>2. held \in [Store -> SUBSET Saves]
  BY DEF Shape, StoreShape
<1>3. CASE Unlink(c)
  <2>1. op[c].kind = "delete" /\ held' = [held EXCEPT !["obsidian"] =
          @ \ Named(c, @)]
    BY <1>3 DEF Unlink
  <2>2. Id("obsidian", m) # op[c].target
    BY <1>1, <2>1, DeletesLose
  <2>3. QED
    BY <1>1, <1>2, <2>1, <2>2 DEF Named
<1>4. CASE op[c].kind = "save" /\ Noted(c)
  <2>1. op[c].memory \in Saves /\ ~ Shadowed(m)
    BY <1>1, <1>4 DEF Shape, CallShape, Lost
  <2>2. m # op[c].memory => titles[m] # titles[op[c].memory]
    BY <2>1 DEF Shadowed
  <2>3. QED
    BY <1>1, <1>2, <1>4, <2>1, <2>2 DEF Noted, Over
<1>5. CASE UNCHANGED held
  BY <1>5
<1>6. QED
  BY <1>3, <1>4, <1>5 DEF AnswersVault, RejectsVault, Sync, Look

\* The battery only takes.
LEMMA EngramKeeps ==
  ASSUME Shape, NEW c \in Client, AnswersEngram(c) \/ RejectsEngram(c)
  PROVE  /\ held["engram"] \subseteq held'["engram"]
         /\ held'["engram"] \subseteq held["engram"] \cup
              {m \in Saves : op[c].kind = "save" /\ m = op[c].memory}
         /\ \A s \in Store \ {"engram"} : held'[s] = held[s]
<1>1. held \in [Store -> SUBSET Saves] /\ "engram" \in Store
      /\ CallShape(c)
  BY DEF Shape, StoreShape, Store
<1>2. Filed(c) \/ UNCHANGED held
  BY DEF AnswersEngram, RejectsEngram
<1>3. QED
  BY <1>1, <1>2 DEF Filed, CallShape

\* The steps that change a store.
StoreMoves(c) ==
  \/ WriteLocal(c) \/ AnswersEngram(c) \/ RejectsEngram(c)
  \/ AnswersVault(c) \/ RejectsVault(c)

LEMMA OtherSteps ==
  ASSUME [Next]_vars, \A c \in Client : ~ StoreMoves(c)
  PROVE  held' = held
BY DEF Next, StoreStep, StoreMoves, vars, Command, Save, Delete, Search,
  ReadLocal, AnswersLocal, PollReads, PollEnds, RejectsLocal, FallBack, GiveUp,
  Answer

\* What a store held before a step it holds after it, or it is lost.
LEMMA HeldStays ==
  ASSUME Shape, Kept, [Next]_vars, NEW s \in Store, NEW m \in Saves,
         HeldOrLost(s, m)
  PROVE  HeldOrLost(s, m)'
<1>1. Grows
  BY GrowsNext
<1>2. CASE Lost(s, m)
  BY <1>1, <1>2, LostStays DEF HeldOrLost
<1>3. CASE Lost(s, m)'
  BY <1>3 DEF HeldOrLost
<1>4. CASE m \in held[s] /\ ~ Lost(s, m)'
  <2>1. ASSUME NEW c \in Client, WriteLocal(c) PROVE m \in held'[s]
    BY <1>1, <1>4, <2>1, LocalKeeps, LocalOthers
  <2>2. ASSUME NEW c \in Client, AnswersEngram(c) \/ RejectsEngram(c)
        PROVE  m \in held'[s]
    BY <1>4, <2>2, EngramKeeps
  <2>3. ASSUME NEW c \in Client, AnswersVault(c) \/ RejectsVault(c)
        PROVE  m \in held'[s]
    BY <1>1, <1>4, <2>3, VaultKeeps, VaultOthers
  <2>4. ASSUME held' = held PROVE m \in held'[s]
    BY <1>4, <2>4
  <2>5. m \in held'[s]
    BY <2>1, <2>2, <2>3, <2>4, OtherSteps DEF StoreMoves
  <2>6. QED
    BY <2>5 DEF HeldOrLost
<1>5. QED
  BY <1>2, <1>3, <1>4 DEF HeldOrLost

\* The copies of the local file.
LEMMA CopyStays ==
  ASSUME Shape, Grows, NEW d \in Client, CopyKept(d),
         held'["local"] = held["local"],
         op'[d].read = TRUE => op[d].read = TRUE /\ op'[d].copy = op[d].copy
  PROVE  CopyKept(d)'
<1> SUFFICES ASSUME op'[d].read = TRUE, NEW m \in Saves', ~ Lost("local", m)'
             PROVE  m \in held'["local"] <=> m \in op'[d].copy
  BY DEF CopyKept
<1>1. /\ held["local"] \subseteq Saves /\ op[d].copy \subseteq Saves
      /\ "local" \in Store
  BY NotesFacts DEF Shape, CallShape, Store
<1>2. CASE m \in Saves
  <2>1. ~ Lost("local", m)
    BY <1>1, <1>2, LostStays
  <2>2. QED
    BY <1>2, <2>1 DEF CopyKept
<1>3. CASE m \notin Saves
  BY <1>1, <1>3
<1>4. QED
  BY <1>2, <1>3

LEMMA CopiesKept ==
  ASSUME Shape, Kept, [Next]_vars, NEW d \in Client
  PROVE  CopyKept(d)'
<1>1. Grows /\ CopyKept(d)
  BY GrowsNext DEF Kept
<1>2. ASSUME NEW c \in Client, WriteLocal(c) PROVE CopyKept(d)'
  <2>1. CASE d = c
    BY <1>2, <2>1, WriteFacts DEF Settles, CopyKept
  <2>2. CASE d # c
    <3> SUFFICES ASSUME op'[d].read = TRUE, NEW m \in Saves',
                        ~ Lost("local", m)'
                 PROVE  m \in held'["local"] <=> m \in op'[d].copy
      BY DEF CopyKept
    <3>1. op'[d] = op[d]
      BY <1>2, <2>2, WriteFacts DEF Settles, OthersStay
    <3>2. Saves' = Saves /\ "local" \in Store
      BY <1>2 DEF WriteLocal, Saves, Store
    <3>3. ~ Lost("local", m)
      BY <1>1, <3>2, LostStays
    <3>4. m \in held["local"] <=> m \in op[d].copy
      BY <1>1, <3>1, <3>2, <3>3 DEF CopyKept
    <3>5. ~ (op[c].kind = "save" /\ m = op[c].memory)
      <4>1. op[c].kind = "save" => op[c].memory \in raced'
        BY <1>2, <2>2, <3>1 DEF WriteLocal
      <4>2. m \notin raced'
        BY DEF Lost
      <4>3. QED
        BY <4>1, <4>2
    <3>6. /\ m \in held["local"] => m \in held'["local"]
          /\ m \in held'["local"] => m \in held["local"]
      BY <1>1, <1>2, <3>2, <3>5, LocalKeeps
    <3>7. QED
      BY <3>1, <3>4, <3>6
  <2>3. QED
    BY <2>1, <2>2
<1>3. ASSUME NEW c \in Client, ReadLocal(c) PROVE CopyKept(d)'
  <2>1. held' = held
    BY <1>3 DEF ReadLocal
  <2>2. CASE d = c
    BY <1>3, <2>1, <2>2, ReadFacts DEF CopyKept
  <2>3. CASE d # c
    <3>1. op'[d] = op[d]
      BY <1>3, <2>3, ReadFacts DEF OthersStay
    <3>2. QED
      BY <1>1, <2>1, <3>1, CopyStays
  <2>4. QED
    BY <2>2, <2>3
<1>4. ASSUME NEW c \in Client, OthersStay(c), held'["local"] = held["local"],
             op'[c].read = TRUE => op[c].read = TRUE /\ op'[c].copy = op[c].copy
      PROVE  CopyKept(d)'
  BY <1>1, <1>4, CopyStays DEF OthersStay
<1>5. ASSUME NEW c \in Client, NEW kind, Begins(c, kind), held' = held
      PROVE  CopyKept(d)'
  BY <1>4, <1>5 DEF Begins
<1>6. ASSUME NEW c \in Client, NEW t \in Title, Save(c, t) PROVE CopyKept(d)'
  BY <1>5, <1>6, SaveFacts DEF Save
<1>7. ASSUME NEW c \in Client, NEW id \in KnownIds, Delete(c, id)
      PROVE  CopyKept(d)'
  BY <1>5, <1>7, DeleteFacts DEF Delete
<1>8. ASSUME NEW c \in Client, Search(c) PROVE CopyKept(d)'
  BY <1>5, <1>8, SearchFacts DEF Search
<1>9. ASSUME NEW c \in Client, Answer(c) \/ GiveUp(c) \/ Command(c)
      PROVE  CopyKept(d)'
  <2>1. held' = held
    BY <1>9 DEF Answer, GiveUp, Command
  <2>2. QED
    BY <1>4, <1>9, <2>1, AnswerFacts DEF Idle
<1>10. ASSUME NEW c \in Client, FallBack(c) PROVE CopyKept(d)'
  <2>1. held' = held
    BY <1>10 DEF FallBack
  <2>2. QED
    BY <1>4, <1>10, <2>1, FallBackFacts
<1>11. ASSUME NEW c \in Client, AnswersLocal(c) \/ RejectsLocal(c)
       PROVE  CopyKept(d)'
  <2>1. held' = held
    BY <1>11 DEF AnswersLocal, RejectsLocal
  <2>2. OthersStay(c) /\ op'[c].read = FALSE
    BY <1>11, SettleFacts DEF Settles
  <2>3. QED
    BY <1>4, <2>1, <2>2
<1>12. ASSUME NEW c \in Client, NEW s \in {"engram", "obsidian"},
              NEW ok, Settles(c, s, ok), held'["local"] = held["local"]
       PROVE  CopyKept(d)'
  <2>1. OthersStay(c) /\ op'[c].read = op[c].read
        /\ (op'[c].read = TRUE => op'[c].copy = op[c].copy)
    BY <1>12 DEF Settles
  <2>2. QED
    BY <1>4, <1>12, <2>1
<1>13. ASSUME NEW c \in Client, AnswersEngram(c) \/ RejectsEngram(c)
       PROVE  CopyKept(d)'
  <2>1. held'["local"] = held["local"]
    BY <1>13, EngramKeeps DEF Store
  <2>2. QED
    BY <1>12, <1>13, <2>1, SettleFacts
<1>14. ASSUME NEW c \in Client, AnswersVault(c) \/ RejectsVault(c)
       PROVE  CopyKept(d)'
  <2>1. held'["local"] = held["local"]
    BY <1>14, VaultOthers DEF Store
  <2>2. QED
    BY <1>12, <1>14, <2>1, SettleFacts
<1>15. ASSUME held' = held, op' = op PROVE CopyKept(d)'
  BY <1>1, <1>15, CopyStays
<1>16. ASSUME NEW c \in Client, PollReads(c) \/ PollEnds(c)
       PROVE  held' = held /\ op' = op
  BY <1>16 DEF PollReads, PollEnds
<1>17. CASE UNCHANGED vars
  BY <1>15, <1>17 DEF vars
<1>18. QED
  BY <1>2, <1>3, <1>6, <1>7, <1>8, <1>9, <1>10, <1>11, <1>13, <1>14, <1>15,
    <1>16, <1>17 DEF Next, StoreStep

\* The caches of the vault.
LEMMA CacheStays ==
  ASSUME Shape, Kept, [Next]_vars, NEW d \in Client, seen'[d] = seen[d],
         cache'[d] = cache[d], poll'[d] \subseteq poll[d]
  PROVE  CacheKept(d)'
<1>1. Grows /\ "obsidian" \in Store /\ CacheKept(d) /\ seen[d] \subseteq Saves
  BY GrowsNext DEF Kept, Store, Shape, StoreShape
<1>2. ASSUME NEW m \in seen[d] PROVE HeldOrLost("obsidian", m)'
  BY <1>1, <1>2, HeldStays DEF CacheKept
<1>3. ASSUME NEW m \in seen[d], Lost("obsidian", m)
      PROVE  Lost("obsidian", m)'
  BY <1>1, <1>3, LostStays
<1>4. QED
  BY <1>1, <1>2, <1>3 DEF CacheKept

LEMMA FoundFacts ==
  ASSUME Shape, Kept, NEW c \in Client, NEW m \in Found(c)
  PROVE  /\ HeldOrLost("obsidian", m)
         /\ Lost("obsidian", m) \/ m \in Notes(c)
         /\ Lost("obsidian", m) \/ \A notes \in poll[c] : m \in notes
<1>1. CASE filled[c] = "no"
  <2>1. poll[c] = {} /\ home[m] = "obsidian" /\ m \in Saves
    BY <1>1 DEF Shape, CacheShape, Found
  <2>2. HeldOrLost("obsidian", m)
    BY <2>1 DEF Kept, AnswersKept
  <2>3. QED
    BY <1>1, <2>1, <2>2 DEF HeldOrLost, Notes
<1>2. CASE filled[c] # "no"
  BY <1>2 DEF Kept, CacheKept, Found, Notes
<1>3. QED
  BY <1>1, <1>2

LEMMA KeepsKept ==
  ASSUME Shape, Kept, [Next]_vars, NEW c \in Client,
         NEW notes \in SUBSET Saves, NEW new \in SUBSET Saves,
         NEW now \in {"yes", "polls"}, Keeps(c, notes, new, now),
         titles' = titles, poll' = poll,
         \A m \in Notes(c) : m \in notes \/ Lost("obsidian", m)',
         \A m \in new : /\ m \in notes /\ poll[c] = {}
                        /\ m \in held'["obsidian"]
  PROVE  CacheKept(c)'
<1>0. cache'[c] = notes /\ seen'[c] = Found(c) \cup new
  <2>1. cache \in [Client -> SUBSET Saves] /\ seen \in [Client -> SUBSET Saves]
    BY DEF Shape, StoreShape
  <2>2. QED
    BY <2>1 DEF Keeps
<1>1. cache'[c] = notes /\ seen'[c] = Found(c) \cup new /\ Grows
      /\ Found(c) \subseteq Saves /\ "obsidian" \in Store
  BY <1>0, GrowsNext, NotesFacts DEF Store
<1>2. ASSUME NEW m \in Found(c)
      PROVE  /\ HeldOrLost("obsidian", m)'
             /\ Lost("obsidian", m)' \/ m \in notes
             /\ Lost("obsidian", m)' \/ \A x \in poll[c] : m \in x
  <2>1. HeldOrLost("obsidian", m)'
    BY <1>1, <1>2, FoundFacts, HeldStays
  <2>2. Lost("obsidian", m) => Lost("obsidian", m)'
    BY <1>1, LostStays
  <2>3. QED
    BY <1>2, <2>1, <2>2, FoundFacts
<1>3. \A m \in new : HeldOrLost("obsidian", m)'
  BY DEF HeldOrLost
<1>4. QED
  BY <1>1, <1>2, <1>3 DEF CacheKept

LEMMA VaultKept ==
  ASSUME Shape, Kept, [Next]_vars, NEW c \in Client,
         AnswersVault(c) \/ RejectsVault(c)
  PROVE  CacheKept(c)'
<1>1. /\ titles' = titles /\ poll' = poll /\ Grows /\ Saves' = Saves
      /\ "obsidian" \in Store /\ held \in [Store -> SUBSET Saves]
      /\ op[c].kind = "save" => op[c].memory \in Saves
      /\ Notes(c) \in SUBSET Saves
  BY GrowsNext, NotesFacts
  DEF AnswersVault, RejectsVault, Shape, StoreShape, CallShape, Saves, Store
<1>2. ASSUME op[c].kind = "save"
      PROVE  /\ Over(Notes(c), op[c].memory) \in SUBSET Saves
             /\ \A m \in Notes(c) : \/ m \in Over(Notes(c), op[c].memory)
                                    \/ Lost("obsidian", m)'
  <2>1. Over(Notes(c), op[c].memory) \in SUBSET Saves
    BY <1>1, <1>2 DEF Over
  <2>2. ASSUME NEW m \in Notes(c), m \notin Over(Notes(c), op[c].memory)
        PROVE  Lost("obsidian", m)'
    <3>1. m # op[c].memory /\ titles[m] = titles[op[c].memory]
      BY <2>2 DEF Over
    <3>2. Lost("obsidian", m)
      BY <1>1, <1>2, <2>2, <3>1 DEF Lost, Shadowed
    <3>3. QED
      BY <1>1, <2>2, <3>2, LostStays
  <2>3. QED
    BY <2>1, <2>2
<1>3. CASE Sync(c)
  <2> DEFINE N == IF poll[c] = {} THEN {op[c].memory} ELSE {}
  <2>1. /\ op[c].kind = "save" /\ Noted(c)
        /\ Keeps(c, Over(Notes(c), op[c].memory), N, "polls")
    BY <1>3 DEF Sync
  <2>2. N \in SUBSET Saves
    BY <1>1, <2>1
  <2>3. \A m \in N : /\ m \in Over(Notes(c), op[c].memory) /\ poll[c] = {}
                     /\ m \in held'["obsidian"]
    BY <1>1, <2>1 DEF Over, Noted
  <2> HIDE DEF N
  <2>4. QED
    BY <1>1, <1>2, <2>1, <2>2, <2>3, KeepsKept
<1>4. CASE Unlink(c)
  <2> DEFINE R == Notes(c) \ Named(c, Notes(c))
  <2>1. op[c].kind = "delete" /\ Keeps(c, R, {}, "yes")
    BY <1>4 DEF Unlink
  <2>2. R \in SUBSET Saves
    BY <1>1
  <2>3. ASSUME NEW m \in Notes(c), m \notin R PROVE Lost("obsidian", m)'
    <3>1. Id("obsidian", m) = op[c].target
      BY <2>3 DEF Named
    <3>2. Lost("obsidian", m)
      BY <1>1, <2>1, <3>1, DeletesLose
    <3>3. QED
      BY <1>1, <3>2, LostStays
  <2> HIDE DEF R
  <2>4. QED
    BY <1>1, <2>1, <2>2, <2>3, KeepsKept
<1>5. CASE UNCHANGED held /\ Keeps(c, Notes(c), {}, "yes")
  BY <1>1, <1>5, KeepsKept
<1>6. CASE op[c].kind = "save"
             /\ Keeps(c, Over(Notes(c), op[c].memory), {}, "yes")
  BY <1>1, <1>2, <1>6, KeepsKept
<1>7. CASE UNCHANGED <<filled, cache, seen>>
  BY <1>1, <1>7, CacheStays
<1>8. QED
  BY <1>3, <1>4, <1>5, <1>6, <1>7 DEF AnswersVault, RejectsVault, Look

LEMMA CachesKept ==
  ASSUME Shape, Kept, [Next]_vars, NEW d \in Client
  PROVE  CacheKept(d)'
<1>1. /\ cache \in [Client -> SUBSET Saves] /\ seen \in [Client -> SUBSET Saves]
      /\ poll \in [Client -> SUBSET SUBSET Saves]
  BY DEF Shape, StoreShape
<1>2. ASSUME UNCHANGED <<cache, seen, poll>> PROVE CacheKept(d)'
  BY <1>2, CacheStays
<1>3. ASSUME NEW c \in Client, Command(c) PROVE CacheKept(d)'
  <2>1. CASE d = c
    BY <1>1, <1>3, <2>1 DEF Command, CacheKept
  <2>2. CASE d # c
    BY <1>1, <1>3, <2>2, CacheStays DEF Command
  <2>3. QED
    BY <2>1, <2>2
<1>4. ASSUME NEW c \in Client, PollReads(c) PROVE CacheKept(d)'
  <2>0. /\ UNCHANGED <<titles, stamp, held, deleted, raced, cache, seen>>
        /\ poll' = [poll EXCEPT ![c] = @ \cup {held["obsidian"]}]
    BY <1>4 DEF PollReads
  <2>1. CASE d = c
    <3>1. CacheKept(c)
      BY DEF Kept
    <3>2. \A m \in seen[c] : /\ HeldOrLost("obsidian", m)' <=> HeldOrLost("obsidian", m)
                             /\ Lost("obsidian", m)' <=> Lost("obsidian", m)
      BY <2>0 DEF HeldOrLost, Lost, Id, Shadowed, Saves
    <3>3. poll'[c] = poll[c] \cup {held["obsidian"]}
      BY <1>1, <2>0
    <3>4. QED
      BY <2>0, <2>1, <3>1, <3>2, <3>3 DEF CacheKept, HeldOrLost
  <2>2. CASE d # c
    BY <1>1, <2>0, <2>2, CacheStays
  <2>3. QED
    BY <2>1, <2>2
<1>5. ASSUME NEW c \in Client, PollEnds(c) PROVE CacheKept(d)'
  <2>0. UNCHANGED <<titles, stamp, held, deleted, raced, seen>>
    BY <1>5 DEF PollEnds
  <2>01. PICK notes \in poll[c] : /\ cache' = [cache EXCEPT ![c] = notes]
                                  /\ poll' = [poll EXCEPT ![c] = @ \ {notes}]
    BY <1>5 DEF PollEnds
  <2>1. CASE d = c
    <3>1. CacheKept(c)
      BY DEF Kept
    <3>2. \A m \in seen[c] : /\ HeldOrLost("obsidian", m)' <=> HeldOrLost("obsidian", m)
                             /\ Lost("obsidian", m)' <=> Lost("obsidian", m)
      BY <2>0 DEF HeldOrLost, Lost, Id, Shadowed, Saves
    <3>3. cache'[c] = notes /\ poll'[c] \subseteq poll[c]
      BY <1>1, <2>01
    <3>4. QED
      BY <2>0, <2>1, <3>1, <3>2, <3>3 DEF CacheKept
  <2>2. CASE d # c
    BY <1>1, <2>0, <2>01, <2>2, CacheStays
  <2>3. QED
    BY <2>1, <2>2
<1>6. ASSUME NEW c \in Client, AnswersVault(c) \/ RejectsVault(c)
      PROVE  CacheKept(d)'
  <2>1. CASE d = c
    BY <1>6, <2>1, VaultKept
  <2>2. CASE d # c
    <3>1. poll' = poll
      BY <1>6 DEF AnswersVault, RejectsVault
    <3>2. seen'[d] = seen[d] /\ cache'[d] = cache[d]
      BY <1>1, <1>6, <2>2
      DEF AnswersVault, RejectsVault, Sync, Unlink, Look, Keeps
    <3>3. QED
      BY <3>1, <3>2, CacheStays
  <2>3. QED
    BY <2>1, <2>2
<1>7. QED
  BY <1>2, <1>3, <1>4, <1>5, <1>6 DEF Next, StoreStep, vars, vault, Save, Delete,
    Search, ReadLocal, WriteLocal, AnswersLocal, AnswersEngram, RejectsLocal,
    RejectsEngram, FallBack, GiveUp, Answer

\* The saves that stores have answered.
LEMMA CallKeptStays ==
  ASSUME Shape, Kept, [Next]_vars, NEW d \in Client,
         op'[d].kind = "save" =>
           /\ op[d].kind = "save" /\ op'[d].memory = op[d].memory
           /\ \A s \in op'[d].ok :
                s \in op[d].ok \/ op[d].memory \in held'[s]
  PROVE  CallKept(d)'
<1> SUFFICES ASSUME op'[d].kind = "save" PROVE CallKept(d)'
  BY DEF CallKept
<1>1. PICK m \in Saves : m = op[d].memory /\ m = op'[d].memory
  BY DEF Shape, CallShape
<1>2. ASSUME NEW s \in op'[d].ok PROVE HeldOrLost(s, m)'
  <2>1. CASE m \in held'[s]
    BY <2>1 DEF HeldOrLost
  <2>2. CASE s \in op[d].ok
    <3>1. op[d] \in CallType
      BY DEF Shape
    <3>2. s \in Store /\ HeldOrLost(s, m)
      BY <1>1, <2>2, <3>1 DEF Kept, CallKept, CallType
    <3>3. QED
      BY <3>2, HeldStays
  <2>3. QED
    BY <1>1, <1>2, <2>1, <2>2
<1>3. QED
  BY <1>1, <1>2 DEF CallKept, HeldOrLost, Lost, Id, Shadowed

\* A store that answers a save has taken the memory.
LEMMA AnswersTake ==
  ASSUME Shape, NEW c \in Client, op[c].kind = "save"
  PROVE  /\ WriteLocal(c) => op[c].memory \in held'["local"]
         /\ ~ AnswersLocal(c)
         /\ AnswersEngram(c) => op[c].memory \in held'["engram"]
         /\ AnswersVault(c) => op[c].memory \in held'["obsidian"]
<1>1. held \in [Store -> SUBSET Saves] /\ "local" \in Store
      /\ "obsidian" \in Store /\ "engram" \in Store
  BY DEF Shape, StoreShape, Store
<1>2. QED
  BY <1>1 DEF WriteLocal, AnswersLocal, AnswersEngram, AnswersVault, Filed,
    Sync, Unlink, Look, Noted, Over

LEMMA SettledKept ==
  ASSUME Shape, Kept, [Next]_vars, NEW c \in Client, NEW s \in Store,
         NEW ok \in BOOLEAN, Settles(c, s, ok),
         op[c].kind = "save" /\ ok => op[c].memory \in held'[s]
  PROVE  \A d \in Client : CallKept(d)'
<1>1. CallKept(c)'
  BY CallKeptStays DEF Settles, Same
<1>2. ASSUME NEW d \in Client \ {c} PROVE CallKept(d)'
  BY <1>2, CallKeptStays DEF Settles, OthersStay
<1>3. QED
  BY <1>1, <1>2

LEMMA CallsKept ==
  ASSUME Shape, Kept, [Next]_vars, NEW d \in Client
  PROVE  CallKept(d)'
<1>1. ASSUME NEW c \in Client, OthersStay(c),
             op'[c].kind \notin {"save"} \/ op'[c].ok = {}
      PROVE  CallKept(d)'
  <2>1. CASE d = c
    BY <1>1, <2>1 DEF CallKept
  <2>2. CASE d # c
    BY <1>1, <2>2, CallKeptStays DEF OthersStay
  <2>3. QED
    BY <2>1, <2>2
<1>2. ASSUME NEW c \in Client, NEW t \in Title, Save(c, t) PROVE CallKept(d)'
  BY <1>1, <1>2, SaveFacts DEF Begins
<1>3. ASSUME NEW c \in Client, NEW id \in KnownIds, Delete(c, id)
      PROVE  CallKept(d)'
  BY <1>1, <1>3, DeleteFacts DEF Begins
<1>4. ASSUME NEW c \in Client, Search(c) PROVE CallKept(d)'
  BY <1>1, <1>4, SearchFacts DEF Begins
<1>5. ASSUME NEW c \in Client, Answer(c) \/ GiveUp(c) \/ Command(c)
      PROVE  CallKept(d)'
  BY <1>1, <1>5, AnswerFacts DEF Idle
<1>6. ASSUME NEW c \in Client, FallBack(c) PROVE CallKept(d)'
  BY <1>1, <1>6, FallBackFacts
<1>7. ASSUME NEW c \in Client, ReadLocal(c) PROVE CallKept(d)'
  <2>1. CASE d = c
    BY <1>7, <2>1, ReadFacts, CallKeptStays DEF Same
  <2>2. CASE d # c
    BY <1>7, <2>2, ReadFacts, CallKeptStays DEF OthersStay
  <2>3. QED
    BY <2>1, <2>2
<1>8. ASSUME NEW c \in Client, WriteLocal(c) \/ AnswersLocal(c)
      PROVE  CallKept(d)'
  BY <1>8, SettleFacts, AnswersTake, SettledKept DEF Store
<1>9. ASSUME NEW c \in Client, AnswersEngram(c) PROVE CallKept(d)'
  BY <1>9, SettleFacts, AnswersTake, SettledKept DEF Store
<1>10. ASSUME NEW c \in Client, AnswersVault(c) PROVE CallKept(d)'
  BY <1>10, SettleFacts, AnswersTake, SettledKept DEF Store
<1>11. ASSUME NEW c \in Client,
              RejectsLocal(c) \/ RejectsEngram(c) \/ RejectsVault(c)
       PROVE  CallKept(d)'
  BY <1>11, SettleFacts, SettledKept DEF Store
<1>12. CASE op' = op
  BY <1>12, CallKeptStays
<1>13. ASSUME NEW c \in Client, PollReads(c) \/ PollEnds(c) PROVE op' = op
  BY <1>13 DEF PollReads, PollEnds
<1>14. CASE UNCHANGED vars
  BY <1>12, <1>14 DEF vars
<1>15. QED
  BY <1>2, <1>3, <1>4, <1>5, <1>6, <1>7, <1>8, <1>9, <1>10, <1>11, <1>12, <1>13,
    <1>14 DEF Next, StoreStep

\* The saves that are answered.
LEMMA HomeFacts ==
  ASSUME Shape, NEW c \in Client, Answer(c), op[c].kind = "save"
  PROVE  /\ Home(c) \in op[c].ok /\ Home(c) \in Store
         /\ ~ Degraded(c) => op[c].ok = chain[1]
<1>1. op[c] \in CallType /\ CallShape(c)
  BY DEF Shape
<1>2. op[c].ok # {} /\ op[c].ok \subseteq Store
  BY <1>1 DEF Answer, TierFailed, CallType
<1>3. ~ Degraded(c) => op[c].tier = 1 /\ op[c].ok = chain[op[c].tier]
  BY <1>1 DEF Degraded, CallShape
<1>4. QED
  BY <1>2, <1>3 DEF Home, Store

LEMMA AllAnswersKept ==
  ASSUME Shape, Kept, [Next]_vars PROVE AnswersKept'
<1>1. chain[1] \subseteq Store /\ \A m \in Saves : home[m] \in Store \cup {"none"}
  BY ChainFacts, SavesAreNumbers DEF Shape
<1>2. ASSUME NEW m \in Saves
      PROVE  /\ home[m] # "none" => HeldOrLost(home[m], m)
             /\ m \in whole => \A s \in chain[1] : HeldOrLost(s, m)
  BY DEF Kept, AnswersKept
<1>3. ASSUME NEW m \in Saves
      PROVE  /\ home[m] # "none" =>
                  \A s \in Store : s = home[m] => HeldOrLost(s, m)'
             /\ m \in whole => \A s \in chain[1] : HeldOrLost(s, m)'
  BY <1>1, <1>2, HeldStays
<1>4. ASSUME UNCHANGED <<chain, home, whole>>, Saves' = Saves PROVE AnswersKept'
  BY <1>1, <1>3, <1>4 DEF AnswersKept, HeldOrLost, Lost, Id, Shadowed
<1>5. ASSUME NEW c \in Client, NEW t \in Title, Save(c, t) PROVE AnswersKept'
  <2>1. UNCHANGED <<chain, home, whole>> /\ whole \subseteq Saves
    BY <1>5 DEF Save, Shape, StoreShape
  <2>2. Saves' = Saves \cup {Len(titles) + 1} /\ Len(titles) + 1 \notin Saves
    BY <1>5, TitlesFacts
  <2>3. home[Len(titles) + 1] = "none"
    <3>1. Len(titles) + 1 \in Memory
      BY <1>5, SavesAreNumbers, ClientConstants DEF Save, Memory
    <3>2. QED
      BY <2>2, <3>1 DEF Shape
  <2>4. QED
    BY <1>1, <1>3, <2>1, <2>2, <2>3 DEF AnswersKept, HeldOrLost, Lost, Id, Shadowed
<1>6. ASSUME NEW c \in Client, Answer(c) PROVE AnswersKept'
  <2>1. chain' = chain /\ Saves' = Saves
    BY <1>6 DEF Answer, Saves
  <2>2. CASE op[c].kind # "save"
    BY <1>4, <1>6, <2>1, <2>2 DEF Answer
  <2>3. CASE op[c].kind = "save"
    <3>1. PICK n \in Saves : n = op[c].memory
      BY <2>3 DEF Shape, CallShape
    <3>2. /\ home' = [home EXCEPT ![n] = Home(c)]
          /\ whole' = IF Degraded(c) THEN whole ELSE whole \cup {n}
      BY <1>6, <2>3, <3>1 DEF Answer
    <3>3. \A s \in op[c].ok : s \in Store /\ HeldOrLost(s, n)
      BY <2>3, <3>1 DEF Kept, CallKept, Shape, CallType
    <3>4. \A s \in op[c].ok : HeldOrLost(s, n)'
      BY <3>3, HeldStays
    <3>5. home \in [Memory -> Store \cup {"none"}] /\ n \in Memory
      BY <3>1, SavesAreNumbers DEF Shape
    <3>6. PICK h \in Store : h = Home(c)
      BY <1>6, <2>3, HomeFacts
    <3>7. HeldOrLost(h, n)' /\ (n \in whole' => n \in whole \/ op[c].ok = chain[1])
      BY <1>6, <2>3, <3>2, <3>4, <3>6, HomeFacts
    <3>8. home'[n] = h /\ \A m \in Saves \ {n} : home'[m] = home[m]
      BY <3>2, <3>5, <3>6
    <3>9. \A m \in Saves \ {n} : m \in whole' => m \in whole
      BY <3>2
    <3>10. QED
      BY <1>1, <1>3, <2>1, <3>4, <3>7, <3>8, <3>9
      DEF AnswersKept, HeldOrLost, Lost, Id, Shadowed
  <2>4. QED
    BY <2>2, <2>3
<1>7. CASE UNCHANGED <<chain, home, whole, titles>>
  BY <1>4, <1>7 DEF Saves
<1>8. ASSUME NEW c \in Client,
             StoreStep(c) \/ Command(c) \/ Search(c) \/ FallBack(c) \/ GiveUp(c)
      PROVE  UNCHANGED <<chain, home, whole, titles>>
  BY <1>8 DEF StoreStep, ReadLocal, WriteLocal, AnswersLocal, AnswersEngram,
    AnswersVault, PollReads, PollEnds, RejectsLocal, RejectsEngram,
    RejectsVault, Command, Search, FallBack, GiveUp
<1>9. ASSUME NEW c \in Client, NEW id \in KnownIds, Delete(c, id)
      PROVE  UNCHANGED <<chain, home, whole, titles>>
  BY <1>9 DEF Delete
<1>10. QED
  BY <1>5, <1>6, <1>7, <1>8, <1>9 DEF Next, vars

LEMMA KeptHolds == Spec => []Kept
<1>1. Init => Kept
  <2> SUFFICES ASSUME Init PROVE Kept
    OBVIOUS
  <2>1. Saves = {} /\ \A c \in Client : op[c] = NoOp /\ seen[c] = {}
    BY DEF Init, Saves
  <2>2. QED
    BY <2>1, NoOpFacts DEF Kept, AnswersKept, CallKept, CopyKept, CacheKept
<1>2. Shape /\ Kept /\ [Next]_vars => Kept'
  BY AllAnswersKept, CallsKept, CopiesKept, CachesKept DEF Kept
<1>3. QED
  BY <1>1, <1>2, ShapeHolds, PTL DEF Spec

\* A memory is where the answer to its save said it is, and in every store of
\* the main tier when the answer was not called degraded, unless its id was
\* deleted, another note took its title, or another call was about to write
\* the local file when the save wrote it.
THEOREM SavesAreKept == Spec => []SavesAreHeld
<1>1. Shape /\ Kept => SavesAreHeld
  <2> SUFFICES ASSUME Kept, NEW m \in Saves
               PROVE  /\ home[m] # "none" /\ ~ Lost(home[m], m) =>
                           m \in held[home[m]]
                      /\ m \in whole =>
                           \A s \in chain[1] : ~ Lost(s, m) => m \in held[s]
    BY DEF SavesAreHeld, Shape, StoreShape
  <2>1. /\ home[m] # "none" => HeldOrLost(home[m], m)
        /\ m \in whole => \A s \in chain[1] : HeldOrLost(s, m)
    BY DEF Kept, AnswersKept
  <2>2. QED
    BY <2>1 DEF HeldOrLost
<1>2. QED
  BY <1>1, KeptHolds, ShapeHolds, PTL
-----------------------------------------------------------------------------
(* The battery, and what a search finds *)

\* No two calls save the same memory, and its save is yet to be answered.
SavesPending ==
  /\ \A c, d \in Client :
       /\ op[c].kind = "save" /\ op[d].kind = "save"
       /\ op[c].memory = op[d].memory
       => c = d
  /\ \A c \in Client : op[c].kind = "save" => home[op[c].memory] = "none"

\* What the local store holds, or a call is about to write there.
Near(m) == m \in held["local"] \/ \E d \in Client : m \in op[d].copy

\* The local store takes a save only while it answers for it; the battery,
\* only when it is the tier that is asked.
SaveOnce(c) ==
  op[c].kind = "save" =>
    /\ Near(op[c].memory) => "local" \in op[c].ok
    /\ op[c].memory \in held["engram"] => "engram" \in chain[op[c].tier]

\* The battery holds nothing that the local store took.
Battery == \A m \in held["engram"] : ~ Near(m)

GivenUp(m) == Lost(home[m], m)

\* What is due was answered for by a store of the first tier, and has been
\* found if that store has answered; the vault's cache cannot miss it.
FindsDue(c) ==
  op[c].kind = "search" =>
    \A m \in op[c].due :
      /\ m \in Saves /\ home[m] \in Store
      /\ op[c].stage = "busy" =>
           /\ home[m] \in chain[1]
           /\ op[c].tier = 1 /\ home[m] \in op[c].ok =>
                m \in op[c].found \/ GivenUp(m)
           /\ (/\ op[c].tier = 1 /\ home[m] = "obsidian"
               /\ "obsidian" \in op[c].waiting /\ filled[c] # "no")
                => m \in seen[c]
      /\ op[c].stage = "done" => m \in op[c].found \/ GivenUp(m)

BatteryInv == Battery /\ \A c \in Client : SaveOnce(c)

\* A step that adds nothing to the local file, nor to what is about to be
\* written there.
Quiet == \A m : Near(m)' => Near(m)

LEMMA QuietFacts ==
  ASSUME Shape, NEW c \in Client, OthersStay(c), op' \in [Client -> CallType],
         held'["local"] \subseteq held["local"],
         op'[c].copy \subseteq op[c].copy \cup held["local"]
  PROVE  Quiet
BY DEF OthersStay, Near, Quiet

LEMMA PendingStays ==
  ASSUME SavesPending,
         \A d \in Client : op'[d].kind = "save" =>
           /\ op[d].kind = "save" /\ op'[d].memory = op[d].memory
           /\ home'[op[d].memory] = home[op[d].memory]
  PROVE  SavesPending'
BY DEF SavesPending

\* What the step of any client does to a save under way.
LEMMA SaveGoesOn ==
  ASSUME Shape, [Next]_vars, NEW d \in Client, op'[d].kind = "save"
  PROVE  \/ \E t \in Title : Save(d, t)
         \/ FallBack(d)
         \/ /\ op[d].kind = "save" /\ op'[d].memory = op[d].memory
            /\ op'[d].tier = op[d].tier /\ op[d].ok \subseteq op'[d].ok
<1> DEFINE Goal == /\ op[d].kind = "save" /\ op'[d].memory = op[d].memory
                   /\ op'[d].tier = op[d].tier /\ op[d].ok \subseteq op'[d].ok
<1>1. ASSUME NEW c \in Client, OthersStay(c), d # c PROVE Goal
  BY <1>1 DEF OthersStay
<1>2. ASSUME op' = op PROVE Goal
  BY <1>2
<1>3. ASSUME NEW c \in Client, NEW s \in Store, NEW ok \in BOOLEAN,
             Settles(c, s, ok)
      PROVE  Goal
  <2>1. CASE d = c
    BY <1>3, <2>1 DEF Settles, Same
  <2>2. CASE d # c
    BY <1>1, <1>3, <2>2 DEF Settles
  <2>3. QED
    BY <2>1, <2>2
<1>4. ASSUME NEW c \in Client, NEW t \in Title, Save(c, t), d # c PROVE Goal
  BY <1>1, <1>4, SaveFacts DEF Begins
<1>5. ASSUME NEW c \in Client, NEW id \in KnownIds, Delete(c, id) PROVE Goal
  <2>1. op'[c].kind = "delete" /\ OthersStay(c)
    BY <1>5, DeleteFacts DEF Begins
  <2>2. QED
    BY <1>1, <2>1
<1>6. ASSUME NEW c \in Client, Search(c) PROVE Goal
  <2>1. op'[c].kind = "search" /\ OthersStay(c)
    BY <1>6, SearchFacts DEF Begins
  <2>2. QED
    BY <1>1, <2>1
<1>7. ASSUME NEW c \in Client, Answer(c) \/ GiveUp(c) \/ Command(c) PROVE Goal
  <2>1. op'[c].kind \notin {"save", "delete"} /\ OthersStay(c)
    BY <1>7, AnswerFacts DEF Idle
  <2>2. QED
    BY <1>1, <2>1
<1>8. ASSUME NEW c \in Client, ReadLocal(c) PROVE Goal
  <2>1. CASE d = c
    BY <1>8, <2>1, ReadFacts DEF Same
  <2>2. CASE d # c
    BY <1>1, <1>8, <2>2, ReadFacts
  <2>3. QED
    BY <2>1, <2>2
<1>9. ASSUME NEW c \in Client,
             \/ WriteLocal(c) \/ AnswersLocal(c) \/ AnswersEngram(c)
             \/ AnswersVault(c) \/ RejectsLocal(c) \/ RejectsEngram(c)
             \/ RejectsVault(c)
      PROVE  Goal
  BY <1>3, <1>9, SettleFacts DEF Store
<1>10. ASSUME NEW c \in Client, FallBack(c), d # c PROVE Goal
  BY <1>1, <1>10, FallBackFacts
<1>11. ASSUME NEW c \in Client, PollReads(c) \/ PollEnds(c) PROVE op' = op
  BY <1>11 DEF PollReads, PollEnds
<1>12. UNCHANGED vars => op' = op
  BY DEF vars
<1> HIDE DEF Goal
<1>13. Goal \/ FallBack(d) \/ \E t \in Title : Save(d, t)
  <2>1. ASSUME NEW c \in Client, NEW t \in Title, Save(c, t)
        PROVE  Goal \/ \E x \in Title : Save(d, x)
    BY <1>4, <2>1
  <2>2. ASSUME NEW c \in Client, FallBack(c) PROVE Goal \/ FallBack(d)
    BY <1>10, <2>2
  <2>3. ASSUME NEW c \in Client, StoreStep(c) PROVE Goal
    BY <1>2, <1>8, <1>9, <1>11, <2>3 DEF StoreStep
  <2>4. CASE UNCHANGED vars
    BY <1>2, <1>12, <2>4
  <2>5. CASE Next
    BY <1>5, <1>6, <1>7, <2>1, <2>2, <2>3, <2>5 DEF Next
  <2>6. QED
    BY <2>4, <2>5
<1>14. QED
  BY <1>13 DEF Goal

\* A memory's home is set once.
LEMMA HomeStays ==
  ASSUME Shape, SavesPending, [Next]_vars
  PROVE  /\ \A m \in Saves : home[m] # "none" => home'[m] = home[m]
         /\ \A d \in Client :
              op[d].kind = "save" /\ op'[d].kind = "save" =>
                home'[op[d].memory] = home[op[d].memory]
<1>1. CASE home' = home
  BY <1>1
<1>2. ASSUME NEW c \in Client, Answer(c), op[c].kind = "save"
      PROVE  /\ \A m \in Saves : home[m] # "none" => home'[m] = home[m]
             /\ \A d \in Client :
                  op[d].kind = "save" /\ op'[d].kind = "save" =>
                    home'[op[d].memory] = home[op[d].memory]
  <2>1. /\ home' = [home EXCEPT ![op[c].memory] = Home(c)]
        /\ home[op[c].memory] = "none" /\ op'[c].kind # "save"
        /\ home \in [Memory -> Store \cup {"none"}] /\ Saves \subseteq Memory
    BY <1>2, AnswerFacts, SavesAreNumbers
    DEF Answer, SavesPending, Idle, Shape
  <2>2. \A d \in Client \ {c} : op[d].kind = "save" =>
          op[d].memory # op[c].memory /\ op[d].memory \in Saves
    BY <1>2 DEF SavesPending, Shape, CallShape
  <2>3. QED
    BY <2>1, <2>2
<1>3. ASSUME NEW c \in Client, Answer(c), op[c].kind # "save"
      PROVE  home' = home
  BY <1>3 DEF Answer
<1>4. ASSUME NEW c \in Client,
             StoreStep(c) \/ Command(c) \/ Search(c) \/ FallBack(c) \/ GiveUp(c)
      PROVE  home' = home
  BY <1>4 DEF StoreStep, ReadLocal, WriteLocal, AnswersLocal, AnswersEngram,
    AnswersVault, PollReads, PollEnds, RejectsLocal, RejectsEngram,
    RejectsVault, Command, Search, FallBack, GiveUp
<1>5. ASSUME NEW c \in Client, NEW id \in KnownIds, Delete(c, id)
      PROVE  home' = home
  BY <1>5 DEF Delete
<1>6. ASSUME NEW c \in Client, NEW t \in Title, Save(c, t) PROVE home' = home
  BY <1>6 DEF Save
<1>7. QED
  BY <1>1, <1>2, <1>3, <1>4, <1>5, <1>6 DEF Next, vars

LEMMA PendingNext ==
  ASSUME Shape, SavesPending, [Next]_vars
  PROVE  SavesPending'
<1>1. ASSUME NEW c \in Client, NEW t \in Title, Save(c, t) PROVE SavesPending'
  <2>1. /\ home' = home /\ op'[c].memory = Len(titles) + 1 /\ OthersStay(c)
        /\ Len(titles) + 1 \notin Saves
    BY <1>1, SaveFacts, TitlesFacts DEF Save, Begins
  <2>2. home[Len(titles) + 1] = "none"
    <3>1. Len(titles) + 1 \in Memory
      BY <1>1, SavesAreNumbers, ClientConstants DEF Save, Memory
    <3>2. QED
      BY <2>1, <3>1 DEF Shape
  <2>3. \A d \in Client \ {c} : op'[d].kind = "save" =>
          op'[d] = op[d] /\ op'[d].memory \in Saves
    BY <2>1 DEF OthersStay, Shape, CallShape
  <2>4. QED
    BY <2>1, <2>2, <2>3 DEF SavesPending
<1>2. ASSUME \A d \in Client, t \in Title : ~ Save(d, t) PROVE SavesPending'
  <2>1. ASSUME NEW d \in Client, op'[d].kind = "save"
        PROVE  op[d].kind = "save" /\ op'[d].memory = op[d].memory
    BY <1>2, <2>1, SaveGoesOn, FallBackFacts
  <2>2. QED
    BY <2>1, HomeStays, PendingStays
<1>3. QED
  BY <1>1, <1>2

\* A save's mark on the stores outlives a step that gives them nothing of it.
LEMMA SaveOnceStays ==
  ASSUME Shape, chain' = chain, NEW d \in Client, SaveOnce(d),
         op[d].kind = "save", op'[d].memory = op[d].memory,
         op'[d].tier = op[d].tier, op[d].ok \subseteq op'[d].ok,
         Near(op[d].memory)' => Near(op[d].memory) \/ "local" \in op'[d].ok,
         op[d].memory \in held'["engram"] =>
           op[d].memory \in held["engram"] \/ "engram" \in chain[op[d].tier]
  PROVE  SaveOnce(d)'
<1>1. PICK m : m = op[d].memory /\ m = op'[d].memory
  OBVIOUS
<1>2. Near(m)' => "local" \in op'[d].ok
  BY <1>1 DEF SaveOnce, Near
<1>3. m \in held'["engram"] => "engram" \in chain'[op'[d].tier]
  BY <1>1 DEF SaveOnce
<1>4. QED
  BY <1>1, <1>2, <1>3 DEF SaveOnce, Near

\* The last tier alone is the battery.
LEMMA BatteryAlone ==
  ASSUME Shape, NEW c \in Client, "engram" \in chain[op[c].tier]
  PROVE  /\ chain[op[c].tier] = {"engram"} /\ op[c].tier = Len(chain)
         /\ "local" \notin op[c].ok /\ "local" \notin op[c].waiting
BY ChainFacts DEF Shape, CallShape

LEMMA BatteryNext ==
  ASSUME Shape, SavesPending, BatteryInv, [Next]_vars
  PROVE  BatteryInv'
<1>0. /\ op \in [Client -> CallType] /\ held \in [Store -> SUBSET Saves]
      /\ "local" \in Store /\ "engram" \in Store
      /\ \A c \in Client : CallShape(c) /\ SaveOnce(c)
      /\ Battery
  BY DEF Shape, StoreShape, Store, BatteryInv
<1>c. chain' = chain
  BY DEF Next, StoreStep, vars, Command, Save, Delete, Search, ReadLocal,
    WriteLocal, AnswersLocal, AnswersEngram, AnswersVault, PollReads, PollEnds,
    RejectsLocal, RejectsEngram, RejectsVault, FallBack, GiveUp, Answer
<1>1. ASSUME Quiet, held'["engram"] = held["engram"] PROVE BatteryInv'
  <2>1. Battery'
    BY <1>0, <1>1 DEF Battery, Quiet, Near
  <2>2. ASSUME NEW d \in Client, op'[d].kind = "save" PROVE SaveOnce(d)'
    <3>1. CASE \E t \in Title : Save(d, t)
      <4>1. op'[d].memory = Len(titles) + 1 /\ Len(titles) + 1 \notin Saves
        BY <3>1, SaveFacts, TitlesFacts
      <4>2. ~ Near(Len(titles) + 1)
        BY <1>0, <4>1 DEF Near, CallShape
      <4>3. PICK m : m = op'[d].memory /\ m = Len(titles) + 1
        BY <4>1
      <4>4. ~ Near(m)'
        BY <1>1, <4>2, <4>3 DEF Quiet
      <4>5. m \notin held'["engram"]
        BY <1>0, <1>1, <4>1, <4>3
      <4>6. QED
        BY <4>3, <4>4, <4>5 DEF SaveOnce, Near
    <3>2. CASE FallBack(d)
      <4>1. /\ op[d].kind = "save" /\ op'[d].memory = op[d].memory
            /\ op[d].ok = {} /\ op[d].tier < Len(chain)
        BY <2>2, <3>2, FallBackFacts
      <4>2. PICK m : m = op[d].memory /\ m = op'[d].memory
        BY <4>1
      <4>3. ~ Near(m)
        BY <1>0, <4>1, <4>2 DEF SaveOnce
      <4>4. ~ Near(m)'
        BY <1>1, <4>3 DEF Quiet
      <4>5. "engram" \notin chain[op[d].tier]
        BY <4>1, BatteryAlone, ChainFacts DEF Shape
      <4>6. m \notin held["engram"]
        BY <1>0, <4>1, <4>2, <4>5 DEF SaveOnce
      <4>7. QED
        BY <1>1, <4>2, <4>4, <4>6 DEF SaveOnce, Near
    <3>3. CASE /\ op[d].kind = "save" /\ op'[d].memory = op[d].memory
               /\ op'[d].tier = op[d].tier /\ op[d].ok \subseteq op'[d].ok
      <4>1. Near(op[d].memory)' => Near(op[d].memory)
        <5>1. PICK m : m = op[d].memory /\ m = op'[d].memory
          BY <3>3
        <5>2. Near(m)' => Near(m)
          BY <1>1 DEF Quiet
        <5>3. QED
          BY <5>1, <5>2 DEF Near
      <4>2. QED
        BY <1>0, <1>1, <1>c, <3>3, <4>1, SaveOnceStays
    <3>4. QED
      BY <2>2, <3>1, <3>2, <3>3, SaveGoesOn
  <2>3. QED
    BY <2>1, <2>2 DEF BatteryInv, SaveOnce
<1>2. ASSUME NEW c \in Client, AnswersEngram(c) \/ RejectsEngram(c)
      PROVE  BatteryInv'
  <2>1. /\ OthersStay(c) /\ op' \in [Client -> CallType] /\ Same(op'[c], op[c])
        /\ op[c].ok \subseteq op'[c].ok /\ "engram" \in op[c].waiting
        /\ op'[c].copy \subseteq op[c].copy
    BY <1>2, SettleFacts DEF Settles
  <2>2. /\ held'["local"] = held["local"]
        /\ \A m \in held'["engram"] : \/ m \in held["engram"]
                                      \/ /\ op[c].kind = "save"
                                         /\ m = op[c].memory
    BY <1>0, <1>2, EngramKeeps
  <2>3. Quiet
    BY <2>1, <2>2, QuietFacts
  <2>4. "engram" \in chain[op[c].tier]
    BY <1>0, <2>1 DEF CallShape
  <2>5. "local" \notin op[c].ok
    BY <2>4, BatteryAlone
  <2>6. op[c].kind = "save" => ~ Near(op[c].memory)
    BY <1>0, <2>5 DEF SaveOnce
  <2>7. Battery'
    <3>1. ASSUME NEW m \in held'["engram"] PROVE ~ Near(m)'
      <4>1. ~ Near(m)
        BY <1>0, <2>2, <2>6, <3>1 DEF Battery
      <4>2. QED
        BY <2>3, <4>1 DEF Quiet
    <3>2. QED
      BY <3>1 DEF Battery, Near
  <2>8. ASSUME NEW d \in Client, op'[d].kind = "save" PROVE SaveOnce(d)'
    <3>1. /\ op[d].kind = "save" /\ op'[d].memory = op[d].memory
          /\ op'[d].tier = op[d].tier /\ op[d].ok \subseteq op'[d].ok
      BY <2>1, <2>8 DEF OthersStay, Same
    <3>2. op[d].memory \in held'["engram"] =>
            op[d].memory \in held["engram"] \/ "engram" \in chain[op[d].tier]
      BY <2>2, <2>4, <3>1 DEF SavesPending
    <3>3. Near(op[d].memory)' => Near(op[d].memory)
      <4>1. PICK m : m = op[d].memory /\ m = op'[d].memory
        BY <3>1
      <4>2. Near(m)' => Near(m)
        BY <2>3 DEF Quiet
      <4>3. QED
        BY <4>1, <4>2 DEF Near
    <3>4. QED
      BY <1>0, <1>c, <3>1, <3>2, <3>3, SaveOnceStays
  <2>9. QED
    BY <2>7, <2>8 DEF BatteryInv, SaveOnce
<1>3. ASSUME NEW c \in Client, WriteLocal(c) PROVE BatteryInv'
  <2>1. /\ OthersStay(c) /\ op' \in [Client -> CallType] /\ Same(op'[c], op[c])
        /\ op'[c].ok = op[c].ok \cup {"local"} /\ "local" \in op[c].waiting
        /\ op'[c].copy \subseteq op[c].copy
    BY <1>3, WriteFacts DEF Settles
  <2>2. held'["engram"] = held["engram"]
    BY <1>0, <1>3, LocalOthers
  <2>3. held'["local"] \subseteq op[c].copy
          \cup {m \in Saves : op[c].kind = "save" /\ m = op[c].memory}
    BY <1>0, <1>3 DEF WriteLocal, CallShape
  <2>4. ASSUME NEW m, Near(m)'
        PROVE  Near(m) \/ (op[c].kind = "save" /\ m = op[c].memory)
    BY <2>1, <2>3, <2>4 DEF Near, OthersStay
  <2>5. op[c].kind = "save" => op[c].memory \notin held["engram"]
    BY <1>0, <2>1, BatteryAlone DEF SaveOnce
  <2>6. Battery'
    <3>1. ASSUME NEW m \in held'["engram"] PROVE ~ Near(m)'
      BY <1>0, <2>2, <2>4, <2>5, <3>1 DEF Battery
    <3>2. QED
      BY <3>1 DEF Battery, Near
  <2>7. ASSUME NEW d \in Client, op'[d].kind = "save" PROVE SaveOnce(d)'
    <3>1. /\ op[d].kind = "save" /\ op'[d].memory = op[d].memory
          /\ op'[d].tier = op[d].tier /\ op[d].ok \subseteq op'[d].ok
      BY <2>1, <2>7 DEF OthersStay, Same
    <3>2. PICK m : m = op[d].memory /\ m = op'[d].memory
      BY <3>1
    <3>3. Near(m)' => Near(m) \/ "local" \in op'[d].ok
      <4>1. CASE d = c
        BY <2>1, <4>1
      <4>2. CASE d # c
        BY <2>4, <3>1, <3>2, <4>2 DEF SavesPending
      <4>3. QED
        BY <4>1, <4>2
    <3>4. Near(op[d].memory)' => Near(op[d].memory) \/ "local" \in op'[d].ok
      BY <3>2, <3>3 DEF Near
    <3>5. QED
      BY <1>0, <1>c, <2>2, <3>1, <3>4, SaveOnceStays
  <2>8. QED
    BY <2>6, <2>7 DEF BatteryInv, SaveOnce
<1>4. ASSUME NEW c \in Client, ReadLocal(c) PROVE BatteryInv'
  <2>1. held' = held
    BY <1>4 DEF ReadLocal
  <2>2. Quiet
    BY <1>4, <2>1, ReadFacts, QuietFacts
  <2>3. QED
    BY <1>1, <2>1, <2>2
<1>5. ASSUME NEW c \in Client, OthersStay(c), op' \in [Client -> CallType],
             held' = held, op'[c].copy \subseteq op[c].copy
      PROVE  BatteryInv'
  <2>1. Quiet
    BY <1>5, QuietFacts
  <2>2. QED
    BY <1>1, <1>5, <2>1
<1>6. ASSUME NEW c \in Client, NEW kind, Begins(c, kind), held' = held
      PROVE  BatteryInv'
  BY <1>5, <1>6 DEF Begins
<1>7. ASSUME NEW c \in Client, NEW t \in Title, Save(c, t) PROVE BatteryInv'
  BY <1>6, <1>7, SaveFacts DEF Save
<1>8. ASSUME NEW c \in Client, NEW id \in KnownIds, Delete(c, id)
      PROVE  BatteryInv'
  BY <1>6, <1>8, DeleteFacts DEF Delete
<1>9. ASSUME NEW c \in Client, Search(c) PROVE BatteryInv'
  BY <1>6, <1>9, SearchFacts DEF Search
<1>10. ASSUME NEW c \in Client, Answer(c) \/ GiveUp(c) \/ Command(c)
       PROVE  BatteryInv'
  <2>1. held' = held
    BY <1>10 DEF Answer, GiveUp, Command
  <2>2. QED
    BY <1>5, <1>10, <2>1, AnswerFacts DEF Idle
<1>11. ASSUME NEW c \in Client, FallBack(c) PROVE BatteryInv'
  <2>1. held' = held
    BY <1>11 DEF FallBack
  <2>2. QED
    BY <1>5, <1>11, <2>1, FallBackFacts
<1>12. ASSUME NEW c \in Client, AnswersLocal(c) \/ RejectsLocal(c)
       PROVE  BatteryInv'
  <2>1. held' = held
    BY <1>12 DEF AnswersLocal, RejectsLocal
  <2>2. QED
    BY <1>5, <1>12, <2>1, SettleFacts DEF Settles
<1>13. ASSUME NEW c \in Client, AnswersVault(c) \/ RejectsVault(c)
       PROVE  BatteryInv'
  <2>1. held'["local"] = held["local"] /\ held'["engram"] = held["engram"]
    BY <1>0, <1>13, VaultOthers
  <2>2. OthersStay(c) /\ op' \in [Client -> CallType] /\ op'[c].copy \subseteq op[c].copy
    BY <1>13, SettleFacts DEF Settles
  <2>3. Quiet
    BY <2>1, <2>2, QuietFacts
  <2>4. QED
    BY <1>1, <2>1, <2>3
<1>14. ASSUME held' = held, op' = op PROVE BatteryInv'
  <2>1. Quiet
    BY <1>14 DEF Quiet, Near
  <2>2. QED
    BY <1>1, <1>14, <2>1
<1>15. ASSUME NEW c \in Client, PollReads(c) \/ PollEnds(c)
       PROVE  held' = held /\ op' = op
  BY <1>15 DEF PollReads, PollEnds
<1>16. CASE UNCHANGED vars
  BY <1>14, <1>16 DEF vars
<1>17. CASE Next
  BY <1>2, <1>3, <1>4, <1>7, <1>8, <1>9, <1>10, <1>11, <1>12, <1>13, <1>14,
    <1>15, <1>17 DEF Next, StoreStep
<1>18. QED
  BY <1>16, <1>17

LEMMA GivenUpStays ==
  ASSUME Grows, NEW m \in Saves, home[m] \in Store, home'[m] = home[m],
         GivenUp(m)
  PROVE  GivenUp(m)'
<1>1. PICK s \in Store : s = home[m] /\ s = home'[m]
  OBVIOUS
<1>2. Lost(s, m)'
  BY <1>1, LostStays DEF GivenUp
<1>3. QED
  BY <1>1, <1>2 DEF GivenUp, Lost, Id, Shadowed

\* The vault's answer to a search has what the client cannot miss.
LEMMA LookFinds ==
  ASSUME Shape, Kept, NEW c \in Client, NEW m \in Saves,
         home[m] = "obsidian", filled[c] # "no" => m \in seen[c]
  PROVE  GivenUp(m) \/ m \in Notes(c)
<1>1. m \in Found(c)
  BY DEF Found
<1>2. QED
  BY <1>1, FoundFacts DEF GivenUp

\* What is due outlives a step that leaves the search alone.
LEMMA DueStays ==
  ASSUME Shape, Grows, NEW d \in Client, FindsDue(d), chain' = chain,
         Same(op'[d], op[d]), op'[d].ok \subseteq op[d].ok,
         op[d].found \subseteq op'[d].found,
         op'[d].waiting \subseteq op[d].waiting,
         \A m \in Saves : home[m] # "none" => home'[m] = home[m],
         "obsidian" \in op'[d].waiting /\ op'[d].kind = "search" =>
           filled'[d] = filled[d] /\ seen'[d] = seen[d]
  PROVE  FindsDue(d)'
<1>1. ASSUME NEW m \in Saves, home[m] \in Store
      PROVE  /\ home'[m] = home[m] /\ m \in Saves'
             /\ GivenUp(m) => GivenUp(m)'
  BY <1>1, GivenUpStays DEF Store, Grows
<1> SUFFICES ASSUME op'[d].kind = "search", NEW m \in op'[d].due
    PROVE  /\ m \in Saves' /\ home'[m] \in Store
           /\ op'[d].stage = "busy" =>
                /\ home'[m] \in chain[1]
                /\ op'[d].tier = 1 /\ home'[m] \in op'[d].ok =>
                     m \in op'[d].found \/ GivenUp(m)'
                /\ (/\ op'[d].tier = 1 /\ home'[m] = "obsidian"
                    /\ "obsidian" \in op'[d].waiting /\ filled'[d] # "no")
                     => m \in seen'[d]
           /\ op'[d].stage = "done" =>
                m \in op'[d].found \/ GivenUp(m)'
  BY DEF FindsDue
<1>2. /\ op[d].kind = "search" /\ m \in op[d].due
      /\ op'[d].stage = op[d].stage /\ op'[d].tier = op[d].tier
  BY DEF Same
<1>3. m \in Saves /\ home[m] \in Store
  BY <1>2 DEF FindsDue
<1>4. /\ home'[m] = home[m] /\ m \in Saves'
      /\ GivenUp(m) => GivenUp(m)'
  BY <1>1, <1>3
<1>5. QED
  BY <1>2, <1>3, <1>4 DEF FindsDue

\* A store of the first tier has answered a search.
LEMMA SearchFinds ==
  ASSUME Shape, Kept, Grows, NEW c \in Client, NEW s \in Store,
         NEW F \in SUBSET Nat, FindsDue(c), op[c].kind = "search",
         Settles(c, s, TRUE), op'[c].found = op[c].found \cup F,
         UNCHANGED <<chain, home>>, s # "obsidian" => UNCHANGED <<filled, seen>>,
         \A m \in op[c].due :
           op[c].stage = "busy" /\ op[c].tier = 1 /\ home[m] = s =>
             m \in F \/ GivenUp(m)
  PROVE  FindsDue(c)'
<1> SUFFICES ASSUME NEW m \in op'[c].due
    PROVE  /\ m \in Saves' /\ home'[m] \in Store
           /\ op'[c].stage = "busy" =>
                /\ home'[m] \in chain[1]
                /\ op'[c].tier = 1 /\ home'[m] \in op'[c].ok =>
                     m \in op'[c].found \/ GivenUp(m)'
                /\ (/\ op'[c].tier = 1 /\ home'[m] = "obsidian"
                    /\ "obsidian" \in op'[c].waiting /\ filled'[c] # "no")
                     => m \in seen'[c]
           /\ op'[c].stage = "done" => m \in op'[c].found \/ GivenUp(m)'
  BY DEF FindsDue
<1>1. /\ op'[c].kind = "search" /\ m \in op[c].due
      /\ op'[c].stage = op[c].stage /\ op'[c].tier = op[c].tier
      /\ op'[c].ok = op[c].ok \cup {s}
      /\ op'[c].waiting = op[c].waiting \ {s}
      /\ s \in op[c].waiting
  BY DEF Settles, Same
<1>2. /\ m \in Saves /\ home[m] \in Store /\ home'[m] = home[m] /\ m \in Saves'
      /\ op[c].stage = "busy"
  BY <1>1 DEF FindsDue, Grows, Shape, CallShape
<1>3. GivenUp(m) => GivenUp(m)'
  BY <1>2, GivenUpStays
<1>4. QED
  BY <1>1, <1>2, <1>3 DEF FindsDue

LEMMA FindsNext ==
  ASSUME Shape, Kept, SavesPending, [Next]_vars, NEW d \in Client, FindsDue(d)
  PROVE  FindsDue(d)'
<1>g. Grows /\ \A m \in Saves : home[m] # "none" => home'[m] = home[m]
  BY GrowsNext, HomeStays
<1>c. chain' = chain
  BY DEF Next, StoreStep, vars, Command, Save, Delete, Search, ReadLocal,
    WriteLocal, AnswersLocal, AnswersEngram, AnswersVault, PollReads, PollEnds,
    RejectsLocal, RejectsEngram, RejectsVault, FallBack, GiveUp, Answer
<1>1. ASSUME op'[d] = op[d], filled'[d] = filled[d], seen'[d] = seen[d]
      PROVE  FindsDue(d)'
  BY <1>g, <1>c, <1>1, DueStays DEF Same
<1>2. ASSUME op'[d].kind # "search" PROVE FindsDue(d)'
  BY <1>2 DEF FindsDue
<1>3. ASSUME UNCHANGED <<filled, seen>>, NEW c \in Client, OthersStay(c), d # c
      PROVE  FindsDue(d)'
  BY <1>1, <1>3 DEF OthersStay
<1>4. ASSUME NEW c \in Client, NEW t \in Title, Save(c, t) PROVE FindsDue(d)'
  <2>1. OthersStay(c) /\ op'[c].kind = "save" /\ UNCHANGED <<filled, seen>>
    BY <1>4, SaveFacts DEF Begins, Save, vault
  <2>2. QED
    BY <1>2, <1>3, <2>1
<1>5. ASSUME NEW c \in Client, NEW id \in KnownIds, Delete(c, id)
      PROVE  FindsDue(d)'
  <2>1. OthersStay(c) /\ op'[c].kind = "delete" /\ UNCHANGED <<filled, seen>>
    BY <1>5, DeleteFacts DEF Begins, Delete, vault
  <2>2. QED
    BY <1>2, <1>3, <2>1
<1>6. ASSUME NEW c \in Client, Search(c) PROVE FindsDue(d)'
  <2>1. /\ OthersStay(c) /\ op'[c].due = Due(c) /\ op'[c].stage = "busy"
        /\ op'[c].ok = {} /\ UNCHANGED <<filled, seen, home, titles>>
    BY <1>6, SearchFacts DEF Begins, Search, vault
  <2>2. CASE d = c
    <3>1. chain[1] \subseteq Store /\ Saves' = Saves
      BY <2>1, ChainFacts DEF Shape, Saves
    <3>2. \A m \in op'[c].due :
            /\ m \in Saves /\ home[m] \in chain[1]
            /\ home[m] = "obsidian" /\ filled[c] # "no" => m \in seen[c]
      BY <2>1 DEF Due
    <3>3. QED
      BY <1>c, <2>1, <2>2, <3>1, <3>2 DEF FindsDue
  <2>3. CASE d # c
    BY <1>3, <2>1, <2>3
  <2>4. QED
    BY <2>2, <2>3
<1>7. ASSUME NEW c \in Client, GiveUp(c) PROVE FindsDue(d)'
  <2>1. OthersStay(c) /\ op'[c].kind = "none" /\ UNCHANGED <<filled, seen>>
    BY <1>7, AnswerFacts, NoOpFacts DEF GiveUp, vault, Shape
  <2>2. QED
    BY <1>2, <1>3, <2>1
<1>8. ASSUME NEW c \in Client, Command(c) PROVE FindsDue(d)'
  <2>1. OthersStay(c) /\ op'[c].kind = "none"
    BY <1>8, AnswerFacts, NoOpFacts DEF Command, Shape
  <2>2. d # c => filled'[d] = filled[d] /\ seen'[d] = seen[d]
    BY <1>8 DEF Command, Shape, StoreShape
  <2>3. QED
    BY <1>1, <1>2, <2>1, <2>2 DEF OthersStay
<1>9. ASSUME NEW c \in Client, ReadLocal(c) PROVE FindsDue(d)'
  <2>1. /\ OthersStay(c) /\ op'[c].kind = op[c].kind
        /\ op[c].kind \in {"save", "delete"} /\ UNCHANGED <<filled, seen>>
    BY <1>9, ReadFacts DEF ReadLocal, Same, vault
  <2>2. QED
    BY <1>2, <1>3, <2>1
<1>10. ASSUME NEW c \in Client, WriteLocal(c) PROVE FindsDue(d)'
  <2>1. /\ OthersStay(c) /\ op'[c].kind = op[c].kind
        /\ op[c].kind \in {"save", "delete"} /\ UNCHANGED <<filled, seen>>
    BY <1>10, WriteFacts DEF WriteLocal, Settles, Same, vault, Shape, CallShape
  <2>2. QED
    BY <1>2, <1>3, <2>1
<1>11. ASSUME NEW c \in Client, AnswersLocal(c) PROVE FindsDue(d)'
  <2>1. /\ Settles(c, "local", TRUE) /\ OthersStay(c)
        /\ UNCHANGED <<home, filled, seen>>
    BY <1>11, SettleFacts DEF AnswersLocal, vault, Settles
  <2>2. CASE d = c /\ op[c].kind = "search"
    <3>1. held["local"] \subseteq Nat /\ "local" \in Store
      BY NotesFacts, SavesAreNumbers DEF Store
    <3>2. op'[c].found = op[c].found \cup held["local"]
      BY <1>11, <2>2, <3>1, RepliesFacts DEF AnswersLocal
    <3>3. ASSUME NEW m \in op[c].due, home[m] = "local"
          PROVE  m \in held["local"] \/ GivenUp(m)
      BY <2>2, <3>3 DEF FindsDue, Kept, AnswersKept, HeldOrLost, GivenUp
    <3>4. QED
      BY <1>g, <1>c, <2>1, <2>2, <3>1, <3>2, <3>3, SearchFinds
  <2>3. CASE d = c /\ op[c].kind # "search"
    BY <1>2, <2>1, <2>3 DEF Settles, Same
  <2>4. CASE d # c
    BY <1>3, <2>1, <2>4
  <2>5. QED
    BY <2>2, <2>3, <2>4
<1>12. ASSUME NEW c \in Client, AnswersEngram(c) PROVE FindsDue(d)'
  <2>1. /\ Settles(c, "engram", TRUE) /\ OthersStay(c)
        /\ UNCHANGED <<home, filled, seen>>
    BY <1>12, SettleFacts DEF AnswersEngram, vault, Settles
  <2>2. CASE d = c /\ op[c].kind = "search"
    <3>1. held["engram"] \subseteq Nat /\ "engram" \in Store
      BY NotesFacts, SavesAreNumbers DEF Store
    <3>2. op'[c].found = op[c].found \cup held["engram"]
      BY <1>12, <2>2, <3>1, RepliesFacts DEF AnswersEngram
    <3>3. ASSUME NEW m \in op[c].due, op[c].stage = "busy"
          PROVE  home[m] # "engram"
      BY <2>2, <3>3, ChainFacts DEF FindsDue, Shape
    <3>4. QED
      BY <1>g, <1>c, <2>1, <2>2, <3>1, <3>2, <3>3, SearchFinds
  <2>3. CASE d = c /\ op[c].kind # "search"
    BY <1>2, <2>1, <2>3 DEF Settles, Same
  <2>4. CASE d # c
    BY <1>3, <2>1, <2>4
  <2>5. QED
    BY <2>2, <2>3, <2>4
<1>13. ASSUME NEW c \in Client, AnswersVault(c) PROVE FindsDue(d)'
  <2>1. Settles(c, "obsidian", TRUE) /\ OthersStay(c) /\ home' = home
    BY <1>13, SettleFacts DEF AnswersVault, Settles
  <2>2. CASE d = c /\ op[c].kind = "search"
    <3>1. Notes(c) \subseteq Nat /\ "obsidian" \in Store
      BY NotesFacts, SavesAreNumbers DEF Store
    <3>2. /\ op'[c].found = op[c].found \cup Notes(c)
          /\ "obsidian" \in op[c].waiting
      BY <1>13, <2>2, <3>1, RepliesFacts DEF AnswersVault, Asked
    <3>3. ASSUME NEW m \in op[c].due, op[c].stage = "busy", op[c].tier = 1,
                 home[m] = "obsidian"
          PROVE  m \in Notes(c) \/ GivenUp(m)
      <4>1. m \in Saves /\ (filled[c] # "no" => m \in seen[c])
        BY <2>2, <3>2, <3>3 DEF FindsDue
      <4>2. QED
        BY <3>3, <4>1, LookFinds
    <3>4. QED
      BY <1>g, <1>c, <2>1, <2>2, <3>1, <3>2, <3>3, SearchFinds
  <2>3. CASE d = c /\ op[c].kind # "search"
    BY <1>2, <2>1, <2>3 DEF Settles, Same
  <2>4. CASE d # c
    <3>1. filled'[d] = filled[d] /\ seen'[d] = seen[d]
      BY <1>13, <2>4
      DEF AnswersVault, Sync, Unlink, Look, Keeps, Shape, StoreShape
    <3>2. QED
      BY <1>1, <2>1, <2>4, <3>1 DEF OthersStay
  <2>5. QED
    BY <2>2, <2>3, <2>4
<1>14. ASSUME NEW c \in Client, RejectsLocal(c) \/ RejectsEngram(c)
       PROVE  FindsDue(d)'
  <2>1. UNCHANGED <<filled, seen>>
    BY <1>14 DEF RejectsLocal, RejectsEngram, vault
  <2>2. /\ OthersStay(c) /\ Same(op'[c], op[c]) /\ op'[c].ok = op[c].ok
        /\ op'[c].found = op[c].found /\ op'[c].waiting \subseteq op[c].waiting
    BY <1>14, SettleFacts DEF Settles
  <2>3. CASE d = c
    BY <1>g, <1>c, <2>1, <2>2, <2>3, DueStays
  <2>4. CASE d # c
    BY <1>3, <2>1, <2>2, <2>4
  <2>5. QED
    BY <2>3, <2>4
<1>15. ASSUME NEW c \in Client, RejectsVault(c) PROVE FindsDue(d)'
  <2>1. /\ OthersStay(c) /\ Same(op'[c], op[c]) /\ op'[c].ok = op[c].ok
        /\ op'[c].found = op[c].found
        /\ op'[c].waiting = op[c].waiting \ {"obsidian"}
    BY <1>15, SettleFacts DEF Settles
  <2>2. CASE d = c
    BY <1>g, <1>c, <2>1, <2>2, DueStays
  <2>3. CASE d # c
    <3>1. filled'[d] = filled[d] /\ seen'[d] = seen[d]
      BY <1>15, <2>3 DEF RejectsVault, Unlink, Keeps, Shape, StoreShape
    <3>2. QED
      BY <1>1, <2>1, <2>3, <3>1 DEF OthersStay
  <2>4. QED
    BY <2>2, <2>3
<1>16. ASSUME NEW c \in Client, PollReads(c) \/ PollEnds(c)
       PROVE  UNCHANGED <<op, filled, seen>>
  BY <1>16 DEF PollReads, PollEnds
<1>17. ASSUME NEW c \in Client, FallBack(c) PROVE FindsDue(d)'
  <2>1. /\ OthersStay(c) /\ op'[c].kind = op[c].kind /\ op'[c].stage = "busy"
        /\ op'[c].due = op[c].due /\ op'[c].tier # 1
        /\ op[c].stage = "busy" /\ UNCHANGED <<titles, home, filled, seen>>
    <3>1. op[c].tier \in 1 .. Len(chain) /\ Len(chain) \in Nat
      BY ChainFacts DEF Shape, CallShape
    <3>2. /\ OthersStay(c) /\ op'[c].kind = op[c].kind
          /\ op'[c].stage = "busy" /\ op'[c].due = op[c].due
          /\ op'[c].tier = op[c].tier + 1
      BY <1>17, FallBackFacts
    <3>3. op'[c].tier # 1
      BY <3>1, <3>2
    <3>4. op[c].stage = "busy" /\ UNCHANGED <<titles, home, filled, seen>>
      BY <1>17 DEF FallBack, Settled, vault
    <3>5. QED
      BY <3>2, <3>3, <3>4
  <2>2. CASE d = c
    BY <1>c, <2>1, <2>2 DEF FindsDue, Saves
  <2>3. CASE d # c
    BY <1>3, <2>1, <2>3
  <2>4. QED
    BY <2>2, <2>3
<1>18. ASSUME NEW c \in Client, Answer(c) PROVE FindsDue(d)'
  <2>1. OthersStay(c) /\ UNCHANGED <<titles, stamp, deleted, raced, filled, seen>>
    BY <1>18, AnswerFacts DEF Answer, vault
  <2>2. CASE d # c
    BY <1>3, <2>1, <2>2
  <2>3. CASE d = c /\ (op[c].kind # "search" \/ Degraded(c))
    <3>1. op'[c].kind = "none"
      BY <1>18, <2>3, NoOpFacts DEF Answer, Shape
    <3>2. QED
      BY <1>2, <2>3, <3>1
  <2>4. CASE d = c /\ op[c].kind = "search" /\ ~ Degraded(c)
    <3> DEFINE new == [NoOp EXCEPT !.kind = "search", !.stage = "done",
                         !.found = op[c].found, !.due = op[c].due]
    <3>1. op'[c] = new
      BY <1>18, <2>4 DEF Answer, Shape
    <3>2. /\ new.kind = "search" /\ new.stage = "done"
          /\ new.found = op[c].found /\ new.due = op[c].due
      BY DEF NoOp
    <3> HIDE DEF new
    <3>3. /\ op[c].stage = "busy" /\ op[c].tier = 1 /\ op[c].ok = chain[1]
      BY <1>18, <2>4 DEF Answer, Settled, Degraded, Shape, CallShape
    <3>4. home' = home
      BY <1>18, <2>4 DEF Answer
    <3>5. ASSUME NEW m \in op[c].due
          PROVE  /\ m \in Saves' /\ home'[m] \in Store
                 /\ m \in op'[c].found \/ GivenUp(m)'
      <4>1. /\ m \in Saves /\ home[m] \in Store
            /\ m \in op[c].found \/ GivenUp(m)
        BY <2>4, <3>3 DEF FindsDue
      <4>2. GivenUp(m) => GivenUp(m)'
        BY <1>g, <3>4, <4>1, GivenUpStays
      <4>3. QED
        BY <1>g, <3>1, <3>2, <3>4, <4>1, <4>2 DEF Grows
    <3>6. QED
      BY <2>4, <3>1, <3>2, <3>5 DEF FindsDue
  <2>5. QED
    BY <2>2, <2>3, <2>4
<1>19. CASE UNCHANGED vars
  BY <1>1, <1>19 DEF vars, vault
<1>20. CASE Next
  BY <1>1, <1>4, <1>5, <1>6, <1>7, <1>8, <1>9, <1>10, <1>11, <1>12, <1>13, <1>14,
    <1>15, <1>16, <1>17, <1>18, <1>20 DEF Next, StoreStep
<1>21. QED
  BY <1>19, <1>20

ClientInv ==
  SavesPending /\ BatteryInv /\ \A c \in Client : FindsDue(c)

LEMMA ClientInvHolds == Spec => []ClientInv
<1>1. Init => ClientInv
  <2> SUFFICES ASSUME Init PROVE ClientInv
    OBVIOUS
  <2>1. \A c \in Client : op[c] = NoOp
    BY DEF Init
  <2>2. held["engram"] = {}
    BY DEF Init, Store
  <2>3. QED
    BY <2>1, <2>2, NoOpFacts
    DEF ClientInv, SavesPending, BatteryInv, Battery, SaveOnce, FindsDue
<1>2. Shape /\ Kept /\ ClientInv /\ [Next]_vars => ClientInv'
  BY PendingNext, BatteryNext, FindsNext DEF ClientInv
<1>3. QED
  BY <1>1, <1>2, ShapeHolds, KeptHolds, PTL DEF Spec

\* Calls, stores and answers keep their types, and the battery never holds
\* what the local store took.
THEOREM TypesHold == Spec => []TypeOK
<1>1. Shape /\ ClientInv => TypeOK
  <2> SUFFICES ASSUME Shape, ClientInv PROVE TypeOK
    OBVIOUS
  <2>1. stamp \in [Saves -> Saves]
    <3>1. stamp \in Seq(Nat) /\ Len(stamp) = Len(titles)
          /\ titles \in Seq(Title) /\ \A m \in Saves : stamp[m] \in Saves
      BY DEF Shape, TitleShape
    <3>2. DOMAIN stamp = Saves /\ stamp = [i \in DOMAIN stamp |-> stamp[i]]
      BY <3>1 DEF Saves
    <3>3. QED
      BY <3>1, <3>2
  <2>2. held["engram"] \cap held["local"] = {}
    BY DEF ClientInv, BatteryInv, Battery, Near
  <2>3. \A c \in Client :
          /\ op[c] \in CallType /\ op[c].tier \in DOMAIN chain
          /\ CallShape(c)
    BY ChainFacts DEF Shape, CallShape
  <2>4. QED
    BY <2>1, <2>2, <2>3
    DEF TypeOK, Shape, TitleShape, StoreShape, CallShape, CallType, Asked
<1>2. QED
  BY <1>1, ShapeHolds, ClientInvHolds, PTL

\* A search that is not called degraded has what its main tier had answered
\* for when it began, but for what was lost, for any number of clients that
\* save and delete while it waits for its stores.
THEOREM RecallAlwaysFinds == Spec => []RecallFinds
<1>1. ClientInv => RecallFinds
  BY DEF ClientInv, FindsDue, GivenUp, RecallFinds
<1>2. QED
  BY <1>1, ClientInvHolds, PTL
-----------------------------------------------------------------------------
(***************************************************************************)
(* The metrics of commands and servers: MetricsStore.                      *)
(***************************************************************************)

\* The metrics of process p, by the recorders r, in the order of their numbers.
Ordered(r, p, s) ==
  \A i, j \in 1 .. Len(s) :
    i < j /\ r[s[i]] = p /\ r[s[j]] = p => s[i] < s[j]

Before(r, p, s, t) ==
  \A x \in RangeOf(s), y \in RangeOf(t) : r[x] = p /\ r[y] = p => x < y

MetricsShape ==
  /\ world \in World
  /\ count \in 0 .. MaxMetrics
  /\ by \in [Metric -> world.processes]
  /\ file \in Seq(Metric)
  /\ buffer \in [Process -> Seq(Metric)]
  /\ batch \in [Process -> Seq(Metric)]
  /\ loaded \in [Process -> Seq(Metric)]
  /\ flight \in [Process -> {"none", "load", "write"}]
  /\ closing \in [Process -> BOOLEAN]
  /\ timer \in [Process -> BOOLEAN]
  /\ answer \in [Metric -> {"none", "waiting", "stored", "refused"}]

\* Who has recorded what is held, and that none of it is still to come.
Recorded ==
  /\ RangeOf(file) \subseteq 1 .. count
  /\ \A p \in Process :
       /\ \A x \in RangeOf(buffer[p]) : x <= count /\ by[x] = p
       /\ \A x \in RangeOf(batch[p]) : x <= count /\ by[x] = p
       /\ RangeOf(loaded[p]) \subseteq 1 .. count
       /\ flight[p] = "none" => batch[p] = <<>> /\ loaded[p] = <<>>

\* Whatever becomes of the file, or of a copy some process has read, what each
\* process still holds comes after what there is of it.
InOrder ==
  \A p \in Process :
    /\ Ordered(by, p, file)
    /\ Ordered(by, p, batch[p]) /\ Ordered(by, p, buffer[p])
    /\ Before(by, p, batch[p], buffer[p])
    /\ Before(by, p, file, batch[p]) /\ Before(by, p, file, buffer[p])
    /\ \A q \in Process :
         /\ Ordered(by, p, loaded[q])
         /\ Before(by, p, loaded[q], batch[p])
         /\ Before(by, p, loaded[q], buffer[p])

\* A process of its own has read what the file still is.
Fresh ==
  /\ \A p \in Process \ world.processes :
       buffer[p] = <<>> /\ batch[p] = <<>> /\ flight[p] = "none"
  /\ Alone /\ world.faults \cap {"read", "torn"} = {} =>
       \A p \in Process : flight[p] = "write" => loaded[p] = file

Complete ==
  /\ \A p \in Process : closing[p] => world.exits
  /\ Alone /\ world.faults \subseteq (IF world.exits THEN {} ELSE {"write"}) =>
       /\ \A m \in 1 .. count :
            m \in RangeOf(file) \/ \E p \in Process : m \in Held(p)
       /\ \A p \in Process : closing[p] => buffer[p] = <<>>

MetricsInv == MetricsShape /\ Recorded /\ InOrder /\ Fresh /\ Complete
-----------------------------------------------------------------------------
(* Sequences of metrics *)

LEMMA EmptyFacts ==
  ASSUME NEW r, NEW p
  PROVE  /\ RangeOf(<<>>) = {} /\ Ordered(r, p, <<>>)
         /\ <<>> \in Seq(Metric)
BY DEF RangeOf, Ordered

LEMMA RangeType ==
  ASSUME NEW s \in Seq(Metric)
  PROVE  RangeOf(s) \subseteq Metric /\ RangeOf(s) \subseteq Nat
BY MetricsConstants DEF RangeOf, Metric

LEMMA ConcatFacts ==
  ASSUME NEW s \in Seq(Metric), NEW t \in Seq(Metric)
  PROVE  s \o t \in Seq(Metric) /\ RangeOf(s \o t) = RangeOf(s) \cup RangeOf(t)
<1>1. s \o t \in Seq(Metric) /\ Len(s \o t) = Len(s) + Len(t)
  OBVIOUS
<1>2. ASSUME NEW i \in 1 .. Len(s \o t)
      PROVE  (s \o t)[i] \in RangeOf(s) \cup RangeOf(t)
  <2>1. CASE i <= Len(s)
    BY <1>1, <2>1 DEF RangeOf
  <2>2. CASE i > Len(s)
    <3>1. (s \o t)[i] = t[i - Len(s)] /\ i - Len(s) \in 1 .. Len(t)
      BY <1>1, <2>2
    <3>2. QED
      BY <3>1 DEF RangeOf
  <2>3. QED
    BY <1>1, <2>1, <2>2
<1>3. ASSUME NEW i \in 1 .. Len(s) PROVE s[i] \in RangeOf(s \o t)
  <2>1. (s \o t)[i] = s[i] /\ i \in 1 .. Len(s \o t)
    BY <1>1
  <2>2. QED
    BY <2>1 DEF RangeOf
<1>4. ASSUME NEW i \in 1 .. Len(t) PROVE t[i] \in RangeOf(s \o t)
  <2>1. /\ i + Len(s) \in 1 .. Len(s \o t) /\ i + Len(s) > Len(s)
        /\ (i + Len(s)) - Len(s) = i
    BY <1>1
  <2>2. (s \o t)[i + Len(s)] = t[i]
    BY <1>1, <2>1
  <2>3. QED
    BY <2>1, <2>2 DEF RangeOf
<1>5. QED
  BY <1>1, <1>2, <1>3, <1>4 DEF RangeOf

LEMMA ConcatOrdered ==
  ASSUME NEW r, NEW p, NEW s \in Seq(Metric), NEW t \in Seq(Metric),
         Ordered(r, p, s), Ordered(r, p, t), Before(r, p, s, t)
  PROVE  Ordered(r, p, s \o t)
<1>1. Len(s \o t) = Len(s) + Len(t) /\ Len(s) \in Nat /\ Len(t) \in Nat
  OBVIOUS
<1>2. SUFFICES ASSUME NEW i \in 1 .. Len(s \o t), NEW j \in 1 .. Len(s \o t),
                      i < j, r[(s \o t)[i]] = p, r[(s \o t)[j]] = p
               PROVE  (s \o t)[i] < (s \o t)[j]
  BY DEF Ordered
<1>3. CASE j <= Len(s)
  <2>1. /\ (s \o t)[i] = s[i] /\ (s \o t)[j] = s[j]
        /\ i \in 1 .. Len(s) /\ j \in 1 .. Len(s)
    BY <1>1, <1>2, <1>3
  <2>2. QED
    BY <1>2, <2>1 DEF Ordered
<1>4. CASE i > Len(s)
  <2>1. /\ (s \o t)[i] = t[i - Len(s)] /\ (s \o t)[j] = t[j - Len(s)]
        /\ i - Len(s) \in 1 .. Len(t) /\ j - Len(s) \in 1 .. Len(t)
        /\ i - Len(s) < j - Len(s)
    BY <1>1, <1>2, <1>4
  <2>2. QED
    BY <1>2, <2>1 DEF Ordered
<1>5. CASE i <= Len(s) /\ j > Len(s)
  <2>1. /\ (s \o t)[i] = s[i] /\ (s \o t)[j] = t[j - Len(s)]
        /\ i \in 1 .. Len(s) /\ j - Len(s) \in 1 .. Len(t)
    BY <1>1, <1>2, <1>5
  <2>2. QED
    BY <1>2, <2>1 DEF Before, RangeOf
<1>6. QED
  BY <1>1, <1>3, <1>4, <1>5

\* Metrics of others have no order to keep.
LEMMA Foreign ==
  ASSUME NEW r, NEW p, NEW s, \A x \in RangeOf(s) : r[x] # p
  PROVE  Ordered(r, p, s) /\ \A t : Before(r, p, s, t) /\ Before(r, p, t, s)
BY DEF Ordered, Before, RangeOf

LEMMA AppendFacts ==
  ASSUME NEW s \in Seq(Metric), NEW m \in Metric
  PROVE  /\ Append(s, m) \in Seq(Metric)
         /\ RangeOf(Append(s, m)) = RangeOf(s) \cup {m}
         /\ \A r, p : Ordered(r, p, s) /\ (\A x \in RangeOf(s) : x < m)
               => Ordered(r, p, Append(s, m))
<1>1. /\ Append(s, m) \in Seq(Metric) /\ Len(Append(s, m)) = Len(s) + 1
      /\ Append(s, m)[Len(s) + 1] = m
      /\ \A i \in 1 .. Len(s) : Append(s, m)[i] = s[i]
  OBVIOUS
<1>2. Len(s) \in Nat
  OBVIOUS
<1>3. RangeOf(Append(s, m)) = RangeOf(s) \cup {m}
  BY <1>1, <1>2 DEF RangeOf
<1>4. ASSUME NEW r, NEW p, Ordered(r, p, s), \A x \in RangeOf(s) : x < m
      PROVE  Ordered(r, p, Append(s, m))
  BY <1>1, <1>2, <1>4 DEF Ordered, RangeOf
<1>5. QED
  BY <1>1, <1>3, <1>4
-----------------------------------------------------------------------------
LEMMA MetricsInvInit == MetricsInit => MetricsInv
<1> SUFFICES ASSUME MetricsInit PROVE MetricsInv
  OBVIOUS
<1>1. RangeOf(<<>>) = {} /\ \A p : Ordered(by, p, <<>>)
  BY EmptyFacts
<1>2. MetricsShape
  BY MetricsConstants DEF MetricsInit, MetricsShape
<1>3. Recorded
  BY <1>1 DEF MetricsInit, Recorded
<1>4. InOrder
  BY <1>1 DEF MetricsInit, InOrder, Before
<1>5. Fresh
  BY DEF MetricsInit, Fresh
<1>6. Complete
  BY DEF MetricsInit, Complete
<1>7. QED
  BY <1>2, <1>3, <1>4, <1>5, <1>6 DEF MetricsInv

\* Handing a queue to the flush, or leaving it in the buffer, keeps the order.
LEMMA FlushKeeps ==
  ASSUME MetricsInv, NEW p \in Process, NEW queue \in Seq(Metric), Flush(p, queue),
         UNCHANGED <<world, by, file>>,
         count' \in 0 .. MaxMetrics, count' >= count,
         \A x \in RangeOf(queue) : x <= count' /\ by[x] = p,
         Ordered(by, p, queue), Before(by, p, batch[p], queue),
         Before(by, p, file, queue),
         \A q \in Process : Before(by, p, loaded[q], queue)
  PROVE  /\ buffer' \in [Process -> Seq(Metric)]
         /\ batch' \in [Process -> Seq(Metric)]
         /\ loaded' \in [Process -> Seq(Metric)]
         /\ flight' \in [Process -> {"none", "load", "write"}]
         /\ Recorded' /\ InOrder'
         /\ RangeOf(batch'[p]) \cup RangeOf(buffer'[p])
              = RangeOf(batch[p]) \cup RangeOf(queue)
         /\ \A q \in Process \ {p} :
              /\ batch'[q] = batch[q] /\ buffer'[q] = buffer[q]
              /\ flight'[q] = flight[q]
         /\ loaded' = loaded /\ (flight'[p] = "write" => flight[p] = "write")
         /\ queue = <<>> => /\ flight'[p] = flight[p] /\ batch'[p] = batch[p]
                            /\ buffer'[p] = <<>>
<1>1. /\ RangeOf(<<>>) = {} /\ <<>> \in Seq(Metric)
      /\ \A r, x : Ordered(r, x, <<>>)
  BY EmptyFacts
<1>2. MetricsShape /\ Recorded /\ InOrder /\ count \in Nat /\ count' \in Nat
  BY MetricsConstants DEF MetricsInv, MetricsShape
<1>3. 1 .. count \subseteq 1 .. count'
  BY <1>2
<1>4. \A q \in Process :
        /\ \A x \in RangeOf(buffer[q]) : x <= count'
        /\ \A x \in RangeOf(batch[q]) : x <= count'
  <2>1. ASSUME NEW q \in Process
        PROVE  /\ RangeOf(buffer[q]) \subseteq Nat
               /\ RangeOf(batch[q]) \subseteq Nat
    BY <1>2, RangeType DEF MetricsShape
  <2>2. ASSUME NEW q \in Process, NEW x \in RangeOf(buffer[q]) \cup RangeOf(batch[q])
        PROVE  x <= count'
    <3>1. x \in Nat /\ x <= count
      BY <1>2, <2>1 DEF Recorded
    <3>2. count \in Nat /\ count' \in Nat /\ count <= count'
      BY <1>2 DEF MetricsShape
    <3>3. QED
      BY <3>1, <3>2
  <2>3. QED
    BY <2>2
<1>5. CASE flight[p] # "none" \/ queue = <<>>
  <2>1. buffer' = [buffer EXCEPT ![p] = queue] /\ UNCHANGED flush
    BY <1>5 DEF Flush
  <2>2. /\ buffer' \in [Process -> Seq(Metric)]
        /\ UNCHANGED <<batch, loaded, flight>> /\ buffer'[p] = queue
        /\ \A q \in Process \ {p} : buffer'[q] = buffer[q]
    BY <1>2, <2>1 DEF flush, MetricsShape
  <2>3. Recorded'
    BY <1>2, <1>3, <1>4, <2>2 DEF Recorded
  <2>4. InOrder'
    BY <1>2, <2>2 DEF InOrder
  <2>5. QED
    BY <1>1, <1>2, <2>2, <2>3, <2>4 DEF MetricsShape
<1>6. CASE ~ (flight[p] # "none" \/ queue = <<>>)
  <2>1. /\ batch' = [batch EXCEPT ![p] = queue]
        /\ buffer' = [buffer EXCEPT ![p] = <<>>]
        /\ flight' = [flight EXCEPT ![p] = "load"] /\ UNCHANGED loaded
    BY <1>6 DEF Flush
  <2>2. /\ buffer' \in [Process -> Seq(Metric)] /\ buffer'[p] = <<>>
        /\ batch' \in [Process -> Seq(Metric)] /\ batch'[p] = queue
        /\ flight' \in [Process -> {"none", "load", "write"}]
        /\ flight'[p] = "load"
        /\ \A q \in Process \ {p} : /\ buffer'[q] = buffer[q]
                                   /\ batch'[q] = batch[q]
                                   /\ flight'[q] = flight[q]
    BY <1>1, <1>2, <2>1 DEF MetricsShape
  <2>3. batch[p] = <<>>
    BY <1>2, <1>6 DEF Recorded
  <2>4. Recorded'
    BY <1>1, <1>2, <1>3, <1>4, <2>1, <2>2 DEF Recorded
  <2>5. InOrder'
    BY <1>1, <1>2, <2>1, <2>2 DEF InOrder, Before
  <2>6. QED
    BY <1>1, <1>2, <1>6, <2>1, <2>2, <2>3, <2>4, <2>5 DEF MetricsShape
<1>7. QED
  BY <1>5, <1>6
-----------------------------------------------------------------------------
(* The steps that begin a flush *)

LEMMA RecordKeeps ==
  ASSUME MetricsInv, NEW p \in Process, Record(p)
  PROVE  MetricsInv'
<1> DEFINE m == count + 1
           queue == Append(buffer[p], m)
<1>1. /\ MetricsShape /\ Recorded /\ InOrder /\ Fresh /\ Complete
      /\ MaxMetrics \in Nat /\ count \in Nat /\ m \in Nat
  BY MetricsConstants DEF MetricsInv, MetricsShape
<1>2. /\ ~ closing[p] /\ by[m] = p /\ count' = m
      /\ m \in Metric /\ p \in world.processes
      /\ UNCHANGED <<world, by, file, closing, faults>>
  BY <1>1 DEF Record, MetricsShape, Metric
<1>3. /\ queue \in Seq(Metric) /\ RangeOf(queue) = RangeOf(buffer[p]) \cup {m}
      /\ buffer[p] \in Seq(Metric) /\ batch[p] \in Seq(Metric)
  BY <1>1, <1>2, AppendFacts DEF MetricsShape
<1>4. /\ RangeOf(buffer[p]) \subseteq Nat /\ RangeOf(batch[p]) \subseteq Nat
      /\ \A x \in RangeOf(buffer[p]) : x < m
      /\ \A x \in RangeOf(batch[p]) : x < m
  <2>1. RangeOf(buffer[p]) \subseteq Nat /\ RangeOf(batch[p]) \subseteq Nat
    BY <1>3, RangeType
  <2>2. /\ \A x \in RangeOf(buffer[p]) : x <= count
        /\ \A x \in RangeOf(batch[p]) : x <= count
    BY <1>1 DEF Recorded
  <2>3. \A x \in Nat : x <= count => x < m
    BY <1>1
  <2>4. QED
    BY <2>1, <2>2, <2>3
<1>5. /\ \A x \in RangeOf(file) : x < m
      /\ \A q \in Process : \A x \in RangeOf(loaded[q]) : x < m
  <2>1. \A x \in 1 .. count : x < m
    BY <1>1
  <2>2. QED
    BY <1>1, <2>1 DEF Recorded
<1>6. /\ Ordered(by, p, queue) /\ Before(by, p, batch[p], queue)
      /\ Before(by, p, file, queue)
      /\ \A q \in Process : Before(by, p, loaded[q], queue)
  <2>1. Ordered(by, p, queue)
    BY <1>1, <1>2, <1>3, <1>4, AppendFacts DEF InOrder
  <2>2. QED
    BY <1>1, <1>3, <1>4, <1>5, <2>1 DEF InOrder, Before
<1>7. \A x \in RangeOf(queue) : x <= count' /\ by[x] = p
  BY <1>1, <1>2, <1>3, <1>4 DEF Recorded
<1>8. count' \in 0 .. MaxMetrics /\ count' >= count
  BY <1>1, <1>2 DEF Metric
<1> HIDE DEF m, queue
<1>9. /\ timer' \in [Process -> BOOLEAN]
      /\ answer' \in [Metric -> {"none", "waiting", "stored", "refused"}]
  BY <1>1 DEF Record, MetricsShape, ClearTimer
<1>10. CASE Flush(p, queue)
  <2>1. /\ Recorded' /\ InOrder' /\ MetricsShape'
    BY <1>1, <1>2, <1>3, <1>6, <1>7, <1>8, <1>9, <1>10, FlushKeeps DEF MetricsShape
  <2>2. /\ RangeOf(batch'[p]) \cup RangeOf(buffer'[p])
              = RangeOf(batch[p]) \cup RangeOf(queue)
        /\ \A q \in Process \ {p} :
             batch'[q] = batch[q] /\ buffer'[q] = buffer[q]
               /\ flight'[q] = flight[q]
        /\ loaded' = loaded /\ (flight'[p] = "write" => flight[p] = "write")
    BY <1>1, <1>2, <1>3, <1>6, <1>7, <1>8, <1>10, FlushKeeps
  <2>3. Fresh'
    BY <1>1, <1>2, <2>2 DEF Fresh, Alone
  <2>4. Complete'
    <3>1. \A x \in 1 .. count' : x \in 1 .. count \/ x = m
      BY <1>1, <1>2 DEF m
    <3>2. \A q \in Process : \A x : x \in Held(q) => x \in Held(q)'
      BY <1>3, <2>2 DEF Held
    <3>3. m \in Held(p)'
      BY <1>3, <2>2 DEF Held
    <3>4. QED
      BY <1>1, <1>2, <2>2, <3>1, <3>2, <3>3 DEF Complete, Alone
  <2>5. QED
    BY <2>1, <2>3, <2>4 DEF MetricsInv
<1>11. CASE buffer' = [buffer EXCEPT ![p] = queue] /\ UNCHANGED flush
  <2>1. /\ buffer' \in [Process -> Seq(Metric)]
        /\ UNCHANGED <<batch, loaded, flight>> /\ buffer'[p] = queue
        /\ \A q \in Process \ {p} : buffer'[q] = buffer[q]
    BY <1>1, <1>3, <1>11 DEF flush, MetricsShape
  <2>2. MetricsShape'
    BY <1>1, <1>2, <1>8, <1>9, <2>1 DEF MetricsShape
  <2>3. Recorded'
    <3>1. 1 .. count \subseteq 1 .. count'
      BY <1>1, <1>8
    <3>2. \A q \in Process :
            /\ \A x \in RangeOf(buffer[q]) : x <= count'
            /\ \A x \in RangeOf(batch[q]) : x <= count'
      <4>1. ASSUME NEW q \in Process
            PROVE  /\ RangeOf(buffer[q]) \subseteq Nat
                   /\ RangeOf(batch[q]) \subseteq Nat
        BY <1>1, RangeType DEF MetricsShape
      <4>2. \A x \in Nat : x <= count => x <= count'
        BY <1>1, <1>2, <1>8
      <4>3. QED
        BY <1>1, <4>1, <4>2 DEF Recorded
    <3>3. QED
      BY <1>1, <1>2, <1>7, <2>1, <3>1, <3>2 DEF Recorded
  <2>4. InOrder'
    BY <1>1, <1>2, <1>6, <2>1 DEF InOrder
  <2>5. Fresh'
    BY <1>1, <1>2, <2>1 DEF Fresh, Alone
  <2>6. Complete'
    <3>1. \A x \in 1 .. count' : x \in 1 .. count \/ x = m
      BY <1>1, <1>2 DEF m
    <3>2. \A q \in Process : \A x : x \in Held(q) => x \in Held(q)'
      BY <1>3, <2>1 DEF Held
    <3>3. m \in Held(p)'
      BY <1>3, <2>1 DEF Held
    <3>4. QED
      BY <1>1, <1>2, <2>1, <3>1, <3>2, <3>3 DEF Complete, Alone
  <2>7. QED
    BY <2>2, <2>3, <2>4, <2>5, <2>6 DEF MetricsInv
<1>12. QED
  BY <1>10, <1>11 DEF Record, queue, m

\* A flush of the buffer as it is: of the timer, a report, or the hook.
LEMMA FlushBufferKeeps ==
  ASSUME MetricsInv, NEW p \in Process, Flush(p, buffer[p]),
         UNCHANGED <<world, count, by, answer, file>>,
         timer' \in [Process -> BOOLEAN],
         \/ UNCHANGED closing
         \/ /\ world.exits /\ flight[p] = "none"
            /\ closing' = [closing EXCEPT ![p] = TRUE]
  PROVE  MetricsInv'
<1>1. /\ MetricsShape /\ Recorded /\ InOrder /\ Fresh /\ Complete
      /\ MaxMetrics \in Nat /\ count \in Nat
  BY MetricsConstants DEF MetricsInv, MetricsShape
<1>2. /\ buffer[p] \in Seq(Metric) /\ count' \in 0 .. MaxMetrics
      /\ count' >= count
      /\ \A x \in RangeOf(buffer[p]) : x <= count' /\ by[x] = p
      /\ Ordered(by, p, buffer[p]) /\ Before(by, p, batch[p], buffer[p])
      /\ Before(by, p, file, buffer[p])
      /\ \A q \in Process : Before(by, p, loaded[q], buffer[p])
  BY <1>1 DEF MetricsShape, Recorded, InOrder
<1>3. /\ Recorded' /\ InOrder' /\ MetricsShape'
  BY <1>1, <1>2, FlushKeeps DEF MetricsShape
<1>4. /\ RangeOf(batch'[p]) \cup RangeOf(buffer'[p])
            = RangeOf(batch[p]) \cup RangeOf(buffer[p])
      /\ \A q \in Process \ {p} :
           batch'[q] = batch[q] /\ buffer'[q] = buffer[q]
             /\ flight'[q] = flight[q]
      /\ loaded' = loaded /\ (flight'[p] = "write" => flight[p] = "write")
      /\ buffer[p] = <<>> => /\ flight'[p] = flight[p] /\ batch'[p] = batch[p]
                             /\ buffer'[p] = <<>>
  BY <1>1, <1>2, FlushKeeps
<1>5. flight[p] = "none" => buffer'[p] = <<>>
  BY <1>1 DEF Flush, MetricsShape
<1>6. Fresh'
  BY <1>1, <1>4 DEF Fresh, Alone
<1>7. Complete'
  <2>1. \A q \in Process : \A x : x \in Held(q) => x \in Held(q)'
    BY <1>4 DEF Held
  <2>2. \A q \in Process : closing'[q] => closing[q] \/ q = p
    BY <1>1 DEF MetricsShape
  <2>3. closing'[p] => /\ world.exits
                       /\ closing[p] \/ flight[p] = "none"
    BY <1>1 DEF Complete
  <2>4. \A q \in Process : closing'[q] /\ (closing[q] => buffer[q] = <<>>)
                            => buffer'[q] = <<>>
    BY <1>4, <1>5, <2>2, <2>3
  <2>5. \A q \in Process : closing'[q] => world.exits
    BY <1>1, <2>2, <2>3 DEF Complete
  <2>6. QED
    BY <1>1, <2>1, <2>4, <2>5 DEF Complete, Alone
<1>8. QED
  BY <1>3, <1>6, <1>7 DEF MetricsInv

LEMMA BeginKeeps ==
  ASSUME MetricsInv, NEW p \in Process, TimerFires(p) \/ Report(p) \/ BeforeExit(p)
  PROVE  MetricsInv'
<1>1. /\ Flush(p, buffer[p]) /\ UNCHANGED <<world, count, by, answer, file>>
      /\ \/ UNCHANGED closing
         \/ /\ world.exits /\ flight[p] = "none"
            /\ closing' = [closing EXCEPT ![p] = TRUE]
  BY DEF TimerFires, Report, BeforeExit
<1>2. timer' \in [Process -> BOOLEAN]
  BY DEF TimerFires, Report, BeforeExit, ClearTimer, MetricsInv, MetricsShape
<1>3. QED
  BY <1>1, <1>2, FlushBufferKeeps
-----------------------------------------------------------------------------
(* The steps of a flush, and the end of a process *)

LEMMA LoadKeeps ==
  ASSUME MetricsInv, NEW p \in Process, Load(p) \/ LoadFails(p)
  PROVE  MetricsInv'
<1>1. /\ MetricsShape /\ Recorded /\ InOrder /\ Fresh /\ Complete
  BY DEF MetricsInv
<1>2. /\ RangeOf(<<>>) = {} /\ <<>> \in Seq(Metric)
      /\ \A r, x : Ordered(r, x, <<>>)
  BY EmptyFacts
<1>3. /\ UNCHANGED <<world, count, by, answer, file, buffer, timer, batch, closing>>
      /\ flight' = [flight EXCEPT ![p] = "write"] /\ flight[p] = "load"
  BY DEF Load, LoadFails
<1>4. PICK s \in Seq(Metric) :
        /\ loaded' = [loaded EXCEPT ![p] = s]
        /\ s = file \/ (s = <<>> /\ "read" \in world.faults)
  BY <1>1, <1>2 DEF Load, LoadFails, Fault, MetricsShape
<1>5. /\ loaded'[p] = s /\ flight'[p] = "write"
      /\ \A q \in Process \ {p} :
           loaded'[q] = loaded[q] /\ flight'[q] = flight[q]
  BY <1>1, <1>3, <1>4 DEF MetricsShape
<1>6. MetricsShape'
  BY <1>1, <1>3, <1>4 DEF MetricsShape
<1>7. Recorded'
  BY <1>1, <1>2, <1>3, <1>4, <1>5 DEF Recorded
<1>8. InOrder'
  <2>1. ASSUME NEW x \in Process
        PROVE  /\ Ordered(by, x, s) /\ Before(by, x, s, batch[x])
               /\ Before(by, x, s, buffer[x])
    BY <1>1, <1>2, <1>4 DEF InOrder, Before
  <2>2. QED
    BY <1>1, <1>3, <1>5, <2>1 DEF InOrder
<1>9. Fresh'
  BY <1>1, <1>3, <1>4, <1>5 DEF Fresh, Alone
<1>10. Complete'
  BY <1>1, <1>3 DEF Complete, Held, Alone
<1>11. QED
  BY <1>6, <1>7, <1>8, <1>9, <1>10 DEF MetricsInv

LEMMA WriteKeeps ==
  ASSUME MetricsInv, NEW p \in Process, Write(p)
  PROVE  MetricsInv'
<1>1. /\ MetricsShape /\ Recorded /\ InOrder /\ Fresh /\ Complete
  BY DEF MetricsInv
<1>2. /\ RangeOf(<<>>) = {} /\ <<>> \in Seq(Metric)
      /\ \A r, x : Ordered(r, x, <<>>)
  BY EmptyFacts
<1>3. /\ UNCHANGED <<world, count, by, buffer, timer, closing>>
      /\ flight[p] = "write" /\ file' = loaded[p] \o batch[p]
      /\ flight' = [flight EXCEPT ![p] = "none"]
      /\ batch' = [batch EXCEPT ![p] = <<>>]
      /\ loaded' = [loaded EXCEPT ![p] = <<>>]
      /\ answer' \in [Metric -> {"none", "waiting", "stored", "refused"}]
  BY <1>1 DEF Write, Landed, MetricsShape
<1>4. /\ batch'[p] = <<>> /\ loaded'[p] = <<>> /\ flight'[p] = "none"
      /\ \A q \in Process \ {p} :
           /\ batch'[q] = batch[q] /\ loaded'[q] = loaded[q]
           /\ flight'[q] = flight[q]
  BY <1>1, <1>3 DEF MetricsShape
<1>5. loaded[p] \in Seq(Metric) /\ batch[p] \in Seq(Metric)
  BY <1>1 DEF MetricsShape
<1>6. /\ file' \in Seq(Metric)
      /\ RangeOf(file') = RangeOf(loaded[p]) \cup RangeOf(batch[p])
  BY <1>3, <1>5, ConcatFacts
<1>7. MetricsShape'
  BY <1>1, <1>2, <1>3, <1>6 DEF MetricsShape
<1>8. Recorded'
  <2>1. RangeOf(batch[p]) \subseteq 1 .. count
    <3>1. RangeOf(batch[p]) \subseteq Metric /\ RangeOf(batch[p]) \subseteq Nat
      BY <1>5, RangeType
    <3>2. \A x \in Metric \cap Nat : x <= count => x \in 1 .. count
      BY <1>1, MetricsConstants DEF Metric, MetricsShape
    <3>3. QED
      BY <1>1, <3>1, <3>2 DEF Recorded
  <2>2. QED
    BY <1>1, <1>2, <1>3, <1>4, <1>6, <2>1 DEF Recorded
<1>9. InOrder'
  <2>1. ASSUME NEW x \in Process PROVE Ordered(by, x, file')
    <3>1. /\ Ordered(by, x, loaded[p]) /\ Ordered(by, x, batch[p])
          /\ Before(by, x, loaded[p], batch[p])
      BY <1>1, Foreign DEF InOrder, Recorded
    <3>2. QED
      BY <1>3, <1>5, <3>1, ConcatOrdered
  <2>2. ASSUME NEW x \in Process
        PROVE  Before(by, x, file', batch'[x]) /\ Before(by, x, file', buffer[x])
    <3>1. CASE x = p
      BY <1>1, <1>2, <1>4, <1>6, <3>1 DEF InOrder, Before
    <3>2. CASE x # p
      <4>1. \A m \in RangeOf(batch[p]) : by[m] # x
        BY <1>1, <3>2 DEF Recorded
      <4>2. QED
        BY <1>1, <1>4, <1>6, <3>2, <4>1 DEF InOrder, Before
    <3>3. QED
      BY <3>1, <3>2
  <2>3. ASSUME NEW x \in Process
        PROVE  Ordered(by, x, batch'[x]) /\ Before(by, x, batch'[x], buffer[x])
    BY <1>1, <1>2, <1>4 DEF InOrder, Before
  <2>4. ASSUME NEW x \in Process, NEW q \in Process
        PROVE  /\ Ordered(by, x, loaded'[q])
               /\ Before(by, x, loaded'[q], batch'[x])
               /\ Before(by, x, loaded'[q], buffer[x])
    BY <1>1, <1>2, <1>4 DEF InOrder, Before
  <2>5. QED
    BY <1>1, <1>3, <2>1, <2>2, <2>3, <2>4 DEF InOrder
<1>10. Fresh'
  BY <1>1, <1>3, <1>4 DEF Fresh, Alone
<1>11. Complete'
  <2>1. ASSUME Alone, world.faults \subseteq (IF world.exits THEN {} ELSE {"write"})
        PROVE  loaded[p] = file
    BY <1>1, <1>3, <2>1 DEF Fresh
  <2>2. \A q \in Process : \A x : x \in Held(q) =>
          x \in Held(q)' \/ x \in RangeOf(batch[p])
    BY <1>3, <1>4 DEF Held
  <2>3. QED
    BY <1>1, <1>3, <1>6, <2>1, <2>2 DEF Complete, Alone
<1>12. QED
  BY <1>7, <1>8, <1>9, <1>10, <1>11 DEF MetricsInv

LEMMA WriteFailsKeeps ==
  ASSUME MetricsInv, NEW p \in Process, WriteFails(p)
  PROVE  MetricsInv'
<1>1. /\ MetricsShape /\ Recorded /\ InOrder /\ Fresh /\ Complete
  BY DEF MetricsInv
<1>2. /\ RangeOf(<<>>) = {} /\ <<>> \in Seq(Metric)
      /\ \A r, x : Ordered(r, x, <<>>)
  BY EmptyFacts
<1>3. /\ UNCHANGED <<world, count, by, timer, closing>>
      /\ flight[p] = "write" /\ "write" \in world.faults
      /\ file' = file \/ ("torn" \in world.faults /\ file' = <<>>)
      /\ flight' = [flight EXCEPT ![p] = "none"]
      /\ buffer' = [buffer EXCEPT ![p] = batch[p] \o @]
      /\ batch' = [batch EXCEPT ![p] = <<>>]
      /\ loaded' = [loaded EXCEPT ![p] = <<>>]
      /\ answer' \in [Metric -> {"none", "waiting", "stored", "refused"}]
  BY <1>1 DEF WriteFails, Landed, Fault, Torn, MetricsShape
<1>4. /\ batch'[p] = <<>> /\ loaded'[p] = <<>> /\ flight'[p] = "none"
      /\ buffer'[p] = batch[p] \o buffer[p]
      /\ \A q \in Process \ {p} :
           /\ batch'[q] = batch[q] /\ loaded'[q] = loaded[q]
           /\ flight'[q] = flight[q] /\ buffer'[q] = buffer[q]
  BY <1>1, <1>3 DEF MetricsShape
<1>5. buffer[p] \in Seq(Metric) /\ batch[p] \in Seq(Metric)
  BY <1>1 DEF MetricsShape
<1>6. /\ buffer'[p] \in Seq(Metric)
      /\ RangeOf(buffer'[p]) = RangeOf(batch[p]) \cup RangeOf(buffer[p])
  BY <1>4, <1>5, ConcatFacts
<1>7. Ordered(by, p, buffer'[p])
  BY <1>1, <1>4, <1>5, ConcatOrdered DEF InOrder
<1>8. MetricsShape'
  <2>1. buffer' \in [Process -> Seq(Metric)]
    BY <1>1, <1>3, <1>4, <1>6 DEF MetricsShape
  <2>2. QED
    BY <1>1, <1>2, <1>3, <2>1 DEF MetricsShape
<1>9. Recorded'
  BY <1>1, <1>2, <1>3, <1>4, <1>6 DEF Recorded
<1>10. InOrder'
  BY <1>1, <1>2, <1>3, <1>4, <1>6, <1>7 DEF InOrder, Before
<1>11. Fresh'
  BY <1>1, <1>3, <1>4 DEF Fresh, Alone
<1>12. Complete'
  <2>1. \A q \in Process : \A x : x \in Held(q) => x \in Held(q)'
    BY <1>2, <1>4, <1>6 DEF Held
  <2>2. QED
    BY <1>1, <1>3, <2>1 DEF Complete, Alone
<1>13. QED
  BY <1>8, <1>9, <1>10, <1>11, <1>12 DEF MetricsInv

LEMMA ForgetKeeps ==
  ASSUME MetricsInv, NEW p \in Process, Exit(p) \/ Kill(p)
  PROVE  MetricsInv'
<1>1. /\ MetricsShape /\ Recorded /\ InOrder /\ Fresh /\ Complete
  BY DEF MetricsInv
<1>2. /\ RangeOf(<<>>) = {} /\ <<>> \in Seq(Metric)
      /\ \A r, x : Ordered(r, x, <<>>)
  BY EmptyFacts
<1>3. /\ UNCHANGED <<world, count, by>>
      /\ file' = file \/ ("torn" \in world.faults /\ file' = <<>>)
      /\ answer' \in [Metric -> {"none", "waiting", "stored", "refused"}]
      /\ timer' = [timer EXCEPT ![p] = FALSE]
      /\ closing' = [closing EXCEPT ![p] = FALSE]
      /\ flight' = [flight EXCEPT ![p] = "none"]
      /\ buffer' = [buffer EXCEPT ![p] = <<>>]
      /\ batch' = [batch EXCEPT ![p] = <<>>]
      /\ loaded' = [loaded EXCEPT ![p] = <<>>]
  BY <1>1 DEF Exit, Kill, Forget, Torn, MetricsShape
<1>4. /\ buffer'[p] = <<>> /\ batch'[p] = <<>> /\ loaded'[p] = <<>>
      /\ flight'[p] = "none" /\ ~ closing'[p]
      /\ \A q \in Process \ {p} :
           /\ batch'[q] = batch[q] /\ loaded'[q] = loaded[q]
           /\ flight'[q] = flight[q] /\ buffer'[q] = buffer[q]
           /\ closing'[q] = closing[q]
  BY <1>1, <1>3 DEF MetricsShape
<1>5. MetricsShape'
  BY <1>1, <1>2, <1>3 DEF MetricsShape
<1>6. Recorded'
  BY <1>1, <1>2, <1>3, <1>4 DEF Recorded
<1>7. InOrder'
  BY <1>1, <1>2, <1>3, <1>4 DEF InOrder, Before
<1>8. Fresh'
  BY <1>1, <1>3, <1>4 DEF Fresh, Alone
<1>9. Complete'
  <2>1. CASE "kill" \in world.faults
    BY <1>1, <1>3, <1>4, <2>1 DEF Complete
  <2>2. CASE "kill" \notin world.faults
    <3>1. closing[p] /\ flight[p] = "none" /\ UNCHANGED file
      BY <2>2 DEF Exit, Kill, Fault
    <3>2. batch[p] = <<>>
      BY <1>1, <3>1 DEF Recorded
    <3>3. ASSUME buffer[p] = <<>>, NEW q \in Process, NEW x \in Held(q)
          PROVE  x \in Held(q)'
      BY <1>2, <1>4, <3>2, <3>3 DEF Held
    <3>4. QED
      BY <1>1, <1>3, <1>4, <3>1, <3>3 DEF Complete, Alone
  <2>3. QED
    BY <2>1, <2>2
<1>10. QED
  BY <1>5, <1>6, <1>7, <1>8, <1>9 DEF MetricsInv
-----------------------------------------------------------------------------
LEMMA MetricsInvNext == MetricsInv /\ [MetricsNext]_metricsVars => MetricsInv'
<1> SUFFICES ASSUME MetricsInv, [MetricsNext]_metricsVars PROVE MetricsInv'
  OBVIOUS
<1>1. CASE MetricsNext
  <2>1. PICK p \in Process :
          \/ Record(p) \/ TimerFires(p) \/ Report(p) \/ FlushStep(p)
          \/ BeforeExit(p) \/ Exit(p) \/ Kill(p)
    BY <1>1 DEF MetricsNext
  <2>2. CASE Record(p)
    BY <2>2, RecordKeeps
  <2>3. CASE TimerFires(p) \/ Report(p) \/ BeforeExit(p)
    BY <2>3, BeginKeeps
  <2>4. CASE FlushStep(p)
    BY <2>4, LoadKeeps, WriteKeeps, WriteFailsKeeps DEF FlushStep
  <2>5. CASE Exit(p) \/ Kill(p)
    BY <2>5, ForgetKeeps
  <2>6. QED
    BY <2>1, <2>2, <2>3, <2>4, <2>5
<1>2. CASE UNCHANGED metricsVars
  BY <1>2 DEF metricsVars, flush, MetricsInv, MetricsShape, Recorded, InOrder,
       Fresh, Complete, Held,
              Alone
<1>3. QED
  BY <1>1, <1>2

LEMMA MetricsInvHolds == MetricsSpec => []MetricsInv
BY MetricsInvInit, MetricsInvNext, PTL DEF MetricsSpec

\* Types of all variables: what is held and counted are metrics recorded.
THEOREM MetricsTypesHold == MetricsSpec => []MetricsShape
<1>1. MetricsInv => MetricsShape
  BY DEF MetricsInv
<1>2. QED
  BY <1>1, MetricsInvHolds, PTL

\* The metrics of each process are in the order they were recorded, from the
\* file to the buffer, whatever fails; and where one process runs and files can
\* be read and written none is missing.
THEOREM OrderAlwaysKept == MetricsSpec => []KeptInOrder
<1>1. MetricsInv => KeptInOrder
  <2> SUFFICES ASSUME MetricsInv PROVE KeptInOrder
    OBVIOUS
  <2>1. MetricsShape /\ Recorded /\ InOrder /\ Complete
    BY DEF MetricsInv
  <2>2. ASSUME NEW p \in Process
        PROVE  Ordered(by, p, file \o batch[p] \o buffer[p])
    <3>1. /\ file \in Seq(Metric) /\ batch[p] \in Seq(Metric)
          /\ buffer[p] \in Seq(Metric)
      BY <2>1 DEF MetricsShape
    <3>2. /\ file \o batch[p] \in Seq(Metric)
          /\ RangeOf(file \o batch[p]) = RangeOf(file) \cup RangeOf(batch[p])
      BY <3>1, ConcatFacts
    <3>3. Ordered(by, p, file \o batch[p])
      BY <2>1, <3>1, ConcatOrdered DEF InOrder
    <3>4. Before(by, p, file \o batch[p], buffer[p])
      BY <2>1, <3>2 DEF InOrder, Before
    <3>5. QED
      BY <2>1, <3>1, <3>2, <3>3, <3>4, ConcatOrdered DEF InOrder
  <2>3. ASSUME Alone,
               world.faults \subseteq (IF world.exits THEN {} ELSE {"write"}),
               NEW m \in 1 .. count
        PROVE  m \in RangeOf(file) \cup UNION {Held(p) : p \in Process}
    BY <2>1, <2>3 DEF Complete
  <2>4. QED
    BY <2>2, <2>3 DEF KeptInOrder, Ordered
<1>2. QED
  BY <1>1, MetricsInvHolds, PTL

\* No step takes a metric out of the file, as long as one process runs, the
\* file can be read and no write is cut short.
THEOREM HistoryAlwaysKept == MetricsSpec => HistoryKept
<1> DEFINE FileGrows == Alone /\ world.faults \cap {"read", "torn"} = {} =>
                     RangeOf(file) \subseteq RangeOf(file')
<1>1. MetricsInv /\ [MetricsNext]_metricsVars => [FileGrows]_metricsVars
  <2> SUFFICES ASSUME MetricsInv, MetricsNext, Alone, world.faults \cap {"read", "torn"} = {}
               PROVE  RangeOf(file) \subseteq RangeOf(file')
    OBVIOUS
  <2>1. PICK p \in Process :
          \/ Record(p) \/ TimerFires(p) \/ Report(p) \/ FlushStep(p)
          \/ BeforeExit(p) \/ Exit(p) \/ Kill(p)
    BY DEF MetricsNext
  <2>2. CASE Write(p)
    <3>1. /\ file' = loaded[p] \o batch[p] /\ loaded[p] = file
          /\ loaded[p] \in Seq(Metric) /\ batch[p] \in Seq(Metric)
      BY <2>2 DEF Write, MetricsInv, Fresh, MetricsShape
    <3>2. QED
      BY <3>1, ConcatFacts
  <2>3. CASE ~ Write(p)
    <3>1. file' = file
      BY <2>1, <2>3 DEF Record, TimerFires, Report, FlushStep, Load, LoadFails,
                        WriteFails, Torn, BeforeExit, Exit, Kill
    <3>2. QED
      BY <3>1
  <2>4. QED
    BY <2>2, <2>3
<1>2. QED
  BY <1>1, MetricsInvHolds, PTL DEF MetricsSpec, HistoryKept
=============================================================================
