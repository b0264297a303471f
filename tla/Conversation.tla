---------------------------- MODULE Conversation ----------------------------
(***************************************************************************)
(* Conversations of src/orchestration: sessions in memory, whose oldest    *)
(* turns are moved into a summary by a budget, by a count and by a limit,  *)
(* and the history on disk, to which a chain of appends per session writes *)
(* every turn; long contents go to a blob named by their hash, which all   *)
(* sessions share.                                                         *)
(*                                                                         *)
(* A turn is the number it has in its session, and a summary is the set of *)
(* the turns it has a line of, in order of their numbers.  Long contents   *)
(* are one and the same, so that there is one blob.                        *)
(***************************************************************************)
EXTENDS Naturals, Sequences, FiniteSets

CONSTANTS
  Session,
  Client,       \* requests to /api/conversation/turn
  World         \* what may happen: every behaviour is in one of these

\* The line of a wide content is above maxLineBytes, a long one is not inline.
Content == {"short", "other", "wide", "long"}
Said == [role : {"user", "system"}, content : Content]
Weight == [c \in Content |-> IF c = "long" THEN 3 ELSE 1]      \* tokens

WorldType ==
  [sessions    : SUBSET Session,
   contents    : SUBSET Content,
   most        : Nat,        \* bound on the turns of a session
   every       : Nat,        \* summaryEvery
   keep        : Nat,        \* summaryKeepTurns
   maxTurns    : Nat,
   summaryMost : Nat,        \* lines a summary has at most
   compactAt   : Nat,        \* tokens above which a session is compacted
   blockAt     : Nat,        \* tokens above which turns are refused
   ends        : BOOLEAN,    \* sessions expire or are deleted
   faults      : SUBSET {"append", "blob", "kill"},
   strikes     : Nat]        \* bound on the number of failures

ASSUME ConversationConstants ==
  /\ World \subseteq WorldType
  /\ \A w \in World : w.keep > 0 /\ w.maxTurns > 0

VARIABLES
  world,     \* the world of this behaviour; it never changes
  status,    \* of each session
  said,      \* all turns ever added
  memory,    \* turns, summary and the counters of the session's context
  cache,     \* the context cached for the session
  call,      \* a client's recall: session, turn and the context it was given
  queue,     \* appendQueue: turns not appended yet
  stage,     \* what appendTurn does next for the first of them
  file,      \* the history's lines; 0 is one that cannot be parsed
  open,      \* the last line has no end
  blob,      \* the file of the long content
  faults     \* failures so far

live == <<status, said, memory, cache, call>>
disk == <<file, open, blob>>
vars == <<world, live, queue, stage, disk, faults>>

NoContext == <<>>
NoCall == [session |-> "none", turn |-> 0, context |-> NoContext]

Init ==
  /\ world \in World
  /\ status = [s \in Session |-> "new"]
  /\ said = [s \in Session |-> <<>>]
  /\ cache = said /\ queue = said /\ file = said
  /\ memory = [s \in Session |-> [turns |-> <<>>, summary |-> {},
                                  total |-> 0, lastSummary |-> 0]]
  /\ call = [c \in Client |-> NoCall]
  /\ stage = [s \in Session |-> "none"]
  /\ open = [s \in Session |-> FALSE]
  /\ blob = "none"
  /\ faults = 0

Fault(kind) ==
  /\ kind \in world.faults /\ faults < world.strikes
  /\ faults' = faults + 1
-----------------------------------------------------------------------------
(* Turns and summary *)

\* estimateSessionTokenUsage; a line of the summary counts for one token.
Usage(s, c) ==
  LET m == memory[s]
      long == {i \in DOMAIN m.turns : said[s][m.turns[i]].content = "long"}
  IN Cardinality(m.summary) + Len(m.turns) + 2 * Cardinality(long) + Weight[c]

\* What is left of the lines S when the front of the summary is cut off.
Latest(S) ==
  {k \in S : Cardinality({j \in S : j > k}) < world.summaryMost}

\* The lines of a batch of turns: of equal turns the first.
Lines(h, batch) == {k \in batch : \A j \in batch : h[j] = h[k] => k <= j}

\* The first n turns.
Front(m, n) == {m.turns[i] : i \in 1 .. n}

\* Mutant of Prune: a turn too many leaves the session.
PruneOneMore(h, m, n) ==
  [m EXCEPT !.summary = Latest(@ \cup Lines(h, Front(m, n))),
            !.turns = SubSeq(@, n + 2, Len(@))]

\* pruneTurnsIntoSummary, of a session in which h was said
Prune(h, m, n) ==
  [m EXCEPT !.summary = Latest(@ \cup Lines(h, Front(m, n))),
            !.turns = SubSeq(@, n + 1, Len(@))]

\* compactConversationByBudget: half of the turns beyond those to keep.
Compacted(h, m) ==
  IF Len(m.turns) <= world.keep THEN m
  ELSE Prune(h, m, (Len(m.turns) - world.keep + 1) \div 2)

\* The first half of applyRetentionPolicy.
Summarised(h, m) ==
  IF /\ world.every > 0
     /\ m.total - m.lastSummary >= world.every
     /\ Len(m.turns) > world.keep
  THEN [Prune(h, m, Len(m.turns) - world.keep) EXCEPT !.lastSummary = m.total]
  ELSE m

\* applyRetentionPolicy
Retained(h, m) ==
  LET r == Summarised(h, m)
  IN IF Len(r.turns) > world.maxTurns
     THEN Prune(h, r, Len(r.turns) - world.maxTurns)
     ELSE r

Pushed(m, n) == [m EXCEPT !.turns = Append(@, n), !.total = @ + 1]

Refused(s, c) == Usage(s, c) > world.blockAt

\* addTurn of a session that is there, unless it is refused.
AddTurn(s, role, c) ==
  LET n == Len(said[s]) + 1
      h == Append(said[s], [role |-> role, content |-> c])
      m == IF Usage(s, c) > world.compactAt THEN Compacted(h, memory[s])
           ELSE memory[s]
  IN /\ n <= world.most
     /\ said' = [said EXCEPT ![s] = h]
     /\ memory' = [memory EXCEPT ![s] = Retained(h, Pushed(m, n))]
     /\ queue' = [queue EXCEPT ![s] = Append(@, n)]

\* What buildConversationContext shows of a session, but for its limits.
Context(m) == <<m.summary, m.turns>>
-----------------------------------------------------------------------------
(* Sessions and requests *)

CreateSession(s) ==
  /\ s \in world.sessions /\ status[s] = "new"
  /\ status' = [status EXCEPT ![s] = "live"]
  /\ UNCHANGED <<world, said, memory, cache, call, queue, stage, disk, faults>>

\* cleanupExpiredSessions, deleteSession
EndSession(s) ==
  /\ world.ends /\ status[s] = "live"
  /\ status' = [status EXCEPT ![s] = "gone"]
  /\ cache' = [cache EXCEPT ![s] = NoContext]
  /\ UNCHANGED <<world, said, memory, call, queue, stage, disk, faults>>

\* The user's turn is added, and the context is built for the recall.
Ask(c, s) ==
  /\ call[c] = NoCall /\ status[s] = "live"
  /\ \E t \in world.contents : ~ Refused(s, t) /\ AddTurn(s, "user", t)
  /\ cache' = [cache EXCEPT ![s] = Context(memory'[s])]
  /\ call' = [call EXCEPT ![c] = [session |-> s, turn |-> Len(said'[s]),
                                  context |-> cache'[s]]]
  /\ UNCHANGED <<world, status, stage, disk, faults>>

\* Mutant of Answer: what was cached stays.
AnswerKeepsCache(c) ==
  LET s == call[c].session
  IN /\ call[c] # NoCall
     /\ call' = [call EXCEPT ![c] = NoCall]
     /\ \E t \in world.contents :
          IF status[s] = "live" /\ ~ Refused(s, t)
          THEN AddTurn(s, "system", t) /\ UNCHANGED cache
          ELSE UNCHANGED <<said, memory, cache, queue>>
     /\ UNCHANGED <<world, status, stage, disk, faults>>

\* The recall is over: its output is added, unless the session has gone or is
\* at capacity by now.  The response shows the context of before the recall.
Answer(c) ==
  LET s == call[c].session
  IN /\ call[c] # NoCall
     /\ call' = [call EXCEPT ![c] = NoCall]
     /\ \E t \in world.contents :
          IF status[s] = "live" /\ ~ Refused(s, t)
          THEN AddTurn(s, "system", t) /\ cache' = [cache EXCEPT ![s] = NoContext]
          ELSE UNCHANGED <<said, memory, cache, queue>>
     /\ UNCHANGED <<world, status, stage, disk, faults>>
-----------------------------------------------------------------------------
(* The chain of appends of a session *)

\* What a turn's line has of its content: all of it, the hash that names the
\* blob, or no more than a preview and a hash that names no blob.
Form(turn) == CASE turn.content = "long" -> "blob"
                [] turn.content = "wide" -> "preview"
                [] OTHER -> "content"

Begin(s) ==
  /\ stage[s] = "none" /\ queue[s] # <<>>
  /\ stage' = [stage EXCEPT ![s] = IF Form(said[s][Head(queue[s])]) = "blob"
                                   THEN "stat" ELSE "append"]
  /\ UNCHANGED <<world, live, queue, disk, faults>>

\* Mutant of StatBlob: a blob that is not there is not written.
StatBlobOnlyEmpty(s) ==
  /\ stage[s] = "stat"
  /\ stage' = [stage EXCEPT ![s] = IF blob = "empty" THEN "reblob"
                                   ELSE "append"]
  /\ UNCHANGED <<world, live, queue, disk, faults>>

\* A blob that is there and not empty is taken for the content.
StatBlob(s) ==
  /\ stage[s] = "stat"
  /\ stage' = [stage EXCEPT ![s] = CASE blob = "none" -> "blob"
                                     [] blob = "empty" -> "reblob"
                                     [] OTHER -> "append"]
  /\ UNCHANGED <<world, live, queue, disk, faults>>

\* An error of stat is taken for a blob that is not there.
StatFails(s) ==
  /\ stage[s] = "stat"
  /\ Fault("blob")
  /\ stage' = [stage EXCEPT ![s] = "blob"]
  /\ UNCHANGED <<world, live, queue, disk>>

Opened == [x \in {"blob", "reblob"} |->
             IF x = "blob" THEN "filling" ELSE "refilling"]
Filling(s) == stage[s] \in {"filling", "refilling"}

OpenBlob(s) ==
  /\ stage[s] \in DOMAIN Opened
  /\ blob' = "empty"
  /\ stage' = [stage EXCEPT ![s] = Opened[@]]
  /\ UNCHANGED <<world, live, queue, file, open, faults>>

FillBlob(s) ==
  /\ Filling(s)
  /\ blob' = "whole"
  /\ stage' = [stage EXCEPT ![s] = "append"]
  /\ UNCHANGED <<world, live, queue, file, open, faults>>

\* The append is settled, and the next one follows.
Settled(s) ==
  /\ queue' = [queue EXCEPT ![s] = Tail(@)]
  /\ stage' = [stage EXCEPT ![s] = "none"]

Extended(s, line) == file' = [file EXCEPT ![s] = Append(@, line)]

\* appendFile; what follows a line without end cannot be parsed.
AppendTurn(s) ==
  /\ stage[s] = "append"
  /\ Settled(s)
  /\ IF open[s] THEN UNCHANGED file ELSE Extended(s, Head(queue[s]))
  /\ open' = [open EXCEPT ![s] = FALSE]
  /\ UNCHANGED <<world, live, blob, faults>>

\* Some of the line is written, or nothing.
HalfLine(s) ==
  \/ UNCHANGED <<file, open>>
  \/ /\ IF open[s] THEN UNCHANGED file ELSE Extended(s, 0)
     /\ open' = [open EXCEPT ![s] = TRUE]

\* The chain goes on after an append that is rejected.
AppendFails(s) ==
  /\ stage[s] = "append"
  /\ Fault("append")
  /\ HalfLine(s) /\ Settled(s)
  /\ UNCHANGED <<world, live, blob>>

\* The write of a blob that was empty is within the catch of stat, and is done
\* once more.
BlobFails(s) ==
  /\ Filling(s) \/ stage[s] \in DOMAIN Opened
  /\ Fault("blob")
  /\ blob' \in IF Filling(s) THEN {"empty", "part"} ELSE {blob}
  /\ IF stage[s] \in {"reblob", "refilling"}
     THEN stage' = [stage EXCEPT ![s] = "blob"] /\ UNCHANGED queue
     ELSE Settled(s)
  /\ UNCHANGED <<world, live, file, open>>
-----------------------------------------------------------------------------
\* The process ends: its sessions are gone, their histories stay.
Kill ==
  /\ Fault("kill")
  /\ status' = [s \in Session |-> IF status[s] = "new" THEN "new" ELSE "gone"]
  /\ cache' = [s \in Session |-> NoContext]
  /\ call' = [c \in Client |-> NoCall]
  /\ queue' = [s \in Session |-> <<>>]
  /\ stage' = [s \in Session |-> "none"]
  /\ IF \E s \in Session : Filling(s)
     THEN blob' \in {"empty", "part"} ELSE UNCHANGED blob
  /\ \/ UNCHANGED <<file, open>>
     \/ \E s \in Session : stage[s] = "append" /\ HalfLine(s)
  /\ UNCHANGED <<world, said, memory>>

HistoryStep(s) ==
  \/ Begin(s) \/ StatBlob(s) \/ StatFails(s) \/ OpenBlob(s) \/ FillBlob(s)
  \/ AppendTurn(s) \/ AppendFails(s) \/ BlobFails(s)

Next ==
  \/ \E s \in Session : CreateSession(s) \/ EndSession(s) \/ HistoryStep(s)
  \/ \E c \in Client : Answer(c) \/ \E s \in Session : Ask(c, s)
  \/ Kill

Spec == Init /\ [][Next]_vars
-----------------------------------------------------------------------------
(* Properties *)

\* A turn that left the session has a line in the summary, its own or that of an
\* equal turn before it; or the summary is full, and the line was cut off after
\* all lines of earlier turns.
Told(h, lines, n) ==
  LET Same == {k \in 1 .. n : h[k] = h[n]}
  IN \/ Same \cap lines # {}
     \/ /\ Cardinality(lines) >= world.summaryMost
        /\ \E k \in Same : \A j \in lines : k < j

\* The turns of a session are the last ones, in order, and the summary tells of
\* all others or, when it is full, of the latest of them, however budget, count
\* and limit took turns at pruning; the turns stay within the limit, and
\* summarising keeps up with the count.
NothingForgotten ==
  \A s \in Session :
    LET m == memory[s]
        gone == Len(said[s]) - Len(m.turns)
    IN /\ m.turns = [i \in 1 .. Len(m.turns) |-> gone + i]
       /\ m.summary \subseteq 1 .. gone
       /\ \A n \in 1 .. gone : Told(said[s], m.summary, n)
       /\ Len(m.turns) <= world.maxTurns
       /\ world.every > 0 => Len(m.turns) <= world.keep + world.every - 1

OwnTurnLast(asked) ==
  LET turns == asked.context[2]
  IN turns # <<>> /\ turns[Len(turns)] = asked.turn

\* A context that is cached is the one that would be built now, so that no
\* context is built of the conversation as it was before another's turn.  (The
\* key has updatedAt in it, but turns of one millisecond share it: invalidation
\* alone keeps them apart.)  And the context a request has while it waits for
\* its recall ends with its own turn: turns that others add during the recall
\* are missing from it, and from the response.
CacheIsCurrent ==
  /\ \A s \in Session : cache[s] \in {NoContext, Context(memory[s])}
  /\ \A c \in Client : call[c] # NoCall => OwnTurnLast(call[c])

\* The history has the turns in order, none twice, whatever fails and however
\* many requests add turns; and when nothing fails it has, with those that
\* wait, exactly the turns that were added, and one whose line is there can be
\* read, unless there is but a preview of it.
HistoryTellsAll ==
  \A s \in Session :
    LET lines == file[s] \o queue[s]
    IN /\ \A i, j \in DOMAIN lines :
            i < j /\ 0 \notin {lines[i], lines[j]} => lines[i] < lines[j]
       /\ world.faults = {} =>
            /\ lines = [n \in 1 .. Len(said[s]) |-> n]
            /\ \A i \in DOMAIN file[s] : Form(said[s][file[s][i]]) = "blob" =>
                 blob = "whole" \/ \E r \in Session : Filling(r)
=============================================================================
