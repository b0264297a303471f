-------------------------- MODULE ContextSelection --------------------------
(***************************************************************************)
(* What a prompt is made of: selectContextWindow (noise-canceler.js) takes *)
(* chunks up to a token budget, memories first but within a reserve, then  *)
(* puts workspace chunks that found no room in the place of memories;      *)
(* enforceSddCoverage (context-mode.js) then sees to it that the kinds an  *)
(* endpoint requires are there, at the cost of others.                     *)
(*                                                                         *)
(* One step is one chunk looked at, one round of the exchange, or one kind *)
(* covered.  Scores are hundredths; a text is a set of words.  The lists   *)
(* are sets: of two entries with the same score, where the code takes the  *)
(* one it put in its list first, either may be taken.                      *)
(***************************************************************************)
EXTENDS Integers, Sequences, FiniteSets, FiniteSetsExt

CONSTANTS
  Chunk,               \* the chunks there are
  MaxPool,             \* bound on the chunks of a request
  TokenBudgets, MaxChunks, MinScores, RecallTokenBudgets,
  SourceTokenCaps,     \* functions of some of the origins, the empty one: no caps
  RequiredKinds        \* the lists of the policies

Origin == {"workspace", "memory", "chat"}
Kind == {"code", "test", "spec", "doc", "memory", "chat", "log"}
ChunkType ==
  [id : Nat,              \* the place in the input
   origin : Origin,
   kind : Kind,
   base : Nat,            \* the score before penalties for redundancy
   tokens : Nat,          \* tokenCount
   words : SUBSET Nat,
   generic : BOOLEAN]     \* penalised as a generic source or runner

ASSUME SelectionConstants ==
  /\ IsFiniteSet(Chunk) /\ Chunk \subseteq ChunkType /\ MaxPool \in Nat
  /\ \A c, d \in Chunk : c.id = d.id => c = d
  /\ \A c \in Chunk : IsFiniteSet(c.words)
  /\ TokenBudgets \subseteq Nat /\ MaxChunks \subseteq Nat
  /\ MinScores \subseteq Nat /\ RecallTokenBudgets \subseteq Nat \ {0}
  /\ \A caps \in SourceTokenCaps :
       DOMAIN caps \subseteq Origin /\ \A o \in DOMAIN caps : caps[o] \in Nat
  /\ \A list \in RequiredKinds :
       /\ list \in Seq(Kind)
       /\ \A i, j \in DOMAIN list : list[i] = list[j] => i = j

Request ==
  [chunks : {S \in SUBSET Chunk : Cardinality(S) <= MaxPool},
   tokenBudget : TokenBudgets, maxChunks : MaxChunks, minScore : MinScores,
   recallTokenBudget : RecallTokenBudgets,
   changedFiles : BOOLEAN,           \* there are some
   caps : SourceTokenCaps,
   requiredKinds : RequiredKinds]

VARIABLES
  request,
  at,          \* recall, workspace, general: the rounds; rebalance, cover, done
  left,        \* the chunks left to look at in this round
  selected,    \* the chunks selected with the score they were selected at
  suppressed,  \* the chunks suppressed, with score and reason
  usedTokens,
  usedRecall,  \* usedRecallTokens
  usedOrigin,  \* usedOriginTokens
  rebalances,  \* rebalanceIterations that exchanged something
  kinds,       \* the required kinds left to cover
  skipped      \* skippedKinds

selectionVars ==
  <<request, at, left, selected, suppressed, usedTokens, usedRecall, usedOrigin,
    rebalances, kinds, skipped>>

OfOrigin(chunks, origin) == {c \in chunks : c.origin = origin}
ChunksOf(entries) == {e.chunk : e \in entries}

SelectionInit ==
  /\ request \in Request
  /\ at = "recall" /\ left = OfOrigin(request.chunks, "memory")
  /\ selected = {} /\ suppressed = {}
  /\ usedTokens = 0 /\ usedRecall = 0
  /\ usedOrigin = [o \in Origin |-> 0]
  /\ rebalances = 0
  /\ kinds = <<>> /\ skipped = {}
-----------------------------------------------------------------------------
(* Scores *)

\* In hundredths: what c has in common with the nearest of the chunks.
Redundancy(c, others) ==
  LET near == {d \in others : c.words \cap d.words # {}}
  IN Max({0} \cup {(100 * Cardinality(c.words \cap d.words))
                     \div Cardinality(c.words \cup d.words) : d \in near})

Clamp(score) == Min({100, Max({0, score})})
Score(c, others) == Clamp(c.base - (22 * Redundancy(c, others)) \div 100)

\* The order of ranked; equal scores keep the order of the input.
Above(c, d) ==
  \/ Score(c, {}) > Score(d, {})
  \/ Score(c, {}) = Score(d, {}) /\ c.id < d.id

First(chunks) == {c \in chunks : \A d \in chunks : d = c \/ Above(c, d)}
Lowest(entries) == {e \in entries : \A d \in entries : e.score <= d.score}
Highest(entries) == {e \in entries : \A d \in entries : e.score >= d.score}
-----------------------------------------------------------------------------
(* evaluateEntry, in three rounds *)

Processed == ChunksOf(selected) \cup ChunksOf(suppressed)
Capped == DOMAIN request.caps # {}

Anchored == \E c \in ChunksOf(selected) : c.kind \in {"code", "test"}
Noise(c) == request.changedFiles /\ Anchored /\ c.generic

Room == {"max-chunks-reached", "token-budget-exceeded"}

\* What the code decides for a chunk: the first reason that holds.
Verdict(c) ==
  LET others == ChunksOf(selected)
  IN IF Score(c, others) < request.minScore THEN "score-below-threshold"
     ELSE IF Noise(c) /\ c.kind \in {"spec", "doc"} THEN "generic-doc-noise"
     ELSE IF Noise(c) /\ c.kind = "test" THEN "generic-test-noise"
     ELSE IF Cardinality(selected) >= request.maxChunks
          THEN "max-chunks-reached"
     ELSE IF /\ at = "recall" /\ ~ Capped
             /\ usedRecall + c.tokens > request.recallTokenBudget
          THEN "deferred"
     ELSE IF /\ c.origin \in DOMAIN request.caps
             /\ usedOrigin[c.origin] + c.tokens > request.caps[c.origin]
          THEN "origin-budget-exceeded"
     ELSE IF usedTokens + c.tokens > request.tokenBudget
          THEN "token-budget-exceeded"
     ELSE IF Redundancy(c, others) >= 65 THEN "redundant-context"
     ELSE "take"

Evaluating == at \in {"recall", "workspace", "general"}

\* A chunk that was already decided is passed over, and one that waits for
\* the general round is left for later.
Pass ==
  /\ Evaluating
  /\ \E c \in First(left) :
       /\ c \in Processed \/ Verdict(c) = "deferred"
       /\ left' = left \ {c}
  /\ UNCHANGED <<request, at, selected, suppressed, usedTokens, usedRecall,
                 usedOrigin, rebalances, kinds, skipped>>

Suppress ==
  /\ Evaluating
  /\ \E c \in First(left) :
       /\ c \notin Processed /\ Verdict(c) \notin {"take", "deferred"}
       /\ suppressed' = suppressed \cup
            {[chunk |-> c, score |-> Score(c, ChunksOf(selected)),
              reason |-> Verdict(c)]}
       /\ left' = left \ {c}
  /\ UNCHANGED <<request, at, selected, usedTokens, usedRecall, usedOrigin,
                 rebalances, kinds, skipped>>

Take ==
  /\ Evaluating
  /\ \E c \in First(left) :
       /\ c \notin Processed /\ Verdict(c) = "take"
       /\ selected' = selected \cup
            {[chunk |-> c, score |-> Score(c, ChunksOf(selected))]}
       /\ usedTokens' = usedTokens + c.tokens
       /\ usedOrigin' = [usedOrigin EXCEPT ![c.origin] = @ + c.tokens]
       /\ usedRecall' = usedRecall + (IF at = "recall" THEN c.tokens ELSE 0)
       /\ left' = left \ {c}
  /\ UNCHANGED <<request, at, suppressed, rebalances, kinds, skipped>>

NextRound ==
  /\ Evaluating /\ left = {}
  /\ \/ /\ at = "recall" /\ at' = "workspace"
        /\ left' = OfOrigin(request.chunks, "workspace")
     \/ /\ at = "workspace" /\ at' = "general"
        /\ left' = request.chunks
     \/ /\ at = "general" /\ at' = "rebalance"
        /\ left' = {}
  /\ UNCHANGED <<request, selected, suppressed, usedTokens, usedRecall,
                 usedOrigin, rebalances, kinds, skipped>>
-----------------------------------------------------------------------------
(* The exchange of memories for workspace chunks *)

Recalled == {e \in selected : e.chunk.origin = "memory"}
Without(e) == ChunksOf(selected \ {e})

TightImplementationWindow(e) ==
  /\ request.changedFiles /\ request.maxChunks <= 5
  /\ LET workspace == Cardinality(OfOrigin(Without(e), "workspace"))
     IN workspace >= 3 /\ workspace >= request.maxChunks - 1

\* The suppressed entries that may take the place of e.
Replacements(e) ==
  {s \in suppressed :
     LET score == Score(s.chunk, Without(e)) IN
     /\ s.chunk.origin = "workspace" /\ s.reason \in Room
     /\ score >= request.minScore
     /\ TightImplementationWindow(e) \/ score > e.score + 12
     /\ usedTokens - e.chunk.tokens + s.chunk.tokens <= request.tokenBudget}

\* Mutant of Exchange: the memory is dropped, not suppressed.
ExchangeAndDrop(e, s) ==
  /\ selected' = (selected \ {e}) \cup
       {[chunk |-> s.chunk, score |-> Score(s.chunk, Without(e))]}
  /\ suppressed' = suppressed \ {s}
  /\ usedTokens' = usedTokens - e.chunk.tokens + s.chunk.tokens

\* Mutant of Exchange: the tokens of the memory are not given back.
ExchangeUncounted(e, s) ==
  /\ selected' = (selected \ {e}) \cup
       {[chunk |-> s.chunk, score |-> Score(s.chunk, Without(e))]}
  /\ suppressed' = (suppressed \ {s}) \cup
       {[chunk |-> e.chunk, score |-> e.score,
         reason |-> "workspace-priority-over-recall"]}
  /\ usedTokens' = usedTokens + s.chunk.tokens

Exchange(e, s) ==
  /\ selected' = (selected \ {e}) \cup
       {[chunk |-> s.chunk, score |-> Score(s.chunk, Without(e))]}
  /\ suppressed' = (suppressed \ {s}) \cup
       {[chunk |-> e.chunk, score |-> e.score,
         reason |-> "workspace-priority-over-recall"]}
  /\ usedTokens' = usedTokens - e.chunk.tokens + s.chunk.tokens

MayRebalance == at = "rebalance" /\ ~ Capped /\ rebalances < request.maxChunks

Rebalance ==
  /\ MayRebalance
  /\ \E e \in Lowest(Recalled) : \E s \in Highest(Replacements(e)) :
       Exchange(e, s)
  /\ rebalances' = rebalances + 1
  /\ UNCHANGED <<request, at, left, usedRecall, usedOrigin, kinds, skipped>>

Rebalanced ==
  /\ at = "rebalance"
  /\ MayRebalance /\ Recalled # {} =>
       \E e \in Lowest(Recalled) : Replacements(e) = {}
  /\ at' = "cover" /\ kinds' = request.requiredKinds
  /\ UNCHANGED <<request, left, selected, suppressed, usedTokens, usedRecall,
                 usedOrigin, rebalances, skipped>>
-----------------------------------------------------------------------------
(* enforceSddCoverage *)

\* A kind of the policy's list that some chunk has.
Required(kind) ==
  /\ \E i \in DOMAIN request.requiredKinds : request.requiredKinds[i] = kind
  /\ \E c \in request.chunks : c.kind = kind

Covered(kind) == \E e \in selected : e.chunk.kind = kind

\* selectContextWindow for one chunk of the kind, without a threshold and with
\* the smallest reserve: the best workspace chunk that fits, else the best.  A
\* memory of one token or none is within the reserve and comes first, but the
\* exchange may prefer the workspace chunk again: here either is taken.
Candidate(kind) ==
  LET fits == {c \in request.chunks \ ChunksOf(selected) :
                 c.kind = kind /\ c.tokens <= request.tokenBudget}
      local == OfOrigin(fits, "workspace")
      tiny == {c \in OfOrigin(fits, "memory") : c.tokens <= 1}
  IN First(IF local # {} THEN local ELSE fits) \cup First(tiny)

Injected(c) == [chunk |-> c, score |-> Score(c, {})]
Released(c) == {s \in suppressed : s.chunk # c}

\* Mutant of Expendable: only the kinds still to cover are kept.
ExpendableOfCovered ==
  Lowest({e \in selected :
    \/ ~ \E i \in DOMAIN kinds : kinds[i] = e.chunk.kind
    \/ \E d \in selected \ {e} : d.chunk.kind = e.chunk.kind})

\* findReplacementIndex: not the last of a required kind.
Expendable ==
  Lowest({e \in selected :
    \/ ~ Required(e.chunk.kind)
    \/ \E d \in selected \ {e} : d.chunk.kind = e.chunk.kind})

\* Mutant of HasRoomFor: a window that would be full is taken for too small.
HasRoomToSpare(c) == /\ Cardinality(selected) + 1 < request.maxChunks
                     /\ usedTokens + c.tokens <= request.tokenBudget

HasRoomFor(c) == /\ Cardinality(selected) < request.maxChunks
                 /\ usedTokens + c.tokens <= request.tokenBudget

\* Mutant of FitsInstead: the tokens of the candidate are not counted.
FitsAnyway(c, e) ==
  c.tokens > 0 /\ usedTokens - e.chunk.tokens <= request.tokenBudget

FitsInstead(c, e) ==
  usedTokens - e.chunk.tokens + c.tokens <= request.tokenBudget

Missing(kind) == Required(kind) /\ ~ Covered(kind)
NextKind == at = "cover" /\ kinds # <<>> /\ kinds' = Tail(kinds)

NotMissing ==
  /\ NextKind /\ ~ Missing(Head(kinds))
  /\ UNCHANGED <<request, at, left, selected, suppressed, usedTokens,
                 usedRecall, usedOrigin, rebalances, skipped>>

Inject ==
  /\ NextKind /\ Missing(Head(kinds))
  /\ \E c \in Candidate(Head(kinds)) :
       /\ HasRoomFor(c)
       /\ selected' = selected \cup {Injected(c)}
       /\ suppressed' = Released(c)
       /\ usedTokens' = usedTokens + c.tokens
  /\ UNCHANGED <<request, at, left, usedRecall, usedOrigin, rebalances,
                 skipped>>

Displace ==
  /\ NextKind /\ Missing(Head(kinds))
  /\ \E c \in Candidate(Head(kinds)), e \in Expendable :
       /\ ~ HasRoomFor(c) /\ FitsInstead(c, e)
       /\ selected' = (selected \ {e}) \cup {Injected(c)}
       /\ suppressed' = Released(c) \cup
            {[chunk |-> e.chunk, score |-> e.score,
              reason |-> "sdd-rebalanced"]}
       /\ usedTokens' = usedTokens - e.chunk.tokens + c.tokens
  /\ UNCHANGED <<request, at, left, usedRecall, usedOrigin, rebalances,
                 skipped>>

\* No candidate, no slot that can be given up, or none that is big enough.
Skip ==
  /\ NextKind /\ Missing(Head(kinds))
  /\ \/ Candidate(Head(kinds)) = {}
     \/ \E c \in Candidate(Head(kinds)) :
          /\ ~ HasRoomFor(c)
          /\ Expendable # {} => \E e \in Expendable : ~ FitsInstead(c, e)
  /\ skipped' = skipped \cup {Head(kinds)}
  /\ UNCHANGED <<request, at, left, selected, suppressed, usedTokens,
                 usedRecall, usedOrigin, rebalances>>

Finish ==
  /\ at = "cover" /\ kinds = <<>>
  /\ at' = "done"
  /\ UNCHANGED <<request, left, selected, suppressed, usedTokens, usedRecall,
                 usedOrigin, rebalances, kinds, skipped>>

\* The window is made: nothing more happens.
Made == at = "done" /\ UNCHANGED selectionVars

SelectionNext ==
  \/ Pass \/ Suppress \/ Take \/ NextRound
  \/ Rebalance \/ Rebalanced
  \/ NotMissing \/ Inject \/ Displace \/ Skip \/ Finish \/ Made

SelectionSpec == SelectionInit /\ [][SelectionNext]_selectionVars
-----------------------------------------------------------------------------
(* Properties *)

TokensOf(chunks) == MapThenSumSet(LAMBDA c : c.tokens, chunks)

\* usedTokens, which the exchange and the coverage only ever correct, is what
\* the selected chunks add up to; and until kinds are covered no origin is
\* over its cap.
TokensAddUp ==
  /\ usedTokens = TokensOf(ChunksOf(selected))
  /\ at \notin {"cover", "done"} =>
       \A o \in DOMAIN request.caps :
         TokensOf(OfOrigin(ChunksOf(selected), o)) <= request.caps[o]

\* The window never outgrows the request, in tokens or in chunks, whatever
\* is exchanged or put in its place; and the exchange ends because nothing is
\* left to exchange, never for want of rounds, which maxChunks bounds.
WithinLimits ==
  /\ usedTokens <= request.tokenBudget
  /\ Cardinality(selected) <= request.maxChunks
  /\ at = "rebalance" =>
       rebalances + Cardinality(Recalled) <= request.maxChunks

\* No chunk is lost and none is counted twice: through the rounds, the
\* exchange and the coverage each chunk of the request comes to be either
\* selected or suppressed, with one score and one reason.
Accounted ==
  /\ \A d, e \in selected : d.chunk = e.chunk => d = e
  /\ \A d, e \in suppressed : d.chunk = e.chunk => d = e
  /\ ChunksOf(selected) \cap ChunksOf(suppressed) = {}
  /\ ~ Evaluating => Processed = request.chunks

\* A required kind that some chunk has is in the window in the end, or is
\* reported as skipped: covering one kind never takes the last chunk of
\* another, whether the window had it or it was put there.
CoverageHolds ==
  at \in {"cover", "done"} =>
    \A kind \in Kind :
      LET waits == \E i \in DOMAIN kinds : kinds[i] = kind
      IN /\ Missing(kind) => kind \in skipped \/ waits
         /\ kind \in skipped => Missing(kind)

\* When all chunks fit there is no contest: without caps, a chunk is left out
\* for what it is, never for want of room, whatever the reserve is.
RoomForAll ==
  /\ TokensOf(request.chunks) <= request.tokenBudget
  /\ Cardinality(request.chunks) <= request.maxChunks
  /\ ~ Capped
  => \A e \in suppressed :
       e.reason \notin
         Room \cup {"workspace-priority-over-recall", "sdd-rebalanced"}
=============================================================================
