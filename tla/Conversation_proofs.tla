------------------------ MODULE Conversation_proofs ------------------------
(***************************************************************************)
(* Theorems about what goes into a prompt: about Conversation, for any     *)
(* sessions, requests and policies, and about ContextSelection, for any    *)
(* chunks and options.                                                     *)
(***************************************************************************)
EXTENDS Conversation, ContextSelection, TLAPS, SequenceTheorems,
        FiniteSetTheorems, WellFoundedInduction

(***************************************************************************)
(* A session's memory, and what pruning keeps of it.                       *)
(***************************************************************************)
Memory == [turns : Seq(Nat), summary : SUBSET Nat, total : Nat, lastSummary : Nat]

From(g, n) == [i \in 1 .. n |-> g + i]

\* The turns are the last of the first top turns of h, and the summary tells of
\* the others.
Recalls(h, top, m) ==
  LET gone == top - Len(m.turns)
  IN /\ Len(m.turns) <= top
     /\ m.turns = From(gone, Len(m.turns))
     /\ m.summary \subseteq 1 .. gone
     /\ \A n \in 1 .. gone : Told(h, m.summary, n)

LEMMA PolicyTyped ==
  ASSUME world \in World
  PROVE  /\ {world.every, world.keep, world.maxTurns, world.most,
             world.summaryMost} \subseteq Nat
         /\ world.keep > 0 /\ world.maxTurns > 0
BY ConversationConstants DEF WorldType

LEMMA FirstOf ==
  ASSUME NEW T \in SUBSET Nat, T # {}
  PROVE  \E x \in T : \A y \in T : x <= y
<1>1. PICK x \in T : \A y \in T : ~ (<<y, x>> \in OpToRel(<, Nat))
  BY NatLessThanWellFounded, WFMin
<1>2. ASSUME NEW y \in T
      PROVE  x <= y
  <2>1. <<y, x>> \in Nat \X Nat /\ <<y, x>>[1] = y /\ <<y, x>>[2] = x
    OBVIOUS
  <2>2. ~ (y < x)
    BY <1>1, <2>1 DEF OpToRel
  <2>3. QED
    BY <2>2
<1>3. QED
  BY <1>2

LEMMA LastOf ==
  ASSUME NEW g \in Nat, NEW T \in SUBSET (1 .. g), T # {}
  PROVE  \E x \in T : \A y \in T : y <= x
<1> DEFINE D == {g - x : x \in T}
<1>1. D \in SUBSET Nat /\ D # {}
  <2>1. \A x \in T : x \in 1 .. g /\ g - x \in Nat
    OBVIOUS
  <2>2. QED
    BY <2>1
<1> HIDE DEF D
<1>2. PICK d \in D : \A e \in D : d <= e
  BY <1>1, FirstOf
<1>3. PICK x \in T : d = g - x
  BY DEF D
<1>4. ASSUME NEW y \in T
      PROVE  y <= x
  <2>1. d <= g - y
    BY <1>2 DEF D
  <2>2. QED
    BY <1>3, <2>1
<1>5. QED
  BY <1>4

\* What the cut of a summary leaves are its last lines, as many as it may have.
LEMMA LatestFacts ==
  ASSUME world \in World, NEW g \in Nat, NEW S \in SUBSET (1 .. g)
  PROVE  /\ Latest(S) \subseteq S
         /\ \A k \in S \ Latest(S) :
              /\ Cardinality(Latest(S)) >= world.summaryMost
              /\ \A j \in Latest(S) : k < j
<1> DEFINE After(k) == {j \in S : j > k}
           D == S \ Latest(S)
<1>1. world.summaryMost \in Nat
  BY PolicyTyped
<1>2. \A T \in SUBSET S : IsFiniteSet(T) /\ Cardinality(T) \in Nat
  <2>1. IsFiniteSet(1 .. g)
    BY FS_Interval
  <2>2. QED
    BY <2>1, FS_Subset, FS_CardinalityType
<1>3. \A k \in S : k \in Latest(S) <=> Cardinality(After(k)) < world.summaryMost
  BY DEF Latest
<1>4. Latest(S) \subseteq S
  BY DEF Latest
<1>5. ASSUME NEW k \in D, NEW j \in Latest(S)
      PROVE  k < j
  <2>0. \A i \in S : i \in Nat
    OBVIOUS
  <2>1. k \in S /\ j \in S
    BY <1>4, <1>5
  <2> SUFFICES ASSUME j <= k PROVE FALSE
    BY <2>0, <2>1
  <2>2. After(k) \in SUBSET After(j) /\ After(j) \in SUBSET S
    <3>1. \A i \in S : i > k => i > j
      BY <2>0, <2>1
    <3>2. QED
      BY <3>1
  <2> HIDE DEF After
  <2>3. Cardinality(After(k)) <= Cardinality(After(j))
    BY <1>2, <2>2, FS_Subset
  <2>4. Cardinality(After(k)) \in Nat /\ Cardinality(After(j)) \in Nat
    BY <1>2, <2>2
  <2>5. /\ Cardinality(After(j)) < world.summaryMost
        /\ ~ Cardinality(After(k)) < world.summaryMost
    BY <1>3, <1>5, <2>1
  <2>6. QED
    BY <1>1, <2>3, <2>4, <2>5
<1>6. ASSUME D # {}
      PROVE  Cardinality(Latest(S)) >= world.summaryMost
  <2>1. D \in SUBSET (1 .. g)
    OBVIOUS
  <2> HIDE DEF D
  <2>2. PICK k \in D : \A y \in D : y <= k
    BY <1>6, <2>1, LastOf
  <2>3. After(k) \in SUBSET Latest(S)
    BY <2>1, <2>2 DEF D
  <2>4. k \in S /\ After(k) \in SUBSET S /\ ~ Cardinality(After(k)) < world.summaryMost
    BY <1>3 DEF D
  <2> HIDE DEF After
  <2>5. Cardinality(After(k)) <= Cardinality(Latest(S))
    BY <1>2, <1>4, <2>3, FS_Subset
  <2>6. Cardinality(After(k)) \in Nat /\ Cardinality(Latest(S)) \in Nat
    BY <1>2, <1>4, <2>4
  <2>7. QED
    BY <1>1, <2>4, <2>5, <2>6
<1>7. QED
  BY <1>4, <1>5, <1>6

\* A summary that is full stays full.
LEMMA FullStays ==
  ASSUME world \in World, NEW g \in Nat, NEW T \in SUBSET (1 .. g),
         NEW S \in SUBSET T, Cardinality(S) >= world.summaryMost
  PROVE  Cardinality(Latest(T)) >= world.summaryMost
<1>1. CASE T \ Latest(T) # {}
  BY <1>1, LatestFacts
<1>2. CASE T \ Latest(T) = {}
  <2>1. Latest(T) = T
    BY <1>2, LatestFacts
  <2>2. IsFiniteSet(1 .. g)
    BY FS_Interval
  <2>3. IsFiniteSet(T) /\ IsFiniteSet(S)
    BY <2>2, FS_Subset
  <2>4. Cardinality(S) <= Cardinality(T)
    BY <2>3, FS_Subset
  <2>5. Cardinality(S) \in Nat /\ Cardinality(T) \in Nat /\ world.summaryMost \in Nat
    BY <2>3, FS_CardinalityType, PolicyTyped
  <2>6. QED
    BY <2>1, <2>4, <2>5
<1>3. QED
  BY <1>1, <1>2

\* Of every turn of a batch there is a line, its own or that of an equal one.
LEMMA LinesTell ==
  ASSUME NEW h, NEW batch \in SUBSET Nat, NEW k \in batch
  PROVE  \E j \in Lines(h, batch) : j <= k /\ h[j] = h[k]
<1> DEFINE T == {j \in batch : h[j] = h[k]}
<1>1. T \in SUBSET Nat /\ k \in T
  OBVIOUS
<1> HIDE DEF T
<1>2. PICK j \in T : \A y \in T : j <= y
  BY <1>1, FirstOf
<1>3. j \in Lines(h, batch)
  BY <1>2 DEF T, Lines
<1>4. QED
  BY <1>1, <1>2, <1>3 DEF T

\* Lines of later turns join the summary, whose front may be cut off.
LEMMA StillTold ==
  ASSUME world \in World, NEW h, NEW g \in Nat, NEW e \in Nat, g <= e,
         NEW S \in SUBSET (1 .. g), NEW B \in SUBSET (g + 1 .. e),
         \A n \in 1 .. g : Told(h, S, n),
         \A n \in g + 1 .. e : \E j \in B : j <= n /\ h[j] = h[n]
  PROVE  \A n \in 1 .. e : Told(h, Latest(S \cup B), n)
<1> DEFINE T == S \cup B
           Same(n) == {k \in 1 .. n : h[k] = h[n]}
<1>1. T \in SUBSET (1 .. e)
  OBVIOUS
<1> HIDE DEF T
<1>2. /\ Latest(T) \subseteq T
      /\ \A k \in T \ Latest(T) :
           /\ Cardinality(Latest(T)) >= world.summaryMost
           /\ \A j \in Latest(T) : k < j
  BY <1>1, LatestFacts
<1>3. ASSUME NEW n \in 1 .. e, NEW k \in Same(n) \cap T
      PROVE  Told(h, Latest(T), n)
  <2>1. CASE k \in Latest(T)
    BY <1>3, <2>1 DEF Told
  <2>2. CASE k \notin Latest(T)
    BY <1>2, <1>3, <2>2 DEF Told
  <2>3. QED
    BY <2>1, <2>2
<1>4. ASSUME NEW n \in g + 1 .. e
      PROVE  Told(h, Latest(T), n)
  <2>1. PICK j \in B : j <= n /\ h[j] = h[n]
    OBVIOUS
  <2>2. j \in Same(n) \cap T /\ n \in 1 .. e
    BY <2>1 DEF T
  <2>3. QED
    BY <1>3, <2>2
<1>5. ASSUME NEW n \in 1 .. g
      PROVE  Told(h, Latest(T), n)
  <2>1. n \in 1 .. e /\ Told(h, S, n)
    OBVIOUS
  <2>2. CASE Same(n) \cap S # {}
    <3>1. PICK k : k \in Same(n) \cap S
      BY <2>2
    <3>2. k \in Same(n) \cap T
      BY <3>1 DEF T
    <3>3. QED
      BY <1>3, <2>1, <3>2
  <2>3. CASE /\ Cardinality(S) >= world.summaryMost
             /\ \E k \in Same(n) : \A j \in S : k < j
    <3>1. Cardinality(Latest(T)) >= world.summaryMost
      <4>1. S \in SUBSET T
        BY DEF T
      <4>2. QED
        BY <1>1, <2>3, <4>1, FullStays
    <3>2. PICK k \in Same(n) : \A j \in S : k < j
      BY <2>3
    <3>3. \A j \in B : k < j
      OBVIOUS
    <3>4. \A j \in Latest(T) : k < j
      BY <1>2, <3>2, <3>3 DEF T
    <3>5. QED
      BY <3>1, <3>2, <3>4 DEF Told
  <2>4. QED
    BY <2>1, <2>2, <2>3 DEF Told
<1>6. \A n \in 1 .. e : n \in 1 .. g \/ n \in g + 1 .. e
  OBVIOUS
<1>7. QED
  BY <1>4, <1>5, <1>6 DEF T

LEMMA MemoryTyped ==
  ASSUME NEW m \in Memory
  PROVE  /\ m.turns \in Seq(Nat) /\ m.summary \in SUBSET Nat
         /\ Len(m.turns) \in Nat /\ m.total \in Nat /\ m.lastSummary \in Nat
BY DEF Memory

\* pruneTurnsIntoSummary moves turns, and no other turn is lost for it.
LEMMA PruneKeeps ==
  ASSUME world \in World, NEW h, NEW top \in Nat, NEW m \in Memory,
         NEW n \in 0 .. Len(m.turns), Recalls(h, top, m)
  PROVE  /\ Prune(h, m, n) \in Memory
         /\ Recalls(h, top, Prune(h, m, n))
         /\ Len(Prune(h, m, n).turns) = Len(m.turns) - n
         /\ Prune(h, m, n).total = m.total
         /\ Prune(h, m, n).lastSummary = m.lastSummary
<1> DEFINE g == top - Len(m.turns)
           e == g + n
           front == Front(m, n)
           new == Latest(m.summary \cup Lines(h, front))
           rest == SubSeq(m.turns, n + 1, Len(m.turns))
           p == Prune(h, m, n)
<1>1. m.turns \in Seq(Nat) /\ m.summary \in SUBSET Nat /\ Len(m.turns) \in Nat
  BY MemoryTyped
<1>2. /\ g \in Nat /\ e \in Nat /\ g <= e /\ Len(m.turns) - n \in Nat
      /\ e = top - (Len(m.turns) - n)
  BY <1>1 DEF Recalls
<1>3. /\ m.turns = From(g, Len(m.turns))
      /\ m.summary \in SUBSET (1 .. g)
      /\ \A k \in 1 .. g : Told(h, m.summary, k)
  BY DEF Recalls
<1> HIDE DEF g
<1>4. front = g + 1 .. e
  <2>1. \A i \in 1 .. n : m.turns[i] = g + i
    BY <1>1, <1>3 DEF From
  <2>2. front = {g + i : i \in 1 .. n}
    BY <2>1 DEF Front
  <2>3. \A k \in g + 1 .. e : k - g \in 1 .. n /\ k = g + (k - g)
    BY <1>2
  <2>4. QED
    BY <1>2, <2>2, <2>3
<1>5. rest \in Seq(Nat) /\ Len(rest) = Len(m.turns) - n
  BY <1>1
<1>6. rest = From(e, Len(rest))
  <2>1. \A i \in 1 .. Len(rest) : rest[i] = m.turns[n + i] /\ n + i \in 1 .. Len(m.turns)
    BY <1>1, <1>5
  <2>2. \A i \in 1 .. Len(rest) : rest[i] = e + i
    BY <1>2, <1>3, <2>1 DEF From
  <2>3. From(e, Len(rest)) \in Seq(Nat) /\ Len(From(e, Len(rest))) = Len(rest)
    BY <1>2, <1>5 DEF From
  <2>4. \A i \in 1 .. Len(rest) : From(e, Len(rest))[i] = e + i
    BY DEF From
  <2> HIDE DEF rest, e
  <2>5. QED
    BY <1>5, <2>2, <2>3, <2>4, SeqEqual
<1> HIDE DEF front, rest
<1>7. /\ Lines(h, front) \in SUBSET (g + 1 .. e)
      /\ \A k \in g + 1 .. e : \E j \in Lines(h, front) : j <= k /\ h[j] = h[k]
  <2>1. front \in SUBSET Nat
    BY <1>2, <1>4
  <2>2. Lines(h, front) \in SUBSET front
    BY DEF Lines
  <2>3. QED
    BY <1>4, <2>1, <2>2, LinesTell
<1> HIDE DEF e
<1>8. \A k \in 1 .. e : Told(h, new, k)
  BY <1>2, <1>3, <1>7, StillTold
<1> HIDE DEF new
<1>9. new \in SUBSET (1 .. e) /\ new \in SUBSET Nat
  <2>1. \A k \in 1 .. g : k \in 1 .. e /\ k \in Nat
    BY <1>2
  <2>2. \A k \in g + 1 .. e : k \in 1 .. e /\ k \in Nat
    BY <1>2
  <2>3. m.summary \cup Lines(h, front) \in SUBSET (1 .. e)
    BY <1>3, <1>7, <2>1, <2>2
  <2>4. new \subseteq m.summary \cup Lines(h, front)
    BY DEF Latest, new
  <2>5. \A k \in 1 .. e : k \in Nat
    BY <1>2
  <2>6. QED
    BY <2>3, <2>4, <2>5
<1>10. p = [m EXCEPT !.summary = new, !.turns = rest]
  BY DEF Prune, front, rest, new
<1> HIDE DEF p
<1>11. /\ p \in Memory /\ p.summary = new /\ p.turns = rest
       /\ p.total = m.total /\ p.lastSummary = m.lastSummary
  BY <1>5, <1>9, <1>10 DEF Memory
<1>12. Recalls(h, top, p)
  <2>1. Len(p.turns) = Len(m.turns) - n /\ top - Len(p.turns) = e
    BY <1>2, <1>5, <1>11
  <2>2. Len(p.turns) <= top
    BY <1>1, <1>2, <2>1
  <2>3. p.turns = From(e, Len(p.turns))
    BY <1>6, <1>11
  <2>4. QED
    BY <1>8, <1>9, <1>11, <2>1, <2>2, <2>3 DEF Recalls
<1>13. QED
  BY <1>5, <1>11, <1>12 DEF p

(***************************************************************************)
(* The bound on the turns is not inductive.  What is: the turns beyond     *)
(* those to keep came since the last summary (Behind), and when            *)
(* summaryEvery or more came since, there are none beyond.                 *)
(***************************************************************************)
Behind(m) ==
  /\ m.lastSummary <= m.total
  /\ Len(m.turns) <= world.keep + (m.total - m.lastSummary)

Paced(m) ==
  world.every > 0 =>
    /\ Behind(m)
    /\ m.total - m.lastSummary < world.every \/ Len(m.turns) <= world.keep

LEMMA CompactedKeeps ==
  ASSUME world \in World, NEW h, NEW top \in Nat, NEW m \in Memory,
         Recalls(h, top, m), Paced(m)
  PROVE  /\ Compacted(h, m) \in Memory /\ Recalls(h, top, Compacted(h, m))
         /\ Paced(Compacted(h, m))
<1>1. Len(m.turns) \in Nat /\ m.total \in Nat /\ m.lastSummary \in Nat
  BY MemoryTyped
<1>2. world.keep \in Nat /\ world.every \in Nat
  BY PolicyTyped
<1>3. CASE Len(m.turns) <= world.keep
  BY <1>1, <1>3 DEF Compacted
<1>4. CASE Len(m.turns) > world.keep
  <2> DEFINE n == (Len(m.turns) - world.keep + 1) \div 2
  <2>1. n \in 0 .. Len(m.turns)
    BY <1>1, <1>2, <1>4
  <2>2. Compacted(h, m) = Prune(h, m, n)
    BY <1>1, <1>2, <1>4 DEF Compacted
  <2> HIDE DEF n
  <2>3. /\ Prune(h, m, n) \in Memory /\ Recalls(h, top, Prune(h, m, n))
        /\ Len(Prune(h, m, n).turns) = Len(m.turns) - n
        /\ Prune(h, m, n).total = m.total
        /\ Prune(h, m, n).lastSummary = m.lastSummary
    BY <2>1, PruneKeeps
  <2>4. QED
    BY <1>1, <1>2, <2>1, <2>2, <2>3 DEF Paced, Behind
<1>5. QED
  BY <1>1, <1>2, <1>3, <1>4

\* The first half of applyRetentionPolicy catches up with the count.
LEMMA SummarisedKeeps ==
  ASSUME world \in World, NEW h, NEW top \in Nat, NEW m \in Memory,
         Recalls(h, top, m), world.every > 0 => Behind(m)
  PROVE  /\ Summarised(h, m) \in Memory /\ Recalls(h, top, Summarised(h, m))
         /\ Paced(Summarised(h, m))
         /\ m.turns # <<>> => Summarised(h, m).turns # <<>>
<1>1. /\ Len(m.turns) \in Nat /\ m.total \in Nat /\ m.lastSummary \in Nat
      /\ m.turns \in Seq(Nat)
  BY MemoryTyped
<1>2. world.keep \in Nat /\ world.every \in Nat /\ world.keep > 0
  BY PolicyTyped
<1> DEFINE due == /\ world.every > 0
                  /\ m.total - m.lastSummary >= world.every
                  /\ Len(m.turns) > world.keep
<1>3. CASE ~ due
  <2>1. Summarised(h, m) = m
    BY <1>3 DEF Summarised
  <2>2. Paced(m)
    BY <1>1, <1>2, <1>3 DEF Paced
  <2>3. QED
    BY <2>1, <2>2
<1>4. CASE due
  <2> DEFINE n == Len(m.turns) - world.keep
             p == Prune(h, m, n)
             q == Summarised(h, m)
  <2>1. n \in 0 .. Len(m.turns) /\ Len(m.turns) - n = world.keep
    BY <1>1, <1>2, <1>4
  <2>2. p \in Memory /\ Recalls(h, top, p) /\ Len(p.turns) = world.keep
    BY <2>1, PruneKeeps
  <2>3. q = [p EXCEPT !.lastSummary = m.total]
    BY <1>4, Zenon DEF Summarised
  <2>4. p.total = m.total
    BY <2>1, PruneKeeps
  <2> HIDE DEF p, q
  <2>5. /\ q \in Memory
        /\ q.turns = p.turns /\ q.summary = p.summary
        /\ q.total = m.total /\ q.lastSummary = m.total
    BY <1>1, <2>2, <2>3, <2>4 DEF Memory
  <2>6. Recalls(h, top, q)
    BY <2>2, <2>5 DEF Recalls
  <2>7. Len(q.turns) = world.keep
    BY <2>2, <2>5
  <2>8. Paced(q)
    BY <1>1, <1>2, <1>4, <2>5, <2>7 DEF Paced, Behind
  <2>9. q.turns # <<>>
    BY <1>2, <2>7
  <2>10. QED
    BY <2>5, <2>6, <2>8, <2>9 DEF q
<1>5. QED
  BY <1>3, <1>4

LEMMA RetainedKeeps ==
  ASSUME world \in World, NEW h, NEW top \in Nat, NEW m \in Memory,
         Recalls(h, top, m), world.every > 0 => Behind(m), m.turns # <<>>
  PROVE  /\ Retained(h, m) \in Memory /\ Recalls(h, top, Retained(h, m))
         /\ Paced(Retained(h, m)) /\ Len(Retained(h, m).turns) <= world.maxTurns
         /\ Retained(h, m).turns # <<>>
<1> DEFINE r == Summarised(h, m)
           n == Len(r.turns) - world.maxTurns
           p == Prune(h, r, n)
<1>1. r \in Memory /\ Recalls(h, top, r) /\ Paced(r) /\ r.turns # <<>>
  BY SummarisedKeeps
<1>2. Len(r.turns) \in Nat /\ r.total \in Nat /\ r.lastSummary \in Nat
  BY <1>1, MemoryTyped
<1>3. /\ world.maxTurns \in Nat /\ world.keep \in Nat /\ world.every \in Nat
      /\ world.maxTurns > 0
  BY PolicyTyped
<1>4. Retained(h, m) = IF Len(r.turns) > world.maxTurns THEN p ELSE r
  BY DEF Retained
<1> HIDE DEF r
<1>5. CASE Len(r.turns) > world.maxTurns
  <2>1. n \in 0 .. Len(r.turns) /\ Len(r.turns) - n = world.maxTurns
    BY <1>2, <1>3, <1>5
  <2>2. /\ p \in Memory /\ Recalls(h, top, p)
        /\ Len(p.turns) = world.maxTurns
        /\ p.total = r.total
        /\ p.lastSummary = r.lastSummary
    BY <1>1, <2>1, PruneKeeps
  <2> HIDE DEF p
  <2>3. Paced(p) /\ p.turns # <<>>
    BY <1>1, <1>2, <1>3, <1>5, <2>2 DEF Paced, Behind
  <2>4. QED
    BY <1>3, <1>4, <1>5, <2>2, <2>3
<1>6. CASE ~ Len(r.turns) > world.maxTurns
  BY <1>1, <1>2, <1>3, <1>4, <1>6
<1>7. QED
  BY <1>5, <1>6

LEMMA Joined ==
  \A p, q, r \in Seq(Nat) : (p \o q) \o r = p \o (q \o r)
BY ConcatAssociative

Counted(k) == [n \in 1 .. k |-> n]

LEMMA CountedNext ==
  ASSUME NEW k \in Nat
  PROVE  Counted(k) \in Seq(Nat) /\ Append(Counted(k), k + 1) = Counted(k + 1)
<1>1. Counted(k) \in Seq(Nat) /\ Len(Counted(k)) = k
  BY DEF Counted
<1>2. Counted(k + 1) \in Seq(Nat) /\ Len(Counted(k + 1)) = k + 1
  BY DEF Counted
<1>3. /\ Append(Counted(k), k + 1) \in Seq(Nat)
      /\ Len(Append(Counted(k), k + 1)) = k + 1
  BY <1>1
<1>4. ASSUME NEW i \in 1 .. k + 1
      PROVE  Append(Counted(k), k + 1)[i] = Counted(k + 1)[i]
  BY <1>1 DEF Counted
<1>5. QED
  BY <1>1, <1>2, <1>3, <1>4, SeqEqual

\* A turn that is pushed is the last of all.
LEMMA PushedKeeps ==
  ASSUME world \in World, NEW h, NEW top \in Nat, NEW m \in Memory,
         Recalls(h, top, m), Paced(m)
  PROVE  /\ Pushed(m, top + 1) \in Memory
         /\ Recalls(h, top + 1, Pushed(m, top + 1))
         /\ Pushed(m, top + 1).turns # <<>>
         /\ world.every > 0 => Behind(Pushed(m, top + 1))
<1> DEFINE p == Pushed(m, top + 1)
           l == Len(m.turns)
           g == top - l
           more == Append(m.turns, top + 1)
<1>1. /\ m.turns \in Seq(Nat) /\ m.summary \in SUBSET Nat
      /\ l \in Nat /\ m.total \in Nat /\ m.lastSummary \in Nat
  BY MemoryTyped
<1>2. world.keep \in Nat /\ world.every \in Nat
  BY PolicyTyped
<1>3. more \in Seq(Nat) /\ Len(more) = l + 1 /\ more # <<>>
  BY <1>1
<1>4. more = From(g, l + 1)
  <2>1. g \in Nat /\ m.turns = From(g, l) /\ g + (l + 1) = top + 1
    BY <1>1 DEF Recalls
  <2>2. \A i \in 1 .. l : more[i] = m.turns[i] /\ m.turns[i] = g + i
    <3>1. \A i \in 1 .. l : From(g, l)[i] = g + i
      BY DEF From
    <3>2. \A i \in 1 .. l : more[i] = m.turns[i]
      BY <1>1
    <3>3. QED
      BY <2>1, <3>1, <3>2
  <2>3. more[l + 1] = g + (l + 1)
    BY <1>1, <2>1
  <2>4. \A i \in 1 .. l + 1 : i \in 1 .. l \/ i = l + 1
    BY <1>1
  <2>5. \A i \in 1 .. l + 1 : more[i] = g + i
    BY <2>2, <2>3, <2>4
  <2>6. From(g, l + 1) \in Seq(Nat) /\ Len(From(g, l + 1)) = l + 1
    BY <1>1, <2>1 DEF From
  <2>7. \A i \in 1 .. l + 1 : From(g, l + 1)[i] = g + i
    BY DEF From
  <2> HIDE DEF more, g, l
  <2>8. QED
    BY <1>3, <2>5, <2>6, <2>7, SeqEqual
<1>5. p = [m EXCEPT !.turns = more, !.total = m.total + 1]
  BY DEF Pushed
<1> HIDE DEF p, more
<1>6. /\ p \in Memory /\ p.summary = m.summary /\ p.turns = more
      /\ p.total = m.total + 1 /\ p.lastSummary = m.lastSummary
  <2>1. m.total + 1 \in Nat
    BY <1>1
  <2>2. m = [turns |-> m.turns, summary |-> m.summary,
             total |-> m.total, lastSummary |-> m.lastSummary]
    BY DEF Memory
  <2>3. QED
    BY <1>1, <1>3, <1>5, <2>1, <2>2 DEF Memory
<1>7. (top + 1) - (l + 1) = g
  BY <1>1
<1>8. Recalls(h, top + 1, p)
  <2>1. l <= top /\ m.summary \subseteq 1 .. g /\ \A n \in 1 .. g : Told(h, m.summary, n)
    BY DEF Recalls
  <2> HIDE DEF g
  <2>2. Len(p.turns) = l + 1 /\ (top + 1) - Len(p.turns) = g
    BY <1>3, <1>6, <1>7
  <2>3. Len(p.turns) <= top + 1
    BY <1>1, <2>1, <2>2
  <2> HIDE DEF l
  <2>4. p.turns = From(g, Len(p.turns))
    BY <1>4, <1>6, <2>2
  <2>5. QED
    BY <1>6, <2>1, <2>2, <2>3, <2>4 DEF Recalls
<1>9. world.every > 0 => Behind(p)
  BY <1>1, <1>2, <1>3, <1>6 DEF Paced, Behind
<1>10. QED
  BY <1>3, <1>6, <1>8, <1>9 DEF p

\* What is said later does not change what was told.
LEMMA SaidMore ==
  ASSUME NEW h \in Seq(Said), NEW x \in Said, NEW m \in Memory,
         Recalls(h, Len(h), m)
  PROVE  Recalls(Append(h, x), Len(h), m)
<1>1. /\ Len(h) \in Nat /\ Len(m.turns) \in Nat
      /\ \A k \in 1 .. Len(h) : Append(h, x)[k] = h[k]
  BY MemoryTyped
<1>2. ASSUME NEW n \in 1 .. Len(h) - Len(m.turns)
      PROVE  Told(Append(h, x), m.summary, n)
  <2>1. Told(h, m.summary, n)
    BY DEF Recalls
  <2>2. \A k \in 1 .. n : Append(h, x)[k] = h[k]
    BY <1>1
  <2>3. Append(h, x)[n] = h[n]
    BY <1>1
  <2>4. QED
    BY <2>1, <2>2, <2>3 DEF Told
<1>3. QED
  BY <1>2 DEF Recalls

(***************************************************************************)
(* The invariant of sessions, requests and the cache.                      *)
(***************************************************************************)
Contexts == (SUBSET Nat) \X Seq(Nat)
Calls == [session : Session, turn : Nat, context : Contexts]

SessionsTyped ==
  /\ world \in World
  /\ said \in [Session -> Seq(Said)]
  /\ memory \in [Session -> Memory]
  /\ cache \in [Session -> {NoContext} \cup Contexts]
  /\ call \in [Client -> Calls \cup {NoCall}]

Remembered(s) ==
  /\ Recalls(said[s], Len(said[s]), memory[s])
  /\ Paced(memory[s])
  /\ Len(memory[s].turns) <= world.maxTurns

SessionInv ==
  SessionsTyped /\ (\A s \in Session : Remembered(s)) /\ CacheIsCurrent

LEMMA SessionInit == Init => SessionInv
<1> SUFFICES ASSUME Init PROVE SessionInv
  OBVIOUS
<1> DEFINE empty == [turns |-> <<>>, summary |-> {},
                     total |-> 0, lastSummary |-> 0]
<1>1. empty \in Memory /\ Len(empty.turns) = 0
  BY DEF Memory
<1>2. \A s \in Session : said[s] = <<>> /\ memory[s] = empty /\ cache[s] = <<>>
  BY DEF Init
<1>3. SessionsTyped
  BY <1>1 DEF Init, SessionsTyped, NoContext
<1>4. world.keep \in Nat /\ world.maxTurns \in Nat /\ world.every \in Nat
  BY PolicyTyped DEF Init
<1>5. ASSUME NEW s \in Session
      PROVE  Remembered(s)
  <2>1. From(0, 0) = <<>> /\ Len(said[s]) = 0
    BY <1>2 DEF From
  <2>2. Recalls(said[s], 0, empty)
    BY <1>1, <2>1 DEF Recalls
  <2>3. Paced(empty)
    BY <1>1, <1>4 DEF Paced, Behind
  <2>4. QED
    BY <1>1, <1>2, <1>4, <2>1, <2>2, <2>3 DEF Remembered
<1>6. CacheIsCurrent
  BY <1>2 DEF CacheIsCurrent, NoContext, Init
<1>7. QED
  BY <1>3, <1>5, <1>6 DEF SessionInv

\* The last of the turns is the last of all.
LEMMA LastIsNew ==
  ASSUME NEW h, NEW top \in Nat, NEW m \in Memory, Recalls(h, top, m),
         m.turns # <<>>
  PROVE  m.turns[Len(m.turns)] = top
<1>1. m.turns \in Seq(Nat) /\ Len(m.turns) \in Nat /\ Len(m.turns) > 0
  BY MemoryTyped
<1>2. m.turns = From(top - Len(m.turns), Len(m.turns))
  BY DEF Recalls
<1> DEFINE l == Len(m.turns)
           g == top - l
<1>3. \A i \in 1 .. l : From(g, l)[i] = g + i
  BY DEF From
<1>4. l \in 1 .. l /\ g + l = top
  BY <1>1
<1> HIDE DEF g
<1>5. From(g, l)[l] = top
  BY <1>3, <1>4
<1>6. QED
  BY <1>2, <1>5 DEF g

\* Nothing else decides what is remembered.
LEMMA WorldStays ==
  ASSUME world' = world, NEW s, NEW h, NEW m, said'[s] = h, memory'[s] = m,
         Recalls(h, Len(h), m), Paced(m), Len(m.turns) <= world.maxTurns
  PROVE  Remembered(s)'
<1>1. Recalls(said[s], Len(said[s]), memory[s])'
  BY DEF Recalls, Told
<1>2. Paced(memory[s])' /\ (Len(memory[s].turns) <= world.maxTurns)'
  BY DEF Paced, Behind
<1>3. QED
  BY <1>1, <1>2 DEF Remembered

\* A turn is added to one session, and pruning keeps all turns of it.
LEMMA AddTurnKeeps ==
  ASSUME SessionInv, NEW s \in Session, NEW role \in {"user", "system"},
         NEW c \in Content, AddTurn(s, role, c), world' = world
  PROVE  /\ said' \in [Session -> Seq(Said)]
         /\ memory' \in [Session -> Memory]
         /\ \A t \in Session : Remembered(t)'
         /\ \A t \in Session \ {s} : memory'[t] = memory[t]
         /\ memory'[s].turns # <<>> /\ Len(said'[s]) \in Nat
         /\ memory'[s].turns[Len(memory'[s].turns)] = Len(said'[s])
<1> DEFINE top == Len(said[s])
           n == top + 1
           x == [role |-> role, content |-> c]
           h == Append(said[s], x)
           m == IF Usage(s, c) > world.compactAt THEN Compacted(h, memory[s])
                ELSE memory[s]
           p == Pushed(m, n)
           r == Retained(h, p)
<1>1. world \in World /\ said[s] \in Seq(Said) /\ memory[s] \in Memory
  BY DEF SessionInv, SessionsTyped
<1>2. x \in Said /\ h \in Seq(Said) /\ Len(h) = n /\ top \in Nat
  BY <1>1 DEF Said
<1>3. Recalls(h, top, memory[s]) /\ Paced(memory[s])
  BY <1>1, <1>2, SaidMore DEF SessionInv, Remembered
<1>4. said' = [said EXCEPT ![s] = h] /\ memory' = [memory EXCEPT ![s] = r]
  BY DEF AddTurn
<1> HIDE DEF h, top
<1>5. m \in Memory /\ Recalls(h, top, m) /\ Paced(m)
  BY <1>1, <1>2, <1>3, CompactedKeeps
<1> HIDE DEF m
<1>6. /\ p \in Memory /\ Recalls(h, n, p) /\ p.turns # <<>>
      /\ world.every > 0 => Behind(p)
  BY <1>1, <1>2, <1>5, PushedKeeps
<1> HIDE DEF p
<1>7. n \in Nat
  BY <1>2
<1> HIDE DEF n
<1>8. /\ r \in Memory /\ Recalls(h, n, r)
      /\ Paced(r) /\ Len(r.turns) <= world.maxTurns /\ r.turns # <<>>
  BY <1>1, <1>6, <1>7, RetainedKeeps
<1> HIDE DEF r
<1>9. /\ said' \in [Session -> Seq(Said)]
      /\ memory' \in [Session -> Memory]
      /\ memory'[s] = r /\ said'[s] = h /\ Len(said'[s]) = n
      /\ \A t \in Session \ {s} : memory'[t] = memory[t] /\ said'[t] = said[t]
  BY <1>2, <1>4, <1>8 DEF SessionInv, SessionsTyped
<1>10. ASSUME NEW t \in Session
       PROVE  Remembered(t)'
  <2>1. CASE t = s
    BY <1>8, <1>9, <2>1, WorldStays
  <2>2. CASE t # s
    <3>1. memory'[t] = memory[t] /\ said'[t] = said[t] /\ Remembered(t)
      BY <1>9, <2>2 DEF SessionInv
    <3>2. QED
      BY <3>1, WorldStays DEF Remembered
  <2>3. QED
    BY <2>1, <2>2
<1>11. r.turns[Len(r.turns)] = n
  BY <1>7, <1>8, LastIsNew
<1>12. QED
  BY <1>7, <1>8, <1>9, <1>10, <1>11

LEMMA ContextTyped ==
  ASSUME NEW m \in Memory
  PROVE  Context(m) \in Contexts
BY DEF Context, Memory, Contexts

LEMMA SessionNext == SessionInv /\ [Next]_vars => SessionInv'
<1> SUFFICES ASSUME SessionInv, [Next]_vars PROVE SessionInv'
  OBVIOUS
<1> DEFINE CachesNew == \A s \in Session : cache[s] \in {NoContext, Context(memory[s])}
           CallsOwn == \A c \in Client : call[c] # NoCall => OwnTurnLast(call[c])
<1>1. /\ said \in [Session -> Seq(Said)] /\ memory \in [Session -> Memory]
      /\ cache \in [Session -> {NoContext} \cup Contexts]
      /\ call \in [Client -> Calls \cup {NoCall}]
      /\ world \in World /\ CachesNew /\ CallsOwn
      /\ \A s \in Session : Remembered(s)
  BY DEF SessionInv, SessionsTyped, CacheIsCurrent
<1>2. world.contents \subseteq Content
  BY <1>1, ConversationConstants DEF WorldType
<1>3. ASSUME UNCHANGED <<world, said, memory>>,
             cache' \in [Session -> {NoContext} \cup Contexts],
             \A c \in Client : call'[c] \in {NoCall, call[c]},
             call' = [c \in Client |-> call'[c]],
             CachesNew'
      PROVE  SessionInv'
  <2>1. call' \in [Client -> Calls \cup {NoCall}]
    BY <1>1, <1>3
  <2>2. CallsOwn'
    BY <1>1, <1>3, Zenon DEF OwnTurnLast
  <2>3. QED
    <3>1. \A s \in Session : Remembered(s)'
      BY <1>1, <1>3, WorldStays DEF Remembered
    <3>2. SessionsTyped'
      BY <1>1, <1>3, <2>1 DEF SessionsTyped
    <3>3. QED
      BY <1>3, <2>2, <3>1, <3>2 DEF SessionInv, CacheIsCurrent
<1>4. ASSUME UNCHANGED <<world, live>>
      PROVE  SessionInv'
  <2>1. CachesNew'
    BY <1>1, <1>4 DEF live
  <2>2. QED
    BY <1>1, <1>3, <1>4, <2>1 DEF live
<1>5. ASSUME NEW s \in Session, CreateSession(s)
      PROVE  SessionInv'
  <2>1. UNCHANGED <<world, said, memory, cache, call>>
    BY <1>5 DEF CreateSession
  <2>2. CachesNew'
    BY <1>1, <2>1
  <2>3. QED
    BY <1>1, <1>3, <2>1, <2>2
<1>6. ASSUME NEW s \in Session, EndSession(s)
      PROVE  SessionInv'
  <2>1. /\ UNCHANGED <<world, said, memory, call>>
        /\ cache' = [cache EXCEPT ![s] = NoContext]
    BY <1>6 DEF EndSession
  <2>2. CachesNew'
    BY <1>1, <2>1
  <2>3. QED
    BY <1>1, <1>3, <2>1, <2>2
<1>7. ASSUME NEW s \in Session, HistoryStep(s)
      PROVE  SessionInv'
  BY <1>4, <1>7
  DEF HistoryStep, Begin, StatBlob, StatFails, OpenBlob, FillBlob, AppendTurn,
      AppendFails, BlobFails
<1>8. ASSUME NEW s \in Session, NEW role \in {"user", "system"},
             NEW t \in world.contents, AddTurn(s, role, t),
             world' = world,
             \E x \in {NoContext, Context(memory'[s])} :
               cache' = [cache EXCEPT ![s] = x],
             NEW c \in Client, NEW k \in {NoCall, [session |-> s, turn |-> Len(said'[s]),
                                                   context |-> Context(memory'[s])]},
             call' = [call EXCEPT ![c] = k]
      PROVE  SessionInv'
  <2>1. /\ said' \in [Session -> Seq(Said)]
        /\ memory' \in [Session -> Memory]
        /\ \A u \in Session : Remembered(u)'
        /\ \A u \in Session \ {s} : memory'[u] = memory[u]
        /\ memory'[s].turns # <<>> /\ Len(said'[s]) \in Nat
        /\ memory'[s].turns[Len(memory'[s].turns)] = Len(said'[s])
    BY <1>2, <1>8, AddTurnKeeps
  <2>2. memory'[s] \in Memory
    BY <2>1
  <2>3. Context(memory'[s]) \in Contexts
    BY <2>2, ContextTyped
  <2>4. cache' \in [Session -> {NoContext} \cup Contexts]
    BY <1>1, <1>8, <2>3
  <2>5. CachesNew'
    BY <1>1, <1>8, <2>1 DEF Context
  <2>6. call' \in [Client -> Calls \cup {NoCall}]
    BY <1>1, <1>8, <2>1, <2>3 DEF Calls
  <2>7. k # NoCall => OwnTurnLast(k)
    <3>1. Context(memory'[s])[2] = memory'[s].turns
      BY DEF Context
    <3>2. QED
      BY <1>8, <2>1, <3>1 DEF OwnTurnLast
  <2>8. CallsOwn'
    <3> SUFFICES ASSUME NEW d \in Client, call'[d] # NoCall
                 PROVE  OwnTurnLast(call'[d])
      BY DEF OwnTurnLast
    <3>1. CASE d = c
      BY <1>1, <1>8, <2>7, <3>1
    <3>2. CASE d # c
      BY <1>1, <1>8, <3>2
    <3>3. QED
      BY <3>1, <3>2
  <2>9. QED
    BY <1>1, <1>8, <2>1, <2>4, <2>5, <2>6, <2>8
    DEF SessionInv, SessionsTyped, CacheIsCurrent
<1>9. ASSUME NEW c \in Client, Answer(c)
      PROVE  SessionInv'
  <2> DEFINE s == call[c].session
  <2>1. PICK t \in world.contents :
          IF status[s] = "live" /\ ~ Refused(s, t)
          THEN /\ AddTurn(s, "system", t)
               /\ cache' = [cache EXCEPT ![s] = NoContext]
          ELSE UNCHANGED <<said, memory, cache, queue>>
    BY <1>9 DEF Answer
  <2>2. call[c] \in Calls /\ world' = world
        /\ call' = [call EXCEPT ![c] = NoCall]
    BY <1>1, <1>9 DEF Answer
  <2>3. s \in Session
    BY <2>2 DEF Calls
  <2> HIDE DEF s
  <2>4. CASE status[s] = "live" /\ ~ Refused(s, t)
    BY <1>8, <2>1, <2>2, <2>3, <2>4
  <2>5. CASE ~ (status[s] = "live" /\ ~ Refused(s, t))
    <3>1. UNCHANGED <<said, memory, cache>>
      BY <2>1, <2>5
    <3>2. CachesNew'
      BY <1>1, <3>1
    <3>3. QED
      BY <1>1, <1>3, <2>2, <3>1, <3>2
  <2>6. QED
    BY <2>4, <2>5
<1>10. ASSUME NEW c \in Client, NEW s \in Session, Ask(c, s)
       PROVE  SessionInv'
  <2>1. PICK t \in world.contents : AddTurn(s, "user", t)
    BY <1>10 DEF Ask
  <2>2. /\ world' = world
        /\ cache' = [cache EXCEPT ![s] = Context(memory'[s])]
        /\ call' = [call EXCEPT ![c] = [session |-> s, turn |-> Len(said'[s]),
                                        context |-> cache'[s]]]
    BY <1>10 DEF Ask
  <2>3. cache'[s] = Context(memory'[s])
    BY <1>1, <2>2
  <2>4. QED
    BY <1>8, <2>1, <2>2, <2>3
<1>11. CASE Kill
  <2>1. /\ UNCHANGED <<world, said, memory>>
        /\ cache' = [s \in Session |-> NoContext]
        /\ call' = [c \in Client |-> NoCall]
    BY <1>11 DEF Kill
  <2>2. CachesNew'
    BY <2>1
  <2>3. QED
    BY <1>3, <2>1, <2>2
<1>12. CASE UNCHANGED vars
  BY <1>4, <1>12 DEF vars
<1>13. QED
  BY <1>5, <1>6, <1>7, <1>9, <1>10, <1>11, <1>12 DEF Next

LEMMA SessionAlways == Spec => []SessionInv
BY SessionInit, SessionNext, PTL DEF Spec

\* Under any policy, the turns are the last ones in order and the summary tells
\* of the others, or of the latest of them when it is full; and the turns stay
\* within maxTurns and the pace of summaryEvery.
THEOREM NeverForgets == Spec => []NothingForgotten
<1>1. SessionInv => NothingForgotten
  <2> SUFFICES ASSUME SessionInv, NEW s \in Session
               PROVE  LET m == memory[s]
                          gone == Len(said[s]) - Len(m.turns)
                      IN /\ m.turns = [i \in 1 .. Len(m.turns) |-> gone + i]
                         /\ m.summary \subseteq 1 .. gone
                         /\ \A n \in 1 .. gone : Told(said[s], m.summary, n)
                         /\ Len(m.turns) <= world.maxTurns
                         /\ world.every > 0 =>
                              Len(m.turns) <= world.keep + world.every - 1
    BY DEF NothingForgotten
  <2>1. Remembered(s) /\ memory[s] \in Memory /\ world \in World
    BY DEF SessionInv, SessionsTyped
  <2>2. /\ Len(memory[s].turns) \in Nat
        /\ memory[s].total \in Nat /\ memory[s].lastSummary \in Nat
    BY <2>1, MemoryTyped
  <2>3. world.keep \in Nat /\ world.every \in Nat
    BY <2>1, PolicyTyped
  <2> DEFINE m == memory[s]
  <2>4. Paced(m)
    BY <2>1 DEF Remembered
  <2>5. world.every > 0 => Len(m.turns) <= world.keep + world.every - 1
    <3> HIDE DEF m
    <3>1. Len(m.turns) \in Nat /\ m.total \in Nat /\ m.lastSummary \in Nat
      BY <2>2 DEF m
    <3>2. QED
      BY <2>3, <2>4, <3>1 DEF Paced, Behind
  <2>6. QED
    BY <2>1, <2>5 DEF Remembered, Recalls, From
<1>2. QED
  BY <1>1, SessionAlways, PTL

\* No cached context is of before another's turn, and a request's context has its
\* own turn last.
THEOREM CacheAlwaysCurrent == Spec => []CacheIsCurrent
<1>1. SessionInv => CacheIsCurrent
  BY DEF SessionInv
<1>2. QED
  BY <1>1, SessionAlways, PTL
-----------------------------------------------------------------------------
(***************************************************************************)
(* The history.  Lines and waiting turns ascend together; the invariant    *)
(* compares them list by list, so that a line may be lost or spoilt on its *)
(* way from one to the other.                                              *)
(***************************************************************************)
ChainStages ==
  {"none", "stat", "append", "blob", "reblob", "filling", "refilling"}

ChainTyped ==
  /\ file \in [Session -> Seq(Nat)] /\ queue \in [Session -> Seq(Nat)]
  /\ stage \in [Session -> ChainStages] /\ open \in [Session -> BOOLEAN]
  /\ \A s \in Session : stage[s] # "none" => queue[s] # <<>>

Ascending(list) ==
  \A i, j \in DOMAIN list : i < j /\ 0 \notin {list[i], list[j]} => list[i] < list[j]

\* The turns that wait are later than those on disk, and were added.
Ordered(lines, waiting, added) ==
  /\ Ascending(lines) /\ Ascending(waiting)
  /\ \A i \in DOMAIN lines : lines[i] <= added
  /\ \A j \in DOMAIN waiting : waiting[j] \in 1 .. added
  /\ \A i \in DOMAIN lines, j \in DOMAIN waiting : lines[i] < waiting[j]

\* Nothing is lost on the way.
Complete(lines, waiting, added) ==
  /\ lines \o waiting = Counted(added)
  /\ \A i \in DOMAIN lines : lines[i] > 0

\* A long line is written only once the blob is whole or about to be.
Readable ==
  \/ blob = "whole" \/ \E r \in Session : Filling(r)
  \/ \A s \in Session :
       /\ stage[s] = "append" => Form(said[s][Head(queue[s])]) # "blob"
       /\ \A i \in DOMAIN file[s] : Form(said[s][file[s][i]]) # "blob"

ChainInv ==
  /\ ChainTyped
  /\ \A s \in Session : Ordered(file[s], queue[s], Len(said[s]))
  /\ world.faults = {} =>
       /\ \A s \in Session : Complete(file[s], queue[s], Len(said[s])) /\ ~ open[s]
       /\ Readable /\ blob \in {"none", "empty", "whole"}

LEMMA CompleteAscends ==
  ASSUME NEW f \in Seq(Nat), NEW q \in Seq(Nat), NEW n \in Nat, Ordered(f, q, n)
  PROVE  Ascending(f \o q)
<1>1. /\ DOMAIN f = 1 .. Len(f) /\ DOMAIN q = 1 .. Len(q)
      /\ DOMAIN (f \o q) = 1 .. Len(f) + Len(q)
      /\ Len(f) \in Nat /\ Len(q) \in Nat
  OBVIOUS
<1>2. ASSUME NEW i \in DOMAIN (f \o q)
      PROVE  \/ i \in DOMAIN f /\ (f \o q)[i] = f[i]
             \/ i - Len(f) \in DOMAIN q /\ (f \o q)[i] = q[i - Len(f)]
  BY <1>1
<1> SUFFICES ASSUME NEW i \in DOMAIN (f \o q), NEW j \in DOMAIN (f \o q), i < j,
                    0 \notin {(f \o q)[i], (f \o q)[j]}
             PROVE  (f \o q)[i] < (f \o q)[j]
  BY DEF Ascending
<1> DEFINE a == (f \o q)[i]
           b == (f \o q)[j]
<1>3. \/ i \in DOMAIN f /\ a = f[i]
      \/ i - Len(f) \in DOMAIN q /\ a = q[i - Len(f)]
  BY <1>2
<1>4. \/ j \in DOMAIN f /\ b = f[j]
      \/ j - Len(f) \in DOMAIN q /\ b = q[j - Len(f)]
  BY <1>2
<1>5. i \in Nat /\ j \in Nat /\ 0 \notin {a, b}
  BY <1>1
<1> HIDE DEF a, b
<1>6. a < b
  <2>1. CASE i \in DOMAIN f /\ a = f[i] /\ j \in DOMAIN f /\ b = f[j]
    BY <1>5, <2>1 DEF Ordered, Ascending
  <2>2. CASE i \in DOMAIN f /\ a = f[i] /\ j - Len(f) \in DOMAIN q /\ b = q[j - Len(f)]
    BY <2>2 DEF Ordered
  <2>3. CASE i - Len(f) \in DOMAIN q /\ j \in DOMAIN f
    BY <1>1, <1>5, <2>3
  <2>4. CASE /\ i - Len(f) \in DOMAIN q /\ a = q[i - Len(f)]
             /\ j - Len(f) \in DOMAIN q /\ b = q[j - Len(f)]
    <3>1. i - Len(f) < j - Len(f)
      BY <1>1, <1>5
    <3>2. QED
      BY <1>5, <2>4, <3>1 DEF Ordered, Ascending
  <2>5. QED
    BY <1>3, <1>4, <2>1, <2>2, <2>3, <2>4
<1>7. QED
  BY <1>6 DEF a, b

LEMMA AppendAscends ==
  ASSUME NEW q \in Seq(Nat), NEW n \in Nat, Ascending(q),
         n = 0 \/ \A i \in DOMAIN q : q[i] < n
  PROVE  Ascending(Append(q, n))
<1>1. /\ DOMAIN q = 1 .. Len(q) /\ DOMAIN Append(q, n) = 1 .. Len(q) + 1
      /\ Len(q) \in Nat /\ Append(q, n)[Len(q) + 1] = n
      /\ \A i \in 1 .. Len(q) : Append(q, n)[i] = q[i]
  OBVIOUS
<1>2. \A i \in 1 .. Len(q) + 1 : i \in 1 .. Len(q) \/ i = Len(q) + 1
  BY <1>1
<1>3. QED
  BY <1>1, <1>2 DEF Ascending

LEMMA TailFacts ==
  ASSUME NEW q \in Seq(Nat), q # <<>>
  PROVE  /\ Head(q) \in Nat /\ Head(q) = q[1] /\ 1 \in DOMAIN q /\ Tail(q) \in Seq(Nat)
         /\ \A j \in DOMAIN Tail(q) :
              j \in Nat /\ j + 1 \in DOMAIN q /\ j + 1 > 1 /\ Tail(q)[j] = q[j + 1]
  OBVIOUS

\* A turn is added to those that wait.
LEMMA AddOrdered ==
  ASSUME NEW f \in Seq(Nat), NEW q \in Seq(Nat), NEW n \in Nat, Ordered(f, q, n)
  PROVE  /\ Ordered(f, Append(q, n + 1), n + 1)
         /\ Complete(f, q, n) => Complete(f, Append(q, n + 1), n + 1)
<1>1. /\ DOMAIN Append(q, n + 1) = 1 .. Len(q) + 1 /\ DOMAIN q = 1 .. Len(q)
      /\ Len(q) \in Nat /\ Append(q, n + 1)[Len(q) + 1] = n + 1
      /\ \A i \in 1 .. Len(q) : Append(q, n + 1)[i] = q[i]
      /\ \A i \in 1 .. Len(q) + 1 : i \in 1 .. Len(q) \/ i = Len(q) + 1
  OBVIOUS
<1>2. Ascending(Append(q, n + 1))
  BY AppendAscends DEF Ordered
<1>3. \A i \in DOMAIN f : f[i] \in Nat
  OBVIOUS
<1>4. Ordered(f, Append(q, n + 1), n + 1)
  BY <1>1, <1>2, <1>3 DEF Ordered
<1>5. ASSUME Complete(f, q, n) PROVE Complete(f, Append(q, n + 1), n + 1)
  <2>1. Append(q, n + 1) = q \o <<n + 1>> /\ <<n + 1>> \in Seq(Nat)
    <3>1. n + 1 \in Nat
      OBVIOUS
    <3>2. QED
      BY <3>1, AppendIsConcat
  <2>2. f \o (q \o <<n + 1>>) = (f \o q) \o <<n + 1>>
    BY <2>1, Joined
  <2>3. f \o q \in Seq(Nat)
    OBVIOUS
  <2>4. (f \o q) \o <<n + 1>> = Append(f \o q, n + 1)
    BY <2>3, AppendIsConcat
  <2>5. QED
    BY <1>5, <2>1, <2>2, <2>4, CountedNext DEF Complete
<1>6. QED
  BY <1>4, <1>5

\* The first turn that waits becomes the last line, or is lost, or leaves a
\* line that cannot be parsed; or all that wait are lost.
LEMMA MoveOrdered ==
  ASSUME NEW f \in Seq(Nat), NEW q \in Seq(Nat), NEW n \in Nat, Ordered(f, q, n),
         q # <<>>
  PROVE  /\ Ordered(Append(f, Head(q)), Tail(q), n)
         /\ Complete(f, q, n) => Complete(Append(f, Head(q)), Tail(q), n)
<1> DEFINE h == Head(q)
<1>1. /\ h \in Nat /\ h = q[1] /\ 1 \in DOMAIN q /\ Tail(q) \in Seq(Nat)
      /\ \A j \in DOMAIN Tail(q) :
           j \in Nat /\ j + 1 \in DOMAIN q /\ j + 1 > 1 /\ Tail(q)[j] = q[j + 1]
  BY TailFacts
<1>2. q = <<h>> \o Tail(q)
  BY HeadTailProperties, <1>1
<1> HIDE DEF h
<1>3. /\ DOMAIN Append(f, h) = 1 .. Len(f) + 1 /\ DOMAIN f = 1 .. Len(f)
      /\ Len(f) \in Nat /\ Append(f, h)[Len(f) + 1] = h
      /\ \A i \in 1 .. Len(f) : Append(f, h)[i] = f[i]
      /\ \A i \in 1 .. Len(f) + 1 : i \in 1 .. Len(f) \/ i = Len(f) + 1
  BY <1>1
<1>4. Ascending(Append(f, h))
  BY <1>1, AppendAscends DEF Ordered
<1>5. h \in 1 .. n /\ \A j \in DOMAIN Tail(q) : Tail(q)[j] \in 1 .. n /\ h < Tail(q)[j]
  BY <1>1 DEF Ordered, Ascending
<1>6. Ascending(Tail(q))
  BY <1>1 DEF Ordered, Ascending
<1>7. \A i \in DOMAIN f, j \in DOMAIN Tail(q) : f[i] < Tail(q)[j]
  BY <1>1 DEF Ordered
<1>8. Ordered(Append(f, h), Tail(q), n)
  BY <1>3, <1>4, <1>5, <1>6, <1>7 DEF Ordered
<1>9. ASSUME Complete(f, q, n) PROVE Complete(Append(f, h), Tail(q), n)
  <2>1. Append(f, h) = f \o <<h>> /\ <<h>> \in Seq(Nat)
    BY <1>1, AppendIsConcat
  <2>2. (f \o <<h>>) \o Tail(q) = f \o (<<h>> \o Tail(q))
    BY <1>1, <2>1, Joined
  <2>3. Append(f, h) \o Tail(q) = f \o q
    BY <1>2, <2>1, <2>2
  <2>4. \A i \in DOMAIN Append(f, h) : Append(f, h)[i] > 0
    BY <1>3, <1>5, <1>9 DEF Complete
  <2>5. QED
    BY <1>9, <2>3, <2>4 DEF Complete
<1>10. QED
  BY <1>8, <1>9 DEF h

LEMMA DropOrdered ==
  ASSUME NEW f \in Seq(Nat), NEW q \in Seq(Nat), NEW n \in Nat, Ordered(f, q, n)
  PROVE  /\ q # <<>> => Ordered(f, Tail(q), n)
         /\ Ordered(f, <<>>, n)
         /\ Append(f, 0) \in Seq(Nat) /\ Ordered(Append(f, 0), q, n)
<1>1. ASSUME q # <<>> PROVE Ordered(f, Tail(q), n)
  <2>1. \A j \in DOMAIN Tail(q) :
          j \in Nat /\ j + 1 \in DOMAIN q /\ j + 1 > 1 /\ Tail(q)[j] = q[j + 1]
    BY <1>1, TailFacts
  <2>2. QED
    BY <2>1 DEF Ordered, Ascending
<1>2. Ordered(f, <<>>, n)
  BY DEF Ordered, Ascending
<1>3. /\ DOMAIN Append(f, 0) = 1 .. Len(f) + 1 /\ DOMAIN f = 1 .. Len(f)
      /\ Len(f) \in Nat /\ Append(f, 0)[Len(f) + 1] = 0
      /\ \A i \in 1 .. Len(f) : Append(f, 0)[i] = f[i]
      /\ \A i \in 1 .. Len(f) + 1 : i \in 1 .. Len(f) \/ i = Len(f) + 1
  OBVIOUS
<1>4. Ascending(Append(f, 0))
  BY AppendAscends DEF Ordered
<1>5. Ordered(Append(f, 0), q, n)
  BY <1>3, <1>4 DEF Ordered
<1>6. QED
  BY <1>1, <1>2, <1>5

LEMMA OpenedFacts ==
  /\ DOMAIN Opened = {"blob", "reblob"}
  /\ Opened["blob"] = "filling" /\ Opened["reblob"] = "refilling"
BY DEF Opened

LEMMA ChainInit == Init => ChainInv
<1> SUFFICES ASSUME Init PROVE ChainInv
  OBVIOUS
<1>1. /\ \A s \in Session : /\ file[s] = <<>> /\ queue[s] = <<>> /\ said[s] = <<>>
                            /\ stage[s] = "none" /\ ~ open[s]
      /\ blob = "none"
  BY DEF Init
<1>2. ChainTyped
  BY DEF Init, ChainTyped, ChainStages
<1>3. <<>> \o <<>> = Counted(0) /\ Len(<<>>) = 0 /\ DOMAIN <<>> = {}
  BY DEF Counted
<1>4. Ordered(<<>>, <<>>, 0) /\ Complete(<<>>, <<>>, 0)
  BY <1>3 DEF Ordered, Ascending, Complete
<1>5. Readable
  BY <1>1 DEF Readable
<1>6. QED
  BY <1>1, <1>2, <1>3, <1>4, <1>5 DEF ChainInv

\* A step that leaves the history as it is, and what waits.
LEMMA StageStep ==
  ASSUME ChainInv, NEW s \in Session, NEW x \in ChainStages,
         stage' = [stage EXCEPT ![s] = x], x # "none" => queue[s] # <<>>,
         UNCHANGED <<world, said, queue, file, open>>,
         world.faults = {} => Readable' /\ blob' \in {"none", "empty", "whole"}
  PROVE  ChainInv'
<1>1. ChainTyped'
  BY DEF ChainInv, ChainTyped
<1>2. QED
  BY <1>1 DEF ChainInv

\* A step that settles the first append of a chain.
LEMMA SettledStep ==
  ASSUME ChainInv, NEW s \in Session, stage[s] # "none", Settled(s),
         NEW f \in Seq(Nat), file' = [file EXCEPT ![s] = f],
         Ordered(f, Tail(queue[s]), Len(said[s])),
         open' \in [Session -> BOOLEAN],
         UNCHANGED <<world, said>>,
         world.faults = {} =>
           /\ Complete(f, Tail(queue[s]), Len(said[s])) /\ \A t \in Session : ~ open'[t]
           /\ Readable' /\ blob' \in {"none", "empty", "whole"}
  PROVE  ChainInv'
<1>1. queue[s] # <<>> /\ queue[s] \in Seq(Nat)
  BY DEF ChainInv, ChainTyped
<1>2. Tail(queue[s]) \in Seq(Nat)
  BY <1>1, TailFacts
<1>3. queue' = [queue EXCEPT ![s] = Tail(queue[s])] /\ stage' = [stage EXCEPT ![s] = "none"]
  BY DEF Settled
<1>4. ChainTyped'
  BY <1>2, <1>3 DEF ChainInv, ChainTyped, ChainStages
<1>5. /\ file'[s] = f /\ queue'[s] = Tail(queue[s])
      /\ \A t \in Session : t # s => file'[t] = file[t] /\ queue'[t] = queue[t]
  BY <1>3 DEF ChainInv, ChainTyped
<1>6. ASSUME NEW t \in Session
      PROVE  Ordered(file'[t], queue'[t], Len(said[t]))
  BY <1>5 DEF ChainInv
<1>7. ASSUME NEW t \in Session, world.faults = {}
      PROVE  Complete(file'[t], queue'[t], Len(said[t]))
  BY <1>5, <1>7 DEF ChainInv
<1>8. QED
  BY <1>4, <1>6, <1>7 DEF ChainInv

\* A turn is added; lines and what waits speak of the turns they spoke of.
LEMMA AddChains ==
  ASSUME ChainInv, SessionsTyped, NEW s \in Session, NEW role \in {"user", "system"},
         NEW c \in Content, AddTurn(s, role, c),
         UNCHANGED <<world, stage, file, open, blob>>
  PROVE  ChainInv'
<1> DEFINE n == Len(said[s])
           x == [role |-> role, content |-> c]
<1>1. x \in Said /\ said[s] \in Seq(Said) /\ n \in Nat /\ said \in [Session -> Seq(Said)]
  <2>1. said \in [Session -> Seq(Said)] /\ said[s] \in Seq(Said)
    BY DEF SessionsTyped
  <2>2. n \in Nat
    BY <2>1
  <2>3. x \in Said
    BY DEF Said
  <2>4. QED
    BY <2>1, <2>2, <2>3
<1>2. queue[s] \in Seq(Nat) /\ file[s] \in Seq(Nat) /\ queue \in [Session -> Seq(Nat)]
  BY DEF ChainInv, ChainTyped
<1>3. /\ said' = [said EXCEPT ![s] = Append(said[s], x)]
      /\ queue' = [queue EXCEPT ![s] = Append(@, n + 1)]
  BY DEF AddTurn
<1> HIDE DEF x
<1>4. /\ said'[s] = Append(said[s], x) /\ queue'[s] = Append(queue[s], n + 1)
      /\ \A t \in Session : t # s => said'[t] = said[t] /\ queue'[t] = queue[t]
  BY <1>1, <1>2, <1>3
<1>5. /\ Len(said'[s]) = n + 1 /\ \A k \in 1 .. n : said'[s][k] = said[s][k]
      /\ Append(queue[s], n + 1) \in Seq(Nat) /\ Append(queue[s], n + 1) # <<>>
      /\ queue[s] # <<>> => Head(Append(queue[s], n + 1)) = Head(queue[s])
  <2>1. queue[s] \in Seq(Nat) /\ n + 1 \in Nat
    BY <1>1, <1>2
  <2>2. queue[s] # <<>> => Head(Append(queue[s], n + 1)) = Head(queue[s])
    BY <2>1, HeadTailAppend
  <2>3. Len(said'[s]) = n + 1 /\ \A k \in 1 .. n : said'[s][k] = said[s][k]
    <3>1. said'[s] = Append(said[s], x) /\ said[s] \in Seq(Said)
      BY <1>1, <1>4
    <3>2. QED
      BY <3>1
  <2>4. Append(queue[s], n + 1) \in Seq(Nat) /\ Append(queue[s], n + 1) # <<>>
    <3>1. \A q \in Seq(Nat), k \in Nat : Append(q, k) \in Seq(Nat) /\ Append(q, k) # <<>>
      OBVIOUS
    <3> HIDE DEF n
    <3>2. QED
      BY <2>1, <3>1
  <2>5. QED
    BY <2>2, <2>3, <2>4
<1>6. ChainTyped'
  <2>1. queue' \in [Session -> Seq(Nat)]
    BY <1>2, <1>3, <1>5
  <2>2. \A t \in Session : queue[t] # <<>> => queue'[t] # <<>>
    BY <1>4, <1>5
  <2>3. QED
    BY <2>1, <2>2 DEF ChainInv, ChainTyped
<1>7. Ordered(file[s], queue[s], n)
  BY DEF ChainInv
<1>8. ASSUME NEW t \in Session
      PROVE  /\ Ordered(file[t], queue'[t], Len(said'[t]))
             /\ world.faults = {} => Complete(file[t], queue'[t], Len(said'[t]))
  <2>1. CASE t = s
    BY <1>1, <1>2, <1>4, <1>5, <1>7, <2>1, AddOrdered DEF ChainInv
  <2>2. CASE t # s
    BY <1>4, <2>2 DEF ChainInv
  <2>3. QED
    BY <2>1, <2>2
<1>9. ASSUME world.faults = {} PROVE Readable'
  <2>1. CASE blob = "whole" \/ \E r \in Session : Filling(r)
    BY <2>1 DEF Readable, Filling
  <2>2. CASE \A t \in Session :
               /\ stage[t] = "append" => Form(said[t][Head(queue[t])]) # "blob"
               /\ \A i \in DOMAIN file[t] : Form(said[t][file[t][i]]) # "blob"
    <3>1. ASSUME stage[s] = "append"
          PROVE  Form(said'[s][Head(queue'[s])]) # "blob"
      <4>1. queue[s] # <<>>
        BY <3>1 DEF ChainInv, ChainTyped
      <4>2. Head(queue[s]) \in 1 .. n
        BY <1>2, <1>7, <4>1, TailFacts DEF Ordered
      <4>3. QED
        BY <1>4, <1>5, <2>2, <3>1, <4>1, <4>2
    <3>2. ASSUME NEW i \in DOMAIN file[s]
          PROVE  Form(said'[s][file[s][i]]) # "blob"
      <4>1. file[s][i] \in Nat /\ file[s][i] <= n /\ file[s][i] > 0
        BY <1>2, <1>7, <1>9 DEF ChainInv, Ordered, Complete
      <4>2. file[s][i] \in 1 .. n
        BY <1>1, <4>1
      <4>3. QED
        BY <1>5, <2>2, <4>2
    <3>3. ASSUME NEW t \in Session
          PROVE  /\ stage[t] = "append" => Form(said'[t][Head(queue'[t])]) # "blob"
                 /\ \A i \in DOMAIN file[t] : Form(said'[t][file[t][i]]) # "blob"
      BY <1>4, <2>2, <3>1, <3>2
    <3>4. QED
      BY <3>3 DEF Readable
  <2>3. QED
    BY <1>9, <2>1, <2>2 DEF ChainInv, Readable
<1>10. QED
  BY <1>6, <1>8, <1>9 DEF ChainInv

\* Another step of a chain, and the blob stays: the long line waits for it.
LEMMA ReadableStays ==
  ASSUME ChainTyped, Readable, NEW s \in Session, NEW x,
         ~ Filling(s), stage' = [stage EXCEPT ![s] = x],
         x = "append" => blob = "whole" \/ Form(said[s][Head(queue[s])]) # "blob",
         UNCHANGED <<said, queue, file, blob>>
  PROVE  Readable'
<1>1. \A t \in Session : t # s => stage'[t] = stage[t]
  BY DEF ChainTyped
<1>2. stage'[s] = x
  BY DEF ChainTyped
<1>3. CASE blob = "whole"
  BY <1>3 DEF Readable
<1>4. CASE \E r \in Session : Filling(r)
  BY <1>1, <1>4 DEF Readable, Filling
<1>5. CASE blob # "whole" /\ ~ \E r \in Session : Filling(r)
  BY <1>1, <1>2, <1>5 DEF Readable
<1>6. QED
  BY <1>3, <1>4, <1>5

LEMMA BlobChains ==
  ASSUME ChainInv, NEW s \in Session,
         Begin(s) \/ StatBlob(s) \/ StatFails(s) \/ OpenBlob(s) \/ FillBlob(s)
  PROVE  ChainInv'
<1> USE DEF live, disk
<1>1. /\ ChainTyped /\ stage \in [Session -> ChainStages]
      /\ stage[s] # "none" => queue[s] # <<>>
      /\ world.faults = {} => Readable /\ blob \in {"none", "empty", "whole"}
  BY DEF ChainInv, ChainTyped
<1>2. CASE Begin(s)
  <2> DEFINE x == IF Form(said[s][Head(queue[s])]) = "blob" THEN "stat" ELSE "append"
  <2>1. /\ stage' = [stage EXCEPT ![s] = x] /\ stage[s] = "none" /\ queue[s] # <<>>
        /\ UNCHANGED <<world, live, queue, disk, faults>>
    BY <1>2 DEF Begin
  <2>2. x \in ChainStages /\ (x = "append" => Form(said[s][Head(queue[s])]) # "blob")
    BY DEF ChainStages
  <2> HIDE DEF x
  <2>3. ~ Filling(s)
    BY <2>1 DEF Filling
  <2>4. world.faults = {} => Readable'
    BY <1>1, <2>1, <2>2, <2>3, ReadableStays
  <2>5. QED
    BY <1>1, <2>1, <2>2, <2>4, StageStep
<1>3. CASE StatBlob(s)
  <2> DEFINE x == CASE blob = "none" -> "blob" [] blob = "empty" -> "reblob"
                    [] OTHER -> "append"
  <2>1. /\ stage' = [stage EXCEPT ![s] = x] /\ stage[s] = "stat"
        /\ UNCHANGED <<world, live, queue, disk, faults>>
    BY <1>3 DEF StatBlob
  <2>2. x \in ChainStages /\ (x = "append" => blob \notin {"none", "empty"})
    BY DEF ChainStages
  <2> HIDE DEF x
  <2>3. ~ Filling(s)
    BY <2>1 DEF Filling
  <2>4. world.faults = {} => Readable'
    <3>1. world.faults = {} => (x = "append" => blob = "whole")
      BY <1>1, <2>2
    <3>2. QED
      BY <1>1, <2>1, <2>3, <3>1, ReadableStays
  <2>5. QED
    BY <1>1, <2>1, <2>2, <2>4, StageStep
<1>4. CASE StatFails(s)
  <2>1. /\ stage' = [stage EXCEPT ![s] = "blob"] /\ stage[s] = "stat" /\ world.faults # {}
        /\ UNCHANGED <<world, live, queue, disk>>
    BY <1>4 DEF StatFails, Fault
  <2>2. "blob" \in ChainStages
    BY DEF ChainStages
  <2>3. QED
    BY <1>1, <2>1, <2>2, StageStep
<1>5. CASE OpenBlob(s)
  <2>1. /\ stage[s] \in {"blob", "reblob"} /\ blob' = "empty"
        /\ stage' = [stage EXCEPT ![s] = Opened[stage[s]]]
        /\ UNCHANGED <<world, live, queue, file, open>>
    BY <1>5, OpenedFacts DEF OpenBlob
  <2>2. Opened[stage[s]] \in {"filling", "refilling"} /\ Opened[stage[s]] \in ChainStages
    BY <2>1, OpenedFacts DEF ChainStages
  <2>3. Filling(s)'
    BY <1>1, <2>1, <2>2 DEF Filling
  <2>4. Readable'
    BY <2>3 DEF Readable
  <2>5. QED
    BY <1>1, <2>1, <2>2, <2>4, StageStep
<1>6. CASE FillBlob(s)
  <2>1. /\ stage[s] \in {"filling", "refilling"} /\ blob' = "whole"
        /\ stage' = [stage EXCEPT ![s] = "append"]
        /\ UNCHANGED <<world, live, queue, file, open>>
    BY <1>6 DEF FillBlob, Filling
  <2>2. Readable' /\ "append" \in ChainStages
    BY <2>1 DEF Readable, ChainStages
  <2>3. QED
    BY <1>1, <2>1, <2>2, StageStep
<1>7. QED
  BY <1>2, <1>3, <1>4, <1>5, <1>6

LEMMA AppendChains ==
  ASSUME ChainInv, SessionsTyped, NEW s \in Session, AppendTurn(s)
  PROVE  ChainInv'
<1> USE DEF live
<1> DEFINE q == queue[s]
           h == Head(queue[s])
<1>1. /\ ChainTyped /\ stage[s] = "append" /\ Settled(s) /\ Ordered(file[s], q, Len(said[s]))
      /\ file[s] \in Seq(Nat) /\ q \in Seq(Nat) /\ q # <<>> /\ Len(said[s]) \in Nat
      /\ file \in [Session -> Seq(Nat)] /\ open \in [Session -> BOOLEAN]
      /\ open' = [open EXCEPT ![s] = FALSE]
      /\ UNCHANGED <<world, said, blob>>
  BY DEF AppendTurn, ChainInv, ChainTyped, SessionsTyped
<1>2. open' \in [Session -> BOOLEAN]
  BY <1>1
<1>3. CASE open[s]
  <2>1. file' = [file EXCEPT ![s] = file[s]] /\ world.faults # {}
    BY <1>1, <1>3 DEF AppendTurn, ChainInv
  <2>2. Ordered(file[s], Tail(q), Len(said[s]))
    BY <1>1, DropOrdered
  <2>3. QED
    BY <1>1, <1>2, <2>1, <2>2, SettledStep
<1>4. CASE ~ open[s]
  <2>1. file' = [file EXCEPT ![s] = Append(file[s], h)]
    BY <1>4 DEF AppendTurn, Extended
  <2>2. h \in Nat /\ Append(file[s], h) \in Seq(Nat)
    BY <1>1, TailFacts
  <2>3. /\ Ordered(Append(file[s], h), Tail(q), Len(said[s]))
        /\ Complete(file[s], q, Len(said[s])) =>
              Complete(Append(file[s], h), Tail(q), Len(said[s]))
    BY <1>1, MoveOrdered
  <2>4. ASSUME world.faults = {}
        PROVE  /\ Complete(Append(file[s], h), Tail(q), Len(said[s]))
               /\ \A t \in Session : ~ open'[t]
               /\ Readable' /\ blob' \in {"none", "empty", "whole"}
    <3>1. \A t \in Session : Complete(file[t], queue[t], Len(said[t])) /\ ~ open[t]
      BY <2>4 DEF ChainInv
    <3>2. \A t \in Session : ~ open'[t]
      BY <1>1, <3>1
    <3>3. stage' = [stage EXCEPT ![s] = "none"]
      BY <1>1 DEF Settled
    <3>4. CASE blob = "whole" \/ \E r \in Session : Filling(r)
      <4>1. ~ Filling(s) /\ \A t \in Session : t # s => stage'[t] = stage[t]
        BY <1>1, <3>3 DEF Filling, ChainTyped
      <4>2. (\E r \in Session : Filling(r)) => \E r \in Session : Filling(r)'
        BY <4>1 DEF Filling
      <4>3. QED
        BY <1>1, <2>3, <2>4, <3>1, <3>2, <3>4, <4>2 DEF Readable, ChainInv
    <3>5. CASE \A t \in Session :
                 /\ stage[t] = "append" => Form(said[t][Head(queue[t])]) # "blob"
                 /\ \A i \in DOMAIN file[t] : Form(said[t][file[t][i]]) # "blob"
      <4>1. /\ DOMAIN Append(file[s], h) = 1 .. Len(file[s]) + 1
            /\ Append(file[s], h)[Len(file[s]) + 1] = h
            /\ \A i \in 1 .. Len(file[s]) : Append(file[s], h)[i] = file[s][i]
            /\ \A i \in 1 .. Len(file[s]) + 1 : i \in 1 .. Len(file[s]) \/ i = Len(file[s]) + 1
            /\ DOMAIN file[s] = 1 .. Len(file[s])
        BY <1>1, <2>2
      <4>2. \A i \in DOMAIN Append(file[s], h) : Form(said[s][Append(file[s], h)[i]]) # "blob"
        BY <1>1, <3>5, <4>1
      <4>3. /\ file'[s] = Append(file[s], h) /\ stage'[s] = "none"
            /\ \A t \in Session : t # s =>
                 file'[t] = file[t] /\ stage'[t] = stage[t] /\ queue'[t] = queue[t]
        BY <1>1, <2>1, <3>3 DEF ChainTyped, Settled
      <4>4. \A t \in Session :
                 stage'[t] = "append" => Form(said'[t][Head(queue'[t])]) # "blob"
        <5>1. TAKE t \in Session
        <5>2. CASE t = s
          BY <1>1, <4>3, <5>2
        <5>3. CASE t # s
          BY <1>1, <3>5, <4>3, <5>3
        <5>4. QED
          BY <1>1, <5>2, <5>3
      <4>5. \A t \in Session : \A i \in DOMAIN file'[t] : Form(said'[t][file'[t][i]]) # "blob"
        <5>1. TAKE t \in Session
        <5>2. CASE t = s
          BY <1>1, <4>2, <4>3, <5>2
        <5>3. CASE t # s
          BY <1>1, <3>5, <4>3, <5>3
        <5>4. QED
          BY <5>2, <5>3
      <4>6. Readable'
        BY <4>4, <4>5 DEF Readable
      <4>7. QED
        BY <1>1, <2>3, <2>4, <3>1, <3>2, <4>6 DEF ChainInv
    <3>6. QED
      BY <2>4, <3>4, <3>5 DEF ChainInv, Readable
  <2>5. QED
    BY <1>1, <1>2, <2>1, <2>2, <2>3, <2>4, SettledStep
<1>5. QED
  BY <1>3, <1>4

\* A failure; the history has a spoilt line or none for the turn.
LEMMA FailureChains ==
  ASSUME ChainInv, SessionsTyped, NEW s \in Session, AppendFails(s) \/ BlobFails(s)
  PROVE  ChainInv'
<1> USE DEF live
<1>1. /\ world.faults # {} /\ stage[s] # "none"
      /\ UNCHANGED <<world, said>>
  BY OpenedFacts DEF AppendFails, BlobFails, Fault, Filling
<1>2. /\ ChainTyped /\ Ordered(file[s], queue[s], Len(said[s]))
      /\ file[s] \in Seq(Nat) /\ queue[s] \in Seq(Nat) /\ queue[s] # <<>>
      /\ Len(said[s]) \in Nat /\ Tail(queue[s]) \in Seq(Nat)
      /\ file \in [Session -> Seq(Nat)] /\ open \in [Session -> BOOLEAN]
  BY <1>1, TailFacts DEF ChainInv, ChainTyped, SessionsTyped
<1>3. Ordered(file[s], Tail(queue[s]), Len(said[s]))
  BY <1>2, DropOrdered
<1>4. /\ Append(file[s], 0) \in Seq(Nat)
      /\ Ordered(Append(file[s], 0), Tail(queue[s]), Len(said[s]))
  BY <1>2, <1>3, DropOrdered
<1>5. file = [file EXCEPT ![s] = file[s]]
  BY <1>2
<1>6. CASE AppendFails(s)
  <2>1. Settled(s) /\ HalfLine(s)
    BY <1>6 DEF AppendFails
  <2>2. open' \in [Session -> BOOLEAN]
    BY <1>2, <2>1 DEF HalfLine
  <2>3. file' = [file EXCEPT ![s] = file[s]] \/ file' = [file EXCEPT ![s] = Append(file[s], 0)]
    BY <1>5, <2>1 DEF HalfLine, Extended
  <2>4. CASE file' = [file EXCEPT ![s] = file[s]]
    BY <1>1, <1>2, <1>3, <2>1, <2>2, <2>4, SettledStep
  <2>5. CASE file' = [file EXCEPT ![s] = Append(file[s], 0)]
    BY <1>1, <1>2, <1>4, <2>1, <2>2, <2>5, SettledStep
  <2>6. QED
    BY <2>3, <2>4, <2>5
<1>7. CASE BlobFails(s) /\ stage[s] \in {"reblob", "refilling"}
  <2>1. /\ stage' = [stage EXCEPT ![s] = "blob"] /\ "blob" \in ChainStages
        /\ UNCHANGED <<queue, file, open>>
    BY <1>7 DEF BlobFails, ChainStages
  <2>2. QED
    BY <1>1, <1>2, <2>1, StageStep
<1>8. CASE BlobFails(s) /\ stage[s] \notin {"reblob", "refilling"}
  <2>1. Settled(s) /\ UNCHANGED <<file, open>>
    BY <1>8 DEF BlobFails
  <2>2. QED
    BY <1>1, <1>2, <1>3, <1>5, <2>1, SettledStep
<1>9. QED
  BY <1>6, <1>7, <1>8

LEMMA KillChains ==
  ASSUME ChainInv, SessionsTyped, Kill
  PROVE  ChainInv'
<1>1. /\ world.faults # {} /\ UNCHANGED <<world, said>>
      /\ queue' = [s \in Session |-> <<>>] /\ stage' = [s \in Session |-> "none"]
  BY DEF Kill, Fault
<1>2. /\ file \in [Session -> Seq(Nat)] /\ open \in [Session -> BOOLEAN]
      /\ \A s \in Session : /\ file[s] \in Seq(Nat) /\ queue[s] \in Seq(Nat)
                            /\ Len(said[s]) \in Nat
                            /\ Ordered(file[s], queue[s], Len(said[s]))
  BY DEF ChainInv, ChainTyped, SessionsTyped
<1>3. /\ <<>> \in Seq(Nat)
      /\ \A s \in Session : /\ Append(file[s], 0) \in Seq(Nat)
                            /\ Ordered(file[s], <<>>, Len(said[s]))
                            /\ Ordered(Append(file[s], 0), <<>>, Len(said[s]))
  <2>1. ASSUME NEW s \in Session
        PROVE  /\ Append(file[s], 0) \in Seq(Nat)
               /\ Ordered(file[s], <<>>, Len(said[s]))
               /\ Ordered(Append(file[s], 0), <<>>, Len(said[s]))
    <3>1. <<>> \in Seq(Nat) /\ Ordered(file[s], <<>>, Len(said[s]))
      BY <1>2, DropOrdered
    <3>2. QED
      BY <1>2, <3>1, DropOrdered
  <2>2. QED
    BY <2>1
<1>4. /\ open' \in [Session -> BOOLEAN]
      /\ \/ file' = file
         \/ \E s \in Session : file' = [file EXCEPT ![s] = Append(file[s], 0)]
  BY <1>2 DEF Kill, HalfLine, Extended
<1>5. /\ file' \in [Session -> Seq(Nat)]
      /\ \A t \in Session : file'[t] = file[t] \/ file'[t] = Append(file[t], 0)
  BY <1>2, <1>3, <1>4
<1>6. ChainTyped'
  BY <1>1, <1>3, <1>4, <1>5 DEF ChainTyped, ChainStages
<1>7. \A t \in Session : Ordered(file'[t], queue'[t], Len(said'[t]))
  BY <1>1, <1>3, <1>5
<1>8. QED
  BY <1>1, <1>6, <1>7 DEF ChainInv

LEMMA ChainNext == SessionInv /\ ChainInv /\ [Next]_vars => ChainInv'
<1> SUFFICES ASSUME SessionInv, ChainInv, [Next]_vars PROVE ChainInv'
  OBVIOUS
<1> USE DEF disk
<1>1. /\ SessionsTyped /\ world.contents \subseteq Content
      /\ call \in [Client -> Calls \cup {NoCall}]
  BY ConversationConstants DEF SessionInv, SessionsTyped, WorldType
<1>2. ASSUME UNCHANGED <<world, said, queue, stage, disk>>
      PROVE  ChainInv'
  BY <1>2 DEF ChainInv, ChainTyped, Readable, Filling
<1>3. ASSUME NEW s \in Session, CreateSession(s) \/ EndSession(s)
      PROVE  ChainInv'
  BY <1>2, <1>3 DEF CreateSession, EndSession
<1>4. ASSUME NEW s \in Session, HistoryStep(s)
      PROVE  ChainInv'
  BY <1>1, <1>4, BlobChains, AppendChains, FailureChains DEF HistoryStep
<1>5. ASSUME NEW c \in Client, Answer(c)
      PROVE  ChainInv'
  <2>1. PICK t \in world.contents :
          IF status[call[c].session] = "live" /\ ~ Refused(call[c].session, t)
          THEN AddTurn(call[c].session, "system", t)
          ELSE UNCHANGED <<said, memory, cache, queue>>
    BY <1>5 DEF Answer
  <2>2. call[c].session \in Session /\ t \in Content /\ UNCHANGED <<world, stage, disk>>
    BY <1>1, <1>5 DEF Answer, Calls
  <2>3. QED
    BY <1>1, <1>2, <2>1, <2>2, AddChains
<1>6. ASSUME NEW c \in Client, NEW s \in Session, Ask(c, s)
      PROVE  ChainInv'
  <2>1. PICK t \in world.contents : AddTurn(s, "user", t)
    BY <1>6 DEF Ask
  <2>2. t \in Content /\ UNCHANGED <<world, stage, disk>>
    BY <1>1, <1>6 DEF Ask
  <2>3. QED
    BY <1>1, <2>1, <2>2, AddChains
<1>7. CASE Kill
  BY <1>1, <1>7, KillChains
<1>8. CASE UNCHANGED vars
  BY <1>2, <1>8 DEF vars, live
<1>9. QED
  BY <1>3, <1>4, <1>5, <1>6, <1>7, <1>8 DEF Next

\* Whatever fails, the history has its turns in order, none twice; when nothing
\* fails it has, with those that wait, all of them, and can be read.
THEOREM HistoryAlwaysTellsAll == Spec => []HistoryTellsAll
<1>1. SessionInv /\ ChainInv => HistoryTellsAll
  <2> SUFFICES ASSUME SessionInv, ChainInv, NEW s \in Session
               PROVE  LET lines == file[s] \o queue[s]
                      IN /\ \A i, j \in DOMAIN lines :
                              i < j /\ 0 \notin {lines[i], lines[j]} => lines[i] < lines[j]
                         /\ world.faults = {} =>
                              /\ lines = [n \in 1 .. Len(said[s]) |-> n]
                              /\ \A i \in DOMAIN file[s] : Form(said[s][file[s][i]]) = "blob" =>
                                   blob = "whole" \/ \E r \in Session : Filling(r)
    BY DEF HistoryTellsAll
  <2>1. Ascending(file[s] \o queue[s])
    BY CompleteAscends DEF ChainInv, ChainTyped, SessionInv, SessionsTyped
  <2>2. world.faults = {} => Complete(file[s], queue[s], Len(said[s])) /\ Readable
    BY DEF ChainInv
  <2>3. QED
    BY <2>1, <2>2 DEF Ascending, Complete, Counted, Readable
<1>2. QED
  BY <1>1, ChainInit, ChainNext, SessionAlways, PTL DEF Spec
-----------------------------------------------------------------------------
(***************************************************************************)
(* The context window: ContextSelection.  It stays within the request's    *)
(* limits, and no chunk of the request is lost or counted twice, for every *)
(* set of chunks, all scores and all options.  Nothing is used of the      *)
(* scores but that the best and the worst entries are entries.             *)
(***************************************************************************)

LEMMA FirstIsOne ==
  ASSUME NEW S, NEW c \in First(S)
  PROVE  c \in S
BY DEF First

LEMMA LowestIsOne ==
  ASSUME NEW S, NEW e \in Lowest(S)
  PROVE  e \in S
BY DEF Lowest

LEMMA HighestIsOne ==
  ASSUME NEW S, NEW e \in Highest(S)
  PROVE  e \in S
BY DEF Highest

\* Replacing an element makes a finite set no larger.
LEMMA Replaced ==
  ASSUME NEW S, IsFiniteSet(S), NEW e \in S, NEW n
  PROVE  /\ IsFiniteSet((S \ {e}) \cup {n})
         /\ Cardinality((S \ {e}) \cup {n}) <= Cardinality(S)
<1>1. /\ IsFiniteSet(S \ {e}) /\ Cardinality(S \ {e}) = Cardinality(S) - 1
      /\ Cardinality(S) \in Nat
  BY FS_RemoveElement, FS_CardinalityType
<1>2. /\ IsFiniteSet((S \ {e}) \cup {n})
      /\ \/ Cardinality((S \ {e}) \cup {n}) = Cardinality(S \ {e})
         \/ Cardinality((S \ {e}) \cup {n}) = Cardinality(S \ {e}) + 1
  BY <1>1, FS_AddElement
<1>3. QED
  BY <1>1, <1>2

\* Adding an element makes it larger by one at the most.
LEMMA Added ==
  ASSUME NEW S, IsFiniteSet(S), NEW n
  PROVE  /\ IsFiniteSet(S \cup {n})
         /\ Cardinality(S \cup {n}) \in Nat
         /\ Cardinality(S \cup {n}) <= Cardinality(S) + 1
<1>1. /\ IsFiniteSet(S \cup {n})
      /\ \/ Cardinality(S \cup {n}) = Cardinality(S)
         \/ Cardinality(S \cup {n}) = Cardinality(S) + 1
  BY FS_AddElement
<1>2. Cardinality(S) \in Nat /\ Cardinality(S \cup {n}) \in Nat
  BY <1>1, FS_CardinalityType
<1>3. QED
  BY <1>1, <1>2

\* The first of a list and the rest of it.
LEMMA HeadAndTail ==
  ASSUME NEW K, NEW s \in Seq(K), s # <<>>
  PROVE  /\ Tail(s) \in Seq(K) /\ Head(s) \in K
         /\ 1 \in DOMAIN s /\ Head(s) = s[1]
         /\ \A i \in DOMAIN Tail(s) :
              i + 1 \in DOMAIN s /\ i + 1 # 1 /\ Tail(s)[i] = s[i + 1]
         /\ \A k : (\E i \in DOMAIN s : s[i] = k)
                     => k = Head(s) \/ \E i \in DOMAIN Tail(s) : Tail(s)[i] = k
<1>1. /\ Tail(s) \in Seq(K) /\ Head(s) \in K
      /\ 1 \in DOMAIN s /\ Head(s) = s[1]
      /\ \A i \in DOMAIN Tail(s) :
           i + 1 \in DOMAIN s /\ i + 1 # 1 /\ Tail(s)[i] = s[i + 1]
  OBVIOUS
<1>2. ASSUME NEW i \in DOMAIN s, s[i] # Head(s)
      PROVE  \E j \in DOMAIN Tail(s) : Tail(s)[j] = s[i]
  <2>1. i - 1 \in DOMAIN Tail(s) /\ Tail(s)[i - 1] = s[i]
    BY <1>2
  <2>2. QED
    BY <2>1
<1>3. QED
  BY <1>1, <1>2
-----------------------------------------------------------------------------
(* The parts of the state, typed as far as the arguments need it.          *)

Types ==
  /\ request \in Request
  /\ at \in {"recall", "workspace", "general", "rebalance", "cover", "done"}
  /\ left \subseteq request.chunks
  /\ ChunksOf(selected) \subseteq request.chunks
  /\ ChunksOf(suppressed) \subseteq request.chunks
  /\ IsFiniteSet(selected)
  /\ usedTokens \in Int
  /\ rebalances \in Nat
  /\ kinds \in Seq(Kind)

LEMMA RequestFacts ==
  ASSUME request \in Request
  PROVE  /\ request.chunks \subseteq Chunk
         /\ request.tokenBudget \in Nat /\ request.maxChunks \in Nat
         /\ request.requiredKinds \in Seq(Kind)
         /\ \A i, j \in DOMAIN request.requiredKinds :
              request.requiredKinds[i] = request.requiredKinds[j] => i = j
         /\ \A c \in request.chunks : c.tokens \in Nat /\ c.kind \in Kind
<1>1. request.chunks \subseteq Chunk
  BY DEF Request
<1>2. /\ request.tokenBudget \in TokenBudgets
      /\ request.maxChunks \in MaxChunks
      /\ request.requiredKinds \in RequiredKinds
  BY DEF Request
<1>3. \A c \in Chunk : c.tokens \in Nat /\ c.kind \in Kind
  <2>1. Chunk \subseteq ChunkType
    BY SelectionConstants
  <2>2. QED
    BY <2>1 DEF ChunkType
<1>4. request.tokenBudget \in Nat /\ request.maxChunks \in Nat
  BY <1>2, SelectionConstants
<1>5. /\ request.requiredKinds \in Seq(Kind)
      /\ \A i, j \in DOMAIN request.requiredKinds :
           request.requiredKinds[i] = request.requiredKinds[j] => i = j
  BY <1>2, SelectionConstants
<1>6. QED
  BY <1>1, <1>3, <1>4, <1>5

\* The entries that a step adds carry chunks of the request.
LEMMA EntryChunk ==
  ASSUME NEW S, NEW C, NEW e, ChunksOf(S) \subseteq C, e.chunk \in C
  PROVE  ChunksOf(S \cup {e}) \subseteq C
BY DEF ChunksOf

\* The types hold of every state of selectContextWindow and what follows it.
THEOREM SelectionTypesHold == SelectionSpec => []Types
<1>1. SelectionInit => Types
  BY FS_EmptySet, RequestFacts
  DEF SelectionInit, Types, OfOrigin, ChunksOf
<1>2. Types /\ [SelectionNext]_selectionVars => Types'
  <2> SUFFICES ASSUME Types, [SelectionNext]_selectionVars PROVE Types'
    OBVIOUS
  <2> USE RequestFacts DEF Types
  <2>1. CASE Pass
    BY <2>1, FirstIsOne DEF Pass
  <2>2. CASE Suppress
    <3> PICK c \in First(left) :
          /\ suppressed' = suppressed \cup
               {[chunk |-> c, score |-> Score(c, ChunksOf(selected)),
                 reason |-> Verdict(c)]}
          /\ left' = left \ {c}
      BY <2>2 DEF Suppress
    <3>1. c \in request.chunks
      BY FirstIsOne
    <3>2. ChunksOf(suppressed') \subseteq request.chunks
      BY <3>1, EntryChunk
    <3>3. QED
      BY <2>2, <3>2 DEF Suppress, ChunksOf
  <2>3. CASE Take
    <3> PICK c \in First(left) :
          /\ selected' = selected \cup
               {[chunk |-> c, score |-> Score(c, ChunksOf(selected))]}
          /\ usedTokens' = usedTokens + c.tokens
          /\ left' = left \ {c}
      BY <2>3 DEF Take
    <3>1. c \in request.chunks
      BY FirstIsOne
    <3>2. ChunksOf(selected') \subseteq request.chunks
      BY <3>1, EntryChunk
    <3>3. IsFiniteSet(selected')
      BY FS_AddElement
    <3>4. usedTokens' \in Int
      BY <3>1
    <3>5. QED
      BY <2>3, <3>2, <3>3, <3>4 DEF Take, ChunksOf
  <2>4. CASE NextRound
    BY <2>4 DEF NextRound, OfOrigin, ChunksOf
  <2>5. CASE Rebalance
    <3> PICK e \in Lowest(Recalled) :
          \E s \in Highest(Replacements(e)) : Exchange(e, s)
      BY <2>5 DEF Rebalance
    <3> PICK s \in Highest(Replacements(e)) : Exchange(e, s)
      OBVIOUS
    <3>1. e \in selected /\ s \in suppressed
      BY LowestIsOne, HighestIsOne DEF Recalled, Replacements
    <3>2. e.chunk \in request.chunks /\ s.chunk \in request.chunks
      BY <3>1 DEF ChunksOf
    <3>3. ChunksOf(selected') \subseteq request.chunks
      BY <3>2 DEF Exchange, ChunksOf
    <3>4. ChunksOf(suppressed') \subseteq request.chunks
      BY <3>2 DEF Exchange, ChunksOf
    <3>5. IsFiniteSet(selected')
      BY <3>1, Replaced DEF Exchange
    <3>6. usedTokens' \in Int
      BY <3>2 DEF Exchange
    <3>7. QED
      BY <2>5, <3>3, <3>4, <3>5, <3>6 DEF Rebalance, ChunksOf
  <2>6. CASE Rebalanced
    BY <2>6 DEF Rebalanced, ChunksOf
  <2>7. CASE NotMissing
    BY <2>7, HeadAndTail DEF NotMissing, NextKind, ChunksOf
  <2>8. CASE Inject
    <3> PICK c \in Candidate(Head(kinds)) :
          /\ selected' = selected \cup {Injected(c)}
          /\ suppressed' = Released(c)
          /\ usedTokens' = usedTokens + c.tokens
      BY <2>8 DEF Inject
    <3>1. c \in request.chunks
      BY FirstIsOne DEF Candidate, OfOrigin
    <3>2. ChunksOf(selected') \subseteq request.chunks
      BY <3>1, EntryChunk DEF Injected
    <3>3. ChunksOf(suppressed') \subseteq request.chunks
      BY DEF Released, ChunksOf
    <3>4. IsFiniteSet(selected')
      BY FS_AddElement
    <3>5. usedTokens' \in Int
      BY <3>1
    <3>6. QED
      BY <2>8, <3>2, <3>3, <3>4, <3>5, HeadAndTail
      DEF Inject, NextKind, ChunksOf
  <2>9. CASE Displace
    <3> PICK c \in Candidate(Head(kinds)), e \in Expendable :
          /\ selected' = (selected \ {e}) \cup {Injected(c)}
          /\ suppressed' = Released(c) \cup
               {[chunk |-> e.chunk, score |-> e.score,
                 reason |-> "sdd-rebalanced"]}
          /\ usedTokens' = usedTokens - e.chunk.tokens + c.tokens
      BY <2>9 DEF Displace
    <3>1. c \in request.chunks /\ e \in selected
      BY FirstIsOne, LowestIsOne DEF Candidate, OfOrigin, Expendable
    <3>2. e.chunk \in request.chunks
      BY <3>1 DEF ChunksOf
    <3>3. ChunksOf(selected') \subseteq request.chunks
      BY <3>1 DEF Injected, ChunksOf
    <3>4. ChunksOf(suppressed') \subseteq request.chunks
      BY <3>2 DEF Released, ChunksOf
    <3>5. IsFiniteSet(selected')
      BY <3>1, Replaced
    <3>6. usedTokens' \in Int
      BY <3>1, <3>2
    <3>7. QED
      BY <2>9, <3>3, <3>4, <3>5, <3>6, HeadAndTail
      DEF Displace, NextKind, ChunksOf
  <2>10. CASE Skip
    BY <2>10, HeadAndTail DEF Skip, NextKind, ChunksOf
  <2>11. CASE Finish
    BY <2>11 DEF Finish, ChunksOf
  <2>12. CASE UNCHANGED selectionVars
    BY <2>12 DEF selectionVars, ChunksOf
  <2>13. QED
    BY <2>1, <2>2, <2>3, <2>4, <2>5, <2>6, <2>7, <2>8, <2>9, <2>10, <2>11,
       <2>12 DEF SelectionNext, Made
<1>3. QED
  BY <1>1, <1>2, PTL DEF SelectionSpec
-----------------------------------------------------------------------------
(* Limits *)

\* Nothing was exchanged before the exchange begins.
Limits ==
  /\ WithinLimits
  /\ Evaluating => rebalances = 0

LEMMA CardinalityFacts ==
  ASSUME IsFiniteSet(selected)
  PROVE  /\ Cardinality(selected) \in Nat
         /\ IsFiniteSet(Recalled) /\ Cardinality(Recalled) \in Nat
         /\ Cardinality(Recalled) <= Cardinality(selected)
BY FS_Subset, FS_CardinalityType DEF Recalled

\* The window never outgrows the request's tokenBudget and maxChunks, and
\* rebalanceIterations < maxChunks never stops an exchange (selectContextWindow,
\* enforceSddCoverage).
THEOREM WindowWithinLimits == SelectionSpec => []WithinLimits
<1>1. SelectionInit => Limits
  <2> SUFFICES ASSUME SelectionInit PROVE Limits
    OBVIOUS
  <2>1. Cardinality(selected) = 0
    BY FS_EmptySet DEF SelectionInit
  <2>2. request.tokenBudget \in Nat /\ request.maxChunks \in Nat
    BY RequestFacts DEF SelectionInit
  <2>3. QED
    BY <2>1, <2>2 DEF SelectionInit, Limits, WithinLimits
<1>2. Types /\ Limits /\ [SelectionNext]_selectionVars => Limits'
  <2> SUFFICES ASSUME Types, Limits, [SelectionNext]_selectionVars PROVE Limits'
    OBVIOUS
  <2> USE RequestFacts, CardinalityFacts DEF Types, Limits, WithinLimits
  <2>1. CASE Pass
    BY <2>1 DEF Pass, Evaluating, Recalled
  <2>2. CASE Suppress
    BY <2>2 DEF Suppress, Evaluating, Recalled
  <2>3. CASE Take
    <3> PICK c \in First(left) :
          /\ Verdict(c) = "take"
          /\ selected' = selected \cup
               {[chunk |-> c, score |-> Score(c, ChunksOf(selected))]}
          /\ usedTokens' = usedTokens + c.tokens
      BY <2>3 DEF Take
    <3>1. c \in request.chunks /\ c.tokens \in Nat
      BY FirstIsOne
    <3>2. /\ Cardinality(selected) < request.maxChunks
          /\ usedTokens + c.tokens <= request.tokenBudget
      BY <3>1 DEF Verdict
    <3>3. Cardinality(selected') <= Cardinality(selected) + 1
          /\ Cardinality(selected') \in Nat
      BY Added
    <3>4. QED
      BY <2>3, <3>2, <3>3 DEF Take, Evaluating
  <2>4. CASE NextRound
    <3>1. /\ usedTokens' <= request'.tokenBudget
          /\ Cardinality(selected') <= request'.maxChunks
      BY <2>4 DEF NextRound
    <3>2. rebalances' + Cardinality(Recalled') <= request'.maxChunks
      BY <2>4 DEF NextRound, Evaluating, Recalled
    <3>3. Evaluating' => rebalances' = 0
      BY <2>4 DEF NextRound, Evaluating
    <3>4. QED
      BY <3>1, <3>2, <3>3
  <2>5. CASE Rebalance
    <3> PICK e \in Lowest(Recalled) :
          \E s \in Highest(Replacements(e)) : Exchange(e, s)
      BY <2>5 DEF Rebalance
    <3> PICK s \in Highest(Replacements(e)) : Exchange(e, s)
      OBVIOUS
    <3>1. e \in Recalled /\ e \in selected /\ s \in Replacements(e)
      BY LowestIsOne, HighestIsOne DEF Recalled
    <3>2. usedTokens' <= request.tokenBudget
      BY <3>1 DEF Exchange, Replacements
    <3>3. Cardinality(selected') <= Cardinality(selected)
          /\ IsFiniteSet(selected')
      BY <3>1, Replaced DEF Exchange
    <3>4. Cardinality(selected') \in Nat
      BY <3>3, FS_CardinalityType
    <3>5. Recalled' = Recalled \ {e}
      <4>1. s.chunk.origin = "workspace" /\ e.chunk.origin = "memory"
        BY <3>1 DEF Replacements, Recalled
      <4>2. QED
        BY <3>1, <4>1 DEF Recalled, Exchange
    <3>6. Cardinality(Recalled') = Cardinality(Recalled) - 1
      BY <3>1, <3>5, FS_RemoveElement
    <3>7. QED
      BY <2>5, <3>2, <3>3, <3>4, <3>6 DEF Rebalance, MayRebalance, Evaluating
  <2>6. CASE Rebalanced
    BY <2>6 DEF Rebalanced, Evaluating
  <2>7. CASE NotMissing
    BY <2>7 DEF NotMissing, NextKind, Evaluating
  <2>8. CASE Inject
    <3> PICK c \in Candidate(Head(kinds)) :
          /\ HasRoomFor(c)
          /\ selected' = selected \cup {Injected(c)}
          /\ usedTokens' = usedTokens + c.tokens
      BY <2>8 DEF Inject
    <3>1. Cardinality(selected') <= Cardinality(selected) + 1
          /\ Cardinality(selected') \in Nat
      BY Added
    <3>2. QED
      BY <2>8, <3>1 DEF Inject, NextKind, HasRoomFor, Evaluating
  <2>9. CASE Displace
    <3> PICK c \in Candidate(Head(kinds)), e \in Expendable :
          /\ FitsInstead(c, e)
          /\ selected' = (selected \ {e}) \cup {Injected(c)}
          /\ usedTokens' = usedTokens - e.chunk.tokens + c.tokens
      BY <2>9 DEF Displace
    <3>1. e \in selected
      BY LowestIsOne DEF Expendable
    <3>2. Cardinality(selected') <= Cardinality(selected)
          /\ IsFiniteSet(selected')
      BY <3>1, Replaced
    <3>3. Cardinality(selected') \in Nat
      BY <3>2, FS_CardinalityType
    <3>4. QED
      BY <2>9, <3>2, <3>3 DEF Displace, NextKind, FitsInstead, Evaluating
  <2>10. CASE Skip
    BY <2>10 DEF Skip, NextKind, Evaluating
  <2>11. CASE Finish
    BY <2>11 DEF Finish, Evaluating
  <2>12. CASE UNCHANGED selectionVars
    BY <2>12 DEF selectionVars, Evaluating, Recalled
  <2>13. QED
    BY <2>1, <2>2, <2>3, <2>4, <2>5, <2>6, <2>7, <2>8, <2>9, <2>10, <2>11,
       <2>12 DEF SelectionNext, Made
<1>3. Limits => WithinLimits
  BY DEF Limits
<1>4. QED
  BY <1>1, <1>2, <1>3, SelectionTypesHold, PTL DEF SelectionSpec
-----------------------------------------------------------------------------
(* Accounts *)

\* One entry for a chunk.
Distinct(S) == \A d, e \in S : d.chunk = e.chunk => d = e

LEMMA AddEntry ==
  ASSUME NEW S, Distinct(S), NEW n, n.chunk \notin ChunksOf(S)
  PROVE  /\ Distinct(S \cup {n})
         /\ ChunksOf(S \cup {n}) = ChunksOf(S) \cup {n.chunk}
<1>1. \A d \in S : d.chunk # n.chunk
  BY DEF ChunksOf
<1>2. Distinct(S \cup {n})
  BY <1>1 DEF Distinct
<1>3. ChunksOf(S \cup {n}) = ChunksOf(S) \cup {n.chunk}
  BY DEF ChunksOf
<1>4. QED
  BY <1>2, <1>3

LEMMA DropEntry ==
  ASSUME NEW S, Distinct(S), NEW e \in S
  PROVE  /\ Distinct(S \ {e})
         /\ ChunksOf(S \ {e}) = ChunksOf(S) \ {e.chunk}
<1>1. \A d \in S : d.chunk = e.chunk => d = e
  BY DEF Distinct
<1>2. Distinct(S \ {e})
  BY DEF Distinct
<1>3. \A c : c \in ChunksOf(S \ {e}) <=> c \in ChunksOf(S) \ {e.chunk}
  BY <1>1 DEF ChunksOf
<1>4. QED
  BY <1>2, <1>3

LEMMA ReleaseEntry ==
  ASSUME Distinct(suppressed), NEW c
  PROVE  /\ Distinct(Released(c))
         /\ ChunksOf(Released(c)) = ChunksOf(suppressed) \ {c}
<1>1. Distinct(Released(c))
  BY DEF Distinct, Released
<1>2. \A d : d \in ChunksOf(Released(c)) <=> d \in ChunksOf(suppressed) \ {c}
  BY DEF ChunksOf, Released
<1>3. QED
  BY <1>1, <1>2

LEMMA AccountedIs ==
  Accounted <=> /\ Distinct(selected) /\ Distinct(suppressed)
                /\ ChunksOf(selected) \cap ChunksOf(suppressed) = {}
                /\ ~ Evaluating => Processed = request.chunks
BY DEF Accounted, Distinct

LEMMA AccountedNext ==
  ASSUME Distinct(selected'), Distinct(suppressed'),
         ChunksOf(selected') \cap ChunksOf(suppressed') = {},
         ~ Evaluating' => Processed' = request.chunks'
  PROVE  Accounted'
BY DEF Accounted, Distinct

\* In the last round, what was not decided yet is still to be looked at.
Accounts ==
  /\ Accounted
  /\ at = "general" => request.chunks \subseteq Processed \cup left

\* What the steps that change the window do to its chunks.
LEMMA TakeFacts ==
  ASSUME Types, Accounts, Take
  PROVE  \E c \in request.chunks :
           /\ c \notin Processed /\ Verdict(c) = "take"
           /\ ChunksOf(selected') = ChunksOf(selected) \cup {c}
           /\ Distinct(selected')
           /\ usedTokens' = usedTokens + c.tokens
           /\ usedOrigin' = [usedOrigin EXCEPT ![c.origin] = @ + c.tokens]
           /\ left' = left \ {c}
<1>1. PICK c \in First(left) :
        /\ c \notin Processed /\ Verdict(c) = "take"
        /\ selected' = selected \cup
             {[chunk |-> c, score |-> Score(c, ChunksOf(selected))]}
        /\ usedTokens' = usedTokens + c.tokens
        /\ usedOrigin' = [usedOrigin EXCEPT ![c.origin] = @ + c.tokens]
        /\ left' = left \ {c}
  BY DEF Take
<1> DEFINE n == [chunk |-> c, score |-> Score(c, ChunksOf(selected))]
<1>2. n.chunk = c /\ selected' = selected \cup {n}
  BY <1>1
<1> HIDE DEF n
<1>3. /\ ChunksOf(selected') = ChunksOf(selected) \cup {c}
      /\ Distinct(selected')
  BY <1>1, <1>2, AddEntry, AccountedIs DEF Processed, Accounts
<1>4. c \in request.chunks
  BY FirstIsOne DEF Types
<1>5. QED
  BY <1>1, <1>3, <1>4

LEMMA ExchangeFacts ==
  ASSUME Types, Accounts, Rebalance
  PROVE  \E e \in Recalled : \E s \in Replacements(e) :
           /\ e \in selected /\ s \in suppressed
           /\ Exchange(e, s)
           /\ e.chunk \in ChunksOf(selected) /\ s.chunk \in ChunksOf(suppressed)
           /\ s.chunk \notin ChunksOf(selected)
           /\ ChunksOf(selected') = (ChunksOf(selected) \ {e.chunk})
                                      \cup {s.chunk}
           /\ Distinct(selected')
           /\ ChunksOf(suppressed') = (ChunksOf(suppressed) \ {s.chunk})
                                        \cup {e.chunk}
           /\ Distinct(suppressed')
           /\ usedTokens' = usedTokens - e.chunk.tokens + s.chunk.tokens
<1> PICK e \in Lowest(Recalled) :
      \E s \in Highest(Replacements(e)) : Exchange(e, s)
  BY DEF Rebalance
<1> PICK s \in Highest(Replacements(e)) : Exchange(e, s)
  OBVIOUS
<1>1. /\ e \in Recalled /\ s \in Replacements(e)
      /\ e \in selected /\ s \in suppressed
  BY LowestIsOne, HighestIsOne DEF Recalled, Replacements
<1>2. e.chunk \in ChunksOf(selected) /\ s.chunk \in ChunksOf(suppressed)
  BY <1>1 DEF ChunksOf
<1> DEFINE n == [chunk |-> s.chunk, score |-> Score(s.chunk, Without(e))]
           m == [chunk |-> e.chunk, score |-> e.score,
                 reason |-> "workspace-priority-over-recall"]
<1>3. /\ n.chunk = s.chunk /\ selected' = (selected \ {e}) \cup {n}
      /\ m.chunk = e.chunk /\ suppressed' = (suppressed \ {s}) \cup {m}
      /\ usedTokens' = usedTokens - e.chunk.tokens + s.chunk.tokens
  BY DEF Exchange
<1> HIDE DEF n, m
<1>4. /\ s.chunk \notin ChunksOf(selected \ {e})
      /\ e.chunk \notin ChunksOf(suppressed \ {s})
      /\ s.chunk \notin ChunksOf(selected)
  BY <1>2, AccountedIs DEF Accounts, ChunksOf
<1>5. /\ ChunksOf(selected') = (ChunksOf(selected) \ {e.chunk}) \cup {s.chunk}
      /\ Distinct(selected')
  <2>1. /\ Distinct(selected \ {e})
        /\ ChunksOf(selected \ {e}) = ChunksOf(selected) \ {e.chunk}
    BY <1>1, AccountedIs, DropEntry DEF Accounts
  <2>2. QED
    BY <1>3, <1>4, <2>1, AddEntry
<1>6. /\ ChunksOf(suppressed') = (ChunksOf(suppressed) \ {s.chunk})
                                   \cup {e.chunk}
      /\ Distinct(suppressed')
  <2>1. /\ Distinct(suppressed \ {s})
        /\ ChunksOf(suppressed \ {s}) = ChunksOf(suppressed) \ {s.chunk}
    BY <1>1, AccountedIs, DropEntry DEF Accounts
  <2>2. QED
    BY <1>3, <1>4, <2>1, AddEntry
<1>7. QED
  BY <1>1, <1>2, <1>3, <1>4, <1>5, <1>6

LEMMA InjectFacts ==
  ASSUME Types, Accounts, Inject
  PROVE  \E c \in request.chunks :
           /\ c \notin ChunksOf(selected)
           /\ ChunksOf(selected') = ChunksOf(selected) \cup {c}
           /\ Distinct(selected')
           /\ suppressed' = Released(c)
           /\ ChunksOf(suppressed') = ChunksOf(suppressed) \ {c}
           /\ Distinct(suppressed')
           /\ usedTokens' = usedTokens + c.tokens
<1> PICK c \in Candidate(Head(kinds)) :
      /\ selected' = selected \cup {Injected(c)}
      /\ suppressed' = Released(c)
      /\ usedTokens' = usedTokens + c.tokens
  BY DEF Inject
<1>1. c \in request.chunks /\ c \notin ChunksOf(selected)
  BY FirstIsOne DEF Candidate, OfOrigin
<1>2. Injected(c).chunk = c
  BY DEF Injected
<1>3. /\ ChunksOf(selected') = ChunksOf(selected) \cup {c}
      /\ Distinct(selected')
  BY <1>1, <1>2, AccountedIs, AddEntry DEF Accounts
<1>4. /\ ChunksOf(suppressed') = ChunksOf(suppressed) \ {c}
      /\ Distinct(suppressed')
  BY AccountedIs, ReleaseEntry DEF Accounts
<1>5. QED
  BY <1>1, <1>3, <1>4

LEMMA DisplaceFacts ==
  ASSUME Types, Accounts, Displace
  PROVE  \E c \in request.chunks, e \in selected :
           /\ ~ HasRoomFor(c)
           /\ c \notin ChunksOf(selected) /\ e.chunk \in ChunksOf(selected)
           /\ ChunksOf(selected') = (ChunksOf(selected) \ {e.chunk}) \cup {c}
           /\ Distinct(selected')
           /\ ChunksOf(suppressed') = (ChunksOf(suppressed) \ {c})
                                        \cup {e.chunk}
           /\ Distinct(suppressed')
           /\ usedTokens' = usedTokens - e.chunk.tokens + c.tokens
<1> PICK c \in Candidate(Head(kinds)), e \in Expendable :
      /\ ~ HasRoomFor(c)
      /\ selected' = (selected \ {e}) \cup {Injected(c)}
      /\ suppressed' = Released(c) \cup
           {[chunk |-> e.chunk, score |-> e.score,
             reason |-> "sdd-rebalanced"]}
      /\ usedTokens' = usedTokens - e.chunk.tokens + c.tokens
  BY DEF Displace
<1>1. /\ c \in request.chunks /\ c \notin ChunksOf(selected)
      /\ e \in selected /\ e.chunk \in ChunksOf(selected)
  BY FirstIsOne, LowestIsOne
  DEF Candidate, OfOrigin, Expendable, ChunksOf
<1> DEFINE m == [chunk |-> e.chunk, score |-> e.score,
                 reason |-> "sdd-rebalanced"]
<1>2. /\ Injected(c).chunk = c
      /\ m.chunk = e.chunk /\ suppressed' = Released(c) \cup {m}
  BY DEF Injected
<1> HIDE DEF m
<1>3. /\ c \notin ChunksOf(selected \ {e})
      /\ e.chunk \notin ChunksOf(Released(c))
  BY <1>1, AccountedIs DEF Accounts, ChunksOf, Released
<1>4. /\ ChunksOf(selected') = (ChunksOf(selected) \ {e.chunk}) \cup {c}
      /\ Distinct(selected')
  BY <1>1, <1>2, <1>3, AccountedIs, DropEntry, AddEntry DEF Accounts
<1>5. /\ ChunksOf(suppressed') = (ChunksOf(suppressed) \ {c}) \cup {e.chunk}
      /\ Distinct(suppressed')
  BY <1>2, <1>3, AccountedIs, ReleaseEntry, AddEntry DEF Accounts
<1>6. QED
  BY <1>1, <1>4, <1>5

LEMMA AccountsHold == SelectionSpec => []Accounts
<1>1. SelectionInit => Accounts
  BY DEF SelectionInit, Accounts, Accounted, Processed, ChunksOf, Evaluating
<1>2. Types /\ Accounts /\ [SelectionNext]_selectionVars => Accounts'
  <2> SUFFICES ASSUME Types, Accounts, [SelectionNext]_selectionVars PROVE Accounts'
    OBVIOUS
  <2>0. /\ Distinct(selected) /\ Distinct(suppressed)
        /\ ChunksOf(selected) \cap ChunksOf(suppressed) = {}
        /\ ~ Evaluating => Processed = request.chunks
    BY AccountedIs DEF Accounts
  <2>1. CASE Pass
    <3>1. at = "general" => \A c : Verdict(c) # "deferred"
      BY DEF Verdict
    <3>2. QED
      BY <2>1, <3>1
      DEF Pass, Accounts, Accounted, Processed, ChunksOf, Evaluating
  <2>2. CASE Suppress
    <3> PICK c \in First(left) :
          /\ c \notin Processed
          /\ suppressed' = suppressed \cup
               {[chunk |-> c, score |-> Score(c, ChunksOf(selected)),
                 reason |-> Verdict(c)]}
          /\ left' = left \ {c}
      BY <2>2 DEF Suppress
    <3> DEFINE n == [chunk |-> c, score |-> Score(c, ChunksOf(selected)),
                     reason |-> Verdict(c)]
    <3>0. n.chunk = c /\ suppressed' = suppressed \cup {n}
      OBVIOUS
    <3> HIDE DEF n
    <3>1. /\ ChunksOf(suppressed') = ChunksOf(suppressed) \cup {c}
          /\ Distinct(suppressed')
      BY <3>0, AddEntry, <2>0 DEF Processed
    <3>2. UNCHANGED <<request, at, selected>> /\ Evaluating
      BY <2>2 DEF Suppress
    <3>3. c \notin ChunksOf(selected) /\ left' = left \ {c}
      BY DEF Processed
    <3>4. /\ Distinct(selected')
          /\ ChunksOf(selected') \cap ChunksOf(suppressed') = {}
          /\ Evaluating'
      BY <2>0, <3>1, <3>2, <3>3 DEF Evaluating
    <3>5. at' = "general" => request'.chunks \subseteq Processed' \cup left'
      BY <3>1, <3>2, <3>3 DEF Accounts, Processed
    <3>6. QED
      BY <3>1, <3>4, <3>5, AccountedNext DEF Accounts
  <2>3. CASE Take
    <3>1. PICK c \in request.chunks :
            /\ c \notin Processed /\ left' = left \ {c}
            /\ ChunksOf(selected') = ChunksOf(selected) \cup {c}
            /\ Distinct(selected')
      BY <2>3, TakeFacts
    <3>2. UNCHANGED <<request, at, suppressed>> /\ Evaluating
      BY <2>3 DEF Take
    <3>3. /\ Distinct(suppressed')
          /\ ChunksOf(selected') \cap ChunksOf(suppressed') = {}
          /\ Evaluating'
      BY <2>0, <3>1, <3>2 DEF Evaluating, Processed
    <3>4. at' = "general" => request'.chunks \subseteq Processed' \cup left'
      BY <3>1, <3>2 DEF Accounts, Processed
    <3>5. QED
      BY <3>1, <3>3, <3>4, AccountedNext DEF Accounts
  <2>4. CASE NextRound
    <3>1. CASE at = "general"
      <4>1. request.chunks \subseteq Processed
        BY <2>4, <3>1 DEF NextRound, Accounts
      <4>2. Processed \subseteq request.chunks
        BY DEF Types, Processed
      <4>3. QED
        BY <2>4, <3>1, <4>1, <4>2
        DEF NextRound, Accounts, Accounted, Processed, ChunksOf, Evaluating
    <3>2. CASE at # "general"
      BY <2>4, <3>2
      DEF NextRound, Accounts, Accounted, Processed, ChunksOf, Evaluating
    <3>3. QED
      BY <3>1, <3>2
  <2>5. CASE Rebalance
    <3>1. PICK e \in Recalled :
            \E s \in Replacements(e) :
              /\ e.chunk \in ChunksOf(selected)
              /\ s.chunk \in ChunksOf(suppressed)
              /\ ChunksOf(selected') = (ChunksOf(selected) \ {e.chunk})
                                         \cup {s.chunk}
              /\ Distinct(selected')
              /\ ChunksOf(suppressed') = (ChunksOf(suppressed) \ {s.chunk})
                                           \cup {e.chunk}
              /\ Distinct(suppressed')
      BY <2>5, ExchangeFacts
    <3>2. UNCHANGED <<request, at>> /\ at = "rebalance"
      BY <2>5 DEF Rebalance, MayRebalance
    <3>3. QED
      BY <2>0, <3>1, <3>2, AccountedNext DEF Accounts, Processed, Evaluating
  <2>6. CASE Rebalanced
    BY <2>6
    DEF Rebalanced, Accounts, Accounted, Processed, ChunksOf, Evaluating
  <2>7. CASE NotMissing
    BY <2>7
    DEF NotMissing, NextKind, Accounts, Accounted, Processed, ChunksOf,
        Evaluating
  <2>8. CASE Inject
    <3>1. PICK c \in request.chunks :
            /\ ChunksOf(selected') = ChunksOf(selected) \cup {c}
            /\ Distinct(selected')
            /\ ChunksOf(suppressed') = ChunksOf(suppressed) \ {c}
            /\ Distinct(suppressed')
      BY <2>8, InjectFacts
    <3>2. UNCHANGED <<request, at>> /\ at = "cover"
      BY <2>8 DEF Inject, NextKind
    <3>3. QED
      BY <2>0, <3>1, <3>2, AccountedNext DEF Accounts, Processed, Evaluating
  <2>9. CASE Displace
    <3>1. PICK c \in request.chunks, e \in selected :
            /\ e.chunk \in ChunksOf(selected) /\ c \notin ChunksOf(selected)
            /\ ChunksOf(selected') = (ChunksOf(selected) \ {e.chunk})
                                       \cup {c}
            /\ Distinct(selected')
            /\ ChunksOf(suppressed') = (ChunksOf(suppressed) \ {c})
                                         \cup {e.chunk}
            /\ Distinct(suppressed')
      BY <2>9, DisplaceFacts
    <3>2. UNCHANGED <<request, at>> /\ at = "cover"
      BY <2>9 DEF Displace, NextKind
    <3>3. QED
      BY <2>0, <3>1, <3>2, AccountedNext DEF Accounts, Processed, Evaluating
  <2>10. CASE Skip
    BY <2>10
    DEF Skip, NextKind, Accounts, Accounted, Processed, ChunksOf, Evaluating
  <2>11. CASE Finish
    BY <2>11
    DEF Finish, Accounts, Accounted, Processed, ChunksOf, Evaluating
  <2>12. CASE UNCHANGED selectionVars
    BY <2>12 DEF selectionVars, Accounts, Accounted, Processed, ChunksOf, Evaluating
  <2>13. QED
    BY <2>1, <2>2, <2>3, <2>4, <2>5, <2>6, <2>7, <2>8, <2>9, <2>10, <2>11,
       <2>12 DEF SelectionNext, Made
<1>3. QED
  BY <1>1, <1>2, SelectionTypesHold, PTL DEF SelectionSpec

\* Every chunk of the request ends up selected or suppressed, once
\* (evaluateEntry, the exchange, and removeSuppressedById with
\* toSuppressedChunk).
THEOREM EveryChunkAccounted == SelectionSpec => []Accounted
<1>1. Accounts => Accounted
  BY DEF Accounts
<1>2. QED
  BY <1>1, AccountsHold, PTL
-----------------------------------------------------------------------------
(* Coverage *)

\* Kinds are looked at once, so one that was skipped does not come up again;
\* before the coverage begins none was looked at.
Coverage ==
  /\ CoverageHolds
  /\ at \notin {"cover", "done"} => skipped = {}
  /\ skipped \subseteq Kind
  /\ \A i, j \in DOMAIN kinds : kinds[i] = kinds[j] => i = j
  /\ \A i \in DOMAIN kinds : kinds[i] \notin skipped

Waits(kind) == \E i \in DOMAIN kinds : kinds[i] = kind

LEMMA CoverageIs ==
  Types /\ Coverage /\ at = "cover" =>
    \A kind \in Kind : /\ Missing(kind) => kind \in skipped \/ Waits(kind)
                       /\ kind \in skipped => Missing(kind)
BY DEF Coverage, CoverageHolds, Waits

\* What a step does to the list of kinds left.
LEMMA KindsLeft ==
  ASSUME Types, Coverage, NextKind
  PROVE  /\ Head(kinds) \in Kind /\ Head(kinds) \notin skipped
         /\ at = "cover"
         /\ \A i, j \in DOMAIN kinds' : kinds'[i] = kinds'[j] => i = j
         /\ \A i \in DOMAIN kinds' :
              kinds'[i] \notin skipped /\ kinds'[i] # Head(kinds)
         /\ \A kind : Waits(kind) =>
              kind = Head(kinds) \/ \E i \in DOMAIN kinds' : kinds'[i] = kind
<1>1. kinds \in Seq(Kind) /\ kinds # <<>> /\ kinds' = Tail(kinds)
      /\ at = "cover"
  BY DEF Types, NextKind
<1>2. /\ Tail(kinds) \in Seq(Kind) /\ Head(kinds) \in Kind
      /\ 1 \in DOMAIN kinds /\ Head(kinds) = kinds[1]
      /\ \A i \in DOMAIN Tail(kinds) :
           i + 1 \in DOMAIN kinds /\ i + 1 # 1 /\ Tail(kinds)[i] = kinds[i + 1]
      /\ \A kind : Waits(kind) => kind = Head(kinds)
           \/ \E i \in DOMAIN Tail(kinds) : Tail(kinds)[i] = kind
  BY <1>1, HeadAndTail DEF Waits
<1>3. \A i, j \in DOMAIN Tail(kinds) :
        Tail(kinds)[i] = Tail(kinds)[j] => i = j
  <2> SUFFICES ASSUME NEW i \in DOMAIN Tail(kinds),
                      NEW j \in DOMAIN Tail(kinds),
                      Tail(kinds)[i] = Tail(kinds)[j]
               PROVE  i = j
    OBVIOUS
  <2>1. i + 1 = j + 1
    BY <1>2 DEF Coverage
  <2>2. i \in Nat /\ j \in Nat
    BY <1>2
  <2>3. QED
    BY <2>1, <2>2
<1>4. \A i \in DOMAIN Tail(kinds) :
        Tail(kinds)[i] \notin skipped /\ Tail(kinds)[i] # Head(kinds)
  BY <1>2 DEF Coverage
<1>5. Head(kinds) \notin skipped
  BY <1>2 DEF Coverage
<1>6. QED
  BY <1>1, <1>2, <1>3, <1>4, <1>5

\* A step of the coverage keeps it when it covers the head or skips it, and
\* uncovers no other kind and covers none that was skipped.
LEMMA CoverageNext ==
  ASSUME Types, Coverage, NextKind, UNCHANGED <<request, at>>,
         NEW CONSTANT h, h = Head(kinds),
         skipped' \in {skipped, skipped \cup {h}},
         Missing(h)' <=> h \in skipped',
         \A kind \in Kind \ {h} : Missing(kind)' <=> Missing(kind)
  PROVE  Coverage'
<1>1. /\ Head(kinds) \in Kind /\ Head(kinds) \notin skipped /\ at = "cover"
      /\ \A i, j \in DOMAIN kinds' : kinds'[i] = kinds'[j] => i = j
      /\ \A i \in DOMAIN kinds' :
           kinds'[i] \notin skipped /\ kinds'[i] # Head(kinds)
      /\ \A kind : Waits(kind) =>
           kind = Head(kinds) \/ \E i \in DOMAIN kinds' : kinds'[i] = kind
  BY KindsLeft
<1>2. \A kind \in Kind : /\ Missing(kind) => kind \in skipped \/ Waits(kind)
                         /\ kind \in skipped => Missing(kind)
  BY <1>1, CoverageIs
<1>3. CoverageHolds'
  <2> SUFFICES ASSUME NEW kind \in Kind
               PROVE  /\ Missing(kind)' => \/ kind \in skipped'
                                           \/ \E i \in DOMAIN kinds' :
                                                kinds'[i] = kind
                      /\ kind \in skipped' => Missing(kind)'
    BY DEF CoverageHolds
  <2>1. CASE kind = h
    BY <2>1
  <2>2. CASE kind # h
    BY <1>1, <1>2, <2>2
  <2>3. QED
    BY <2>1, <2>2
<1>4. skipped' \subseteq Kind
  BY <1>1 DEF Coverage
<1>5. \A i \in DOMAIN kinds' : kinds'[i] \notin skipped'
  BY <1>1
<1>6. at' = "cover"
  BY <1>1
<1>7. QED
  BY <1>1, <1>3, <1>4, <1>5, <1>6 DEF Coverage

\* A kind of the policy that some chunk has is in the window in the end, or
\* is reported in skippedKinds; covering one kind takes no other away
\* (enforceSddCoverage, findReplacementIndex).
THEOREM RequiredKindsCovered == SelectionSpec => []CoverageHolds
<1>1. SelectionInit => Coverage
  BY DEF SelectionInit, Coverage, CoverageHolds
<1>2. Types /\ Coverage /\ [SelectionNext]_selectionVars => Coverage'
  <2> SUFFICES ASSUME Types, Coverage, [SelectionNext]_selectionVars PROVE Coverage'
    OBVIOUS
  <2>1. CASE Pass
    BY <2>1 DEF Pass, Evaluating, Coverage, CoverageHolds
  <2>2. CASE Suppress
    BY <2>2 DEF Suppress, Evaluating, Coverage, CoverageHolds
  <2>3. CASE Take
    BY <2>3 DEF Take, Evaluating, Coverage, CoverageHolds
  <2>4. CASE NextRound
    BY <2>4 DEF NextRound, Evaluating, Coverage, CoverageHolds
  <2>5. CASE Rebalance
    BY <2>5 DEF Rebalance, MayRebalance, Coverage, CoverageHolds
  <2>6. CASE Rebalanced
    <3>1. /\ kinds' = request.requiredKinds /\ skipped' = {} /\ at' = "cover"
          /\ UNCHANGED <<request, selected>>
      BY <2>6 DEF Rebalanced, Coverage
    <3>2. \A kind : Missing(kind)' =>
            \E i \in DOMAIN kinds' : kinds'[i] = kind
      BY <3>1 DEF Missing, Required
    <3>3. \A i, j \in DOMAIN kinds' : kinds'[i] = kinds'[j] => i = j
      BY <3>1, RequestFacts DEF Types
    <3>4. QED
      BY <3>1, <3>2, <3>3 DEF Coverage, CoverageHolds
  <2> PICK h : h = Head(kinds)
    OBVIOUS
  <2>7. CASE NotMissing
    <3>1. /\ NextKind /\ UNCHANGED <<request, at>> /\ skipped' = skipped
          /\ \A kind : Missing(kind)' <=> Missing(kind)
          /\ ~ Missing(Head(kinds))
      BY <2>7 DEF NotMissing, Missing, Required, Covered
    <3>2. Head(kinds) \notin skipped
      BY <3>1, KindsLeft
    <3>3. QED
      BY <3>1, <3>2, CoverageNext
  <2>8. CASE Inject
    <3>1. /\ NextKind /\ UNCHANGED <<request, at>> /\ skipped' = skipped
          /\ Head(kinds) \notin skipped
      BY <2>8, KindsLeft DEF Inject
    <3> PICK c \in Candidate(Head(kinds)) :
          selected' = selected \cup {Injected(c)}
      BY <2>8 DEF Inject
    <3>2. c.kind = Head(kinds) /\ Injected(c).chunk = c
      BY FirstIsOne DEF Candidate, OfOrigin, Injected
    <3>3. \A kind : Covered(kind)' <=> Covered(kind) \/ kind = h
      BY <3>2 DEF Covered
    <3>4. /\ ~ Missing(h)'
          /\ \A kind \in Kind \ {h} : Missing(kind)' <=> Missing(kind)
      BY <3>1, <3>3 DEF Missing, Required
    <3>5. QED
      BY <3>1, <3>4, CoverageNext
  <2>9. CASE Displace
    <3>1. /\ NextKind /\ UNCHANGED <<request, at>> /\ skipped' = skipped
          /\ Head(kinds) \notin skipped
      BY <2>9, KindsLeft DEF Displace
    <3> PICK c \in Candidate(Head(kinds)), e \in Expendable :
          selected' = (selected \ {e}) \cup {Injected(c)}
      BY <2>9 DEF Displace
    <3>2. c.kind = Head(kinds) /\ Injected(c).chunk = c
      BY FirstIsOne DEF Candidate, OfOrigin, Injected
    <3>3. /\ e \in selected
          /\ \/ ~ Required(e.chunk.kind)
             \/ \E d \in selected \ {e} : d.chunk.kind = e.chunk.kind
      BY LowestIsOne DEF Expendable
    <3>4. Covered(h)'
      BY <3>2 DEF Covered
    <3>5. ASSUME NEW kind, kind # Head(kinds), Required(kind)
          PROVE  Covered(kind)' <=> Covered(kind)
      <4>1. Covered(kind)' => Covered(kind)
        BY <3>2, <3>5 DEF Covered
      <4>2. Covered(kind) => Covered(kind)'
        BY <3>3, <3>5 DEF Covered
      <4>3. QED
        BY <4>1, <4>2
    <3>6. /\ ~ Missing(h)'
          /\ \A kind \in Kind \ {h} : Missing(kind)' <=> Missing(kind)
      BY <3>1, <3>4, <3>5 DEF Missing, Required
    <3>7. QED
      BY <3>1, <3>6, CoverageNext
  <2>10. CASE Skip
    <3>1. /\ NextKind /\ UNCHANGED <<request, at>>
          /\ skipped' = skipped \cup {Head(kinds)}
          /\ \A kind : Missing(kind)' <=> Missing(kind)
          /\ Missing(Head(kinds))
      BY <2>10 DEF Skip, Missing, Required, Covered
    <3>2. QED
      BY <3>1, CoverageNext
  <2>11. CASE Finish
    BY <2>11
    DEF Finish, Coverage, CoverageHolds, Missing, Required, Covered
  <2>12. CASE UNCHANGED selectionVars
    BY <2>12
    DEF selectionVars, Coverage, CoverageHolds, Missing, Required, Covered
  <2>13. QED
    BY <2>1, <2>2, <2>3, <2>4, <2>5, <2>6, <2>7, <2>8, <2>9, <2>10, <2>11,
       <2>12 DEF SelectionNext, Made
<1>3. Coverage => CoverageHolds
  BY DEF Coverage
<1>4. QED
  BY <1>1, <1>2, <1>3, SelectionTypesHold, PTL DEF SelectionSpec
-----------------------------------------------------------------------------
(* What the tokens of a set of chunks add up to.  The sum is a function     *)
(* that recurses over subsets: that there is one, that it is the only one,  *)
(* and that any element may be counted last, follow from the smallest       *)
(* subset that would be an exception.                                       *)

Picked(s) == CHOOSE x \in s : TRUE
IsSum(g, S) ==
  g = [s \in SUBSET S |->
         IF s = {} THEN 0 ELSE Picked(s).tokens + g[s \ {Picked(s)}]]
TheSum(S) == CHOOSE g : IsSum(g, S)
Sum(S) == TheSum(S)[S]

SumExists(S) ==
  /\ \E g : IsSum(g, S)
  /\ \A g, h : IsSum(g, S) /\ IsSum(h, S) => g = h

\* What Sum(S) is in terms of a smaller set.
LastCounted(S) == IF S = {} THEN 0 ELSE Picked(S).tokens + Sum(S \ {Picked(S)})

LEMMA TokensOfIsSum == \A S : TokensOf(S) = Sum(S)
BY DEF TokensOf, MapThenSumSet, MapThenFoldSet, Sum, TheSum, IsSum, Picked

\* A set of sets of chunks has a smallest one.
LEMMA SmallestSet ==
  ASSUME NEW T, T \subseteq SUBSET Chunk, T # {}
  PROVE  \E S \in T : \A R \in T : R \subseteq S => R = S
<1>1. IsFiniteSet(Chunk)
  BY SelectionConstants
<1>2. FiniteSubsetsOf(Chunk) = SUBSET Chunk
  BY <1>1, FS_FiniteSubsetsOfFinite
<1>3. IsWellFoundedOn(StrictSubsetOrdering(Chunk), SUBSET Chunk)
  BY <1>2, FS_StrictSubsetOrderingWellFounded
<1>4. \E S \in T : \A R \in T : ~ (<<R, S>> \in StrictSubsetOrdering(Chunk))
  BY <1>3, WFMin
<1>5. PICK S \in T : \A R \in T : ~ (<<R, S>> \in StrictSubsetOrdering(Chunk))
  BY <1>4
<1>6. ASSUME NEW R \in T, R \subseteq S, R # S
      PROVE  FALSE
  <2>1. <<R, S>> \in (SUBSET Chunk) \X (SUBSET Chunk)
    OBVIOUS
  <2>2. <<R, S>>[1] = R /\ <<R, S>>[2] = S
    OBVIOUS
  <2>3. <<R, S>> \in StrictSubsetOrdering(Chunk)
    BY <1>6, <2>1, <2>2 DEF StrictSubsetOrdering
  <2>4. QED
    BY <1>5, <2>3
<1>7. QED
  BY <1>6

LEMMA PickedIsOne ==
  ASSUME NEW S, S # {}
  PROVE  Picked(S) \in S
BY DEF Picked

\* What a sum says of a smaller set is a sum.
LEMMA SumRestricted ==
  ASSUME NEW S, NEW R \in SUBSET S, NEW g, IsSum(g, S)
  PROVE  IsSum([s \in SUBSET R |-> g[s]], R)
<1> DEFINE r == [s \in SUBSET R |-> g[s]]
<1>1. \A s \in SUBSET S :
        g[s] = IF s = {} THEN 0 ELSE Picked(s).tokens + g[s \ {Picked(s)}]
  BY DEF IsSum
<1>2. \A s \in SUBSET R :
        g[s] = IF s = {} THEN 0 ELSE Picked(s).tokens + r[s \ {Picked(s)}]
  BY <1>1
<1>3. QED
  BY <1>2 DEF IsSum

LEMMA SumsExist == \A S \in SUBSET Chunk : SumExists(S)
<1> DEFINE T == {S \in SUBSET Chunk : ~ SumExists(S)}
<1> SUFFICES ASSUME T # {} PROVE FALSE
  OBVIOUS
<1>1. PICK S \in T : \A R \in T : R \subseteq S => R = S
  <2>1. T \subseteq SUBSET Chunk
    OBVIOUS
  <2> HIDE DEF T
  <2>2. QED
    BY <2>1, SmallestSet
<1>2. \A R \in SUBSET S : R # S => SumExists(R)
  BY <1>1
<1> HIDE DEF T
<1>3. ASSUME NEW R \in SUBSET S, R # S
      PROVE  IsSum(TheSum(R), R)
  BY <1>2, <1>3 DEF SumExists, TheSum
<1>4. ASSUME NEW U \in SUBSET S, NEW g, IsSum(g, U), NEW R \in SUBSET U, R # S
      PROVE  g[R] = Sum(R)
  <2> DEFINE r == [s \in SUBSET R |-> g[s]]
  <2>1. IsSum(r, R)
    BY <1>4, SumRestricted
  <2>2. R \in SUBSET S /\ IsSum(TheSum(R), R)
    BY <1>3, <1>4
  <2>3. r = TheSum(R)
    BY <1>2, <1>4, <2>1, <2>2 DEF SumExists
  <2>4. r[R] = g[R]
    OBVIOUS
  <2>5. QED
    BY <2>3, <2>4 DEF Sum
<1>5. ASSUME NEW R \in SUBSET S, R # S
      PROVE  Sum(R) = LastCounted(R)
  <2>1. TheSum(R)[R] =
          IF R = {} THEN 0
          ELSE Picked(R).tokens + TheSum(R)[R \ {Picked(R)}]
    <3>1. IsSum(TheSum(R), R)
      BY <1>3, <1>5
    <3>2. R \in SUBSET R
      OBVIOUS
    <3> DEFINE h == TheSum(R)
    <3>3. IsSum(h, R)
      BY <3>1
    <3> HIDE DEF h
    <3>4. h[R] = IF R = {} THEN 0 ELSE Picked(R).tokens + h[R \ {Picked(R)}]
      BY <3>2, <3>3 DEF IsSum
    <3>5. QED
      BY <3>4 DEF h
  <2>2. R # {} => TheSum(R)[R \ {Picked(R)}] = Sum(R \ {Picked(R)})
    <3>1. R \ {Picked(R)} \in SUBSET R /\ R \ {Picked(R)} # S
      BY <1>5
    <3>2. QED
      BY <1>3, <1>4, <1>5, <3>1
  <2>3. QED
    BY <2>1, <2>2 DEF Sum, LastCounted
<1> DEFINE g == [s \in SUBSET S |-> LastCounted(s)]
<1>6. \A s \in SUBSET S : s # {} =>
        s \ {Picked(s)} \in SUBSET S /\ s \ {Picked(s)} # S
  BY PickedIsOne
<1>7. IsSum(g, S)
  <2>1. \A s \in SUBSET S :
          LastCounted(s) =
            IF s = {} THEN 0 ELSE Picked(s).tokens + g[s \ {Picked(s)}]
    BY <1>5, <1>6 DEF LastCounted
  <2>2. QED
    BY <2>1 DEF IsSum
<1>8. ASSUME NEW h, IsSum(h, S)
      PROVE  h = g
  <2>1. /\ h = [s \in SUBSET S |-> h[s]]
        /\ \A s \in SUBSET S :
             h[s] = IF s = {} THEN 0 ELSE Picked(s).tokens + h[s \ {Picked(s)}]
    BY <1>8 DEF IsSum
  <2>2. \A s \in SUBSET S : s # {} => h[s \ {Picked(s)}] = Sum(s \ {Picked(s)})
    BY <1>4, <1>6, <1>8
  <2>3. \A s \in SUBSET S : h[s] = LastCounted(s)
    BY <2>1, <2>2 DEF LastCounted
  <2>4. QED
    BY <2>1, <2>3
<1>9. SumExists(S)
  BY <1>7, <1>8 DEF SumExists
<1>10. QED
  BY <1>1, <1>9 DEF T

\* The sum of a set, by the element it counts last.
LEMMA SumByPicked == \A S \in SUBSET Chunk : Sum(S) = LastCounted(S)
<1> SUFFICES ASSUME NEW S \in SUBSET Chunk PROVE Sum(S) = LastCounted(S)
  OBVIOUS
<1> DEFINE h == TheSum(S)
<1>1. IsSum(h, S)
  BY SumsExist DEF SumExists, TheSum
<1> HIDE DEF h
<1>2. h[S] = IF S = {} THEN 0 ELSE Picked(S).tokens + h[S \ {Picked(S)}]
  BY <1>1 DEF IsSum
<1>3. ASSUME S # {}
      PROVE  h[S \ {Picked(S)}] = Sum(S \ {Picked(S)})
  <2> DEFINE R == S \ {Picked(S)}
             r == [s \in SUBSET R |-> h[s]]
  <2>1. R \in SUBSET S /\ R \in SUBSET Chunk
    OBVIOUS
  <2>2. IsSum(r, R)
    BY <1>1, <2>1, SumRestricted
  <2>3. IsSum(TheSum(R), R)
    BY <2>1, SumsExist DEF SumExists, TheSum
  <2>4. r = TheSum(R)
    BY <2>1, <2>2, <2>3, SumsExist DEF SumExists
  <2>5. r[R] = h[R]
    OBVIOUS
  <2>6. QED
    BY <2>4, <2>5 DEF Sum
<1>4. QED
  BY <1>2, <1>3 DEF Sum, LastCounted, h

\* Any element may be the one.
LEMMA SumByAny ==
  \A S \in SUBSET Chunk :
    /\ Sum(S) \in Nat
    /\ \A c \in S : Sum(S) = c.tokens + Sum(S \ {c})
<1> DEFINE Good(S) == /\ Sum(S) \in Nat
                      /\ \A c \in S : Sum(S) = c.tokens + Sum(S \ {c})
           T == {S \in SUBSET Chunk : ~ Good(S)}
<1> SUFFICES ASSUME T # {} PROVE FALSE
  OBVIOUS
<1>1. PICK S \in T : \A R \in T : R \subseteq S => R = S
  <2>1. T \subseteq SUBSET Chunk
    OBVIOUS
  <2> HIDE DEF T
  <2>2. QED
    BY <2>1, SmallestSet
<1>2. S \in SUBSET Chunk /\ \A R \in SUBSET S : R # S => Good(R)
  BY <1>1
<1>3. \A c \in Chunk : c.tokens \in Nat
  BY SelectionConstants DEF ChunkType
<1>4. CASE S = {}
  <2>1. Sum(S) = 0
    BY <1>2, <1>4, SumByPicked DEF LastCounted
  <2>2. Good(S)
    BY <1>4, <2>1
  <2>3. QED
    BY <1>1, <2>2
<1>5. CASE S # {}
  <2> DEFINE p == Picked(S)
  <2>1. p \in S
    BY <1>5, PickedIsOne
  <2> HIDE DEF p
  <2>2. Sum(S) = p.tokens + Sum(S \ {p})
    BY <1>2, <1>5, SumByPicked DEF LastCounted, p
  <2>3. Good(S \ {p})
    BY <1>2, <2>1
  <2>4. ASSUME NEW c \in S, c # p
        PROVE  Sum(S) = c.tokens + Sum(S \ {c})
    <3>1. Good(S \ {c})
      BY <1>2
    <3>2. (S \ {p}) \ {c} = (S \ {c}) \ {p}
      OBVIOUS
    <3> DEFINE rest == Sum((S \ {c}) \ {p})
    <3>3. Sum(S \ {p}) = c.tokens + rest
      BY <2>3, <2>4, <3>2
    <3>4. Sum(S \ {c}) = p.tokens + rest
      BY <2>1, <2>4, <3>1
    <3>5. Good((S \ {c}) \ {p})
      BY <1>2, <2>1
    <3>6. rest \in Nat /\ c.tokens \in Nat /\ p.tokens \in Nat
      BY <1>2, <1>3, <2>1, <3>5
    <3> HIDE DEF rest
    <3>7. QED
      BY <2>2, <3>3, <3>4, <3>6
  <2>5. Sum(S) \in Nat
    BY <1>2, <1>3, <2>1, <2>2, <2>3
  <2>6. QED
    BY <1>1, <2>2, <2>4, <2>5
<1>6. QED
  BY <1>4, <1>5

\* The sum of no chunks, of one more, of one in another's place, and of fewer.
LEMMA SumFacts ==
  /\ Sum({}) = 0
  /\ \A S \in SUBSET Chunk : \A c \in Chunk \ S :
       Sum(S \cup {c}) = Sum(S) + c.tokens
  /\ \A S \in SUBSET Chunk : \A c \in Chunk \ S, d \in S :
       Sum((S \ {d}) \cup {c}) = Sum(S) - d.tokens + c.tokens
<1>0. \A c \in Chunk : c.tokens \in Nat
  BY SelectionConstants DEF ChunkType
<1>1. Sum({}) = 0
  BY SumByPicked DEF LastCounted
<1>2. ASSUME NEW S \in SUBSET Chunk, NEW c \in Chunk \ S
      PROVE  Sum(S \cup {c}) = Sum(S) + c.tokens
  <2>1. (S \cup {c}) \ {c} = S
    OBVIOUS
  <2>2. Sum(S \cup {c}) = c.tokens + Sum(S) /\ Sum(S) \in Nat
    BY <2>1, SumByAny
  <2>3. QED
    BY <1>0, <2>2
<1>3. ASSUME NEW S \in SUBSET Chunk, NEW c \in Chunk \ S, NEW d \in S
      PROVE  Sum((S \ {d}) \cup {c}) = Sum(S) - d.tokens + c.tokens
  <2>1. Sum((S \ {d}) \cup {c}) = Sum(S \ {d}) + c.tokens
    BY <1>2
  <2>2. Sum(S) = d.tokens + Sum(S \ {d}) /\ Sum(S \ {d}) \in Nat
    BY SumByAny
  <2>3. QED
    BY <1>0, <2>1, <2>2
<1>4. QED
  BY <1>1, <1>2, <1>3

LEMMA SumOfPart ==
  \A S \in SUBSET Chunk : \A R \in SUBSET S : Sum(R) <= Sum(S)
<1> DEFINE Good(S) == \A R \in SUBSET S : Sum(R) <= Sum(S)
           T == {S \in SUBSET Chunk : ~ Good(S)}
<1> SUFFICES ASSUME T # {} PROVE FALSE
  OBVIOUS
<1>1. PICK S \in T : \A R \in T : R \subseteq S => R = S
  <2>1. T \subseteq SUBSET Chunk
    OBVIOUS
  <2> HIDE DEF T
  <2>2. QED
    BY <2>1, SmallestSet
<1>2. S \in SUBSET Chunk /\ \A R \in SUBSET S : R # S => Good(R)
  BY <1>1
<1>3. ASSUME NEW R \in SUBSET S, R # S
      PROVE  Sum(R) <= Sum(S)
  <2>1. PICK c \in S : c \notin R
    BY <1>3
  <2>2. Sum(S) = c.tokens + Sum(S \ {c}) /\ Sum(S \ {c}) \in Nat /\ Sum(R) \in Nat
    BY <1>2, SumByAny
  <2>3. Sum(R) <= Sum(S \ {c})
    BY <1>2, <2>1
  <2>4. c.tokens \in Nat
    BY <1>2, SelectionConstants DEF ChunkType
  <2>5. QED
    BY <2>2, <2>3, <2>4
<1>4. Sum(S) <= Sum(S)
  BY <1>2, SumByAny
<1>5. QED
  BY <1>1, <1>3, <1>4
-----------------------------------------------------------------------------
(* Tokens *)

OriginsAddUp ==
  /\ usedOrigin \in [Origin -> Int]
  /\ Capped /\ at \notin {"cover", "done"} =>
       /\ \A o \in Origin :
            usedOrigin[o] = Sum(OfOrigin(ChunksOf(selected), o))
       /\ \A o \in DOMAIN request.caps : usedOrigin[o] <= request.caps[o]

AddsUp == usedTokens = Sum(ChunksOf(selected)) /\ OriginsAddUp

LEMMA CapFacts ==
  ASSUME Types
  PROVE  /\ DOMAIN request.caps \subseteq Origin
         /\ \A o \in DOMAIN request.caps : request.caps[o] \in Nat
         /\ request.chunks \subseteq Chunk
         /\ ChunksOf(selected) \in SUBSET Chunk
         /\ \A c \in request.chunks : c.tokens \in Nat /\ c.origin \in Origin
<1>1. request.caps \in SourceTokenCaps /\ request.chunks \subseteq Chunk
  BY DEF Types, Request
<1>2. \A c \in Chunk : c.tokens \in Nat /\ c.origin \in Origin
  BY SelectionConstants DEF ChunkType
<1>3. QED
  BY <1>1, <1>2, SelectionConstants DEF Types

\* A step that leaves the window and its counts alone.
LEMMA AddsUpStays ==
  ASSUME Types, AddsUp, UNCHANGED <<request, usedTokens, usedOrigin>>,
         ChunksOf(selected') = ChunksOf(selected),
         at' \in {"cover", "done"} \/ at \notin {"cover", "done"}
  PROVE  AddsUp'
BY DEF AddsUp, OriginsAddUp, Capped

LEMMA AddsUpHolds == SelectionSpec => []AddsUp
<1>1. SelectionInit => AddsUp
  <2> SUFFICES ASSUME SelectionInit PROVE AddsUp
    OBVIOUS
  <2>1. ChunksOf(selected) = {} /\ \A o : OfOrigin({}, o) = {}
    BY DEF SelectionInit, ChunksOf, OfOrigin
  <2>2. request.caps \in SourceTokenCaps
    BY DEF SelectionInit, Request
  <2>3. /\ DOMAIN request.caps \subseteq Origin
        /\ \A o \in DOMAIN request.caps : request.caps[o] \in Nat
    BY <2>2, SelectionConstants
  <2>4. /\ usedTokens = 0 /\ usedOrigin = [o \in Origin |-> 0]
        /\ Sum(ChunksOf(selected)) = 0
        /\ \A o \in Origin : Sum(OfOrigin(ChunksOf(selected), o)) = 0
    BY <2>1, SumFacts DEF SelectionInit
  <2>5. OriginsAddUp
    BY <2>3, <2>4 DEF OriginsAddUp
  <2>6. QED
    BY <2>4, <2>5 DEF AddsUp
<1>2. Types /\ Accounts /\ AddsUp /\ [SelectionNext]_selectionVars => AddsUp'
  <2> SUFFICES ASSUME Types, Accounts, AddsUp, [SelectionNext]_selectionVars PROVE AddsUp'
    OBVIOUS
  <2>0. /\ request.chunks \subseteq Chunk /\ ChunksOf(selected) \in SUBSET Chunk
        /\ \A c \in request.chunks : c.tokens \in Nat /\ c.origin \in Origin
    BY CapFacts
  <2>1. CASE Pass \/ Suppress \/ NextRound \/ Rebalanced
    <3>1. UNCHANGED <<request, usedTokens, usedOrigin, selected>>
      BY <2>1 DEF Pass, Suppress, NextRound, Rebalanced
    <3>2. at \notin {"cover", "done"}
      BY <2>1 DEF Pass, Suppress, NextRound, Rebalanced, Evaluating
    <3>3. QED
      BY <3>1, <3>2, AddsUpStays DEF ChunksOf
  <2>2. CASE NotMissing \/ Skip \/ Finish \/ UNCHANGED selectionVars
    <3>1. UNCHANGED <<request, usedTokens, usedOrigin, selected>>
      BY <2>2 DEF NotMissing, Skip, Finish, selectionVars
    <3>2. at' = at \/ at' = "done"
      BY <2>2 DEF NotMissing, Skip, Finish, selectionVars
    <3>3. QED
      BY <3>1, <3>2, AddsUpStays DEF ChunksOf
  <2>3. CASE Take
    <3>1. PICK c \in request.chunks :
            /\ c \notin Processed /\ Verdict(c) = "take"
            /\ ChunksOf(selected') = ChunksOf(selected) \cup {c}
            /\ usedTokens' = usedTokens + c.tokens
            /\ usedOrigin' = [usedOrigin EXCEPT ![c.origin] = @ + c.tokens]
      BY <2>3, TakeFacts
    <3>2. UNCHANGED <<request, at>>
      BY <2>3 DEF Take
    <3>3. c \in Chunk \ ChunksOf(selected)
      BY <2>0, <3>1 DEF Processed
    <3>4. usedTokens' = Sum(ChunksOf(selected'))
      BY <2>0, <3>1, <3>3, SumFacts DEF AddsUp
    <3>5. usedOrigin' \in [Origin -> Int]
      BY <2>0, <3>1 DEF AddsUp, OriginsAddUp
    <3>6. ASSUME Capped, at \notin {"cover", "done"}
          PROVE  /\ \A o \in Origin :
                      usedOrigin'[o] = Sum(OfOrigin(ChunksOf(selected'), o))
                 /\ \A o \in DOMAIN request.caps : usedOrigin'[o] <= request.caps[o]
      <4>1. usedOrigin \in [Origin -> Int] /\ c.origin \in Origin
        BY <2>0 DEF AddsUp, OriginsAddUp
      <4>2. /\ \A o \in Origin :
                 usedOrigin[o] = Sum(OfOrigin(ChunksOf(selected), o))
            /\ \A o \in DOMAIN request.caps : usedOrigin[o] <= request.caps[o]
        BY <3>6 DEF AddsUp, OriginsAddUp
      <4>3. \A o \in Origin :
              OfOrigin(ChunksOf(selected'), o) =
                IF o = c.origin THEN OfOrigin(ChunksOf(selected), o) \cup {c}
                ELSE OfOrigin(ChunksOf(selected), o)
        BY <3>1 DEF OfOrigin
      <4>4. Sum(OfOrigin(ChunksOf(selected), c.origin) \cup {c}) =
              Sum(OfOrigin(ChunksOf(selected), c.origin)) + c.tokens
        <5>1. /\ OfOrigin(ChunksOf(selected), c.origin) \in SUBSET Chunk
              /\ c \in Chunk \ OfOrigin(ChunksOf(selected), c.origin)
          BY <2>0, <3>3 DEF OfOrigin
        <5>2. QED
          BY <5>1, SumFacts
      <4>5. c.origin \in DOMAIN request.caps =>
              usedOrigin[c.origin] + c.tokens <= request.caps[c.origin]
        <5>1. c.origin \in DOMAIN request.caps =>
                ~ (usedOrigin[c.origin] + c.tokens > request.caps[c.origin])
          BY <3>1 DEF Verdict
        <5>2. c.origin \in DOMAIN request.caps => request.caps[c.origin] \in Nat
          BY CapFacts
        <5>3. QED
          BY <2>0, <4>1, <5>1, <5>2
      <4>6. \A o \in Origin :
              usedOrigin'[o] = usedOrigin[o] + (IF o = c.origin THEN c.tokens ELSE 0)
        BY <3>1, <4>1
      <4>7. \A o \in Origin :
              usedOrigin'[o] = Sum(OfOrigin(ChunksOf(selected'), o))
        <5> SUFFICES ASSUME NEW o \in Origin
                     PROVE  usedOrigin'[o] = Sum(OfOrigin(ChunksOf(selected'), o))
          OBVIOUS
        <5>1. CASE o = c.origin
          BY <4>2, <4>3, <4>4, <4>6, <5>1
        <5>2. CASE o # c.origin
          BY <4>1, <4>2, <4>3, <4>6, <5>2
        <5>3. QED
          BY <5>1, <5>2
      <4>8. \A o \in DOMAIN request.caps : usedOrigin'[o] <= request.caps[o]
        BY <4>1, <4>2, <4>5, <4>6, CapFacts
      <4>9. QED
        BY <4>7, <4>8
    <3>7. QED
      BY <3>2, <3>4, <3>5, <3>6 DEF AddsUp, OriginsAddUp, Capped
  <2>4. CASE Rebalance
    <3>1. PICK e \in Recalled : \E s \in Replacements(e) :
            /\ e.chunk \in ChunksOf(selected)
            /\ s.chunk \in ChunksOf(suppressed)
            /\ s.chunk \notin ChunksOf(selected)
            /\ ChunksOf(selected') = (ChunksOf(selected) \ {e.chunk})
                                       \cup {s.chunk}
            /\ usedTokens' = usedTokens - e.chunk.tokens + s.chunk.tokens
      BY <2>4, ExchangeFacts
    <3>2. PICK s \in Replacements(e) :
            /\ s.chunk \in ChunksOf(suppressed)
            /\ s.chunk \notin ChunksOf(selected)
            /\ ChunksOf(selected') = (ChunksOf(selected) \ {e.chunk})
                                       \cup {s.chunk}
            /\ usedTokens' = usedTokens - e.chunk.tokens + s.chunk.tokens
      BY <3>1
    <3>3. s.chunk \in Chunk \ ChunksOf(selected)
      BY <2>0, <3>2 DEF Types
    <3>4. usedTokens' = Sum(ChunksOf(selected'))
      <4>1. Sum((ChunksOf(selected) \ {e.chunk}) \cup {s.chunk}) =
              Sum(ChunksOf(selected)) - e.chunk.tokens + s.chunk.tokens
        BY <2>0, <3>1, <3>3, SumFacts
      <4>2. QED
        BY <3>2, <4>1 DEF AddsUp
    <3>5. UNCHANGED <<request, usedOrigin>> /\ ~ Capped
      BY <2>4 DEF Rebalance, MayRebalance
    <3>6. QED
      BY <3>4, <3>5 DEF AddsUp, OriginsAddUp, Capped
  <2>5. CASE Inject
    <3>1. PICK c \in request.chunks :
            /\ c \notin ChunksOf(selected)
            /\ ChunksOf(selected') = ChunksOf(selected) \cup {c}
            /\ usedTokens' = usedTokens + c.tokens
      BY <2>5, InjectFacts
    <3>2. usedTokens' = Sum(ChunksOf(selected'))
      BY <2>0, <3>1, SumFacts DEF AddsUp
    <3>3. UNCHANGED <<usedOrigin, at>> /\ at = "cover"
      BY <2>5 DEF Inject, NextKind
    <3>4. QED
      BY <3>2, <3>3 DEF AddsUp, OriginsAddUp
  <2>6. CASE Displace
    <3>1. PICK c \in request.chunks, e \in selected :
            /\ c \notin ChunksOf(selected) /\ e.chunk \in ChunksOf(selected)
            /\ ChunksOf(selected') = (ChunksOf(selected) \ {e.chunk}) \cup {c}
            /\ usedTokens' = usedTokens - e.chunk.tokens + c.tokens
      BY <2>6, DisplaceFacts
    <3>2. usedTokens' = Sum(ChunksOf(selected'))
      BY <2>0, <3>1, SumFacts DEF AddsUp
    <3>3. UNCHANGED <<usedOrigin, at>> /\ at = "cover"
      BY <2>6 DEF Displace, NextKind
    <3>4. QED
      BY <3>2, <3>3 DEF AddsUp, OriginsAddUp
  <2>7. QED
    BY <2>1, <2>2, <2>3, <2>4, <2>5, <2>6 DEF SelectionNext, Made
<1>3. QED
  BY <1>1, <1>2, SelectionTypesHold, AccountsHold, PTL DEF SelectionSpec

\* The counts of the window, which every exchange corrects by a difference, are
\* what its chunks add up to, and no origin is over its cap before kinds are
\* covered (usedTokens and usedOriginTokens of selectContextWindow).
THEOREM TokensAlwaysAddUp == SelectionSpec => []TokensAddUp
<1>1. Types /\ AddsUp => TokensAddUp
  <2> SUFFICES ASSUME Types, AddsUp PROVE TokensAddUp
    OBVIOUS
  <2>1. usedTokens = TokensOf(ChunksOf(selected))
    BY TokensOfIsSum DEF AddsUp
  <2>2. ASSUME at \notin {"cover", "done"}, NEW o \in DOMAIN request.caps
        PROVE  TokensOf(OfOrigin(ChunksOf(selected), o)) <= request.caps[o]
    <3>1. o \in Origin /\ Capped
      BY CapFacts DEF Capped
    <3>2. QED
      BY <2>2, <3>1, TokensOfIsSum DEF AddsUp, OriginsAddUp
  <2>3. QED
    BY <2>1, <2>2 DEF TokensAddUp
<1>2. QED
  BY <1>1, SelectionTypesHold, AddsUpHolds, PTL
-----------------------------------------------------------------------------
(* Room *)

AllFit ==
  /\ TokensOf(request.chunks) <= request.tokenBudget
  /\ Cardinality(request.chunks) <= request.maxChunks
  /\ ~ Capped

Contested == Room \cup {"workspace-priority-over-recall", "sdd-rebalanced"}

\* One chunk more always fits.
LEMMA OneMoreFits ==
  ASSUME Types, Accounts, AddsUp, AllFit,
         NEW c \in request.chunks, c \notin ChunksOf(selected)
  PROVE  HasRoomFor(c)
<1>1. /\ request.chunks \in SUBSET Chunk /\ ChunksOf(selected) \in SUBSET Chunk
      /\ IsFiniteSet(request.chunks) /\ IsFiniteSet(selected)
  <2>1. IsFiniteSet(Chunk) /\ request.chunks \in SUBSET Chunk
    BY CapFacts, SelectionConstants
  <2>2. QED
    BY <2>1, CapFacts, FS_Subset DEF Types
<1>2. usedTokens + c.tokens <= request.tokenBudget
  <2>1. usedTokens + c.tokens = Sum(ChunksOf(selected) \cup {c})
    BY <1>1, SumFacts DEF AddsUp
  <2>2. ChunksOf(selected) \cup {c} \in SUBSET request.chunks
    BY DEF Types
  <2>3. Sum(ChunksOf(selected) \cup {c}) <= Sum(request.chunks)
    BY <1>1, <2>2, SumOfPart
  <2>4. /\ Sum(request.chunks) <= request.tokenBudget
        /\ Sum(request.chunks) \in Nat /\ request.tokenBudget \in Nat
        /\ Sum(ChunksOf(selected) \cup {c}) \in Nat
    BY <1>1, SumByAny, TokensOfIsSum, RequestFacts DEF AllFit, Types
  <2>5. QED
    BY <2>1, <2>3, <2>4
<1>3. Cardinality(selected) < request.maxChunks
  <2> DEFINE R == request.chunks \ {c}
             f == [e \in selected |-> e.chunk]
  <2>1. IsFiniteSet(R) /\ Cardinality(R) = Cardinality(request.chunks) - 1
    BY <1>1, FS_RemoveElement
  <2>2. f \in Injection(selected, R)
    <3>1. \A e \in selected : e.chunk \in R
      BY DEF Types, ChunksOf
    <3>2. \A d, e \in selected : d.chunk = e.chunk => d = e
      BY DEF Accounts, Accounted
    <3>3. QED
      BY <3>1, <3>2 DEF Injection, IsInjective
  <2> HIDE DEF f, R
  <2>3. Cardinality(selected) <= Cardinality(R)
    BY <2>1, <2>2, FS_Injection
  <2>4. /\ Cardinality(request.chunks) \in Nat /\ Cardinality(selected) \in Nat
        /\ Cardinality(request.chunks) <= request.maxChunks
        /\ request.maxChunks \in Nat
    BY <1>1, FS_CardinalityType, RequestFacts DEF AllFit, Types
  <2>5. QED
    BY <2>1, <2>3, <2>4
<1>4. QED
  BY <1>2, <1>3 DEF HasRoomFor

\* When all chunks of a request fit none is left out for want of room, and none
\* gives up its place, whatever the reserve of memories is.
THEOREM AlwaysRoomForAll == SelectionSpec => []RoomForAll
<1>1. SelectionInit => RoomForAll
  BY DEF SelectionInit, RoomForAll
<1>2. Types /\ Accounts /\ AddsUp /\ RoomForAll /\ [SelectionNext]_selectionVars => RoomForAll'
  <2> SUFFICES ASSUME Types, Accounts, AddsUp, RoomForAll, [SelectionNext]_selectionVars, AllFit'
               PROVE  \A e \in suppressed' : e.reason \notin Contested
    BY DEF RoomForAll, AllFit, Contested
  <2>1. request' = request
    BY DEF SelectionNext, Pass, Suppress, Take, NextRound, Rebalance, Rebalanced,
           NotMissing, Inject, Displace, Skip, Finish, Made, selectionVars
  <2>2. AllFit
    BY <2>1 DEF AllFit, Capped
  <2>3. \A e \in suppressed : e.reason \notin Contested
    BY <2>2 DEF RoomForAll, AllFit, Contested
  <2>4. CASE Pass \/ Take \/ NextRound \/ Rebalanced \/ NotMissing \/ Skip
             \/ Finish \/ UNCHANGED selectionVars
    BY <2>3, <2>4 DEF Pass, Take, NextRound, Rebalanced, NotMissing, Skip,
                      Finish, selectionVars
  <2>5. CASE Suppress
    <3> PICK c \in First(left) :
          /\ c \notin Processed
          /\ suppressed' = suppressed \cup
               {[chunk |-> c, score |-> Score(c, ChunksOf(selected)),
                 reason |-> Verdict(c)]}
      BY <2>5 DEF Suppress
    <3>1. c \in request.chunks /\ c \notin ChunksOf(selected)
      BY FirstIsOne DEF Types, Processed
    <3>2. HasRoomFor(c)
      BY <2>2, <3>1, OneMoreFits
    <3>3. /\ ~ (Cardinality(selected) >= request.maxChunks)
          /\ ~ (usedTokens + c.tokens > request.tokenBudget)
      <4>1. /\ Cardinality(selected) \in Nat /\ request.maxChunks \in Nat
            /\ usedTokens \in Int /\ c.tokens \in Nat
            /\ request.tokenBudget \in Nat
        BY <3>1, CardinalityFacts, RequestFacts DEF Types
      <4>2. QED
        BY <3>2, <4>1 DEF HasRoomFor
    <3>4. Verdict(c) \notin Contested
      BY <3>3 DEF Verdict, Contested, Room
    <3>5. QED
      BY <2>3, <3>4
  <2>6. CASE Rebalance
    <3>1. PICK e \in Recalled : \E s \in Replacements(e) : s \in suppressed
      BY <2>6, ExchangeFacts
    <3>2. QED
      BY <2>3, <3>1 DEF Replacements, Contested
  <2>7. CASE Inject
    <3>1. \A s \in suppressed' : s \in suppressed
      BY <2>7, InjectFacts DEF Released
    <3>2. QED
      BY <2>3, <3>1
  <2>8. CASE Displace
    BY <2>2, <2>8, DisplaceFacts, OneMoreFits
  <2>9. QED
    BY <2>4, <2>5, <2>6, <2>7, <2>8 DEF SelectionNext, Made
<1>3. QED
  BY <1>1, <1>2, SelectionTypesHold, AccountsHold, AddsUpHolds, PTL DEF SelectionSpec
=============================================================================
