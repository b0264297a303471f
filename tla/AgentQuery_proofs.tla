------------------------- MODULE AgentQuery_proofs -------------------------
(***************************************************************************)
(* What queries, agent runs and repair loops promise, for any number of    *)
(* them, any texts, any gate and any bound on rounds.                      *)
(***************************************************************************)
EXTENDS AgentQuery, TLAPS

Status == {"none", "running", "completed", "failed", "cancelled"}

Shape ==
  /\ world \in World /\ target \in Text
  /\ at \in [Loop -> {"idle", "read", "write", "gate", "restore", "done"}]
  /\ targeted \in [Loop -> BOOLEAN] /\ final \in [Loop -> BOOLEAN]
  /\ aborted \in [Loop -> BOOLEAN]
  /\ code \in [Loop -> Text] /\ saved \in [Loop -> Text]
  /\ verdict \in [Loop -> {"none", "thrown"} \cup {Verdict[t] : t \in Text}]
  /\ result \in [Loop -> {"none", "pass", "cancelled", "thrown",
                          "max-iterations", "no-progress", "error"}]
  /\ task \in [Loop -> Status]

QueryShape ==
  /\ query \in [Loop -> {"idle", "agent", "repair", "done"}]
  /\ agent \in [Loop -> {"idle", "context", "axioms", "gate"}]
  /\ queryTask \in [Loop -> Status] /\ agentTask \in [Loop -> Status]
  /\ queryAborted \in [Loop -> BOOLEAN] /\ agentAborted \in [Loop -> BOOLEAN]
  /\ runGate \in [Loop -> BOOLEAN]

\* A loop overlays a file only if a caller started it; the others run for
\* their query alone.
Placed ==
  \A l \in Loop :
    /\ at[l] \in {"read", "write"} => targeted[l]
    /\ targeted[l] => l \in world.loops
    /\ l \notin world.queries => query[l] = "idle"
    /\ l \notin world.loops => (at[l] # "idle" <=> query[l] = "repair")
    /\ l \in world.loops /\ result[l] = "pass" => at[l] = "done"

\* Where the original is while a candidate is in its place.
Original ==
  Alone /\ "file" \notin world.faults /\ ~ world.edits =>
    /\ \A l \in Loop :
         targeted[l] /\ at[l] \in {"write", "gate", "restore"} =>
           saved[l] = world.original
    /\ \/ target = world.original
       \/ \E l \in Loop : targeted[l] /\ at[l] \in {"gate", "restore"}

\* What the gate has seen of the current candidate.
Tested ==
  Alone /\ ~ world.edits =>
    \A l \in Loop : targeted[l] =>
      /\ at[l] = "gate" => target = code[l]
      /\ at[l] = "restore" => verdict[l] \in {"thrown", Verdict[code[l]]}
      /\ result[l] = "pass" => Verdict[code[l]] = "pass"

\* Which tasks may be running, by where the query is.
Running(q) ==
  /\ agent[q] # "idle" => query[q] = "agent"
  /\ agentTask[q] = "running" => query[q] = "agent"
  /\ q \in world.queries /\ query[q] \in {"idle", "agent"} =>
       task[q] # "running"
  /\ query[q] # "idle" => queryTask[q] # "none"
  /\ aborted[q] => task[q] # "running"
  /\ at[q] = "done" => task[q] # "running" \/ result[q] = "thrown"
  /\ queryAborted[q] /\ query[q] # "idle" =>
       /\ queryTask[q] = "cancelled"
       /\ agentTask[q] # "running" /\ task[q] # "running"

Inv ==
  /\ Shape /\ QueryShape /\ Placed /\ Original /\ Tested
  /\ \A q \in Loop : Running(q)
-----------------------------------------------------------------------------
\* What the assumptions say of a world and of the gate.
LEMMA Worlds ==
  ASSUME Inv
  PROVE  /\ world.loops \cap world.queries = {} /\ world.original \in Text
         /\ \A t \in Text : Verdict[t] # "thrown"
BY RepairConstants, QueryConstants DEF Inv, Shape, WorldType

LEMMA InvInit == QueryInit => Inv
<1> SUFFICES ASSUME QueryInit PROVE Inv
  OBVIOUS
<1>1. world \in World /\ world.original \in Text
  BY RepairConstants DEF QueryInit, Init, WorldType
<1>2. Shape
  BY <1>1 DEF QueryInit, Init, Shape, Text, Status
<1>3. QueryShape
  BY DEF QueryInit, QueryShape, Status
<1>4. Placed
  BY <1>1 DEF QueryInit, Init, Placed
<1>5. Original /\ Tested
  BY DEF QueryInit, Init, Original, Tested
<1>6. ASSUME NEW q \in Loop PROVE Running(q)
  BY DEF QueryInit, Init, Running
<1>7. QED
  BY <1>2, <1>3, <1>4, <1>5, <1>6 DEF Inv

\* With a caller's single loop, what has a target is that loop.
LEMMA OneTarget ==
  ASSUME Inv, Alone, NEW l \in Loop, NEW k \in Loop, targeted[l], targeted[k]
  PROVE  l = k
BY DEF Inv, Placed, Alone
-----------------------------------------------------------------------------
(* The steps of a repair loop *)

LEMMA ReadOriginalKeeps ==
  ASSUME Inv, NEW l \in Loop, ReadOriginal(l), UNCHANGED queryVars
  PROVE  Inv'
<1> USE DEF ReadOriginal, Fault, Throw, asked, gate, queryVars, inner, outer
<1>1. Shape'
  BY RepairConstants DEF Inv, Shape, Text
<1>2. QueryShape'
  BY DEF Inv, QueryShape
<1>3. Placed'
  BY DEF Inv, Shape, Placed
<1>4. Original'
  BY OneTarget DEF Inv, Shape, Placed, Original, Alone
<1>5. Tested'
  BY OneTarget DEF Inv, Shape, Placed, Tested, Alone
<1>6. ASSUME NEW q \in Loop PROVE Running(q)'
  BY DEF Inv, Shape, Placed, Running
<1>7. QED
  BY <1>1, <1>2, <1>3, <1>4, <1>5, <1>6 DEF Inv

LEMMA WriteCandidateKeeps ==
  ASSUME Inv, NEW l \in Loop, WriteCandidate(l), UNCHANGED queryVars
  PROVE  Inv'
<1> USE DEF WriteCandidate, Fault, Throw, asked, gate, queryVars, inner, outer
<1>1. Shape'
  BY RepairConstants DEF Inv, Shape, Text
<1>2. QueryShape'
  BY DEF Inv, QueryShape
<1>3. Placed'
  BY DEF Inv, Shape, Placed
<1>4. Original'
  BY OneTarget DEF Inv, Shape, Placed, Original, Alone
<1>5. Tested'
  BY OneTarget DEF Inv, Shape, Placed, Tested, Alone
<1>6. ASSUME NEW q \in Loop PROVE Running(q)'
  BY DEF Inv, Shape, Placed, Running
<1>7. QED
  BY <1>1, <1>2, <1>3, <1>4, <1>5, <1>6 DEF Inv

LEMMA OverlayFailsKeeps ==
  ASSUME Inv, NEW l \in Loop, OverlayFails(l), UNCHANGED queryVars
  PROVE  Inv'
<1> USE DEF OverlayFails, Fault, Throw, asked, gate, queryVars, inner, outer
<1>1. Shape'
  BY RepairConstants DEF Inv, Shape, Text
<1>2. QueryShape'
  BY DEF Inv, QueryShape
<1>3. Placed'
  BY DEF Inv, Shape, Placed
<1>4. Original'
  BY OneTarget DEF Inv, Shape, Placed, Original, Alone
<1>5. Tested'
  BY OneTarget DEF Inv, Shape, Placed, Tested, Alone
<1>6. ASSUME NEW q \in Loop PROVE Running(q)'
  BY DEF Inv, Shape, Placed, Running
<1>7. QED
  BY <1>1, <1>2, <1>3, <1>4, <1>5, <1>6 DEF Inv

LEMMA GateRunsKeeps ==
  ASSUME Inv, NEW l \in Loop, GateRuns(l), UNCHANGED queryVars
  PROVE  Inv'
<1> USE DEF GateRuns, Fault, Throw, asked, gate, queryVars, inner, outer
<1>1. Shape'
  BY RepairConstants DEF Inv, Shape, Text
<1>2. QueryShape'
  BY DEF Inv, QueryShape
<1>3. Placed'
  BY DEF Inv, Shape, Placed
<1>4. Original'
  BY OneTarget DEF Inv, Shape, Placed, Original, Alone
<1>5. Tested'
  BY OneTarget DEF Inv, Shape, Placed, Tested, Alone
<1>6. ASSUME NEW q \in Loop PROVE Running(q)'
  BY DEF Inv, Shape, Placed, Running
<1>7. QED
  BY <1>1, <1>2, <1>3, <1>4, <1>5, <1>6 DEF Inv

LEMMA GateThrowsKeeps ==
  ASSUME Inv, NEW l \in Loop, GateThrows(l), UNCHANGED queryVars
  PROVE  Inv'
<1> USE DEF GateThrows, Fault, Throw, asked, gate, queryVars, inner, outer
<1>1. Shape'
  BY RepairConstants DEF Inv, Shape, Text
<1>2. QueryShape'
  BY DEF Inv, QueryShape
<1>3. Placed'
  BY DEF Inv, Shape, Placed
<1>4. Original'
  BY OneTarget DEF Inv, Shape, Placed, Original, Alone
<1>5. Tested'
  BY OneTarget DEF Inv, Shape, Placed, Tested, Alone
<1>6. ASSUME NEW q \in Loop PROVE Running(q)'
  BY DEF Inv, Shape, Placed, Running
<1>7. QED
  BY <1>1, <1>2, <1>3, <1>4, <1>5, <1>6 DEF Inv

LEMMA RestoreFailsKeeps ==
  ASSUME Inv, NEW l \in Loop, RestoreFails(l), UNCHANGED queryVars
  PROVE  Inv'
<1> USE DEF RestoreFails, Fault, Throw, asked, gate, queryVars, inner, outer
<1>1. Shape'
  BY RepairConstants DEF Inv, Shape, Text
<1>2. QueryShape'
  BY DEF Inv, QueryShape
<1>3. Placed'
  BY DEF Inv, Shape, Placed
<1>4. Original'
  BY OneTarget DEF Inv, Shape, Placed, Original, Alone
<1>5. Tested'
  BY OneTarget DEF Inv, Shape, Placed, Tested, Alone
<1>6. ASSUME NEW q \in Loop PROVE Running(q)'
  BY DEF Inv, Shape, Placed, Running
<1>7. QED
  BY <1>1, <1>2, <1>3, <1>4, <1>5, <1>6 DEF Inv

LEMMA RestoreKeeps ==
  ASSUME Inv, NEW l \in Loop, Restore(l), UNCHANGED queryVars
  PROVE  Inv'
<1> USE DEF Restore, Throw, FinalVerdict, Attempted, GiveUp, Repaired, Return,
           EnterGate, Ended, Terminal, asked, gate, queryVars, inner, outer
<1>1. Shape'
  <2>1. UNCHANGED <<world, targeted, saved, verdict, aborted>>
    OBVIOUS
  <2>2. target' \in Text
    BY DEF Inv, Shape
  <2>3. code' = code \/ \E fix \in Code : code' = [code EXCEPT ![l] = fix]
    OBVIOUS
  <2>4. /\ \E x \in {"idle", "read", "write", "gate", "restore", "done"} :
             at' = [at EXCEPT ![l] = x]
        /\ \/ result' = result
           \/ \E x \in {"pass", "cancelled", "thrown", "max-iterations",
                        "no-progress", "error"} :
                result' = [result EXCEPT ![l] = x]
    OBVIOUS
  <2>5. task' = task \/ \E x \in Status : task' = [task EXCEPT ![l] = x]
    BY DEF Inv, Shape, Status
  <2>6. final' = final \/ \E x \in BOOLEAN : final' = [final EXCEPT ![l] = x]
    OBVIOUS
  <2>7. QED
    BY <2>1, <2>2, <2>3, <2>4, <2>5, <2>6 DEF Inv, Shape, Text
<1>2. QueryShape'
  BY DEF Inv, QueryShape, Status
<1>3. Placed'
  BY Worlds DEF Inv, Shape, QueryShape, Placed
<1>4. Original'
  BY OneTarget DEF Inv, Shape, Placed, Original, Alone
<1>5. Tested'
  BY Worlds, OneTarget DEF Inv, Shape, Placed, Tested, Alone
<1>6. ASSUME NEW q \in Loop PROVE Running(q)'
  BY Worlds DEF Inv, Shape, QueryShape, Placed, Running
<1>7. QED
  BY <1>1, <1>2, <1>3, <1>4, <1>5, <1>6 DEF Inv

LEMMA StartsKeeps ==
  ASSUME Inv, NEW l \in Loop, Starts(l), UNCHANGED queryVars
  PROVE  Inv'
<1> USE DEF Starts, Start, EnterGate, asked, gate, queryVars, inner, outer
<1>1. Shape'
  <2>1. PICK c \in Code, b \in BOOLEAN, n \in Limit : Start(l, c, b, n)
    OBVIOUS
  <2>2. /\ UNCHANGED <<world, target, saved, verdict, aborted>>
        /\ targeted' = [targeted EXCEPT ![l] = b]
        /\ code' = [code EXCEPT ![l] = c]
    BY <2>1
  <2>3. /\ \E x \in {"idle", "read", "write", "gate", "restore", "done"} :
             at' = [at EXCEPT ![l] = x]
        /\ \E x \in Status : task' = [task EXCEPT ![l] = x]
        /\ result' = result \/ result' = [result EXCEPT ![l] = "cancelled"]
    BY <2>1 DEF Status
  <2>4. final' = final \/ \E x \in BOOLEAN : final' = [final EXCEPT ![l] = x]
    BY <2>1
  <2>5. QED
    BY <2>2, <2>3, <2>4 DEF Inv, Shape, Text, Status
<1>2. QueryShape'
  BY DEF Inv, QueryShape, Status
<1>3. Placed'
  BY Worlds DEF Inv, Shape, QueryShape, Placed
<1>4. Original'
  BY OneTarget DEF Inv, Shape, Placed, Original, Alone
<1>5. Tested'
  BY Worlds, OneTarget DEF Inv, Shape, Placed, Tested, Alone
<1>6. ASSUME NEW q \in Loop PROVE Running(q)'
  BY Worlds DEF Inv, Shape, QueryShape, Placed, Running
<1>7. QED
  BY <1>1, <1>2, <1>3, <1>4, <1>5, <1>6 DEF Inv

LEMMA AbortKeeps ==
  ASSUME Inv, NEW l \in Loop, Abort(l), UNCHANGED queryVars
  PROVE  Inv'
<1> USE DEF Abort, Ended, Terminal, asked, gate, queryVars, inner, outer
<1>1. Shape'
  BY RepairConstants DEF Inv, Shape, Text, Status
<1>2. QueryShape'
  BY DEF Inv, QueryShape, Status
<1>3. Placed'
  BY Worlds DEF Inv, Shape, QueryShape, Placed
<1>4. Original'
  BY OneTarget DEF Inv, Shape, Placed, Original, Alone
<1>5. Tested'
  BY Worlds, OneTarget DEF Inv, Shape, Placed, Tested, Alone
<1>6. ASSUME NEW q \in Loop PROVE Running(q)'
  BY Worlds DEF Inv, Shape, QueryShape, Placed, Running
<1>7. QED
  BY <1>1, <1>2, <1>3, <1>4, <1>5, <1>6 DEF Inv

LEMMA EditKeeps ==
  ASSUME Inv, Edit, UNCHANGED queryVars
  PROVE  Inv'
<1> USE DEF Edit, loop, asked, gate, queryVars, inner, outer
<1>1. Shape'
  BY RepairConstants DEF Inv, Shape, Text, Status
<1>2. QueryShape'
  BY DEF Inv, QueryShape, Status
<1>3. Placed'
  BY Worlds DEF Inv, Shape, QueryShape, Placed
<1>4. Original'
  BY OneTarget DEF Inv, Shape, Placed, Original, Alone
<1>5. Tested'
  BY Worlds, OneTarget DEF Inv, Shape, Placed, Tested, Alone
<1>6. ASSUME NEW q \in Loop PROVE Running(q)'
  BY Worlds DEF Inv, Shape, QueryShape, Placed, Running
<1>7. QED
  BY <1>1, <1>2, <1>3, <1>4, <1>5, <1>6 DEF Inv

-----------------------------------------------------------------------------
(* The steps of a query *)

LEMMA QueryStartsKeeps ==
  ASSUME Inv, NEW p \in Loop, QueryStarts(p)
  PROVE  Inv'
<1> USE DEF QueryStarts, SpawnAgent, QueryReturns, vars, loop, asked, gate, queryVars, inner, outer
<1>1. Shape'
  BY RepairConstants DEF Inv, Shape, Text, Status
<1>2. QueryShape'
  BY DEF Inv, QueryShape, Status
<1>3. Placed'
  BY Worlds DEF Inv, Shape, QueryShape, Placed,
                Running
<1>4. Original'
  BY OneTarget DEF Inv, Shape, Placed, Original, Alone
<1>5. Tested'
  BY Worlds, OneTarget DEF Inv, Shape, Placed, Tested, Alone
<1>6. ASSUME NEW q \in Loop PROVE Running(q)'
  BY Worlds DEF Inv, Shape, QueryShape, Placed, Running
<1>7. QED
  BY <1>1, <1>2, <1>3, <1>4, <1>5, <1>6 DEF Inv

LEMMA SelectContextKeeps ==
  ASSUME Inv, NEW p \in Loop, SelectContext(p)
  PROVE  Inv'
<1> USE DEF SelectContext, AgentFails, AgentSucceeds, AgentEnds, NextRound, SpawnAgent,
           QueryReturns, Ended, Terminal, vars, loop, asked, gate, queryVars, inner, outer
<1>1. Shape'
  BY RepairConstants DEF Inv, Shape, Text, Status
<1>2. QueryShape'
  BY DEF Inv, QueryShape, Status
<1>3. Placed'
  BY Worlds DEF Inv, Shape, QueryShape, Placed,
                Running
<1>4. Original'
  BY OneTarget DEF Inv, Shape, Placed, Original, Alone
<1>5. Tested'
  BY Worlds, OneTarget DEF Inv, Shape, Placed, Tested, Alone
<1>6. ASSUME NEW q \in Loop PROVE Running(q)'
  BY Worlds DEF Inv, Shape, QueryShape, Placed, Running
<1>7. QED
  BY <1>1, <1>2, <1>3, <1>4, <1>5, <1>6 DEF Inv

LEMMA InjectAxiomsKeeps ==
  ASSUME Inv, NEW p \in Loop, InjectAxioms(p)
  PROVE  Inv'
<1> USE DEF InjectAxioms, AgentFails, AgentSucceeds, AgentEnds, NextRound, SpawnAgent,
           QueryReturns, Ended, Terminal, vars, loop, asked, gate, queryVars, inner, outer
<1>1. Shape'
  BY RepairConstants DEF Inv, Shape, Text, Status
<1>2. QueryShape'
  BY DEF Inv, QueryShape, Status
<1>3. Placed'
  BY Worlds DEF Inv, Shape, QueryShape, Placed,
                Running
<1>4. Original'
  BY OneTarget DEF Inv, Shape, Placed, Original, Alone
<1>5. Tested'
  BY Worlds, OneTarget DEF Inv, Shape, Placed, Tested, Alone
<1>6. ASSUME NEW q \in Loop PROVE Running(q)'
  BY Worlds DEF Inv, Shape, QueryShape, Placed, Running
<1>7. QED
  BY <1>1, <1>2, <1>3, <1>4, <1>5, <1>6 DEF Inv

LEMMA AgentGateKeeps ==
  ASSUME Inv, NEW p \in Loop, AgentGate(p)
  PROVE  Inv'
<1> USE DEF AgentGate, AgentFailsWithOutput, Start, EnterGate, AgentFails,
            AgentSucceeds, AgentEnds, NextRound, SpawnAgent,
           QueryReturns, Ended, Terminal, vars, loop, asked, gate, queryVars, inner, outer
<1>1. Shape'
  <2>1. CASE UNCHANGED vars
    BY <2>1 DEF Inv, Shape
  <2>2. CASE \E c \in Code : Start(p, c, FALSE, 1)
    <3>1. PICK c \in Code : Start(p, c, FALSE, 1)
      BY <2>2
    <3>2. /\ UNCHANGED <<world, target, saved, verdict, aborted>>
          /\ targeted' = [targeted EXCEPT ![p] = FALSE]
          /\ code' = [code EXCEPT ![p] = c]
      BY <3>1
    <3>3. /\ \E x \in {"gate", "done"} : at' = [at EXCEPT ![p] = x]
          /\ \E x \in Status : task' = [task EXCEPT ![p] = x]
          /\ result' = result \/ result' = [result EXCEPT ![p] = "cancelled"]
      BY <3>1 DEF Status
    <3>4. final' = final \/ \E x \in BOOLEAN : final' = [final EXCEPT ![p] = x]
      BY <3>1
    <3>5. QED
      BY <3>2, <3>3, <3>4 DEF Inv, Shape, Text, Status
  <2>3. QED
    BY <2>1, <2>2
<1>2. QueryShape'
  <2>1. UNCHANGED <<queryAborted, runGate>>
    OBVIOUS
  <2>2. \E x \in {"agent", "repair", "done"} : query' = [query EXCEPT ![p] = x]
    OBVIOUS
  <2>3. \E x \in {"idle", "context"} : agent' = [agent EXCEPT ![p] = x]
    OBVIOUS
  <2>4. /\ \/ queryTask' = queryTask
           \/ \E x \in Status : queryTask' = [queryTask EXCEPT ![p] = x]
        /\ \E x \in Status : agentTask' = [agentTask EXCEPT ![p] = x]
    BY DEF Inv, QueryShape, Status
  <2>5. \/ agentAborted' = agentAborted
        \/ agentAborted' = [agentAborted EXCEPT ![p] = FALSE]
    OBVIOUS
  <2>6. query' \in [Loop -> {"idle", "agent", "repair", "done"}]
    BY <2>2 DEF Inv, QueryShape
  <2>7. agent' \in [Loop -> {"idle", "context", "axioms", "gate"}]
    BY <2>3 DEF Inv, QueryShape
  <2>8. queryTask' \in [Loop -> Status] /\ agentTask' \in [Loop -> Status]
    BY <2>4 DEF Inv, QueryShape
  <2>9. QED
    BY <2>1, <2>5, <2>6, <2>7, <2>8 DEF Inv, QueryShape
<1>3. Placed'
  BY Worlds DEF Inv, Shape, QueryShape, Placed,
                Running
<1>4. Original'
  BY OneTarget DEF Inv, Shape, Placed, Original, Alone
<1>5. Tested'
  BY Worlds, OneTarget DEF Inv, Shape, Placed, Tested, Alone
<1>6. ASSUME NEW q \in Loop PROVE Running(q)'
  BY Worlds DEF Inv, Shape, QueryShape, Placed, Running
<1>7. QED
  BY <1>1, <1>2, <1>3, <1>4, <1>5, <1>6 DEF Inv

LEMMA RepairReturnsKeeps ==
  ASSUME Inv, NEW p \in Loop, RepairReturns(p)
  PROVE  Inv'
<1> USE DEF RepairReturns, Resumes, LoopForgotten, AgentFails, AgentSucceeds,
            AgentEnds, NextRound, SpawnAgent,
           QueryReturns, Ended, Terminal, vars, loop, asked, gate, queryVars, inner, outer
<1>1. Shape'
  BY RepairConstants DEF Inv, Shape, Text, Status
<1>2. QueryShape'
  BY DEF Inv, QueryShape, Status
<1>3. Placed'
  BY Worlds DEF Inv, Shape, QueryShape, Placed,
                Running
<1>4. Original'
  BY OneTarget DEF Inv, Shape, Placed, Original, Alone
<1>5. Tested'
  BY Worlds, OneTarget DEF Inv, Shape, Placed, Tested, Alone
<1>6. ASSUME NEW q \in Loop PROVE Running(q)'
  BY Worlds DEF Inv, Shape, QueryShape, Placed, Running
<1>7. QED
  BY <1>1, <1>2, <1>3, <1>4, <1>5, <1>6 DEF Inv

LEMMA CancelQueryKeeps ==
  ASSUME Inv, NEW p \in Loop, ~ Resumes(p), CancelQuery(p)
  PROVE  Inv'
<1> USE DEF CancelQuery, Resumes, Abort, Ended, Terminal, vars, loop, asked, gate,
            queryVars, inner, outer
<1>1. Shape'
  BY RepairConstants DEF Inv, Shape, Text, Status
<1>2. QueryShape'
  BY DEF Inv, QueryShape, Status
<1>3. Placed'
  BY Worlds DEF Inv, Shape, QueryShape, Placed,
                Running
<1>4. Original'
  BY OneTarget DEF Inv, Shape, Placed, Original, Alone
<1>5. Tested'
  BY Worlds, OneTarget DEF Inv, Shape, Placed, Tested, Alone
<1>6. ASSUME NEW q \in Loop PROVE Running(q)'
  BY Worlds DEF Inv, Shape, QueryShape, Placed, Running
<1>7. QED
  BY <1>1, <1>2, <1>3, <1>4, <1>5, <1>6 DEF Inv

LEMMA CancelAgentKeeps ==
  ASSUME Inv, NEW p \in Loop, CancelAgent(p)
  PROVE  Inv'
<1> USE DEF CancelAgent, vars, loop, asked, gate, queryVars, inner, outer
<1>1. Shape'
  BY RepairConstants DEF Inv, Shape, Text, Status
<1>2. QueryShape'
  BY DEF Inv, QueryShape, Status
<1>3. Placed'
  BY Worlds DEF Inv, Shape, QueryShape, Placed,
                Running
<1>4. Original'
  BY OneTarget DEF Inv, Shape, Placed, Original, Alone
<1>5. Tested'
  BY Worlds, OneTarget DEF Inv, Shape, Placed, Tested, Alone
<1>6. ASSUME NEW q \in Loop PROVE Running(q)'
  BY Worlds DEF Inv, Shape, QueryShape, Placed, Running
<1>7. QED
  BY <1>1, <1>2, <1>3, <1>4, <1>5, <1>6 DEF Inv

-----------------------------------------------------------------------------
\* Every step of a query and of the loops keeps the invariant.
LEMMA InvNext == Inv /\ [Next]_allVars => Inv'
<1> SUFFICES ASSUME Inv, [Next]_allVars PROVE Inv'
  OBVIOUS
<1>1. CASE \E q \in Loop : Resumes(q)
  <2>1. CASE Next
    BY <1>1, <2>1, RepairReturnsKeeps DEF Next
  <2>2. CASE UNCHANGED allVars
    BY <2>2 DEF allVars, vars, loop, asked, gate, queryVars, inner, outer, Inv,
                Shape, QueryShape, Placed, Original, Tested, Running, Alone
  <2>3. QED
    BY <2>1, <2>2
<1>2. CASE ~ \E q \in Loop : Resumes(q)
  <2>1. CASE Edit /\ UNCHANGED queryVars
    BY <2>1, EditKeeps
  <2>2. ASSUME NEW l \in Loop, Starts(l), UNCHANGED queryVars PROVE Inv'
    BY <2>2, StartsKeeps
  <2>3. ASSUME NEW l \in Loop, LoopStep(l), UNCHANGED queryVars PROVE Inv'
    <3>1. CASE ReadOriginal(l)
      BY <2>3, <3>1, ReadOriginalKeeps
    <3>2. CASE WriteCandidate(l)
      BY <2>3, <3>2, WriteCandidateKeeps
    <3>3. CASE OverlayFails(l)
      BY <2>3, <3>3, OverlayFailsKeeps
    <3>4. CASE GateRuns(l)
      BY <2>3, <3>4, GateRunsKeeps
    <3>5. CASE GateThrows(l)
      BY <2>3, <3>5, GateThrowsKeeps
    <3>6. CASE Restore(l)
      BY <2>3, <3>6, RestoreKeeps
    <3>7. CASE RestoreFails(l)
      BY <2>3, <3>7, RestoreFailsKeeps
    <3>8. QED
      BY <2>3, <3>1, <3>2, <3>3, <3>4, <3>5, <3>6, <3>7 DEF LoopStep
  <2>4. ASSUME NEW l \in Loop, Abort(l), UNCHANGED queryVars PROVE Inv'
    BY <2>4, AbortKeeps
  <2>5. ASSUME NEW q \in Loop, QueryStarts(q) PROVE Inv'
    BY <2>5, QueryStartsKeeps
  <2>6. ASSUME NEW q \in Loop, AgentStep(q) PROVE Inv'
    BY <2>6, SelectContextKeeps, InjectAxiomsKeeps, AgentGateKeeps
       DEF AgentStep
  <2>7. ASSUME NEW q \in Loop, CancelQuery(q) PROVE Inv'
    BY <1>2, <2>7, CancelQueryKeeps
  <2>8. ASSUME NEW q \in Loop, CancelAgent(q) PROVE Inv'
    BY <2>8, CancelAgentKeeps
  <2>9. CASE UNCHANGED allVars
    BY <2>9 DEF allVars, vars, loop, asked, gate, queryVars, inner, outer, Inv,
                Shape, QueryShape, Placed, Original, Tested, Running, Alone
  <2>10. QED
    BY <1>2, <2>1, <2>2, <2>3, <2>4, <2>5, <2>6, <2>7, <2>8, <2>9 DEF Next
<1>3. QED
  BY <1>1, <1>2

LEMMA InvHolds == Spec => []Inv
BY InvInit, InvNext, PTL DEF Spec

\* Types of all variables.
THEOREM TypesHold == Spec => [](Shape /\ QueryShape)
<1>1. Inv => Shape /\ QueryShape
  BY DEF Inv
<1>2. QED
  BY <1>1, InvHolds, PTL

\* The target file is as it was whenever no gate runs, in the worlds with one
\* loop on it, no failing file operation and no other writer.
THEOREM AlwaysRestored == Spec => []TargetRestored
<1>1. Inv => TargetRestored
  BY DEF Inv, Original, TargetRestored
<1>2. QED
  BY <1>1, InvHolds, PTL

\* What a loop with a target of its own hands out as repaired has passed the
\* gate, whatever fails and whoever cancels.
THEOREM PassAlwaysTested == Spec => []PassIsTested
<1>1. Inv => PassIsTested
  BY DEF Inv, Tested, PassIsTested
<1>2. QED
  BY <1>1, InvHolds, PTL

\* A cancelled query leaves no task of its agent run or repair loop running.
THEOREM CancelAlwaysReachesAll == Spec => []CancelReachesAll
<1>1. Inv => CancelReachesAll
  BY DEF Inv, Running, CancelReachesAll
<1>2. QED
  BY <1>1, InvHolds, PTL
=============================================================================
