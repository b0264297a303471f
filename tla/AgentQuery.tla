----------------------------- MODULE AgentQuery -----------------------------
(***************************************************************************)
(* The query loop of src/orchestration: an agent run with its context,     *)
(* axioms and gate, a repair loop of one iteration when the run fails with *)
(* some output, and the next round.  Query, agent run and repair loop have *)
(* a task each; cancelling the query, or the client that goes away, must   *)
(* reach what runs inside.                                                 *)
(*                                                                         *)
(* The repair loop of a query is the one of RepairLoop of the same name.   *)
(***************************************************************************)
EXTENDS RepairLoop

CONSTANT
  Rounds      \* bound on maxRepairIterations

ASSUME QueryConstants ==
  /\ Rounds \in Nat
  /\ \A w \in World : w.loops \cap w.queries = {}   \* a query's loop is its own

VARIABLES
  query,        \* where the query loop is
  queryTask,    \* status of its task
  queryAborted, \* its signal, or that of its task
  round,        \* index
  runGate,      \* option of the request
  agent,        \* where the agent run is
  agentTask,
  agentAborted,
  recovered     \* recoveredOutput

inner == <<agent, agentTask, agentAborted>>
outer == <<query, queryTask, queryAborted, round, runGate, recovered>>
queryVars == <<outer, inner>>
allVars == <<vars, queryVars>>

Output == "output"      \* what an agent run hands out

QueryInit ==
  /\ Init
  /\ query = [q \in Loop |-> "idle"] /\ agent = query
  /\ queryTask = [q \in Loop |-> "none"] /\ agentTask = queryTask
  /\ queryAborted = [q \in Loop |-> FALSE] /\ agentAborted = queryAborted
  /\ round = [q \in Loop |-> 0]
  /\ runGate \in [Loop -> BOOLEAN]
  /\ \A l \in Loop \ world.queries : ~ runGate[l]
  /\ recovered = [q \in Loop |-> None]
-----------------------------------------------------------------------------
\* The query loop returns.
QueryReturns(q, status, output) ==
  /\ query' = [query EXCEPT ![q] = "done"]
  /\ queryTask' = [queryTask EXCEPT ![q] = status]
  /\ recovered' = [recovered EXCEPT ![q] = output]
  /\ UNCHANGED <<round, runGate, queryAborted>>

\* spawnNexusAgent: a new task, with the signal of the query's.
SpawnAgent(q, n) ==
  /\ query' = [query EXCEPT ![q] = "agent"]
  /\ round' = [round EXCEPT ![q] = n]
  /\ agent' = [agent EXCEPT ![q] = "context"]
  /\ agentTask' = [agentTask EXCEPT ![q] = "running"]
  /\ agentAborted' = [agentAborted EXCEPT ![q] = FALSE]
  /\ UNCHANGED <<runGate, recovered, queryAborted>>

QueryStarts(q) ==
  /\ q \in world.queries /\ query[q] = "idle"
  /\ IF queryAborted[q]
     THEN QueryReturns(q, "cancelled", None) /\ UNCHANGED inner
     ELSE /\ SpawnAgent(q, 0)
          /\ queryTask' = [queryTask EXCEPT ![q] = "running"]
  /\ UNCHANGED vars
-----------------------------------------------------------------------------
(* The agent run *)

\* The agent run returns with a status for its task.
AgentEnds(q, status) ==
  /\ agent' = [agent EXCEPT ![q] = "idle"]
  /\ agentTask' = [agentTask EXCEPT ![q] = Ended(@, status)]
  /\ UNCHANGED agentAborted

\* The next round, or none; the agent run is over.
NextRound(q, status) ==
  IF round[q] < Rounds
  THEN SpawnAgent(q, round[q] + 1) /\ UNCHANGED queryTask
  ELSE QueryReturns(q, "failed", None) /\ AgentEnds(q, status)

AgentFails(q, status) ==
  /\ IF queryAborted[q]
     THEN QueryReturns(q, "cancelled", None) /\ AgentEnds(q, status)
     ELSE NextRound(q, status)
  /\ UNCHANGED vars

AgentSucceeds(q) ==
  /\ IF queryAborted[q] THEN QueryReturns(q, "cancelled", None)
     ELSE QueryReturns(q, "completed", Output)
  /\ AgentEnds(q, "completed")
  /\ UNCHANGED vars

\* Some output and another round to come: the repair loop has its turn.
AgentFailsWithOutput(q) ==
  IF queryAborted[q] \/ round[q] = Rounds THEN AgentFails(q, "failed")
  ELSE /\ query' = [query EXCEPT ![q] = "repair"]
       /\ AgentEnds(q, "failed")
       /\ \E c \in Code : Start(q, c, FALSE, 1)
       /\ UNCHANGED <<queryTask, queryAborted, round, runGate, recovered>>

\* The workspace is loaded and chunks are selected; neither failure is fatal.
\* With runGate too little coverage is.
SelectContext(q) ==
  /\ agent[q] = "context"
  /\ \/ agentAborted[q] /\ AgentFails(q, "cancelled")
     \/ ~ agentAborted[q] /\ runGate[q] /\ AgentFails(q, "failed")
     \/ /\ ~ agentAborted[q]
        /\ agent' = [agent EXCEPT ![q] = "axioms"]
        /\ UNCHANGED <<vars, outer, agentTask, agentAborted>>

\* Axioms are injected and the agent is spawned, or it is disabled.
InjectAxioms(q) ==
  /\ agent[q] = "axioms"
  /\ \/ agentAborted[q] /\ AgentFails(q, "cancelled")
     \/ ~ agentAborted[q] /\ AgentFails(q, "failed")
     \/ ~ agentAborted[q] /\ ~ runGate[q] /\ AgentSucceeds(q)
     \/ /\ ~ agentAborted[q] /\ runGate[q]
        /\ agent' = [agent EXCEPT ![q] = "gate"]
        /\ UNCHANGED <<vars, outer, agentTask, agentAborted>>

\* The agent run's own gate; it does not ask whether it was cancelled.
AgentGate(q) ==
  /\ agent[q] = "gate"
  /\ \/ Verdict[target] = "pass" /\ AgentSucceeds(q)
     \/ Verdict[target] # "pass" /\ AgentFailsWithOutput(q)
     \/ "gate" \in world.faults /\ AgentFails(q, "failed")
-----------------------------------------------------------------------------
\* The repair loop is done, and the query loop goes on in the same turn of the
\* event loop.
Resumes(q) == query[q] = "repair" /\ at[q] = "done"

LoopForgotten(q) ==
  /\ at' = [at EXCEPT ![q] = "idle"]
  /\ aborted' = [aborted EXCEPT ![q] = FALSE]
  /\ UNCHANGED <<world, target, asked, code, gate, final, tries, seen, task,
                 result, faults>>

\* Mutant of RepairReturns: an exception is not caught.
RepairReturnsUncaught(q) ==
  /\ Resumes(q) /\ result[q] # "thrown"
  /\ IF queryAborted[q] \/ result[q] = "cancelled"
     THEN QueryReturns(q, "cancelled", None) /\ UNCHANGED inner
     ELSE IF result[q] = "pass"
     THEN QueryReturns(q, "completed", code[q]) /\ UNCHANGED inner
     ELSE NextRound(q, "failed")
  /\ LoopForgotten(q)

RepairReturns(q) ==
  /\ Resumes(q)
  /\ IF queryAborted[q] \/ result[q] = "cancelled"
     THEN QueryReturns(q, "cancelled", None) /\ UNCHANGED inner
     ELSE IF result[q] = "thrown"
     THEN QueryReturns(q, "failed", None) /\ UNCHANGED inner
     ELSE IF result[q] = "pass"
     THEN QueryReturns(q, "completed", code[q]) /\ UNCHANGED inner
     ELSE NextRound(q, "failed")
  /\ LoopForgotten(q)
-----------------------------------------------------------------------------
(* Cancellation *)

\* Mutant of CancelQuery: the signal of the query's task goes nowhere.
CancelQueryAlone(q) ==
  /\ world.cancels /\ q \in world.queries
  /\ ~ queryAborted[q] /\ query[q] # "done"
  /\ queryAborted' = [queryAborted EXCEPT ![q] = TRUE]
  /\ queryTask' = [queryTask EXCEPT ![q] = IF @ = "none" THEN @ ELSE "cancelled"]
  /\ UNCHANGED <<vars, query, round, runGate, recovered, inner>>

\* POST /api/tasks/:id/cancel, or the client of the stream is gone: listeners
\* pass it on to the agent run and to the repair loop at once.
CancelQuery(q) ==
  /\ world.cancels /\ q \in world.queries
  /\ ~ queryAborted[q] /\ query[q] # "done"
  /\ queryAborted' = [queryAborted EXCEPT ![q] = TRUE]
  /\ queryTask' = [queryTask EXCEPT ![q] = IF @ = "none" THEN @ ELSE "cancelled"]
  /\ IF query[q] = "agent"
     THEN /\ agentAborted' = [agentAborted EXCEPT ![q] = TRUE]
          /\ agentTask' = [agentTask EXCEPT ![q] = Ended(@, "cancelled")]
     ELSE UNCHANGED <<agentTask, agentAborted>>
  /\ IF query[q] = "repair" /\ ~ aborted[q] THEN Abort(q) ELSE UNCHANGED vars
  /\ UNCHANGED <<query, round, runGate, recovered, agent>>

\* The task of the agent run is cancelled on its own.
CancelAgent(q) ==
  /\ world.cancels /\ agent[q] # "idle" /\ agentTask[q] = "running"
  /\ agentAborted' = [agentAborted EXCEPT ![q] = TRUE]
  /\ agentTask' = [agentTask EXCEPT ![q] = "cancelled"]
  /\ UNCHANGED <<vars, outer, agent>>
-----------------------------------------------------------------------------
Starts(l) ==
  /\ l \in world.loops
  /\ \E c \in Code, b \in BOOLEAN, n \in Limit : Start(l, c, b, n)

AgentStep(q) == SelectContext(q) \/ InjectAxioms(q) \/ AgentGate(q)

Next ==
  IF \E q \in Loop : Resumes(q)
  THEN \E q \in Loop : RepairReturns(q)
  ELSE \/ /\ \/ Edit
             \/ \E l \in Loop : Starts(l) \/ LoopStep(l)
             \/ \E l \in Loop : (l \in world.loops \/ query[l] = "repair") /\ Abort(l)
          /\ UNCHANGED queryVars
       \/ \E q \in Loop : QueryStarts(q) \/ AgentStep(q)
       \/ \E q \in Loop : CancelQuery(q) \/ CancelAgent(q)

Spec == QueryInit /\ [][Next]_allVars

\* File operations, gate runs and the loading of a workspace come to an end.
FairSpec ==
  /\ Spec
  /\ \A l \in Loop :
       /\ WF_allVars(LoopStep(l) /\ UNCHANGED queryVars)
       /\ WF_allVars(AgentStep(l)) /\ WF_allVars(RepairReturns(l))
-----------------------------------------------------------------------------
(* Properties *)

\* A query that is cancelled leaves nothing running inside.
CancelReachesAll ==
  \A q \in Loop : queryAborted[q] /\ query[q] # "idle" =>
    /\ queryTask[q] = "cancelled"
    /\ agentTask[q] # "running" /\ task[q] # "running"

\* Every query comes to an end and so does its task, whatever is cancelled or
\* fails.
QueryEnds ==
  \A q \in Loop :
    query[q] # "idle" ~> query[q] = "done" /\ Terminal(queryTask[q])

=============================================================================
