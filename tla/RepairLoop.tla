----------------------------- MODULE RepairLoop -----------------------------
(***************************************************************************)
(* Repair loops of src/orchestration on one workspace: a candidate is laid *)
(* over the target file, the code gate runs, the file is put back, and an  *)
(* agent is asked for the next candidate until the gate passes.  Each loop *)
(* has a task, which others may cancel.                                    *)
(*                                                                         *)
(* Steps are what happens from one file operation or gate run to the next; *)
(* the agents of the repository do no I/O and are part of the step.        *)
(***************************************************************************)
EXTENDS Naturals

CONSTANTS
  Loop,
  Code,      \* texts of the target file
  None,      \* no file, no repair
  Verdict,   \* what the gate says of the workspace with this target file
  World      \* what may happen: every behaviour is in one of these

Text == Code \cup {None}
Limit == 0 .. 2      \* bound on maxIterations

WorldType ==
  [loops     : SUBSET Loop,     \* loops that callers start directly
   queries   : SUBSET Loop,     \* loops run by a query loop (AgentQuery)
   original  : Text,            \* the target file at first
   edits     : BOOLEAN,         \* users change the file meanwhile
   cancels   : BOOLEAN,
   faults    : SUBSET {"file", "gate"},
   strikes   : Nat]             \* bound on the number of failures

ASSUME RepairConstants ==
  /\ None \notin Code
  /\ DOMAIN Verdict = Text /\ \A t \in Text : Verdict[t] # "thrown"
  /\ World \subseteq WorldType

VARIABLES
  world,      \* the world of this behaviour; it never changes
  target,     \* the target file
  at,         \* where each loop is
  targeted,   \* whether it was given a targetPath
  limit,      \* maxIterations
  code,       \* currentCode
  saved,      \* originalCode, None if the file did not exist
  verdict,    \* gateResult
  final,      \* the final gate check
  tries,      \* attempts.length
  seen,       \* seenFingerprints
  task,       \* status of the loop's task
  aborted,    \* its signal, or that of its task
  result,     \* the reason of the result
  faults      \* failures so far

asked == <<targeted, limit>>
gate  == <<saved, verdict>>
loop  == <<at, asked, code, gate, final, tries, seen, task, aborted, result>>
vars  == <<world, target, loop, faults>>

Terminal(status) == status \in {"completed", "failed", "cancelled"}

Init ==
  /\ world \in World
  /\ target = world.original
  /\ at = [l \in Loop |-> "idle"]
  /\ targeted = [l \in Loop |-> FALSE] /\ final = targeted /\ aborted = targeted
  /\ limit = [l \in Loop |-> 0] /\ tries = limit
  /\ code = [l \in Loop |-> None] /\ saved = code
  /\ verdict = [l \in Loop |-> "none"] /\ result = verdict /\ task = verdict
  /\ seen = [l \in Loop |-> {}]
  /\ faults = 0

Fault(kind) ==
  /\ kind \in world.faults /\ faults < world.strikes
  /\ faults' = faults + 1
-----------------------------------------------------------------------------
\* cancelTask, failTask and completeTask inside runRepairLoop.
Ended(status, new) == IF Terminal(status) THEN status ELSE new

\* The loop returns, with the status it wants for its task.
Return(l, status, reason) ==
  /\ at' = [at EXCEPT ![l] = "done"]
  /\ task' = [task EXCEPT ![l] = Ended(@, status)]
  /\ result' = [result EXCEPT ![l] = reason]
  /\ UNCHANGED final

\* An exception leaves the loop and the status of its task as it is.
Throw(l) ==
  /\ at' = [at EXCEPT ![l] = "done"]
  /\ result' = [result EXCEPT ![l] = "thrown"]
  /\ UNCHANGED <<task, final>>

\* runGateAgainstCandidate begins; without a targetPath it is the gate alone.
EnterGate(l, isTargeted, isFinal) ==
  /\ at' = [at EXCEPT ![l] = IF isTargeted THEN "read" ELSE "gate"]
  /\ final' = [final EXCEPT ![l] = isFinal]
  /\ UNCHANGED result

Start(l, c, isTargeted, n) ==
  /\ at[l] = "idle"
  /\ targeted' = [targeted EXCEPT ![l] = isTargeted]
  /\ limit' = [limit EXCEPT ![l] = n]
  /\ code' = [code EXCEPT ![l] = c]
  /\ tries' = [tries EXCEPT ![l] = 0]
  /\ seen' = [seen EXCEPT ![l] = {}]
  /\ IF aborted[l]
     THEN /\ at' = [at EXCEPT ![l] = "done"]
          /\ task' = [task EXCEPT ![l] = "cancelled"]
          /\ result' = [result EXCEPT ![l] = "cancelled"]
          /\ UNCHANGED final
     ELSE task' = [task EXCEPT ![l] = "running"] /\ EnterGate(l, isTargeted, n = 0)
  /\ UNCHANGED <<world, target, gate, aborted, faults>>
-----------------------------------------------------------------------------
(* runGateAgainstCandidate *)

ReadOriginal(l) ==
  /\ at[l] = "read"
  /\ saved' = [saved EXCEPT ![l] = target]
  /\ at' = [at EXCEPT ![l] = "write"]
  /\ UNCHANGED <<world, target, asked, code, verdict, final, tries, seen, task,
                 aborted, result, faults>>

\* Mutant of WriteCandidate: the original is read once the candidate is there.
WriteThenRead(l) ==
  /\ at[l] = "write"
  /\ target' = code[l]
  /\ saved' = [saved EXCEPT ![l] = code[l]]
  /\ at' = [at EXCEPT ![l] = "gate"]
  /\ UNCHANGED <<world, asked, code, verdict, final, tries, seen, task, aborted,
                 result, faults>>

WriteCandidate(l) ==
  /\ at[l] = "write"
  /\ target' = code[l]
  /\ at' = [at EXCEPT ![l] = "gate"]
  /\ UNCHANGED <<world, asked, code, gate, final, tries, seen, task, aborted,
                 result, faults>>

\* The original cannot be read or the candidate not be written.
OverlayFails(l) ==
  /\ at[l] \in {"read", "write"}
  /\ Fault("file")
  /\ Throw(l)
  /\ UNCHANGED <<world, target, asked, code, gate, tries, seen, aborted>>

\* The gate looks at the workspace as it is.
GateRuns(l) ==
  /\ at[l] = "gate"
  /\ verdict' = [verdict EXCEPT ![l] = Verdict[target]]
  /\ at' = [at EXCEPT ![l] = "restore"]
  /\ UNCHANGED <<world, target, asked, code, saved, final, tries, seen, task,
                 aborted, result, faults>>

GateThrows(l) ==
  /\ at[l] = "gate"
  /\ Fault("gate")
  /\ verdict' = [verdict EXCEPT ![l] = "thrown"]
  /\ at' = [at EXCEPT ![l] = "restore"]
  /\ UNCHANGED <<world, target, asked, code, saved, final, tries, seen, task,
                 aborted, result>>
-----------------------------------------------------------------------------
(* The loop, from the end of a gate run to the start of the next *)

FinalVerdict(l) ==
  /\ IF aborted[l] THEN Return(l, "cancelled", "cancelled")
     ELSE IF verdict[l] = "pass" THEN Return(l, "completed", "pass")
     ELSE Return(l, "failed",
                 IF tries[l] >= limit[l] THEN "max-iterations" ELSE "error")
  /\ UNCHANGED <<code, tries, seen>>

\* No repair: the task has failed, and the gate runs once more.
GiveUp(l) ==
  /\ task' = [task EXCEPT ![l] = Ended(@, "failed")]
  /\ EnterGate(l, targeted[l], TRUE)
  /\ UNCHANGED code

\* Mutant of Repaired: the last repair is handed out untested.
RepairedLate(l, fix) ==
  /\ code' = [code EXCEPT ![l] = fix]
  /\ IF tries[l] + 1 < limit[l] /\ ~ aborted[l]
     THEN EnterGate(l, targeted[l], FALSE) /\ UNCHANGED task
     ELSE Return(l, "completed", "pass")

\* The head of the loop, or what comes after the last iteration.
Repaired(l, fix) ==
  /\ code' = [code EXCEPT ![l] = fix]
  /\ IF tries[l] + 1 < limit[l] /\ aborted[l]
     THEN Return(l, "cancelled", "cancelled")
     ELSE EnterGate(l, targeted[l], tries[l] + 1 = limit[l]) /\ UNCHANGED task

Attempted(l) ==
  /\ tries' = [tries EXCEPT ![l] = @ + 1]
  /\ IF verdict[l] = "pass" \/ verdict[l] \in seen[l]
     THEN /\ IF verdict[l] = "pass" THEN Return(l, "completed", "pass")
             ELSE Return(l, "failed", "no-progress")
          /\ UNCHANGED <<code, seen>>
     ELSE /\ seen' = [seen EXCEPT ![l] = @ \cup {verdict[l]}]
          /\ \/ GiveUp(l)
             \/ \E fix \in Code : Repaired(l, fix)

\* The finally block, and what follows it.
Restore(l) ==
  /\ at[l] = "restore"
  /\ target' = IF targeted[l] THEN saved[l] ELSE target
  /\ IF verdict[l] = "thrown" THEN Throw(l) /\ UNCHANGED <<code, tries, seen>>
     ELSE IF final[l] THEN FinalVerdict(l)
     ELSE Attempted(l)
  /\ UNCHANGED <<world, asked, gate, aborted, faults>>

RestoreFails(l) ==
  /\ at[l] = "restore" /\ targeted[l]
  /\ Fault("file")
  /\ Throw(l)
  /\ UNCHANGED <<world, target, asked, code, gate, tries, seen, aborted>>
-----------------------------------------------------------------------------
\* The caller's signal is aborted, or the task is cancelled.
Abort(l) ==
  /\ world.cancels /\ ~ aborted[l] /\ at[l] # "done"
  /\ aborted' = [aborted EXCEPT ![l] = TRUE]
  /\ task' = [task EXCEPT ![l] = IF @ = "none" THEN @ ELSE Ended(@, "cancelled")]
  /\ UNCHANGED <<world, target, at, asked, code, gate, final, tries, seen,
                 result, faults>>

\* Users and other programs write the file.
Edit ==
  /\ world.edits
  /\ \E t \in Text \ {target} : target' = t
  /\ UNCHANGED <<world, loop, faults>>

LoopStep(l) ==
  \/ ReadOriginal(l) \/ WriteCandidate(l) \/ OverlayFails(l)
  \/ GateRuns(l) \/ GateThrows(l)
  \/ Restore(l) \/ RestoreFails(l)
-----------------------------------------------------------------------------
(* Properties *)

Alone == \A l, k \in world.loops : l = k

\* Whatever happens to the loop, cancelled, failed or given up, the file is
\* what it was as soon as no gate runs, as long as one loop uses it, files can
\* be written and nobody else edits it.
TargetRestored ==
  Alone /\ "file" \notin world.faults /\ ~ world.edits
  /\ (\A l \in Loop : at[l] \notin {"gate", "restore"})
    => target = world.original

\* The code a loop hands out as repaired is code the gate has passed, as long
\* as it has a target to itself.
PassIsTested ==
  \A l \in Loop :
    Alone /\ ~ world.edits /\ targeted[l] /\ result[l] = "pass" =>
      Verdict[code[l]] = "pass"
=============================================================================
