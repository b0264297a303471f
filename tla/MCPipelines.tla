---------------------------- MODULE MCPipelines ----------------------------
(* Pipelines for TLC. *)
EXTENDS Pipelines

S(type, from, optional, retries) ==
  [type |-> type, from |-> from, optional |-> optional, retries |-> retries]

\* buildDefaultNexusPipeline; one with retries; one with optional steps, that
\* ends in a step nothing executes; one with a step that is never attempted.
DefaultPipeline == <<S("ingest", "", FALSE, 0), S("process", "ingest", FALSE, 0),
  S("store", "process", FALSE, 0), S("recall", "store", FALSE, 0)>>
Retrying == <<S("ingest", "", FALSE, 1), S("process", "ingest", FALSE, 0),
  S("store", "process", FALSE, 1)>>
Failing == <<S("unknown", "", TRUE, 0), S("process", "ingest", FALSE, 0),
  S("store", "process", TRUE, 1), S("unknown", "", FALSE, 0)>>
NotANumber == <<S("ingest", "", FALSE, NoAttempt),
  S("store", "ingest", FALSE, 0)>>
MCPipeline == {DefaultPipeline, Retrying, Failing, NotANumber}

\* The texts of the documents of requests share an id.
MCIdOf == [c \in Chunk |->
  IF c.kind = "text" /\ c.of \in Doc THEN Text("d1") ELSE c]
MCNoise == {Text("d2")}

W(c, r, t, s) == [calm |-> c, runs |-> r, ticks |-> t, saves |-> s]

\* The service alone; two runs; a run and a tick; a run whose
\* writes may fail.
MCWorlds == {W(FALSE, 0, 3, FALSE), W(TRUE, 2, 0, FALSE), W(TRUE, 1, 1, TRUE),
             W(FALSE, 1, 0, FALSE)}
=============================================================================
