---------------------------- MODULE MCAgentQuery ----------------------------
(* Worlds of AgentQuery for TLC, and the gate's verdicts. *)
EXTENDS AgentQuery

\* Two texts fail in different ways, one passes; the missing file fails.
MCVerdict == [t \in Text |-> CASE t = "good" -> "pass" [] t = "bad" -> "e1"
                               [] OTHER -> "e2"]

W(ls, qs, o, e, c, f, n) ==
  [loops |-> ls, queries |-> qs, original |-> o, edits |-> e, cancels |-> c,
   faults |-> f, strikes |-> n]

MCWorlds ==
  {W({"a"}, {}, t, FALSE, b, {"gate"}, 1) : t \in Text, b \in BOOLEAN}
  \cup {W({"a"}, {}, "bad", FALSE, TRUE, {"file", "gate"}, 2),
        W({"a", "b"}, {}, "bad", FALSE, FALSE, {}, 0),
        W({}, {"b"}, "bad", TRUE, TRUE, {"gate", "file"}, 2)}
=============================================================================
