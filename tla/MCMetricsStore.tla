--------------------------- MODULE MCMetricsStore ---------------------------
(* Worlds of MetricsStore for TLC. *)
EXTENDS MetricsStore

W(p, e, s, f, n) ==
  [processes |-> p, exits |-> e, slow |-> s, faults |-> f, strikes |-> n]

MCWorlds ==
  {W({"p"}, TRUE, FALSE, {}, 0),
   W({"p"}, FALSE, TRUE, {"write"}, 2),
   W({"p"}, TRUE, TRUE, {"write", "kill"}, 2),
   W({"p", "q"}, TRUE, FALSE, {"read", "write", "torn", "kill"}, 1)}
=============================================================================
