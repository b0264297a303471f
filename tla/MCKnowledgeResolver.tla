------------------------ MODULE MCKnowledgeResolver ------------------------
(* Worlds of KnowledgeResolver for TLC. *)
EXTENDS KnowledgeResolver

W(o, f, n) == [overlap |-> o, faults |-> f, strikes |-> n]

MCWorlds ==
  {W(FALSE, {"refuse", "unhealthy"}, 0),
   W(FALSE, {"refuse", "unanswered", "unhealthy"}, 1),
   W(FALSE, FaultKinds, 1)}

MCOverlapWorlds == {W(TRUE, {"refuse", "unhealthy"}, 0)}
=============================================================================
