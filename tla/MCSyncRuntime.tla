--------------------------- MODULE MCSyncRuntime ---------------------------
(* Instances of SyncRuntime for TLC: five contents that share chunks.      *)
EXTENDS SyncRuntime

\* A and D agree on their first chunk only; E starts with a blank chunk; the
\* two chunks of F are near duplicates, so the second is dropped.
MCChunksOf ==
  [c \in Content |->
     CASE c = "A" -> <<"a", "b">>
       [] c = "B" -> <<"c">>
       [] c = "D" -> <<"a", "c">>
       [] c = "E" -> <<Blank, "b">>
       [] c = "F" -> <<"a", "a2">>]

MCNear == {<<"a", "a2">>}

Safe == {"detect", "read", "version", "save", "noVersions"}
Broken == {"detect", "read", "version", "save", "remove", "manifest", "crash",
           "noSnapshot", "noManifest"}

FG == {"f", "g"}

W(x, c, p, r, e, f, n) ==
  [sources |-> x, contents |-> c, policy |-> p, inRun |-> r, edits |-> e, faults |-> f,
   strikes |-> n]

MCWorlds ==
  {W(FG, {"A", "B", "D", "F"}, "noReturn", FALSE, 4, {}, 0),
   W(FG, {"A", "B", "D"}, "noReturn", TRUE, 4, {"detect", "read", "noSnapshot"}, 1),
   W(FG, {"A", "B", "D", "E"}, "any", TRUE, 3, Safe, 1),
   W(FG, {"D", "E"}, "any", TRUE, 3, Broken, 2),
   W(FG, {"A", "E"}, "any", TRUE, 2, FaultKinds, 2),
   W({"f", "g", "x"}, {"A", "B", "D"}, "fresh", TRUE, 4, {}, 0)}

MCRefillWorlds == {W(FG, {"A", "B"}, "any", FALSE, 3, {}, 0)}
=============================================================================
