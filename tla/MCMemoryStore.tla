--------------------------- MODULE MCMemoryStore ---------------------------
(* Instances of MemoryStore: which memories share a topic, and worlds.     *)
EXTENDS MemoryStore

\* d1, d2 and the summary s share a topic; every memory has its own text.
MCText == [m \in Memory |-> m]
MCTopic == [m \in Memory |-> IF m \in Reviewable THEN "x" ELSE NoTopic]

AllOps == {"save", "delete", "search", "prune", "compact"}

W(memories, o, workers, f, n) ==
  [memories |-> memories, ops |-> o, workers |-> workers, scoped |-> TRUE,
   faults |-> f, strikes |-> n]

MCWorlds ==
  {W({"d1", "d2", "t1", "n2", "s"}, AllOps, {"w1"}, {}, 0),
   W({"n1", "n2", "old1"}, AllOps \ {"compact"}, {"w1"}, {"crash", "write"}, 2),
   W({"d1", "t1", "n2", "old1", "old2"}, {"save", "delete", "search"}, {"w1"},
     {"crash"}, 2),
   W({"d1", "t1", "n2"}, AllOps \ {"compact"}, {"w1", "w2"},
     {"crash", "torn", "write"}, 1),
   [W({"d1", "t1", "n2"}, {"save", "delete", "search"}, {"w1"}, {"crash"}, 1)
      EXCEPT !.scoped = FALSE]}
=============================================================================
