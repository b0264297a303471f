--------------------------- MODULE MCConversation ---------------------------
(* Worlds of Conversation for TLC. *)
EXTENDS Conversation

\* One session and a policy; limits on tokens far away.
Policy(every, keep, maxTurns) ==
  [sessions |-> {"s"}, contents |-> {"short", "other"}, most |-> 7,
   every |-> every, keep |-> keep, maxTurns |-> maxTurns, summaryMost |-> 2,
   compactAt |-> 99, blockAt |-> 99, ends |-> FALSE, faults |-> {},
   strikes |-> 0]

\* The policies of retention; compaction and refusal by tokens, while sessions
\* end; faults with one session; and two sessions that share the blob.
MCWorlds ==
  {Policy(2, 1, 4), Policy(0, 1, 2), Policy(1, 3, 2),
   [Policy(4, 1, 6) EXCEPT !.contents = {"short", "wide"}, !.most = 6,
      !.summaryMost = 3],
   [Policy(3, 1, 4) EXCEPT !.contents = {"short", "long"},
      !.compactAt = 4, !.blockAt = 6, !.ends = TRUE],
   [Policy(0, 1, 4) EXCEPT !.contents = {"short", "long"}, !.most = 5,
      !.faults = {"append", "blob", "kill"}, !.strikes = 3],
   [Policy(2, 1, 4) EXCEPT !.sessions = {"s", "t"}, !.contents = {"long"},
      !.most = 4, !.ends = TRUE]}
=============================================================================
