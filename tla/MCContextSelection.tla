------------------------- MODULE MCContextSelection -------------------------
(* Windows over the subsets of a set of chunks that meet in score, size, *)
(* text and kind.                                                        *)
EXTENDS ContextSelection

C(id, origin, kind, base, tokens, words, generic) ==
  [id |-> id, origin |-> origin, kind |-> kind, base |-> base,
   tokens |-> tokens, words |-> words, generic |-> generic]

MCChunk == {
  C(1, "memory",    "memory", 55, 2, {1, 2},    FALSE),
  C(2, "memory",    "memory", 60, 3, {3, 4},    FALSE),
  C(3, "memory",    "spec",   45, 4, {5, 6},    FALSE),
  C(4, "workspace", "code",   95, 3, {1, 2, 7}, FALSE),
  C(5, "workspace", "code",   85, 4, {1, 2, 3}, FALSE),
  C(6, "workspace", "test",   60, 2, {4, 8},    FALSE),
  C(7, "workspace", "test",   45, 3, {9},       TRUE),
  C(8, "workspace", "spec",   50, 5, {5, 6, 7}, FALSE),
  C(9, "chat",      "log",    70, 2, {6, 9},    FALSE),
  C(10, "workspace", "doc",   37, 2, {2, 7},    TRUE),
  C(11, "memory",   "spec",   40, 1, {},        FALSE)}

MCCaps == {<<>>, [workspace |-> 5, memory |-> 3, chat |-> 0]}
MCKinds == {<<"spec", "test">>, <<"spec", "test", "code">>}
=============================================================================
