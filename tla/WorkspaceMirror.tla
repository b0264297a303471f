-------------------------- MODULE WorkspaceMirror --------------------------
(***************************************************************************)
(* What the synchronisation promises, free of how it is done: the chunk    *)
(* repository is a mirror of the workspace that lags behind it and catches *)
(* up all at once.                                                         *)
(***************************************************************************)
CONSTANTS Source, Content, NoFile, ImageOf(_, _)

VARIABLES
  files,       \* the workspace
  chunks       \* the chunks stored for every file

Init ==
  /\ files = [s \in Source |-> NoFile]
  /\ chunks = [s \in Source |-> ImageOf(s, NoFile)]

Edit(s, c) ==
  /\ files' = [files EXCEPT ![s] = c]
  /\ UNCHANGED chunks

CatchUp ==
  /\ chunks' = [s \in Source |-> ImageOf(s, files[s])]
  /\ UNCHANGED files

Next ==
  \/ \E s \in Source, c \in Content \cup {NoFile} : Edit(s, c)
  \/ CatchUp

Spec == Init /\ [][Next]_<<files, chunks>>
=============================================================================
