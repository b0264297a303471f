-------------------------- MODULE MCPromptVersions --------------------------
(* Worlds and symmetry of PromptVersions for TLC. *)
EXTENDS PromptVersions, TLC

\* All prompts have one slug.
W(store, ps, serial, faults) ==
  [store |-> store, prompts |-> ps, slug |-> [p \in Prompt |-> "slug"],
   serial |-> serial, faults |-> faults, checks |-> store = "named"]

\* Each store with requests one at a time, and with requests that overlap,
\* reads that fail and writes that fail.
MCWorlds == {W("keyed", Prompt, TRUE, FALSE), W("keyed", Prompt, FALSE, TRUE),
             W("named", Prompt, TRUE, FALSE), W("named", {"p"}, FALSE, TRUE),
             W("config", {"p"}, TRUE, FALSE), W("config", {"p"}, FALSE, TRUE),
             W("named", Prompt, TRUE, TRUE)}

Symmetry == Permutations(Client) \cup Permutations(Content)
=============================================================================
