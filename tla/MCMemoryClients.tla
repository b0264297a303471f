-------------------------- MODULE MCMemoryClients --------------------------
(* Symmetry of MemoryClients for TLC. *)
EXTENDS MemoryClients, TLC

Symmetry == Permutations(Client) \cup Permutations(Title)
=============================================================================
