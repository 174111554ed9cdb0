------------------------ MODULE MCPendingChallenges -------------------------
(* A small instance of PendingChallenges for TLC. *)
EXTENDS PendingChallenges, TLC

Symmetry == Permutations(Handlers) \cup Permutations(Ids)
=============================================================================
