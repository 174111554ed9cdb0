---------------------------- MODULE MCStateFile -----------------------------
(* Instances of StateFile for TLC: the values are in the configurations. *)
EXTENDS StateFile, TLC

Symmetry == Permutations(Values) \cup Permutations(Inodes)
=============================================================================
