---------------------------- MODULE MCClaimAgent ----------------------------
(* Instances of ClaimAgent for TLC: the values are in the configurations. *)
EXTENDS ClaimAgentInv, TLC

Symmetry ==
    Permutations(Owners) \cup Permutations(Secrets) \cup Permutations(Requests) \cup Permutations(Challenges)
        \cup Permutations(Joins) \cup Permutations(Devices)

=============================================================================
