--------------------------- MODULE MCRateLimiter ----------------------------
(* Instances of RateLimiter for TLC: the values are in the configurations. *)
EXTENDS RateLimiter, TLC

Symmetry == Permutations(Threads) \cup Permutations(Ips)
=============================================================================
