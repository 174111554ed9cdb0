----------------------------- MODULE MCHandshake ----------------------------
(* A small instance of Handshake for TLC. *)
EXTENDS Handshake, TLC

Symmetry == Permutations(Keys) \cup Permutations(Boxes) \cup Permutations(Couriers)
=============================================================================
