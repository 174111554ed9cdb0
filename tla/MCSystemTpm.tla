----------------------------- MODULE MCSystemTpm ----------------------------
(* A small instance of SystemTpm for TLC: values with a NUL at either end. *)
EXTENDS SystemTpm

MCValues == {<<0, 165>>, <<58, 0>>, <<255, 16>>}
=============================================================================
