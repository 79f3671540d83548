---------------------------- MODULE MCReception ----------------------------
(* An instance of Reception small enough for TLC. *)
EXTENDS Reception, TLC

Symmetry == Permutations(Addresses)
=============================================================================
