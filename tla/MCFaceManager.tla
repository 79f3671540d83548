--------------------------- MODULE MCFaceManager ---------------------------
(* Instances of FaceManager small enough for TLC. *)
EXTENDS FaceManager

Symmetry == Permutations(Services) \cup Permutations(Hosts)
=============================================================================
