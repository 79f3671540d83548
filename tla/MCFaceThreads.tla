---------------------------- MODULE MCFaceThreads ----------------------------
(* Instances of FaceThreads small enough for TLC. *)
EXTENDS FaceThreads
=============================================================================
