--------------------------- MODULE MCPeerTracking ---------------------------
(* Instances of PeerTracking small enough for TLC. *)
EXTENDS PeerTracking, TLC

Symmetry == Permutations(Macs) \cup Permutations(Uuids)
=============================================================================
