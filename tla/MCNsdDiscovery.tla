--------------------------- MODULE MCNsdDiscovery ---------------------------
(* Instances of NsdDiscovery small enough for TLC. *)
EXTENDS NsdDiscovery
=============================================================================
