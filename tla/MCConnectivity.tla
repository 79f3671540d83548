--------------------------- MODULE MCConnectivity ---------------------------
(* Instances of Connectivity small enough for TLC. *)
EXTENDS Connectivity

(* UUIDs, of which the highest is that of a device that is told of no owner. *)
ThreeDevices == 1 .. 3
TheHighest == {3}
(* The fragment is never shown on the lowest. *)
TheUpperTwo == {2, 3}
=============================================================================
