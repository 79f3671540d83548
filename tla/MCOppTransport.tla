--------------------------- MODULE MCOppTransport ---------------------------
(* Instances of OppTransport small enough for TLC. *)
EXTENDS OppTransport

\* Data first: an Interest is withdrawn at the head and behind a Data packet.
OddData == {2, 4}
=============================================================================
