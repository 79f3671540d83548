------------------------ MODULE MCForwarderLifecycle ------------------------
(* An instance of ForwarderLifecycle small enough for TLC. *)
EXTENDS ForwarderLifecycle
=============================================================================
