---------------------------- MODULE PacketRelay ----------------------------
(***************************************************************************)
(* What an opportunistic face promises to the forwarder that hands it      *)
(* packets: a store-and-forward relay.  Packets are numbered in the order  *)
(* in which the face accepted them.  The relay keeps the packets it has    *)
(* not released yet; the peer sees them in order, the last one possibly    *)
(* several times.                                                          *)
(*                                                                         *)
(* The promise has two levels.  At any time the peer sees packets in the   *)
(* order of their acceptance and only an Interest can be withdrawn.  While *)
(* the face is calm (no transfer left over from an earlier attachment, no  *)
(* Interest withdrawn in mid-transfer) it is reliable too: only the oldest *)
(* packet is transmitted, and it is released only once it was.             *)
(***************************************************************************)
EXTENDS Naturals

CONSTANTS
    Interests,      \* the packets that are Interests; the others are Data
    MaxPackets      \* bound on the packets accepted

VARIABLES
    accepted,       \* number of packets accepted so far
    pending,        \* the packets accepted and not released or withdrawn
    wire,           \* the last packet the peer received, 0 if none
    calm            \* no leftover transfer is about

vars == <<accepted, pending, wire, calm>>

Oldest(p) == p \in pending /\ \A q \in pending : p <= q

Init ==
    /\ accepted = 0
    /\ pending = {}
    /\ wire = 0
    /\ calm = TRUE

Accept ==
    /\ accepted < MaxPackets
    /\ accepted' = accepted + 1
    /\ pending' = pending \cup {accepted + 1}
    /\ UNCHANGED wire

\* The peer receives p: never one that precedes what it saw last.
Transmit(p) ==
    /\ p >= wire
    /\ calm => Oldest(p)
    /\ wire' = p
    /\ UNCHANGED <<accepted, pending>>

\* The relay forgets its oldest packet.
Release(p) ==
    /\ Oldest(p)
    /\ calm => p = wire
    /\ pending' = pending \ {p}
    /\ UNCHANGED <<accepted, wire>>

\* The forwarder no longer wants the Interest p to be sent.
Withdraw(p) ==
    /\ p \in pending \cap Interests
    /\ pending' = pending \ {p}
    /\ UNCHANGED <<accepted, wire>>

\* Only the surroundings change: the peer comes or goes.
Surroundings == UNCHANGED <<accepted, pending, wire>>

Next ==
    /\ calm' \in BOOLEAN
    /\ \/ Accept
       \/ \E p \in 1 .. accepted : Transmit(p) \/ Release(p) \/ Withdraw(p)
       \/ Surroundings

Spec == Init /\ [][Next]_vars

=============================================================================
