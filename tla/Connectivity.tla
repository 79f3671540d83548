---------------------------- MODULE Connectivity ----------------------------
(***************************************************************************)
(* Group formation: the Java OpportunisticConnectivityManager of several   *)
(* devices.  Each elects a Group Owner among the peers that its tracker    *)
(* knows, asks Android to connect to it, and remembers in mConnected that  *)
(* it did.  The fragment OpportunisticPeerTracking makes a new manager each *)
(* time it is created and calls it for two buttons; LEAVE is enabled while *)
(* Android says that the device is in a Group.                             *)
(*                                                                         *)
(* UUIDs are compared as strings and stand for themselves as numbers.      *)
(* Android's WifiP2pManager is external: it answers each connect() once,   *)
(* in order, and that only says whether it will try.  What comes of it is  *)
(* not reported to the manager, nor is the end of a Group.                 *)
(***************************************************************************)
EXTENDS Naturals, SequencesExt

CONSTANTS
    Devices,        \* their UUIDs
    Shows,          \* the devices on which the fragment may be shown
    Blind,          \* devices whose Android does not tell a peer's owner
    NoDevice,       \* no device
    MaxJoins        \* bound on the calls of connect()

ASSUME DevicesAssumption ==
    Devices \subseteq Nat /\ Shows \subseteq Devices /\ NoDevice \notin Devices
ASSUME JoinsAssumption == MaxJoins \in Nat

VARIABLES           \* of the manager each device has now
    enabled,        \* mEnabled
    connected,      \* mConnected
    peers           \* how the peer tracker's map shows each other device

VARIABLES           \* Android, and bookkeeping
    owner,          \* the owner of the Group the device is in
    requests,       \* connect() calls not yet answered
    negotiation,    \* the request Android agreed to try
    mine,           \* the Group came of the manager's last word
    missed,         \* since that, a negotiation or a Group ended unreported
    joins           \* number of calls of connect()

manager == <<enabled, connected>>
android == <<owner, requests, negotiation, mine, missed, joins>>
vars    == <<manager, peers, android>>

\* A request, and whether it is the manager's last word, was followed by another
\* join() or by leave(), or is of a manager that is gone.
Requests == [to : Devices, toOwner : BOOLEAN, from : {"LAST", "EARLIER", "GONE"}]
Nothing  == [to |-> NoDevice, toOwner |-> FALSE, from |-> "GONE"]

\* The type of every variable.
ConnectivityTypeOK ==
    /\ enabled \in [Devices -> BOOLEAN]
    /\ connected \in [Devices -> BOOLEAN]
    /\ peers \in [Devices -> [Devices -> {"ABSENT", "FREE", "OWNER", "CLIENT"}]]
    /\ owner \in [Devices -> Devices \cup {NoDevice}]
    /\ requests \in [Devices -> Seq(Requests)]
    /\ negotiation \in [Devices -> Requests \cup {Nothing}]
    /\ mine \in [Devices -> BOOLEAN]
    /\ missed \in [Devices -> BOOLEAN]
    /\ joins \in 0 .. MaxJoins

-----------------------------------------------------------------------------
(* Plausible bugs in the helpers below, for checking the properties.       *)

FreePeers(known, d) == {p \in Devices : known[p] = "FREE"}
AcceptanceIgnored(flag, ok) == flag /\ ok
RefusalIgnored(flag, ok) == flag \/ ok

-----------------------------------------------------------------------------

\* isGroupOwner() and hasGroupOwner(): what a scan on d tells of p.
Role(d, p) ==
    IF owner[p] = NoDevice THEN "FREE"
    ELSE IF owner[p] = p THEN "OWNER"
    ELSE IF d \in Blind THEN "FREE" ELSE "CLIENT"

\* A peer that is no longer reported is marked as lost: it stays in the map,
\* where it owns no Group and has no owner.
Shown(known, p, role) ==
    IF role # "ABSENT" THEN role
    ELSE IF known[p] = "ABSENT" THEN "ABSENT" ELSE "FREE"

\* selectGroupOwner: the first owner in the order of a hash table; without one
\* the lowest UUID of this device and the peers without an owner.
Owners(known) == {p \in Devices : known[p] = "OWNER"}
Candidates(known, d) == {d} \cup {p \in Devices : known[p] = "FREE"}
Lowest(S) == {p \in S : \A q \in S : p <= q}
Selected(known, d) ==
    IF Owners(known) # {} THEN Owners(known) ELSE Lowest(Candidates(known, d))

\* afterConnect
Answered(flag, ok) == ok

\* What was asked before join(), leave() or the end of the manager.
Later(r) == [r EXCEPT !.from = IF @ = "LAST" THEN "EARLIER" ELSE @]
Gone(r)  == [r EXCEPT !.from = "GONE"]

\* The Group of d goes on without it, unless d owns it or is its only client.
Members(d) == {p \in Devices : owner[p] = owner[d]}
Leavers(d) ==
    IF owner[d] = NoDevice THEN {}
    ELSE IF owner[d] = d \/ Members(d) = {d, owner[d]} THEN Members(d)
    ELSE {d}
Without(S) == [p \in Devices |-> IF p \in S THEN NoDevice ELSE owner[p]]

Init ==
    /\ enabled = [d \in Devices |-> FALSE]
    /\ connected = [d \in Devices |-> FALSE]
    /\ peers = [d \in Devices |-> [p \in Devices |-> "ABSENT"]]
    /\ owner = [d \in Devices |-> NoDevice]
    /\ requests = [d \in Devices |-> <<>>]
    /\ negotiation = [d \in Devices |-> Nothing]
    /\ mine = [d \in Devices |-> FALSE]
    /\ missed = [d \in Devices |-> FALSE]
    /\ joins = 0

-----------------------------------------------------------------------------
(* The manager and the tracker of device d.                                *)

\* onAttach and onDetach of a fragment: a new manager, and none.
Enable(d) ==
    /\ ~enabled[d]
    /\ enabled' = [enabled EXCEPT ![d] = TRUE]
    /\ connected' = [connected EXCEPT ![d] = FALSE]
    /\ UNCHANGED <<peers, android>>

Disable(d) ==
    /\ enabled[d]
    /\ enabled' = [enabled EXCEPT ![d] = FALSE]
    /\ requests' = [requests EXCEPT ![d] = [i \in DOMAIN @ |-> Gone(@[i])]]
    /\ negotiation' = [negotiation EXCEPT ![d] = Gone(@)]
    /\ mine' = [mine EXCEPT ![d] = FALSE]
    /\ UNCHANGED <<connected, peers, owner, missed, joins>>

\* A scan reports the peers within range.
Scan(d, range) ==
    /\ peers' = [peers EXCEPT ![d] = [p \in Devices |->
                    Shown(@, p, IF p \in range THEN Role(d, p) ELSE "ABSENT")]]
    /\ UNCHANGED <<manager, android>>

\* join(), when the device elects another one.
Join(d, p) ==
    /\ enabled[d] /\ ~connected[d]
    /\ p \in Selected(peers[d], d) /\ p # d
    /\ joins < MaxJoins
    /\ joins' = joins + 1
    /\ connected' = [connected EXCEPT ![d] = TRUE]
    /\ requests' = [requests EXCEPT ![d] = Append([i \in DOMAIN @ |-> Later(@[i])],
            [to |-> p, toOwner |-> peers[d][p] = "OWNER", from |-> "LAST"])]
    /\ negotiation' = [negotiation EXCEPT ![d] = Later(@)]
    /\ mine' = [mine EXCEPT ![d] = FALSE]
    /\ missed' = [missed EXCEPT ![d] = FALSE]
    /\ UNCHANGED <<enabled, peers, owner>>

\* leave(), by a button that is enabled in a Group.
Leave(d) ==
    /\ owner[d] # NoDevice
    /\ enabled[d] /\ connected[d]
    /\ connected' = [connected EXCEPT ![d] = FALSE]
    /\ owner' = Without(Leavers(d))
    /\ requests' = [requests EXCEPT ![d] = [i \in DOMAIN @ |-> Later(@[i])]]
    /\ negotiation' = [negotiation EXCEPT ![d] = Later(@)]
    /\ mine' = [p \in Devices |-> mine[p] /\ p \notin Leavers(d)]
    /\ missed' = [p \in Devices |-> p # d /\ (missed[p] \/ p \in Leavers(d))]
    /\ UNCHANGED <<enabled, peers, joins>>

\* The answer to a connect() reaches the manager that called it.
Answer(d, ok) ==
    /\ requests[d] # <<>>
    /\ requests' = [requests EXCEPT ![d] = Tail(@)]
    /\ connected' = IF Head(requests[d]).from = "GONE" THEN connected
                    ELSE [connected EXCEPT ![d] = Answered(@, ok)]
    /\ negotiation' = IF ok THEN [negotiation EXCEPT ![d] = Head(requests[d])]
                      ELSE negotiation
    /\ UNCHANGED <<enabled, peers, owner, mine, missed, joins>>

-----------------------------------------------------------------------------
(* Android.                                                                *)

\* Two devices make a Group, which one of them owns, or the owner takes the
\* other one in.
Form(d) ==
    LET t == negotiation[d].to IN
    /\ negotiation[d] # Nothing
    /\ owner[d] = NoDevice /\ owner[t] \in {NoDevice, t}
    /\ \E o \in IF owner[t] = t THEN {t} ELSE {d, t} :
            owner' = [owner EXCEPT ![d] = o, ![t] = o]
    /\ mine' = [mine EXCEPT ![d] = negotiation[d].from = "LAST"]
    /\ negotiation' = [negotiation EXCEPT ![d] = Nothing]
    /\ UNCHANGED <<manager, peers, requests, missed, joins>>

Fail(d) ==
    /\ negotiation[d] # Nothing
    /\ negotiation' = [negotiation EXCEPT ![d] = Nothing]
    /\ missed' = [missed EXCEPT ![d] = TRUE]
    /\ UNCHANGED <<manager, peers, owner, requests, mine, joins>>

\* The device drops out of its Group.
Drop(d) ==
    /\ owner[d] # NoDevice
    /\ owner' = Without(Leavers(d))
    /\ mine' = [p \in Devices |-> mine[p] /\ p \notin Leavers(d)]
    /\ missed' = [p \in Devices |-> missed[p] \/ p \in Leavers(d)]
    /\ UNCHANGED <<manager, peers, requests, negotiation, joins>>

Next ==
    \/ \E d \in Shows :
        \/ Enable(d) \/ Disable(d)
        \/ \E range \in SUBSET (Devices \ {d}) : Scan(d, range)
        \/ \E p \in Devices : Join(d, p)
        \/ Leave(d)
        \/ \E ok \in BOOLEAN : Answer(d, ok)
        \/ Form(d) \/ Fail(d)
    \/ \E d \in Devices : Drop(d)

Spec == Init /\ [][Next]_vars

-----------------------------------------------------------------------------

\* Devices "agree on who ought to be the group owner" (line 90): two that see
\* each other without an owner, and the same of everybody else with one owner at
\* most, select the same device, whichever way each of them looks at it.
SameViewSameOwner ==
    \A d, e \in Devices :
        /\ d # e /\ peers[d][e] = "FREE" /\ peers[e][d] = "FREE"
        /\ \A p \in Devices \ {d, e} : peers[d][p] = peers[e][p]
        /\ \A p, q \in Owners(peers[d]) : p = q
        => Selected(peers[d], d) = Selected(peers[e], e)

\* Two devices never wait for each other: while both ask for the other one, at
\* least one of them took the other for a Group Owner.  Both may have asked long
\* ago, of what they saw then.
Pending(d) == {requests[d][i] : i \in DOMAIN requests[d]} \cup
                ({negotiation[d]} \ {Nothing})
NoCrossing ==
    \A d, e \in Devices : \A r \in Pending(d), s \in Pending(e) :
        r.to = e /\ s.to = d => r.toOwner \/ s.toOwner

\* leave() works for a device in the Group it asked for last: its manager knows
\* that it is connected, whatever answers to earlier requests came since.
WhoAskedCanLeave ==
    \A d \in Devices : mine[d] => enabled[d] /\ connected[d] /\ owner[d] # NoDevice

\* join() does nothing though the device is in no Group and nothing is under way
\* only after a negotiation failed or a Group ended, which nobody reports to the
\* manager; never after a refusal.
BlockedOnlyByLoss ==
    \A d \in Devices :
        /\ enabled[d] /\ connected[d]
        /\ owner[d] = NoDevice /\ Pending(d) = {}
        => missed[d]

=============================================================================
