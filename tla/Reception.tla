----------------------------- MODULE Reception -----------------------------
(***************************************************************************)
(* The receiving side of the OpportunisticFaceManager: the socket it       *)
(* listens on while the device is in a Wi-Fi Direct Group, the             *)
(* ConnectionHandler threads that accept connections, and the              *)
(* NsdServiceRegistrar that announces where it listens.                    *)
(*                                                                         *)
(* One manager, from its creation on.  Android is external: it tells the   *)
(* main thread of the Group by broadcasts, in order and some time later,   *)
(* and answers the registrar's requests on the NsdManager's thread.  An    *)
(* exception that nobody catches ends the process (crashed).               *)
(***************************************************************************)
EXTENDS Naturals, Sequences

CONSTANTS
    Addresses,      \* the addresses this device may be given in a Group
    NoAddress,      \* the device is in no Group, or null in the code
    MaxHandlers,    \* bound on the ConnectionHandlers made
    MaxInbox        \* bound on the broadcasts under way

ASSUME AddressAssumption == NoAddress \notin Addresses
ASSUME BoundsAssumption == MaxHandlers \in Nat /\ MaxInbox \in Nat

VARIABLES
    manager,        \* the manager is NEW, ON (enabled) or OFF (disabled)
    assignedIpv4,   \* mAssignedIpv4 of the ConnectionEventDetector
    enabled,        \* mEnabled: the service is enabled
    handlers,       \* the ConnectionHandlers, mConnector is the last
    registered,     \* mRegistered of the registrar
    refused,        \* history: bind failed on the assigned address
    crashed         \* an exception ended the process

VARIABLES           \* Android
    address,        \* the address of the device in its Group
    inbox,          \* connection broadcasts under way
    listener,       \* what the NsdManager does for the registrar's listener
    callbacks,      \* calls of the listener under way
    announced       \* the address announced to the Group

service  == <<enabled, handlers>>
registry == <<registered, listener, callbacks, announced>>
group    == <<address, inbox>>
vars     == <<manager, assignedIpv4, refused, crashed, service, registry, group>>

Handler == [ip : Addresses, open : BOOLEAN, enabled : BOOLEAN,
            at : {"STARTED", "ACCEPT", "RECEIVE", "ENDED"}]

\* The type of every variable.
ReceptionTypeOK ==
    /\ manager \in {"NEW", "ON", "OFF"}
    /\ assignedIpv4 \in Addresses \cup {NoAddress}
    /\ enabled \in BOOLEAN /\ handlers \in Seq(Handler)
    /\ registered \in BOOLEAN /\ refused \in BOOLEAN /\ crashed \in BOOLEAN
    /\ address \in Addresses \cup {NoAddress}
    /\ inbox \in Seq({"CONNECTED", "DISCONNECTED"})
    /\ listener \in {"FREE", "REGISTERING", "REGISTERED", "FAILED",
                     "UNREGISTERING", "UNREGISTERED"}
    /\ callbacks \in Seq({"REGISTERED", "FAILED", "UNREGISTERED"})
    /\ announced \in Addresses \cup {NoAddress}

-----------------------------------------------------------------------------
(* Plausible bugs in the helpers below, for checking the properties.       *)

NeverCleared(event, ip, now) == IF event = "CONNECTED" THEN now ELSE ip
LeftOpen(h) == [h EXCEPT !.enabled = FALSE]
ByCallback(yes) == yes

-----------------------------------------------------------------------------

\* onReceive: mAssignedIpv4 after a broadcast that finds address now.
Assigned(event, ip, now) == IF event = "CONNECTED" THEN now ELSE NoAddress

NewHandler(ip) == [ip |-> ip, open |-> TRUE, enabled |-> TRUE, at |-> "STARTED"]

\* terminate
Terminated(h) == [h EXCEPT !.enabled = FALSE, !.open = FALSE]

\* mRegistered after a call of the listener.
Confirmed(callback, yes) ==
    callback = "REGISTERED" \/ (callback # "FAILED" /\ yes)

Connector == Len(handlers)

Init ==
    /\ manager = "NEW"
    /\ assignedIpv4 = NoAddress
    /\ enabled = FALSE /\ handlers = <<>>
    /\ registered = FALSE /\ refused = FALSE /\ crashed = FALSE
    /\ address = NoAddress /\ inbox = <<>>
    /\ listener = "FREE" /\ callbacks = <<>> /\ announced = NoAddress

-----------------------------------------------------------------------------
(* Android.                                                                *)

Broadcast(event) ==
    /\ Len(inbox) < MaxInbox
    /\ inbox' = IF manager = "ON" THEN Append(inbox, event) ELSE inbox

\* The device joins a Group, or is given another address in it.
Join(ip) ==
    /\ ~crashed /\ ip # address
    /\ address' = ip
    /\ Broadcast("CONNECTED")
    /\ UNCHANGED <<manager, assignedIpv4, refused, crashed, service, registry>>

Leave ==
    /\ ~crashed /\ address # NoAddress
    /\ address' = NoAddress
    /\ Broadcast("DISCONNECTED")
    /\ UNCHANGED <<manager, assignedIpv4, refused, crashed, service, registry>>

\* The NsdManager answers a registration, or carries out its end.
Announce ==
    /\ ~crashed /\ listener = "REGISTERING"
    /\ listener' = "REGISTERED"
    /\ announced' = handlers[Connector].ip
    /\ callbacks' = Append(callbacks, "REGISTERED")
    /\ UNCHANGED <<manager, assignedIpv4, refused, crashed, service, registered, group>>

Refuse ==
    /\ ~crashed /\ listener = "REGISTERING"
    /\ listener' = "FAILED"
    /\ callbacks' = Append(callbacks, "FAILED")
    /\ UNCHANGED <<manager, assignedIpv4, refused, crashed, service, registered, announced, group>>

Withdraw ==
    /\ ~crashed /\ listener = "UNREGISTERING"
    /\ listener' = "UNREGISTERED"
    /\ announced' = NoAddress
    /\ callbacks' = Append(callbacks, "UNREGISTERED")
    /\ UNCHANGED <<manager, assignedIpv4, refused, crashed, service, registered, group>>

-----------------------------------------------------------------------------
(* The registrar.                                                          *)

\* The process ends, and nothing happens any more.
Crash == crashed' = TRUE /\ UNCHANGED <<refused, service, registry>>

\* A call of the listener, after which the NsdManager may forget it.
Callback ==
    /\ ~crashed /\ callbacks # <<>>
    /\ registered' = Confirmed(Head(callbacks), registered)
    /\ listener' = IF Head(callbacks) = "REGISTERED" THEN listener ELSE "FREE"
    /\ callbacks' = Tail(callbacks)
    /\ UNCHANGED <<manager, assignedIpv4, refused, crashed, service, announced, group>>

\* unregister(): unregisterService throws for a listener it does not know, and
\* only logs a second call for one that is on its way out.
UnregisterThrows == registered /\ listener = "FREE"
Unregistering ==
    IF registered /\ listener \in {"REGISTERING", "REGISTERED"} THEN "UNREGISTERING"
    ELSE listener

\* register(): registerService throws for a listener it still knows.
Claimed(yes) == TRUE
RegisterThrows(yes, known) == ~yes /\ known # "FREE"
Registering(yes, known) == IF yes THEN known ELSE "REGISTERING"

-----------------------------------------------------------------------------
(* The face manager.                                                       *)

\* disableService()
Disabled ==
    IF enabled THEN [handlers EXCEPT ![Connector] = Terminated(@)] ELSE handlers
RegisteredAfter == registered /\ ~enabled
ListenerAfter == IF enabled THEN Unregistering ELSE listener

DisableService ==
    IF enabled /\ UnregisterThrows THEN Crash
    ELSE
        /\ enabled' = FALSE /\ handlers' = Disabled
        /\ registered' = RegisteredAfter /\ listener' = ListenerAfter
        /\ UNCHANGED <<refused, crashed, callbacks, announced>>

\* enableService(assignedIp), after disableService() where it was enabled: bind
\* throws for null, which is not caught, and for an address it cannot use,
\* which is.
EnableService(ip, binds) ==
    IF \/ enabled /\ UnregisterThrows
       \/ ip = NoAddress
       \/ binds /\ RegisterThrows(RegisteredAfter, ListenerAfter)
    THEN Crash
    ELSE
        /\ IF binds
           THEN /\ Connector < MaxHandlers
                /\ handlers' = Append(Disabled, NewHandler(ip))
                /\ registered' = Claimed(RegisteredAfter)
                /\ listener' = Registering(RegisteredAfter, ListenerAfter)
           ELSE /\ handlers' = Disabled
                /\ registered' = RegisteredAfter
                /\ listener' = ListenerAfter
        /\ enabled' = binds /\ refused' = ~binds
        /\ UNCHANGED <<crashed, callbacks, announced>>

\* enable(): the receiver is registered, and sent the last broadcast first.
Enable ==
    /\ manager = "NEW"
    /\ manager' = "ON"
    /\ inbox' = << IF address = NoAddress THEN "DISCONNECTED" ELSE "CONNECTED" >>
    /\ UNCHANGED <<assignedIpv4, refused, crashed, service, registry, address>>

\* disable(): what is under way is not received.
Disable ==
    /\ ~crashed /\ manager = "ON"
    /\ manager' = "OFF"
    /\ inbox' = <<>>
    /\ DisableService
    /\ UNCHANGED <<assignedIpv4, address>>

\* onReceive: the next broadcast.  Which address the device has is asked of its
\* network interfaces when the broadcast is received.
Receive(event) ==
    /\ ~crashed /\ inbox # <<>> /\ Head(inbox) = event
    /\ inbox' = Tail(inbox)
    /\ assignedIpv4' = Assigned(event, assignedIpv4, address)
    /\ UNCHANGED <<manager, address>>

\* The service is on already, or its socket was refused on this address.
Unmoved ==
    IF assignedIpv4 = NoAddress THEN enabled ELSE assignedIpv4 = address

ConnectedAsBefore ==
    /\ Receive("CONNECTED")
    /\ Unmoved
    /\ UNCHANGED <<service, registry, refused, crashed>>

Connected(binds) ==
    /\ Receive("CONNECTED")
    /\ ~Unmoved
    /\ EnableService(address, binds)

Disconnected ==
    /\ Receive("DISCONNECTED")
    /\ DisableService

-----------------------------------------------------------------------------
(* The ConnectionHandler threads.                                          *)

Step(h, from, to) ==
    /\ ~crashed
    /\ handlers[h].at = from
    /\ handlers' = [handlers EXCEPT ![h].at = to, ![h].enabled = @ \/ from = "STARTED"]
    /\ UNCHANGED <<manager, assignedIpv4, refused, crashed, enabled, registry, group>>

\* run() sets mEnabled, whether or not terminate() came before.
Begin(h) == Step(h, "STARTED", "ACCEPT")

\* A connection is accepted; a closed socket throws, and the loop goes on.
Accept(h) == handlers[h].open /\ Step(h, "ACCEPT", "RECEIVE")

\* The packet is passed on, or lost with an exception, and the connection closed.
PassOn(h) == Step(h, "RECEIVE", "ACCEPT")

End(h) == ~handlers[h].enabled /\ Step(h, "ACCEPT", "ENDED")

Next ==
    \/ \E ip \in Addresses : Join(ip)
    \/ Leave
    \/ Announce \/ Refuse \/ Withdraw
    \/ Callback
    \/ Enable \/ Disable
    \/ ConnectedAsBefore
    \/ \E binds \in BOOLEAN : Connected(binds)
    \/ Disconnected
    \/ \E h \in DOMAIN handlers : Begin(h) \/ Accept(h) \/ PassOn(h) \/ End(h)

Spec == Init /\ [][Next]_vars

-----------------------------------------------------------------------------

\* No broadcast is under way.
Informed == ~crashed /\ inbox = <<>>

\* "When enabled, it reacts to changes in the connection status to a Wi-Fi
\* Direct Group" (OpportunisticFaceManager.java:75): a device in a Group listens
\* on the address it has there, whatever it was told before and however late,
\* unless the socket was refused on that address.
ListensInGroup ==
    /\ Informed /\ manager = "ON" /\ address # NoAddress /\ ~refused
    => /\ enabled
       /\ handlers[Connector].open /\ handlers[Connector].ip = address

\* No socket stays open on an address that the device has given up, nor after
\* the manager was disabled.
NoStraySocket ==
    Informed =>
        \A h \in DOMAIN handlers :
            handlers[h].open => manager = "ON" /\ handlers[h].ip = address

\* Once the NsdManager has carried out what it was asked for, it announces no
\* address where this device does not listen, though mRegistered is written by
\* the main thread and by late calls of the listener.
NoStaleAnnouncement ==
    /\ Informed /\ callbacks = <<>> /\ listener \in {"FREE", "REGISTERED"}
    /\ announced # NoAddress
    => enabled /\ handlers[Connector].ip = announced

=============================================================================
