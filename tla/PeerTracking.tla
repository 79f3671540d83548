---------------------------- MODULE PeerTracking ----------------------------
(***************************************************************************)
(* Tracking of the NDN-Opp devices within Wi-Fi Direct range: the Java     *)
(* OpportunisticPeerTracker with its WifiP2pDeviceDiscoverer,              *)
(* WifiP2pServiceDiscoverer and WifiP2pServiceRegistrar.  Devices are      *)
(* known by MAC address, services tell which UUID a device carries, and a  *)
(* peer is a UUID with the device that carries it.                         *)
(*                                                                         *)
(* Android's WifiP2pManager is external.  It tells of its state through    *)
(* broadcasts, which the main thread receives some time later, in order.   *)
(* A receiver that registers is sent the last one of each kind first.      *)
(***************************************************************************)
EXTENDS Naturals, Sequences, FiniteSets

CONSTANTS
    Macs,           \* the devices around
    Uuids,          \* the UUIDs they may carry, this device's own excluded
    NoUuid,         \* the device told of no service
    NoMac,          \* the UUID is no peer
    MaxInbox        \* bound on the broadcasts under way

ASSUME NoneAssumption == NoUuid \notin Uuids /\ NoMac \notin Macs
ASSUME InboxAssumption == MaxInbox \in Nat

VARIABLES
    enabled,        \* mEnabled of the tracker, discoverers and registrar
    discovering,    \* mDiscovering of the device discoverer
    advertised,     \* the registrar's local service is registered
    requested,      \* the service discoverer's request of this session is
                    \* registered
    devices,        \* status of each device known to the device discoverer
    services,       \* the UUID of the service each device told of
    peers           \* mPeers: the device object of each peer

VARIABLES           \* the WifiP2pManager
    wifi,           \* Wi-Fi Direct is on
    joined,         \* this device is in a Group
    scanning,       \* it looks for devices
    expired,        \* it stopped looking of its own accord
    inbox           \* broadcasts under way to the main thread

control == <<discovering, advertised, requested>>
records == <<devices, services, peers>>
manager == <<wifi, joined, scanning, expired, inbox>>
vars    == <<enabled, control, records, manager>>

\* A peer shows a device by an object of the discoverer.  Each scan makes new
\* objects for the devices it reports and marks the old ones as lost, so that
\* an object is either the one held for its MAC address now or LOST.
NoPeer    == [mac |-> NoMac, held |-> FALSE]
PeerType  == [mac : Macs, held : BOOLEAN] \cup {NoPeer}
Events    == {"ON", "OFF", "STARTED", "STOPPED", "LEFT"}

\* The type of every variable.
TrackingTypeOK ==
    /\ enabled \in BOOLEAN
    /\ discovering \in BOOLEAN /\ advertised \in BOOLEAN /\ requested \in BOOLEAN
    /\ devices \in [Macs -> {"ABSENT", "FOUND", "LOST"}]
    /\ services \in [Macs -> Uuids \cup {NoUuid}]
    /\ peers \in [Uuids -> PeerType]
    /\ wifi \in BOOLEAN /\ joined \in BOOLEAN
    /\ scanning \in BOOLEAN /\ expired \in BOOLEAN
    /\ inbox \in Seq(Events)

-----------------------------------------------------------------------------
(* Plausible bugs in the helpers below, for checking the properties.       *)

OnlyNew(known, u, mac) ==
    IF known[u] = NoPeer THEN [known EXCEPT ![u] = [mac |-> mac, held |-> TRUE]]
    ELSE known
OnlyKnown(known, u, mac) ==
    IF known[u] = NoPeer THEN known
    ELSE [known EXCEPT ![u] = [mac |-> mac, held |-> TRUE]]
KeepLost(known, scan) ==
    [m \in Macs |-> IF m \in scan THEN "FOUND" ELSE known[m]]
LeaveAdvertised(yes) == yes
SeenOnce(event, now) == now \/ event = "STARTED"

-----------------------------------------------------------------------------

\* updatePeer, for a new peer or a known one.
Updated(known, u, mac) == [known EXCEPT ![u] = [mac |-> mac, held |-> TRUE]]

\* updatePeerList: no object equals a new one, so that all are marked as lost
\* before the new ones take the place of those the scan reports.
Scanned(known, scan) ==
    [m \in Macs |-> IF m \in scan THEN "FOUND"
                    ELSE IF known[m] = "ABSENT" THEN "ABSENT" ELSE "LOST"]

\* unregister() of the registrar, when it is disabled.
Withdrawn(yes) == FALSE

\* WIFI_P2P_DISCOVERY_CHANGED_ACTION is all that changes mDiscovering.
Discovering(event, now) ==
    IF event \in {"STARTED", "STOPPED"} THEN event = "STARTED" ELSE now

\* The devices that tell of a UUID and are known.
Carriers(known, told, u) == {m \in Macs : known[m] # "ABSENT" /\ told[m] = u}

PeerStatus(u) ==
    IF peers[u] = NoPeer THEN "ABSENT"
    ELSE IF peers[u].held THEN devices[peers[u].mac] ELSE "LOST"

Init ==
    /\ enabled = FALSE
    /\ discovering = FALSE /\ advertised = FALSE /\ requested = FALSE
    /\ devices = [m \in Macs |-> "ABSENT"]
    /\ services = [m \in Macs |-> NoUuid]
    /\ peers = [u \in Uuids |-> NoPeer]
    /\ wifi \in BOOLEAN /\ joined = FALSE
    /\ scanning = FALSE /\ expired = FALSE
    /\ inbox = <<>>

-----------------------------------------------------------------------------
(* The WifiP2pManager.                                                     *)

\* Broadcasts reach the receivers that are registered.
Broadcast(events) ==
    /\ Len(inbox) + Len(events) <= MaxInbox
    /\ inbox' = IF enabled THEN inbox \o events ELSE inbox

\* It stops looking for devices, and says so.
Ended == IF scanning THEN <<"STOPPED">> ELSE <<>>

WifiOn ==
    /\ ~wifi
    /\ wifi' = TRUE
    /\ Broadcast(<<"ON">>)
    /\ UNCHANGED <<enabled, control, records, joined, scanning, expired>>

WifiOff ==
    /\ wifi
    /\ wifi' = FALSE /\ joined' = FALSE
    /\ scanning' = FALSE /\ expired' = FALSE
    /\ Broadcast(Ended \o (IF joined THEN <<"LEFT">> ELSE <<>>) \o <<"OFF">>)
    /\ UNCHANGED <<enabled, control, records>>

\* Joining a Group ends the search for devices.
JoinGroup ==
    /\ wifi /\ ~joined
    /\ joined' = TRUE
    /\ scanning' = FALSE /\ expired' = FALSE
    /\ Broadcast(Ended)
    /\ UNCHANGED <<enabled, control, records, wifi>>

LeaveGroup ==
    /\ joined
    /\ joined' = FALSE
    /\ Broadcast(<<"LEFT">>)
    /\ UNCHANGED <<enabled, control, records, wifi, scanning, expired>>

\* The search for devices ends after a time.
Expire ==
    /\ scanning
    /\ scanning' = FALSE /\ expired' = TRUE
    /\ Broadcast(Ended)
    /\ UNCHANGED <<enabled, control, records, wifi, joined>>

\* discoverPeers, refused while Wi-Fi Direct is off or there is a Group.
DiscoverPeers(rest) ==
    /\ scanning' = (scanning \/ (wifi /\ ~joined))
    /\ expired' = (expired /\ ~scanning')
    /\ inbox' = IF scanning' /\ ~scanning THEN Append(rest, "STARTED") ELSE rest

\* stopPeerDiscovery
StopPeerDiscovery(rest) ==
    /\ scanning' = FALSE
    /\ UNCHANGED expired
    /\ inbox' = IF scanning THEN Append(rest, "STOPPED") ELSE rest

-----------------------------------------------------------------------------
(* The tracker.                                                            *)

\* enable: three receivers are registered, each for the last broadcasts.
Enable ==
    /\ ~enabled
    /\ enabled' = TRUE
    /\ inbox' = << IF wifi THEN "ON" ELSE "OFF",
                   IF scanning THEN "STARTED" ELSE "STOPPED" >>
                \o (IF joined THEN <<>> ELSE <<"LEFT">>)
    /\ UNCHANGED <<control, records, wifi, joined, scanning, expired>>

\* disable: the search ends if it was seen to start.  What is under way is not
\* received.  The service discoverer leaves its request behind, for a channel
\* whose listener it took away.
Disable ==
    /\ enabled
    /\ enabled' = FALSE
    /\ scanning' = (scanning /\ ~discovering)
    /\ inbox' = <<>>
    /\ advertised' = Withdrawn(advertised)
    /\ requested' = FALSE
    /\ UNCHANGED <<discovering, records, wifi, joined, expired>>

\* start() and stop() of the device discoverer.
Start(rest) ==
    IF discovering THEN inbox' = rest /\ UNCHANGED <<scanning, expired>>
    ELSE DiscoverPeers(rest)
Stop(rest) ==
    IF discovering THEN StopPeerDiscovery(rest)
    ELSE inbox' = rest /\ UNCHANGED <<scanning, expired>>

\* The receivers take the next broadcast.
Receive(event) ==
    /\ enabled /\ inbox # <<>> /\ event = Head(inbox)
    /\ discovering' = Discovering(event, discovering)
    /\ UNCHANGED <<enabled, records, wifi, joined>>

ReceiveOn ==
    /\ Receive("ON")
    /\ Start(Tail(inbox))
    /\ advertised' = TRUE /\ requested' = TRUE

ReceiveOff ==
    /\ Receive("OFF")
    /\ Stop(Tail(inbox))
    /\ advertised' = FALSE /\ requested' = FALSE

ReceiveDiscovery ==
    /\ Receive("STARTED") \/ Receive("STOPPED")
    /\ inbox' = Tail(inbox)
    /\ UNCHANGED <<advertised, requested, scanning, expired>>

ReceiveLeft ==
    /\ Receive("LEFT")
    /\ Start(Tail(inbox))
    /\ UNCHANGED <<advertised, requested>>

\* A new list of devices: the tracker goes through all known devices in the
\* order of a hash table, and of the carriers of a UUID the last one stays.
PeersChanged(scan, last) ==
    /\ enabled
    /\ devices' = Scanned(devices, scan)
    /\ \A u \in Uuids :
        LET carriers == Carriers(devices', services, u)
        IN  last[u] \in IF carriers = {} THEN {NoMac} ELSE carriers
    /\ peers' = [u \in Uuids |->
                    IF last[u] # NoMac THEN Updated(peers, u, last[u])[u]
                    ELSE [peers[u] EXCEPT !.held = @ /\ peers[u].mac \notin scan]]
    /\ UNCHANGED <<enabled, control, services, manager>>

\* A device tells of its service: the peer is updated if the device is known.
ServiceFound(m, u) ==
    /\ enabled /\ requested
    /\ services' = [services EXCEPT ![m] = u]
    /\ peers' = IF devices[m] # "ABSENT" THEN Updated(peers, u, m) ELSE peers
    /\ UNCHANGED <<enabled, control, devices, manager>>

Next ==
    \/ WifiOn \/ WifiOff \/ JoinGroup \/ LeaveGroup \/ Expire
    \/ Enable
    \/ Disable
    \/ ReceiveOn \/ ReceiveOff \/ ReceiveDiscovery \/ ReceiveLeft
    \/ \E scan \in SUBSET Macs, last \in [Uuids -> Macs \cup {NoMac}] :
            PeersChanged(scan, last)
    \/ \E m \in Macs, u \in Uuids : ServiceFound(m, u)

Spec == Init /\ [][Next]_vars

-----------------------------------------------------------------------------

\* updateDevice and updateService each say "This implementation works no matter
\* which is detected first; device or service" (OpportunisticPeerTracker.java:
\* 124, 139): a UUID that a known device told of is a peer.
EitherOrder ==
    \A u \in Uuids : Carriers(devices, services, u) # {} => peers[u] # NoPeer

\* The tracker keeps peers "with up-to-date status, UUID and MAC address"
\* (OpportunisticPeerTracker.java:53): a peer that shows the one device that
\* told of its UUID has the status of that device, through any order of scans
\* and services and though each scan replaces the objects that peers refer to.
UpToDate ==
    \A u \in Uuids :
        peers[u] # NoPeer /\ {m \in Macs : services[m] = u} = {peers[u].mac}
        => PeerStatus(u) = devices[peers[u].mac]

\* After a scan, a peer whose UUID no known device carries any more (its device
\* told of another UUID since) is not within range, though the tracker never
\* updates that peer again.
NoGhosts ==
    [][devices' # devices =>
        \A u \in Uuids :
            Carriers(devices', services', u) = {} => PeerStatus(u)' # "FOUND"]_vars

\* The device discoverer looks for devices whenever it can: once it has seen
\* all broadcasts, a device with Wi-Fi Direct on and without a Group is looking,
\* unless Android gave up.  mDiscovering, by which start() decides, is late.
SearchesWhenFree ==
    enabled /\ inbox = <<>> /\ wifi /\ ~joined /\ ~expired => scanning

\* The NDN-Opp service is advertised exactly while Wi-Fi Direct is on and the
\* registrar is enabled, through late broadcasts and restarts.
AdvertisedWhileOn ==
    inbox = <<>> => (advertised <=> enabled /\ wifi)

=============================================================================
