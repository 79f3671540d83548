---------------------------- MODULE FaceManager ----------------------------
(***************************************************************************)
(* The Java OpportunisticFaceManager between its two observables and the   *)
(* face table of the forwarding daemon: a peer that the                    *)
(* OpportunisticPeerTracker reports is given a face, and the face goes up  *)
(* and down with the peer's service as the NsdServiceDiscoverer tells.     *)
(*                                                                         *)
(* Notifications are calls, so a step of the discovery and the manager's   *)
(* reaction to it are one action here.  The daemon makes a new manager and *)
(* a new native daemon each time it starts.  It deregisters the manager of *)
(* the previous session from the discoverer but not from the peer tracker, *)
(* and transfers of that session may still end: the state of the managers  *)
(* is indexed by session, and the latest is the current one.  A connection *)
(* that a session accepted and that outlasts it is left out.               *)
(***************************************************************************)
EXTENDS NsdDiscovery

CONSTANT
    NoChannel       \* no entry in mOppChannels

ASSUME ChannelAssumption == NoChannel \notin Hosts \cup {NoHost}

VARIABLES           \* of the manager of each session
    peers,          \* the keys of mUmobilePeers
    faceIds,        \* mOppFaceIds, 0 for a peer without an entry
    oppChannels     \* the host of the entry in mOppChannels

VARIABLES
    known,          \* the keys of mUmobileServices of the current manager, whose
                    \* values are the discoverer's
    faces,          \* opportunistic faces of the native FaceTable, by FaceId
    crashed         \* an exception nobody catches ended the process

managers == <<peers, faceIds, oppChannels>>
vars == <<nsdVars, managers, known, faces, crashed>>

Sessions == 1 .. MaxSessions
FaceType == [peer : Services, state : {"DOWN", "UP"}, host : Hosts \cup {NoHost}]

\* The type of every variable.
FaceTypeOK ==
    /\ NsdTypeOK
    /\ peers \in [Sessions -> SUBSET Services]
    /\ known \subseteq Services
    /\ faceIds \in [Sessions -> [Services -> Nat]]
    /\ oppChannels \in [Sessions -> [Services -> Hosts \cup {NoHost, NoChannel}]]
    /\ faces \in Seq(FaceType)
    /\ crashed \in BOOLEAN

-----------------------------------------------------------------------------
(* Plausible bugs in the helpers below, for checking the properties.       *)

LeftUp(table, id) == table
NeverRecorded(uuids, u) == uuids
FirstFaceId(table) == 1
KeepChannel(m, u) ==
    /\ faces' = IF faceIds[m][u] \in DOMAIN faces
                THEN [faces EXCEPT ![faceIds[m][u]].state = "DOWN"] ELSE faces
    /\ UNCHANGED oppChannels

-----------------------------------------------------------------------------

NewFace(u) == [peer |-> u, state |-> "DOWN", host |-> NoHost]

\* jniBringUpFace and jniBringDownFace, on the face table they find.
Raised(table, id, host) ==
    IF id \in DOMAIN table /\ table[id].state = "DOWN"
    THEN [table EXCEPT ![id].state = "UP", ![id].host = host]
    ELSE table
Lowered(table, id) ==
    IF id \in DOMAIN table /\ table[id].state = "UP"
    THEN [table EXCEPT ![id].state = "DOWN"]
    ELSE table

\* mUmobilePeers.put and mUmobileServices.put
Recorded(uuids, u) == uuids \cup {u}

\* The FaceId that afterFaceAdded is told of.
FaceIdOf(table) == Len(table)

\* A channel is made unless there is one, to the address the service has now.
BringUpFace(u) ==
    LET id == faceIds[sessions][u]
        host == services'[u].host
    IN  IF id # 0 /\ oppChannels[sessions][u] = NoChannel
        THEN /\ oppChannels' = [oppChannels EXCEPT ![sessions][u] = host]
             /\ faces' = Raised(faces, id, host)
        ELSE UNCHANGED <<oppChannels, faces>>

\* The manager of session m takes the face down by the FaceId it knows.
BringDownFace(m, u) ==
    IF faceIds[m][u] # 0 /\ oppChannels[m][u] # NoChannel
    THEN /\ oppChannels' = [oppChannels EXCEPT ![m][u] = NoChannel]
         /\ faces' = Lowered(faces, faceIds[m][u])
    ELSE UNCHANGED <<oppChannels, faces>>

\* updateService of the current manager, told of u by the discoverer, which it
\* observes while the daemon runs.
Notified(u) ==
    /\ IF ~enabled THEN UNCHANGED <<oppChannels, faces>>
       ELSE IF services'[u].status = "AVAILABLE" THEN BringUpFace(u)
       ELSE BringDownFace(sessions, u)
    /\ known' = IF enabled THEN Recorded(known, u) ELSE known
    /\ UNCHANGED <<peers, faceIds>>

\* identifyFaceIdFromHostAddress: the FaceId of a service at the address of the
\* sender, of any if there are several, for the order of a map decides.  Without
\* an entry in mOppFaceIds it is 0.
Recipients(host) ==
    {faceIds[sessions][u] : u \in {v \in known : services[v].host = host}}

\* Every manager there ever was observes the peer tracker.
Strangers(u) == {m \in 1 .. sessions : u \notin peers[m]}

-----------------------------------------------------------------------------

FaceInit ==
    /\ NsdInit
    /\ peers = [m \in Sessions |-> {}]
    /\ known = {}
    /\ faceIds = [m \in Sessions |-> [u \in Services |-> 0]]
    /\ oppChannels = [m \in Sessions |-> [u \in Services |-> NoChannel]]
    /\ faces = <<>> /\ crashed = FALSE

\* onStartCommand and onDestroy: the native daemon comes and goes with the
\* session.  The discoverer stops with a notification without a service, and
\* the manager ignores that.
StartDaemon ==
    /\ Enable
    /\ faces' = <<>> /\ known' = {}
    /\ UNCHANGED managers

StopDaemon ==
    /\ Disable
    /\ faces' = <<>> /\ known' = {}
    /\ UNCHANGED managers

\* The peer tracker reports u.  Every manager that does not know u asks for a
\* face; the native daemon tells only the current one of the faces it added.
PeerUpdate(u) ==
    /\ enabled
    /\ faces' = faces \o [i \in 1 .. Cardinality(Strangers(u)) |-> NewFace(u)]
    /\ faceIds' = IF Strangers(u) = {} THEN faceIds
                  ELSE [faceIds EXCEPT ![sessions][u] = FaceIdOf(faces')]
    /\ peers' = [m \in Sessions |-> IF m \in 1 .. sessions
                                    THEN Recorded(peers[m], u) ELSE peers[m]]
    /\ UNCHANGED <<nsdVars, known, oppChannels>>

\* A ConnectionTask of a channel that the manager of session m made for u fails.
TransferFails(m, u) ==
    /\ BringDownFace(m, u)
    /\ UNCHANGED <<nsdVars, peers, known, faceIds>>

\* The ConnectionHandler has read a packet from an address, and passes it to the
\* face it is for, or to none if it finds no service.  A service without a face
\* is a null that is unboxed.
Received(host) ==
    /\ enabled
    /\ IF Recipients(host) = {} THEN UNCHANGED crashed
       ELSE \E id \in Recipients(host) : crashed' = (id = 0)
    /\ UNCHANGED <<nsdVars, managers, known, faces>>

\* Discovery steps that the manager is not told of, or ignores.
Unnoticed ==
    /\ \/ Connected
       \/ Disconnected
       \/ DiscoveryStopped
       \/ \E u \in Services : ServiceFound(u)
       \/ \E i \in DOMAIN flight : ResolveFailed(i)
    /\ UNCHANGED <<managers, known, faces>>

LossNoticed(u) == ServiceLost(u) /\ Notified(u)

ResolutionNoticed(i, host, named) ==
    Resolved(i, host, named) /\ Notified(flight[i])

Told ==
    \/ StartDaemon
    \/ StopDaemon
    \/ Unnoticed
    \/ \E u \in Services : PeerUpdate(u) \/ LossNoticed(u)
    \/ \E m \in 1 .. sessions, u \in Services : TransferFails(m, u)
    \/ \E i \in DOMAIN flight, host \in Hosts, named \in BOOLEAN :
            ResolutionNoticed(i, host, named)

FaceNext ==
    /\ ~crashed
    /\ \/ Told /\ UNCHANGED crashed
       \/ \E host \in Hosts : Received(host)

FaceSpec == FaceInit /\ [][FaceNext]_vars

-----------------------------------------------------------------------------

\* The current manager's books agree with the face table through restarts and
\* late transfers: a FaceId it knows is that of a face of the peer, and a face
\* that is up is the one it knows for the peer, with the channel it keeps.
BooksAgree ==
    enabled =>
        /\ \A u \in Services : faceIds[sessions][u] # 0 =>
            /\ faceIds[sessions][u] \in DOMAIN faces
            /\ faces[faceIds[sessions][u]].peer = u
        /\ \A id \in DOMAIN faces : faces[id].state = "UP" =>
            /\ faceIds[sessions][faces[id].peer] = id
            /\ oppChannels[sessions][faces[id].peer] = faces[id].host
            /\ faces[id].host \in Hosts

\* While the daemon runs, the loss of a service leaves every face of its peer
\* down, whichever session, channel or duplicate of the face it is.
LossBringsDown ==
    [][\A u \in listed \ listed' : enabled /\ LossNoticed(u) =>
        \A id \in DOMAIN faces' : faces'[id].peer = u => faces'[id].state = "DOWN"
      ]_vars

\* In the first session, before there is an older manager to interfere, the face
\* of a peer is up exactly while the manager keeps a channel for the peer.
ChannelIffUp ==
    enabled /\ sessions = 1 => \A id \in DOMAIN faces :
        faces[id].state = "UP" <=> oppChannels[1][faces[id].peer] # NoChannel

\* In the first session, a resolution that makes the service of a known peer
\* available finds or brings its face up, whatever failed before.
ResolutionBringsUp ==
    [][enabled /\ sessions = 1 =>
        \A i \in DOMAIN flight :
            LET u == flight[i] IN
            /\ faceIds[1][u] # 0
            /\ services'[u].status = "AVAILABLE"
            /\ \E host \in Hosts, named \in BOOLEAN :
                    ResolutionNoticed(i, host, named)
            => faces'[faceIds[1][u]].state = "UP"]_vars

\* A face that is up for sending is open for receiving as well: a packet from the
\* address that its channel goes to, if the peer is still there, may be taken for
\* it, through restarts and reports in any order.  And a packet ends the process
\* only if a service is known whose peer was never reported to this manager.
HeardWhenUp ==
    /\ enabled => \A id \in DOMAIN faces :
        LET face == faces[id] IN
        face.state = "UP" /\ services[face.peer].host = face.host
            => id \in Recipients(face.host)
    /\ crashed => ~ known \subseteq peers[sessions]

\* "If the peer is unknown ... we request the creation of a Face for it"
\* (OpportunisticFaceManager.java:205): a peer has one face.
OneFacePerPeer ==
    \A i, j \in DOMAIN faces : faces[i].peer = faces[j].peer => i = j

=============================================================================
