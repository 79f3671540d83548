# NDN-Opp in TLA+

NDN-Opp runs the NDN Forwarding Daemon (NFD) inside an Android service and
lets it exchange packets with the phones nearby over Wi-Fi Direct. Peers come
and go, so that a face towards a peer queues its packets while the peer is out
of reach and sends them, one TCP connection each, when it is back.

This directory holds a TLA+ description of the parts of NDN-Opp that make this
work, checked with TLC and, where said so, proved with TLAPS. NFD is a git
submodule that is absent from the tree. Of ndn-cxx the tree has the headers and
one source file of its own, the management dispatcher. Android is not part of
it either. All three are modelled only as far as the code calls them.

Paths are short for `src/app/src/main/java/pt/ulusofona/copelabs/ndn/android/`
(`.java`) and `src/app/src/main/jni/android/` (`.cpp`, `.hpp`).

## 1. The system

| Component | State it keeps | Operations | Runs on |
|---|---|---|---|
| `OppTransport` (`ndn-fwd/daemon/face/opp-transport.cpp`), one per opportunistic face | transport state, `m_sendQueue` | `doSend`, `onSendComplete`, `commuteState`, `removePacket`, `handleReceive`, `doClose` | whichever thread calls: the I/O thread, the `ConnectionHandler`, the main thread, the NsdManager's thread |
| JNI bridge (`nfd-jni.cpp`) | `g_nfd`, `g_nrd`, `m_opportunistic_channels` (a JNI global reference per FaceId) | `jniStart/Stop`, `jniCreateFace`, `jniBringUpFace`, `jniBringDownFace`, `jniSendComplete`, `jniReceiveOnFace`, `jniAddRoute`, `performSend`, the PIT callbacks | as above |
| `OpportunisticChannel` (`umobile/`) | address of the peer | `send` makes a `ConnectionTask`, which reports success or failure | AsyncTask's serial executor, then the main thread |
| `OpportunisticFaceManager` (`umobile/`) | `mUmobilePeers`, `mUmobileServices`, `mOppFaceIds`, `mOppChannels`, the listening socket | reacts to the peer tracker, the service discoverer, added faces and connection broadcasts; its `ConnectionHandler` receives packets | main thread, NsdManager's thread, executor, own thread |
| `NsdServiceDiscoverer`, `NsdServiceResolver`, `NsdService` (`umobile/nsd/`, `models/`) | `mServices`, `mEnabled`, `mStarted`, `mAssignedIpv4`; `mQueue`, `mResolutionPending` | found, lost, resolved, Group joined or left, enable, disable | main thread and NsdManager's thread |
| `NsdServiceRegistrar` | `mRegistered`, the registration | `register`, `unregister` | main thread |
| `OpportunisticPeerTracker`, `WifiP2pDeviceDiscoverer`, `WifiP2pServiceDiscoverer` (`umobile/wifip2p/`) | devices by MAC, services by MAC, peers by UUID, `mDiscovering` | peer list, service response, Wi-Fi Direct state broadcasts | main thread |
| `WifiP2pServiceRegistrar` | `mEnabled`, the local service description | enable, disable, Wi-Fi on and off | main thread |
| `OpportunisticConnectivityManager` (`umobile/wifip2p/`), one per fragment (`ui/fragment/OpportunisticPeerTracking`) | `mEnabled`, `mConnected` | `join` elects a Group Owner among the peers and connects, `leave` | main thread |
| `OpportunisticDaemon` | `current` (STARTED or STOPPED), `mFacetable` | `onStartCommand`, `onDestroy`, the binder | main thread |
| Native daemon (`ndn-fwd/daemon/nfd-android.cpp`, `core/global-io.cpp`, `core/scheduler.cpp`) | NFD's tables, the global I/O service and scheduler | `initialize`, `createFace`, `destroyFace`, `cleanup` | I/O thread and callers of the JNI |
| `Dispatcher` (`ndn-cxx/mgmt/`) | handlers, top prefixes, streams, in-memory storage; filters in its Face | registration, top prefixes, notifications; answers commands, datasets and streams | I/O thread; notifications also from threads that add faces |
| User interface (`ui/`), table records (`models/`), logging | what is displayed | none of the core | main thread |

How they interact:

    Wi-Fi Direct --> PeerTracker --(peer)--> FaceManager --createFace--> OppFactory, FaceTable
    NsdManager --> Discoverer, Resolver --(service)--> FaceManager --bringUp/Down--> JNI --> OppTransport
    Forwarder --doSend--> OppTransport --performSend--> JNI --> OpportunisticChannel --TCP--> peer
    OpportunisticChannel --sendComplete--> JNI --onSendComplete--> OppTransport
    OpportunisticChannel --bringDownFace--> FaceManager          (a transfer failed)
    buttons --join, leave--> ConnectivityManager --connect--> Wi-Fi Direct Group --broadcast--> FaceManager
    Forwarder <--Interests, Data--> Face --> Dispatcher --> NFD's managers
    peer --TCP--> ConnectionHandler --receiveOnFace--> JNI --> OppTransport --> Forwarder

What is hard about it:

* No lock protects the queue of a face, the channels or the services, and four
  threads reach them.
* An acknowledgement carries a FaceId and a flag. Nothing tells which packet, or
  which channel, it is about.
* Two discoveries, of devices and of services, report in any order; both keep
  reporting for a while after they were told to stop.
* The discoverer, the resolver and the peer tracker are static objects that
  outlive the daemon. The face manager and the native daemon do not, and
  FaceIds start again with each native daemon.
* Failure is answered by taking the face down. Only the next discovery event
  brings it up again.

What makes each part correct:

* *Sending side*: packets stay in order, none is released without having been
  sent, a face that is up never stalls, a channel is referenced exactly as long
  as it is in use.
* *Discovery*: the resolver never waits for an answer nobody owes it, resolves
  one service at a time, serves every service that waits; a service's record
  says what was last heard of it.
* *Face manager*: one face per peer; the loss of a service takes the peer's face
  down and a resolution brings it up, with a channel to its address; its records
  agree with the native face table, through restarts; a face that is up gets
  what its peer sends.
* *Peer tracking*: a peer's status is that of its device.
* *Reception*: the service is announced exactly while the socket listens; a
  packet is given to the face of the peer that sent it.
* *Connectivity*: devices that see the same elect the same Group Owner and do
  not wait for each other; a device can leave the Group it asked for and try
  again when it was refused.
* *Dispatcher*: an Interest has one handler, notifications are numbered without
  a gap, and whoever asks for what there is gets it.
* *Lifecycle*: what one session leaves behind does not disturb the next.

`PROJECT.json` lists the places where each of these could go wrong
("hazards"), with the properties that would tell.

## 2. Modules

| Module | Models | Runs |
|---|---|---|
| `PacketRelay` | the abstract promise of a face: a store-and-forward relay that is reliable while calm | checked through `OppTransport` |
| `OppTransport` | `OppTransport`, the JNI functions around it, `OpportunisticChannel`; one face, every handler in one step | `opp_transport`, `opp_transport_ack` |
| `OppTransportProofs` | proofs about it | |
| `FaceThreads` | the queue and the channel of one face, thread by thread | `face_threads`, `face_two_forwarders` |
| `FaceThreadsProofs` | proofs about it | |
| `NsdDiscovery` | discoverer, resolver and service records | `nsd_discovery` |
| `FaceManager` | `EXTENDS NsdDiscovery` with the face manager, the face table and the daemon's sessions | `face_manager`, `face_leaked` |
| `FaceManagerProofs` | proofs about it and about `NsdDiscovery` | |
| `PeerTracking` | peer tracker, device and service discoverer, service registrar (Wi-Fi Direct) | `peer_tracking` |
| `PeerTrackingProofs` | proofs about it | |
| `Connectivity` | the connectivity managers of several devices, and the Groups that Android makes of their requests | `connectivity` |
| `ConnectivityProofs` | proofs about it | |
| `Reception` | listening socket, its threads and its registration with the NsdManager | `reception` |
| `ReceptionProofs` | proofs about it | |
| `ForwarderLifecycle` | `jniStart`, `jniStop`, the global I/O service and scheduler, the forwarder's thread, JNI calls of other threads | `lifecycle` |
| `LifecycleProofs` | proofs about it | |
| `Dispatcher` | the management dispatcher, its Face's filter table and its storage | `dispatcher` |
| `DispatcherProofs` | proofs about it | |

The `MC...` modules give the constants their values for TLC.

### OppTransport

`sendQueue` is `m_sendQueue`; packets are named by the order in which `doSend`
accepted them. `tasks` are the `ConnectionTask`s that the serial executor has
not finished, `results` the `onPostExecute` messages on the main thread.
`channel`, `attached` and `refs` are the three records of the channel in use:
the entry in the Java map, the entry in `m_opportunistic_channels`, the global
references. `TakeDown` removes the first and the third and leaves the second
behind, as the code does.

| Action | Code |
|---|---|
| `DoSend` | `doSend`, with the `sendNextPacket` and `performSend` it may call |
| `RemovePacket` | `beforePitEntryRemove`, `removePacket` |
| `BringUp`, `BringDown` | `bringUpFace`, `bringDownFace` of the face manager and the JNI functions of that name, with `commuteState` |
| `TaskSucceeds`, `TaskFails` | `doInBackground`, which takes the face down itself when it fails |
| `SendComplete`, `SendCompleteUnderflow` | `onPostExecute`, `jniSendComplete`, `onSendComplete`; `pop_front` of an empty deque is undefined, and the model stops there |
| `Close` | `jniDestroyFace`, `doClose` |

`calm` is a history variable. It goes FALSE when the head changes or a new
channel is attached under a transfer, and TRUE again when no transfer and no
success is left. `CalmTransfers` and the strong half of `PacketRelay` are
promised for calm faces only, because an acknowledgement that names no packet
can promise no more. The `opp_transport_ack` run shows what happens otherwise.
Nonces are unique, so that a withdrawal finds the packet it means. A failed
`NewByteArray` is not modelled. AsyncTask's executor is shared by the whole
application, which delays the transfers of this face and does nothing else.

### FaceThreads

`OppTransport` and `FaceManager` run every handler in one step, though nothing
in the code makes it so. This module says what that leaves out. A step ends
where the code has read something another thread may write; a handler that
reads and writes nothing shared in between is one step. A single operation of
the deque or of a map is one step too, which is more than the code ensures.
`pc` says where each thread is, `holds` what it has read. The `Forwarders` run
`doSend` (the I/O thread, and the `ConnectionHandler` that forwards what it
received), `Main` the `onPostExecute` messages, `Discovery` the notifications
of the service discoverer and `Executor` the transfers, which take the face
down when they fail.

| Action | Code |
|---|---|
| `Enqueue`, `StartIfFirst` | the two halves of `doSend` around the size of the queue |
| `SendNext`, `TakeFront` | `sendNextPacket`: the test of the queue, the read of its head |
| `Perform`, `Call` | `performSend`: find the entry, call the channel |
| `Pop` | `onSendComplete` up to the next packet |
| `PutChannel`, `Attach`, `Raise` | `bringUpFace`, the entry in the native map, `commuteState(UP)` |
| `ServiceLost`, `TaskFails`, `RemoveChannel`, `SeeUp`, `Lower`, `Release` | `bringDownFace` of two threads, with the JNI function of that name in three steps |

With one forwarder the face still sends all it has; an entry is found wherever
it is looked for, however many forward. With two, a wake-up is lost
(`face_two_forwarders`). A `Release` that comes after another thread's `Attach`
deletes the new channel's reference; no property says that it does not.

### NsdDiscovery

`flight` are the resolutions the NsdManager was asked for and has not answered.
It answers each once, in any order, whether or not the resolver was disabled
in between (`leftover`). `discovering` outlasts `started`, because the
NsdManager stops some time after it was told to. `Connected` and `Disconnected`
are the two cases of the Wi-Fi Direct broadcast. `Resolved(i, host, named)`
includes the discoverer's reaction: an answer that carries the device's own
address is dropped if a reverse lookup of it gives no name (`~named`). Joining
a Group before the NsdManager has released the listener makes it throw; the
model leaves that case out. The records are modelled by status and address.

### FaceManager

Notifications are synchronous calls, so that `LossNoticed` and
`ResolutionNoticed` are the discovery's step and the manager's reaction in one.
`Unnoticed` are the discovery's steps that notify nobody or send no service,
which the manager ignores. `faces` is the native face table. The manager of
each session has its own `peers`, `faceIds` and `oppChannels`, because the one
of an earlier session is still called: by the peer tracker it was never
deregistered from, and by its own transfers that fail late (`TransferFails`).
`jniStop` is modelled as immediate. The faces that NFD itself adds are left out.

`known` are the keys of `mUmobileServices`; its values are the discoverer's own
objects. `Received(host)` is what the `ConnectionHandler` does with a packet
from an address: `Recipients` are the FaceIds of the services at it. The map
gives them in the order of a hash table, so that any one may be taken. A service
whose peer was never reported has no entry in `mOppFaceIds`: the null is
unboxed, no one catches the exception, and the process ends (`crashed`). Whether
the handler still listens is `Reception`'s matter; a connection that one session
accepted and that outlasts it is left out. Leaving the Group is among the
`Unnoticed` steps: its one notification has no service and is ignored, so that
the faces stay up.

### PeerTracking

Broadcasts reach the main thread in order and late (`inbox`). The three
receivers are registered together, and each gets the last broadcast of each
kind at once, because those are sticky; `inbox` holds what all of them still
have to see. `mDiscovering` of the code is `discovering` and follows the
broadcasts, `scanning` is what the WifiP2pManager really does.

A peer refers to a device *object*. Each scan makes new objects and, comparing
objects, marks every old one as lost before it puts the new ones in place. An
object is therefore either the one held for its MAC address now or LOST, and
`peers` keeps the address and which of the two it is (`held`). The statuses
that Android reports are one, FOUND. `Macs` are the devices, which may change
the UUID they tell of. The order in which `update` goes through the devices is
that of a hash table: `PeersChanged` leaves open which carrier of a UUID comes
last. The tracker is static and keeps its records from session to session; its
`Disable` drops the receivers with what they had not seen.

| Action | Code |
|---|---|
| `Enable`, `Disable` | those of the tracker, with the three they call |
| `ReceiveOn`, `ReceiveOff`, `ReceiveDiscovery`, `ReceiveLeft` | the `onReceive` of the three event detectors |
| `PeersChanged` | `updatePeerList` and the tracker's `update` and `updateDevice` |
| `ServiceFound` | `onDnsSdServiceAvailable` and the tracker's `updateService` |
| `WifiOn`, `WifiOff`, `JoinGroup`, `LeaveGroup`, `Expire` | the WifiP2pManager |

### Connectivity

Several devices, each with its manager (`enabled`, `connected`), its view of the
others (`peers`) and its Android. The view is what `isGroupOwner` and
`hasGroupOwner` say of the devices in the tracker's map; it changes with a
`Scan` only, so that it ages between scans. `Role` has the reflection of
`convert` fail on some devices (`Blind`): these take a client for a free device.
UUIDs are numbers, compared as the code compares strings. The first owner in
the order of a hash table is any owner.

`requests` are the `connect()` calls that wait for their answer, which only says
whether Android will try (`Answer`); `negotiation` is the one it tries. It may
come to a Group (`Form`), with either of the two as its owner, or to nothing
(`Fail`); neither is reported to the manager, and no end of a Group is (`Drop`).
`from`, `mine` and `missed` are history: whose and which word a request was,
whether the Group came of the manager's last word, and what nobody told it of.
Each attached fragment has a new manager; the answers to the last one's requests
reach an object nobody uses (`"GONE"`).

| Action | Code |
|---|---|
| `Enable`, `Disable` | `onAttach`, `onDetach` of the fragment with the manager's functions |
| `Join` | the join button, `join`, `selectGroupOwner`; without effect when the device elects itself |
| `Leave` | the leave button, enabled in a Group, and `leave` |
| `Answer` | `afterConnect` |
| `Scan` | the tracker's map after `updatePeerList` |

`SameViewSameOwner` excepts views with several owners, of which the order of a
hash table takes one. The comment of `selectGroupOwner` (line 63) has the
highest UUID elected; the code takes the lowest, on every device.

### Dispatcher

Names are sequences, Data a name with a version and a number. The Dispatcher's
own records (`handlers`, `streams`, `tops`, `storage`) change at once; what it
asks of its Face waits in `posts` until the I/O service gets to it (`RunPost`),
so that `filters` lags behind. Data are put by a post as well: `outbound`. The
forwarder (`pit`, `inbound`, `outbound`) delivers an Interest to the filters
that match and a Data to the pending Interests it satisfies. `notes` are the
notifications made. `reached` are the pending Interests that the handler of a
dataset or a stream has had: the handler of a command does not ask the storage,
which may have a dataset of the very name from below a nested top prefix.
`Evicted` is what a full storage keeps, its newest entries.

| Action | Code |
|---|---|
| `AddHandler` | `addControlCommand`, `addStatusDataset`, `addNotificationStream` |
| `AddTopPrefix`, `RemoveTopPrefix` | those, with a post per handler |
| `PostNotification` | `postNotification`, `sendData` |
| `DeliverInterest` | `processInterestFilters` of the Face and the handler: `queryStorage` first for datasets and streams (`FromStorage`, `MakeDataset`, `Silent`), a response for commands (`Respond`) |
| `MarkStale` | the end of the freshness period in the storage |

Authorization and the handlers of NFD answer within the call, with yes, no or
silence. `addTopPrefix` is modelled without registering the prefix with the
forwarder: the only call in the tree asks for none (`nfd-android.cpp:75`). The
destructor is a `RemoveTopPrefix` of each. `postNotification` is one step of the
I/O thread, although nothing but that keeps the threads that add faces through
the JNI from being in it at the same time.

### Reception

One face manager from its creation on. `handlers` are the `ConnectionHandler`s
it made, each with its socket and where its thread is. `Receive` reads the
device's address when a broadcast arrives, as `extractIp` does, and not when
it was sent. `EnableService` and `DisableService` include the registrar.
`listener` is what the NsdManager does for the registrar's one listener,
`callbacks` the calls it still owes. Three things throw where nobody catches:
a null address, a registration while the listener is in use, the end of a
registration the NsdManager does not know. They end the process (`crashed`),
and the properties hold up to there. That a listener in use is refused is what
NsdManager does from Android 5 on. A change of address within a Group
unregisters and registers in one go, and so runs into it whenever the old
registration stands.

### ForwarderLifecycle

`g_nfd`, `g_nrd`, `g_scheduler` and `g_ioService` are the session that made the
object or the index of the service it runs on, 0 when null. `jniStart` is five
steps of the main thread, the clean-up that `jniStop` posts six of the thread
that runs the I/O service, a JNI call three: the null check, the second read of
the pointer, the work. A null pointer that is followed ends the process; a freed
object that is used ends it or not. That includes the I/O service itself, which
every clean-up frees while it runs in it (`Resume`). NFD schedules events as
long as it lives, which keeps `run()` from returning (`HasWork`).

A session can begin before the last clean-up has been run. The model goes
there: the clean-up then destroys the new forwarder, or the main thread follows
a null pointer in `jniStart`. The properties say what holds of sessions that do
not overlap so (`overlapped`), and `CallsSafe` of calls that do not meet a
clean-up (`raced`). Nothing in the code prevents either.

## 3. Runs

| Run | Bounds | Shows |
|---|---|---|
| `opp_transport` | 3 packets (Data, Interest, Data), 3 channels | all properties of the face, refinement of `PacketRelay`, liveness |
| `opp_transport_ack` | 2 packets, 2 channels | *violated*: an acknowledgement releases a packet that was never sent |
| `nsd_discovery` | 3 services, own address and one other, 2 waiting, 2 sessions | the resolver's safety and liveness |
| `face_manager` | 2 peers, 2 addresses, 2 sessions | records, losses and received packets across a restart; in the first session, up as its channel and after every resolution |
| `face_leaked` | 2 sessions | *violated*: the previous session's manager makes a second face |
| `face_threads` | 1 forwarding thread, 3 packets, 3 channels | no lost wake-up, an entry is found wherever it is looked for |
| `face_two_forwarders` | 2 forwarding threads | *violated*: a lost wake-up |
| `peer_tracking` | 3 devices, 2 UUIDs, 4 broadcasts under way | peers keep the status of their devices; search and advertisement follow Wi-Fi Direct |
| `connectivity` | 3 devices, the fragment on 2, 1 not told of owners, 3 calls of `connect()` | who elects whom, who can leave, when `join()` is blocked |
| `reception` | 2 addresses, 3 handlers, 3 broadcasts under way | listens where the device is, announces nothing else |
| `lifecycle` | 3 sessions, 1 other thread | a started daemon runs, a stopped one leaves nothing, calls outside a clean-up are safe |
| `dispatcher` | 2 nested top prefixes, 4 handlers, datasets of 2 segments, 3 stored Data, 2 versions or notifications, 1 pending Interest | one handler per Interest, numbering, filters after posts, answers |

Why the bounds are enough. A second packet is needed for an acknowledgement to
hit the wrong one, a third to have an Interest withdrawn between two others. A
transfer can outlive its channel once with two channels and be overtaken by the
failure of an older one with three. Two waiting services and one under way
make the order of the queue visible. Two sessions are the least that can
disturb each other, three let an orderly restart come before or after one that
overlaps; other threads' calls touch no state of their own, so that one thread
shows what each of them meets. In `connectivity` two devices can
ask each other and a third can own the Group that one of them should join, or be
seen as free by one and as a client by the other; three calls allow a late
answer between two joins of one device. In `dispatcher` two offers have one full
name below the two prefixes and two others overlap; a dataset of two segments
and a notification fill the storage, and the next one evicts a segment that is
fresh. Two peers are the least that can be confused.
Two devices can carry one UUID and a third another. Three broadcasts under way are a Group
left, joined and left again before the main thread looks. Peers, devices and
addresses are symmetric where a cfg says so: no definition tells them apart
(`OwnHost` is not among the addresses in the `face_*` runs) and none of those
runs checks a liveness property.

Deadlock is checked in `peer_tracking`. In the other runs the system may
rightly stop: every packet sent and acknowledged, every bound reached, or the
process crashed.

Some deviations from what a reader may expect are in the models without a run
of their own. Of two no document promises otherwise: a resolution that is
answered late makes a lost service available again (`NsdDiscovery!Resolved`),
and a device whose success callback comes after it unregistered listens
without being announced (`Reception!Callback`, `mRegistered` is TRUE by
mistake). Two are at odds with a comment: a peer reported after its service
was resolved gets a face that stays down (`FaceManager!PeerUpdate`), where
`OpportunisticFaceManager.java:206` has it brought up; faces stay up when the
device leaves its Group (`FaceManager!Unnoticed`), where line 49 has them follow
the neighbourhood. Further, a packet from a peer not yet reported ends
the process (`Received`), a face that is taken down and brought up by two
threads may be up with a deleted channel (`FaceThreads!Release`), and a device
taken into a Group by another one cannot leave it (`Connectivity!Leave`).
`PROJECT.json` lists more of the kind as hazards with a note.

Fairness. `OppTransport!Fairness` says that the executor ends every transfer,
which TCP's timeouts see to, and that the main thread serves its messages, as
Android demands of it. Nothing is assumed of the peer or of the forwarder.
`NsdFairness` says that the NsdManager answers some request if it has any. Both
are about the environment the code relies on; the code's own handlers run to
completion when called. `ForwarderLifecycle!FairSpec` says that the system
schedules the forwarder's threads.

## 4. Proofs

For every number of packets, channels, services, sessions, queued resolutions,
addresses, handlers and broadcasts under way, under the assumptions of the
modules (bounds are natural numbers, the device's own address is not
`0.0.0.0`, no address is the null one):

* `OppTransportProofs`: `TypeCorrect`, `Attachment`, `Ordering`, `NeverStalls`,
  `CalmIsReliable`, and `FaceIsRelay`, that the face implements `PacketRelay`.
* `FaceManagerProofs`: `DiscoveryTypes`, `ResolverNeverStuck`,
  `ResolvesOneAtATime` of `NsdDiscovery`; `ManagersTypes`, `BooksAlwaysAgree`,
  `ChannelsAreUp`, `UpMeansHeard`, `LossAlwaysBringsDown`,
  `ResolutionAlwaysBringsUp`.
* `FaceThreadsProofs`: `ThreadsTypes`, `NeverLooksInVain`, and for one forwarding
  thread `OneForwarderSends`.
* `PeerTrackingProofs`: `TrackingTypes`, `DetectedEitherWay`, `PeersUpToDate`,
  `NoGhostsAfterScans`, `SearchesIfFree`, `AdvertisedIfOn`.
* `ConnectivityProofs`: `ConnectivityTypes`, `Agreement`, `NoDevicesCross`,
  `AskersCanLeave`, `OnlyLossBlocks`.
* `ReceptionProofs`: `ReceptionTypes`, `Listens`, `NothingStray`,
  `NothingStale`.
* `LifecycleProofs`: `LifecycleTypes`, `StartedDaemonRuns`,
  `StoppedDaemonIsClean`, `SchedulerNeverDangles`, `CallsAreSafe`, for any number
  of sessions and of threads that call.
* `DispatcherProofs`: `DispatcherTypes`, `OneHandlerAnswers`, `HandledOnce`,
  `FiltersCatchUp`, `NumbersInOrder`, `NobodyIsMissed`, `OneVersionFresh`, for any
  prefixes, handlers and capacity.

The runs of `ForwarderLifecycle` and `Dispatcher` check their type invariants,
which have a bound in them that a bug could break (the capacity of the storage,
the services there are); those of the other modules do not.

Types are inductive alone; so is `AttachedIffUp` given the types. Order needs
all five parts of `InOrder` together: a packet is handed over from the head of
the queue, which must be no younger than what is in transfer, and the transfer
that ends must be no older than what the peer has. `NoStall` is carried by the
case that looks wrong: a failure takes the face down in the same step, so that
a face that is up has only successes among its results or a task still to run.
`CalmTransfers` needs that a face is attached as `AttachedIffUp` says, because a
task's channel is compared with the one in use. The refinement maps `pending`
to the set of the queue's packets and needs, step by step, that the head of the
queue is the oldest of them, which is order, and that what is popped while calm
is what was written last. In `NsdDiscovery` the two facts about the resolver
and the types are inductive together.

None of `Reception`'s properties is inductive, since each speaks of moments
when nothing is under way. Its `IInv` says what holds in between: the last
broadcast under way tells whether the device is in a Group (`Told`), so that
the address known when none is left is the right one; an enabled service
listens with its last handler on the address the manager knows, which may be an
old one (`Serving`), and with no other (`OneSocket`); each state of the
NsdManager's listener allows one sequence of calls or two (`Owed`), so that
only a success can come while a registration stands, and a registration that
stands is one the registrar will end (`Known`). A process that crashed keeps
its types only.

In `FaceManager`, the books alone are not inductive: that a FaceId names a face
of its peer needs that every manager asks for its face at most once, and that a
manager of an earlier session has asked before the current one (`Reported`);
the managers to come know nothing (`Later`). `FirstSession` says why there is
nobody to interfere then: a peer has one face. The invariant of
`NsdDiscovery`'s resolver is a conjunct, because a service that is available has an
address. `LossBringsDown` and `ResolutionBringsUp` are steps from it.

`FaceThreads` needs only that the entry in the native map is written before the
state it comes with (`EntryFirst`); the interleaving is in the case split.
`SentIfUp` speaks of moments when every thread is done. What holds in between is
that somebody will go on with the queue (`WakeUp`), whenever it has packets and
the channel of the face manager is the one in the native map: a transfer or a
result is under way, a thread is about to read the queue, or the forwarder has
put the only packet into it and not looked at its size yet. Two forwarders break
just that, each finding the other's packet; so the theorem assumes one, as the
run does. `NewChannel` is that a channel just made is in no map but the first.

The properties of `PeerTracking` speak of moments without broadcasts under way.
`InTheEnd` says what holds in between: what the inbox still tells, read from
its front, comes to the state that Wi-Fi Direct is in (`Told`), the broadcast
that it is off comes after the one that the search ended (`OffInOrder`), and a
search that ought to run and does not will be started by a broadcast under way
(`WillStart`). `Held` is that a peer's object is the one held for its device
unless the device left the UUID, which every scan keeps.

In `Connectivity` the order of answers carries the proof. Behind the request
Android tries there are only later ones, those of a manager that is gone first,
and nothing behind the last word (`InOrder`): so that no late answer can
overwrite what the last word set. `Asked` is that only a lower UUID is asked
unless it was taken for an owner, which two devices cannot be to each other.
`Kept` and `Explained` are `WhoAskedCanLeave` and `BlockedOnlyByLoss` with the
requests that are under way.

`ForwarderLifecycle` goes through five phases as long as sessions do not
overlap: `Between`, `Starting`, `Running`, `Clearing`, `Returning`, each with
what there is of the objects, the services and the threads. `Phase` says that the
system is in one of them, which is inductive; the four properties of sessions are
read off it. In particular all services but the current one are freed and
nothing waits on them, and all threads but the last have ended: that is why a
posted clean-up finds the forwarder it was meant for. `CallsSafe` needs `Sound`
besides: a call that has checked its pointer, and was not under way during a
clean-up, still has its object.

The properties of `Dispatcher` fall into two parts. For the filters, `Will` says
whether the Face will have a filter once the first n of the calls that wait are
made. The filters are distinct after each of these calls (`Apart`), no call sets
a filter that is there at that moment (`SetOnce`), and the last leaves the filters
that the Dispatcher's records ask for (`InTheEnd`). Adding a prefix keeps this
because its name overlaps none of those present, so that two names below them
cannot meet (`BelowPrefix`), and its calls are for different handlers, in whatever
order the map gives them (`Enumeration`, `WillBlock`). Making a call only moves
`Will` by one (`WillTail`). It matters that handlers are added while there is
no top prefix: else what is removed would not be what was set. For the rest,
every counter is the number of notifications of its name (`Counted`), although
registering a stream writes a zero under its relative prefix: `Taken` keeps that
from being a name in use. And whoever asks for a version asks for one that was
made (`Heard`), so that segments made just now are nobody's but the asker's.

The induction is over the steps of `Next`, one numbered step per action.
Facts about sequences the library lacks (`RemoveAt`, `RemoveFirst`, the set of a
sequence's elements, `SetToSeq`) are lemmas of the modules that use them.

Every invariant that a passing run checks is a theorem, and so is every action
property. Only model-checked is what needs fairness: `EventuallySent`,
`EventuallyResolved`, `StopEnds`; liveness is out of the prover's reach. `NoStall`,
`NeverStuck` and `Phase` are the safety behind them: there is always somebody whose
turn it is. The refinement of `PacketRelay` has no liveness, because the relay is
a safety specification. What the three violated runs show needs no proof.

## 5. Plan

Done in the order of importance: the sending side, discovery, the face manager
with what it receives, the thread level of a face, peer tracking, reception, the
native lifecycle, connectivity, the dispatcher. To come, in this order:

1. The thread level of the discovery: `mServices` iterated by one thread and
   grown by another, `NsdService.resolved` half done.
2. `mUmobilePeers` and `mOppFaceIds` at the thread level, which the peer tracker,
   the service discoverer and the `ConnectionHandler` share without a lock.
3. Proofs: that `FaceThreads` with one forwarder sends in order, as `OppTransport`
   does; abstract specifications of discovery and of the dispatcher's filters,
   and that the modules implement them.

## 6. Not modelled

* The ndn-cxx headers under `src/app/src/main/jni/include/`, nine tenths of the
  tree's lines. They declare a third-party library, with inline accessors,
  encodings and copies of classes; the code that gives them behaviour is not in
  the tree. The part of them that holds state this code drives, the filter table
  of `detail/face-impl.hpp`, is in `Dispatcher`. The rest of that Face and
  `transport/detail/stream-transport-impl.hpp` work for NFD and its RIB manager,
  of which only declarations are here.
* The PIT's out-records and their nonces, on which `removePacket` relies: they
  are NFD's, and so is when a retransmission replaces one. `OppTransport` has
  unique nonces.
* The user interface but for the buttons of `Connectivity`, the records it
  displays, logging, and the RIB headers that only open NFD's classes: no
  behaviour of their own.
* Android and NFD beyond what the code calls.
