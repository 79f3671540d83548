---------------------------- MODULE OppTransport ----------------------------
(***************************************************************************)
(* The sending side of one opportunistic face: the C++ OppTransport, the   *)
(* JNI functions of nfd-jni.cpp that drive it, and the Java                *)
(* OpportunisticChannel whose ConnectionTasks carry one packet each to the *)
(* peer.                                                                   *)
(*                                                                         *)
(*   forwarder --doSend--> m_sendQueue --performSend--> ConnectionTask     *)
(*        ^                                                  |             *)
(*        +---- onSendComplete <---- main thread <-----------+             *)
(*                                                                         *)
(* Only the head of m_sendQueue is ever in transfer.  It stays queued      *)
(* until the transfer is acknowledged, and it is handed over again each    *)
(* time the face comes up.  An acknowledgement names the face and not the  *)
(* packet, which is what makes this hard: the peer may come and go, and a  *)
(* pending Interest may be withdrawn, while a transfer is under way.       *)
(*                                                                         *)
(* Every handler is one atomic step here; the code takes no lock.          *)
(***************************************************************************)
EXTENDS Integers, SequencesExt

CONSTANTS
    Interests,      \* the packets that are Interests; the others are Data
    MaxPackets,     \* bound on the packets the forwarder sends
    MaxChannels     \* bound on the channels made for the peer

ASSUME InterestsAssumption == Interests \subseteq Nat
ASSUME BoundsAssumption == MaxPackets \in Nat /\ MaxChannels \in Nat

VARIABLES
    state,          \* TransportState of the face
    sendQueue,      \* m_sendQueue, packets named by order of acceptance
    channel,        \* the peer's entry of the Java mOppChannels, 0 if none
    attached,       \* entry of m_opportunistic_channels, possibly deleted
    refs,           \* channels that a JNI global reference keeps alive
    tasks,          \* ConnectionTasks of this face, in SERIAL_EXECUTOR order
    results,        \* onPostExecute messages waiting on the main thread
    crashed         \* pop_front() was called on an empty deque

VARIABLES           \* history and bounds
    accepted,       \* number of packets the forwarder sent
    channels,       \* number of channels made
    wire,           \* last packet written out whole to the peer, 0 if none
    calm            \* no transfer left over from an earlier head of the queue

face == <<state, channel, attached, refs, channels>>
transfers == <<tasks, results>>
vars == <<state, sendQueue, channel, attached, refs, tasks, results, crashed,
          accepted, channels, wire, calm>>

Packets  == 1 .. accepted
Channels == 1 .. channels
TaskType   == [packet : Packets, channel : Channels]
ResultType == [packet : Packets, ok : BOOLEAN]

\* The type of every variable; the queue and the transfers hold accepted
\* packets only, numbered from 1 by doSend.
TypeOK ==
    /\ accepted \in 0 .. MaxPackets
    /\ channels \in 0 .. MaxChannels
    /\ state \in {"DOWN", "UP", "CLOSING"}
    /\ sendQueue \in Seq(Packets)
    /\ channel \in 0 .. channels
    /\ attached \in 0 .. channels
    /\ refs \subseteq Channels
    /\ tasks \in Seq(TaskType)
    /\ results \in Seq(ResultType)
    /\ crashed \in BOOLEAN
    /\ wire \in 0 .. accepted
    /\ calm \in BOOLEAN

-----------------------------------------------------------------------------
(* Plausible bugs in the helpers below, for checking the properties.       *)

PushFront(queue, packet) == <<packet>> \o queue
PopRegardless(queue, ok) == IF queue = <<>> THEN queue ELSE Tail(queue)
KeepReference(live, entry) == live
WithdrawAnything(packet) == TRUE
NoResume(up, queue, entry, pending) == pending
LeaveUp(current) == current

-----------------------------------------------------------------------------

NextPacket(n) == n + 1
Enqueued(queue, packet) == Append(queue, packet)

\* sendNextPacket and performSend: the head of the queue becomes a task of
\* the attached channel, if there is a head and the transport is up.
Submitted(up, queue, entry, pending) ==
    IF up /\ queue # <<>>
    THEN Append(pending, [packet |-> Head(queue), channel |-> entry])
    ELSE pending

\* commuteState: coming up resumes the transmission of what is queued.
Resumed(up, queue, entry, pending) == Submitted(up, queue, entry, pending)

\* onSendComplete pops the head for a success only.
Completed(queue, ok) == IF ok THEN Tail(queue) ELSE queue

\* jniBringDownFace: DeleteGlobalRef of the face's channel.
Released(live, entry) == live \ {entry}
Lowered(current) == IF current = "UP" THEN "DOWN" ELSE current

\* removePacket looks at Interests only, Data has no nonce.
Withdrawable(packet) == packet \in Interests

InTransit(pending, done) ==
    pending # <<>> \/ \E i \in DOMAIN done : done[i].ok

-----------------------------------------------------------------------------

Init ==
    /\ state = "DOWN"
    /\ sendQueue = <<>>
    /\ channel = 0
    /\ attached = 0
    /\ refs = {}
    /\ tasks = <<>>
    /\ results = <<>>
    /\ crashed = FALSE
    /\ accepted = 0
    /\ channels = 0
    /\ wire = 0
    /\ calm = TRUE

\* The forwarder sends a packet; Transport::send refuses it on a closed face.
DoSend ==
    /\ ~crashed
    /\ accepted < MaxPackets
    /\ state \in {"UP", "DOWN"}
    /\ accepted' = accepted + 1
    /\ sendQueue' = Enqueued(sendQueue, NextPacket(accepted))
    /\ tasks' = IF Len(sendQueue') = 1
                THEN Submitted(state = "UP", sendQueue', attached, tasks)
                ELSE tasks
    /\ UNCHANGED <<face, results, crashed, wire, calm>>

\* A PIT entry goes away: the Interest in its out-record for this face is
\* withdrawn, the head of the queue like any other.
RemovePacket ==
    /\ ~crashed
    /\ \E i \in DOMAIN sendQueue :
        /\ Withdrawable(sendQueue[i])
        /\ sendQueue' = RemoveAt(sendQueue, i)
        /\ calm' = (calm /\ ~(i = 1 /\ InTransit(tasks, results)))
    /\ UNCHANGED <<face, transfers, crashed, accepted, wire>>

\* The peer's service became available: the face manager makes a channel for
\* it unless it has one, and jniBringUpFace attaches it if the face is down.
BringUp ==
    /\ ~crashed
    /\ channels < MaxChannels
    /\ channel = 0
    /\ channels' = channels + 1
    /\ channel' = channels + 1
    /\ IF state = "DOWN"
       THEN /\ state' = "UP"
            /\ attached' = channels + 1
            /\ refs' = refs \cup {channels + 1}
            /\ tasks' = Resumed(TRUE, sendQueue, attached', tasks)
       ELSE UNCHANGED <<state, attached, refs, tasks>>
    /\ calm' = ~InTransit(tasks, results)
    /\ UNCHANGED <<sendQueue, results, crashed, accepted, wire>>

\* bringDownFace of the face manager with jniBringDownFace: the map entry of
\* the channel stays behind, its reference is deleted.
TakeDown ==
    /\ channel' = 0
    /\ state' = IF channel # 0 THEN Lowered(state) ELSE state
    /\ refs' = IF channel # 0 /\ state = "UP"
               THEN Released(refs, attached) ELSE refs
    /\ UNCHANGED <<attached, channels>>

\* The peer's service was lost.
BringDown ==
    /\ ~crashed
    /\ channel # 0
    /\ TakeDown
    /\ UNCHANGED <<sendQueue, transfers, crashed, accepted, wire, calm>>

\* doInBackground writes the packet out and closes the connection.
TaskSucceeds ==
    /\ ~crashed
    /\ tasks # <<>>
    /\ LET packet == Head(tasks).packet IN
        /\ wire' = packet
        /\ results' = Append(results, [packet |-> packet, ok |-> TRUE])
    /\ tasks' = Tail(tasks)
    /\ UNCHANGED <<face, sendQueue, crashed, accepted, calm>>

\* doInBackground meets an IOException, maybe after the packet was written,
\* and brings down the face, whichever channel that one has by now.
TaskFails ==
    /\ ~crashed
    /\ tasks # <<>>
    /\ LET packet == Head(tasks).packet IN
        /\ wire' \in {wire, packet}
        /\ results' = Append(results, [packet |-> packet, ok |-> FALSE])
    /\ tasks' = Tail(tasks)
    /\ TakeDown
    /\ calm' = (calm \/ ~InTransit(tasks', results))
    /\ UNCHANGED <<sendQueue, crashed, accepted>>

\* onPostExecute reports a transfer on the main thread.  Nothing tells which
\* packet is meant: a success pops the head, whatever it is.
SendComplete ==
    /\ ~crashed
    /\ results # <<>>
    /\ ~(Head(results).ok /\ sendQueue = <<>>)
    /\ results' = Tail(results)
    /\ sendQueue' = Completed(sendQueue, Head(results).ok)
    /\ tasks' = IF Head(results).ok
                THEN Submitted(state = "UP", sendQueue', attached, tasks)
                ELSE tasks
    /\ calm' = (calm \/ ~InTransit(tasks, results'))
    /\ UNCHANGED <<face, crashed, accepted, wire>>

\* pop_front() of an empty deque is undefined; the run ends here.
SendCompleteUnderflow ==
    /\ ~crashed
    /\ results # <<>>
    /\ Head(results).ok
    /\ sendQueue = <<>>
    /\ results' = Tail(results)
    /\ crashed' = TRUE
    /\ UNCHANGED <<face, sendQueue, tasks, accepted, wire, calm>>

\* jniDestroyFace: doClose calls close() again, which does nothing on a face
\* that is closing, so that the face never becomes closed.
Close ==
    /\ ~crashed
    /\ state # "CLOSING"
    /\ state' = "CLOSING"
    /\ UNCHANGED <<sendQueue, channel, attached, refs, transfers, crashed,
                   accepted, channels, wire, calm>>

Next ==
    \/ DoSend
    \/ RemovePacket
    \/ BringUp
    \/ BringDown
    \/ TaskSucceeds
    \/ TaskFails
    \/ SendComplete
    \/ SendCompleteUnderflow
    \/ Close

\* The executor ends every transfer, by the timeouts of TCP if by nothing
\* else, and the main thread serves its messages.
Fairness ==
    /\ WF_vars(TaskSucceeds \/ TaskFails)
    /\ WF_vars(SendComplete \/ SendCompleteUnderflow)

Spec == Init /\ [][Next]_vars
FairSpec == Spec /\ Fairness

-----------------------------------------------------------------------------

\* onSendComplete, commuteState and doSend each start the next transfer under
\* their own condition.  Between them they never leave a face that is up with
\* queued packets and nothing under way that would have them sent.
NoStall ==
    state = "UP" /\ sendQueue # <<>> => InTransit(tasks, results)

\* The face is up exactly while the channel the face manager knows is the one
\* attached to it, and only that one is referenced: performSend never calls a
\* deleted reference and no reference leaks, unless the face was destroyed.
AttachedIffUp ==
    /\ state = "UP" => channel # 0 /\ attached = channel /\ refs = {channel}
    /\ state = "DOWN" => channel = 0 /\ refs = {}

\* Through removals, repeated attachments and stray acknowledgements, no
\* packet is queued behind a younger one, handed over before an older one that
\* is still in transfer, or queued after a younger one reached the peer.
InOrder(queue, pending, last) ==
    /\ \A i, j \in DOMAIN queue : i < j => queue[i] < queue[j]
    /\ \A i, j \in DOMAIN pending :
            i < j => pending[i].packet <= pending[j].packet
    /\ \A i \in DOMAIN pending, j \in DOMAIN queue :
            pending[i].packet <= queue[j]
    /\ \A i \in DOMAIN pending : last <= pending[i].packet
    /\ \A j \in DOMAIN queue : last <= queue[j]
TransfersInOrder == InOrder(sendQueue, tasks, wire)

\* While the face is calm there is one transfer at a time, of the head of the
\* queue through the channel in use, and a success that waits to be reported
\* is that of the head: what onSendComplete pops was sent, and a failed
\* transfer takes down no channel but its own.
CalmTransfers ==
    calm =>
        /\ Len(tasks) <= 1
        /\ \A i \in DOMAIN tasks :
            /\ sendQueue # <<>> /\ tasks[i].packet = Head(sendQueue)
            /\ channel # 0 => tasks[i].channel = channel
        /\ \A i \in DOMAIN results : results[i].ok =>
            /\ tasks = <<>>
            /\ sendQueue # <<>>
            /\ results[i].packet = Head(sendQueue) /\ wire = Head(sendQueue)
        /\ \A i, j \in DOMAIN results : results[i].ok /\ results[j].ok => i = j

\* jniSendComplete notifies the face "of the result of the transmission of the
\* last packet" (OpportunisticDaemon.java:255): the packet a success releases
\* is the one that was transmitted.
AckNamesHead ==
    results # <<>> /\ Head(results).ok =>
        sendQueue # <<>> /\ Head(results).packet = Head(sendQueue)

\* The face is a relay that delivers in order, and a reliable one while calm.
Relay == INSTANCE PacketRelay WITH pending <- ToSet(sendQueue)
RelaySpec == Relay!Spec

\* If the peer is within reach from some time on, every queued packet leaves
\* the queue, whatever attachments, failures and removals came before.
EventuallySent ==
    \A p \in 1 .. MaxPackets :
        <>[](state = "UP") =>
            (p \in ToSet(sendQueue) ~> p \notin ToSet(sendQueue))

=============================================================================
