----------------------------- MODULE FaceThreads -----------------------------
(***************************************************************************)
(* One opportunistic face as the threads run it.  Packets are forwarded by *)
(* the thread of the I/O service and by that of the ConnectionHandler.     *)
(* The main thread reports transfers, the thread of the NsdManager brings  *)
(* the face up and down with the peer's service, and the thread of the     *)
(* AsyncTasks brings it down when a transfer fails.  None takes a lock,    *)
(* so that a step ends here wherever the code has read what another thread *)
(* may write.  OppTransport.tla and FaceManager.tla have each handler in   *)
(* one step.                                                               *)
(*                                                                         *)
(* An operation on a collection is one step, as if the collection could be *)
(* shared by threads; the code does not even ensure that.                  *)
(***************************************************************************)
EXTENDS Integers, Sequences

CONSTANTS
    Forwarders,     \* threads that forward packets
    Main,           \* the main thread
    Discovery,      \* the thread of the NsdManager
    Executor,       \* the thread of the AsyncTasks
    MaxPackets,     \* bound on the packets sent
    MaxChannels     \* bound on the channels made

ASSUME ThreadsAssumption ==
    /\ {Main, Discovery, Executor} \cap Forwarders = {}
    /\ Main # Discovery /\ Main # Executor /\ Discovery # Executor
ASSUME BoundsAssumption == MaxPackets \in Nat /\ MaxChannels \in Nat

VARIABLES
    entry,          \* the channel in mOppChannels, 0 if none
    up,             \* TransportState of the face is UP, not DOWN
    attached,       \* the channel in m_opportunistic_channels, 0 if none
    refs,           \* channels that a JNI global reference keeps alive
    sendQueue,      \* m_sendQueue, packets named by order of acceptance
    tasks,          \* packets of the ConnectionTasks, in executor order
    results,        \* successes that wait to be reported
    crashed,        \* front or pop_front of an empty deque, or a call through
                    \* a deleted reference
    pc,             \* where each thread is in the code
    holds           \* the packet a thread is about to hand over

VARIABLES           \* bounds
    made,           \* number of channels made, the last is the latest
    accepted        \* number of packets sent

channel == <<entry, up, attached, refs, made>>
queue   == <<sendQueue, tasks, results, accepted>>
vars    == <<channel, queue, crashed, pc, holds>>

Threads  == Forwarders \cup {Main, Discovery, Executor}
Packets  == 1 .. accepted
Channels == 1 .. made
Steps    == {"idle", "queued", "next", "front", "perform", "call",
             "put", "raise", "remove", "native", "lower", "release"}

\* The type of every variable.
ThreadsTypeOK ==
    /\ made \in 0 .. MaxChannels /\ accepted \in 0 .. MaxPackets
    /\ entry \in 0 .. made /\ attached \in 0 .. made
    /\ refs \subseteq Channels
    /\ up \in BOOLEAN /\ crashed \in BOOLEAN
    /\ sendQueue \in Seq(Packets) /\ tasks \in Seq(Packets)
    /\ results \in Nat
    /\ pc \in [Threads -> Steps]
    /\ holds \in [Threads -> 0 .. accepted]

-----------------------------------------------------------------------------
(* Plausible bugs in the helpers below, for checking the properties.       *)

StayIdle(waiting) == "idle"
StateFirst(current, chan) == [up |-> TRUE, attached |-> current]

-----------------------------------------------------------------------------

NextPacket(n) == n + 1

\* doSend starts the transfer of a packet that is alone in the queue.
IsFirst(waiting) == Len(waiting) = 1

\* sendNextPacket looks whether there is a packet before it takes the front.
NextStep(waiting) == IF waiting = <<>> THEN "idle" ELSE "front"

\* The map entry is written while the transport is still DOWN.
Attachment(current, chan) == [up |-> FALSE, attached |-> chan]

Goes(t, step) == pc' = [pc EXCEPT ![t] = step]

Init ==
    /\ entry = 0 /\ up = FALSE /\ attached = 0 /\ refs = {} /\ made = 0
    /\ sendQueue = <<>> /\ tasks = <<>> /\ results = 0 /\ accepted = 0
    /\ crashed = FALSE
    /\ pc = [t \in Threads |-> "idle"]
    /\ holds = [t \in Threads |-> 0]

-----------------------------------------------------------------------------
(* Sending.                                                                *)

\* doSend up to push_back.
Enqueue(t) ==
    /\ pc[t] = "idle"
    /\ accepted < MaxPackets
    /\ accepted' = NextPacket(accepted)
    /\ sendQueue' = Append(sendQueue, accepted')
    /\ Goes(t, "queued")
    /\ UNCHANGED <<channel, tasks, results, crashed, holds>>

\* doSend from there: the state of the transport and the size of the queue.
StartIfFirst(t) ==
    /\ pc[t] = "queued"
    /\ Goes(t, IF up /\ IsFirst(sendQueue) THEN "next" ELSE "idle")
    /\ UNCHANGED <<channel, queue, crashed, holds>>

\* sendNextPacket, for whichever handler called it.
SendNext(t) ==
    /\ pc[t] = "next"
    /\ Goes(t, NextStep(sendQueue))
    /\ UNCHANGED <<channel, queue, crashed, holds>>

TakeFront(t) ==
    /\ pc[t] = "front"
    /\ IF sendQueue = <<>>
       THEN crashed' = TRUE /\ UNCHANGED <<pc, holds>>
       ELSE /\ holds' = [holds EXCEPT ![t] = Head(sendQueue)]
            /\ Goes(t, "perform")
            /\ UNCHANGED crashed
    /\ UNCHANGED <<channel, queue>>

\* performSend drops the packet unless the transport is UP.
Perform(t) ==
    /\ pc[t] = "perform"
    /\ Goes(t, IF up THEN "call" ELSE "idle")
    /\ UNCHANGED <<channel, queue, crashed, holds>>

\* performSend from there: the channel in the map makes a ConnectionTask.
Call(t) ==
    /\ pc[t] = "call"
    /\ Goes(t, "idle")
    /\ IF attached \in refs
       THEN tasks' = Append(tasks, holds[t]) /\ UNCHANGED crashed
       ELSE crashed' = TRUE /\ UNCHANGED tasks
    /\ UNCHANGED <<channel, sendQueue, results, accepted, holds>>

TaskSucceeds ==
    /\ pc[Executor] = "idle"
    /\ tasks # <<>>
    /\ tasks' = Tail(tasks)
    /\ results' = results + 1
    /\ UNCHANGED <<channel, sendQueue, accepted, crashed, pc, holds>>

\* onSendComplete of a success up to pop_front.
Pop ==
    /\ pc[Main] = "idle"
    /\ results > 0
    /\ results' = results - 1
    /\ IF sendQueue = <<>>
       THEN crashed' = TRUE /\ UNCHANGED <<sendQueue, pc>>
       ELSE /\ sendQueue' = Tail(sendQueue)
            /\ Goes(Main, "next")
            /\ UNCHANGED crashed
    /\ UNCHANGED <<channel, tasks, accepted, holds>>

-----------------------------------------------------------------------------
(* Bringing up and down.                                                   *)

\* bringUpFace: only the thread of the NsdManager makes channels.
PutChannel ==
    /\ pc[Discovery] = "idle"
    /\ entry = 0
    /\ made < MaxChannels
    /\ made' = made + 1
    /\ entry' = made'
    /\ Goes(Discovery, "put")
    /\ UNCHANGED <<up, attached, refs, queue, crashed, holds>>

\* jniBringUpFace up to the map entry; nothing to do unless the face is DOWN.
Attach ==
    /\ pc[Discovery] = "put"
    /\ IF up
       THEN Goes(Discovery, "idle") /\ UNCHANGED <<up, attached, refs>>
       ELSE /\ attached' = Attachment(attached, made).attached
            /\ up' = Attachment(attached, made).up
            /\ refs' = refs \cup {made}
            /\ Goes(Discovery, "raise")
    /\ UNCHANGED <<entry, made, queue, crashed, holds>>

\* commuteState(UP), which goes on to sendNextPacket.
Raise ==
    /\ pc[Discovery] = "raise"
    /\ up' = TRUE
    /\ Goes(Discovery, "next")
    /\ UNCHANGED <<entry, attached, refs, made, queue, crashed, holds>>

\* bringDownFace finds the channel in mOppChannels, for a service that is lost
ServiceLost ==
    /\ pc[Discovery] = "idle"
    /\ entry # 0
    /\ Goes(Discovery, "remove")
    /\ UNCHANGED <<channel, queue, crashed, holds>>

\* or for a transfer that failed,
TaskFails ==
    /\ pc[Executor] = "idle"
    /\ tasks # <<>>
    /\ tasks' = Tail(tasks)
    /\ Goes(Executor, IF entry # 0 THEN "remove" ELSE "idle")
    /\ UNCHANGED <<channel, sendQueue, results, accepted, crashed, holds>>

\* removes it,
RemoveChannel(t) ==
    /\ pc[t] = "remove"
    /\ entry' = 0
    /\ Goes(t, "native")
    /\ UNCHANGED <<up, attached, refs, made, queue, crashed, holds>>

\* and jniBringDownFace looks whether the face is UP,
SeeUp(t) ==
    /\ pc[t] = "native"
    /\ Goes(t, IF up THEN "lower" ELSE "idle")
    /\ UNCHANGED <<channel, queue, crashed, holds>>

\* takes it DOWN,
Lower(t) ==
    /\ pc[t] = "lower"
    /\ up' = FALSE
    /\ Goes(t, "release")
    /\ UNCHANGED <<entry, attached, refs, made, queue, crashed, holds>>

\* and deletes the reference it finds in the map by now.
Release(t) ==
    /\ pc[t] = "release"
    /\ refs' = refs \ {attached}
    /\ Goes(t, "idle")
    /\ UNCHANGED <<entry, up, attached, made, queue, crashed, holds>>

Next ==
    /\ ~crashed
    /\ \/ \E t \in Forwarders : Enqueue(t) \/ StartIfFirst(t)
       \/ \E t \in Threads : SendNext(t) \/ TakeFront(t) \/ Perform(t) \/ Call(t)
       \/ TaskSucceeds
       \/ TaskFails
       \/ Pop
       \/ PutChannel
       \/ Attach
       \/ Raise
       \/ ServiceLost
       \/ \E t \in {Discovery, Executor} :
            \/ RemoveChannel(t)
            \/ SeeUp(t)
            \/ Lower(t)
            \/ Release(t)

Spec == Init /\ [][Next]_vars

-----------------------------------------------------------------------------

Quiet == ~crashed /\ \A t \in Threads : pc[t] = "idle"

\* The transport is for "sending out packets based on whether the corresponding
\* neighbor peer is within transmission range" (opp-transport.hpp:14): when
\* every thread is done and no transfer is under way, a face that is up through
\* the channel the face manager keeps has sent its packets.  So it is with one
\* forwarding thread; two lose a wake-up.
SentIfUp ==
    Quiet /\ up /\ entry # 0 /\ entry = attached /\ tasks = <<>> /\ results = 0
    => sendQueue = <<>>

\* Nobody looks for the face in m_opportunistic_channels, to send or to release
\* the reference, before the face was given an entry: find() never fails.
AlwaysFound ==
    up \/ (\E t \in Threads : pc[t] \in {"call", "lower", "release"})
    => attached # 0

=============================================================================
