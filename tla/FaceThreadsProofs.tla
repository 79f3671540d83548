-------------------------- MODULE FaceThreadsProofs --------------------------
(***************************************************************************)
(* Proofs about FaceThreads for any number of threads that forward,        *)
(* packets and channels.                                                   *)
(***************************************************************************)
EXTENDS FaceThreads, SequenceTheorems, TLAPS

\* A thread that is to hand over a packet holds one.
HoldsPacket == \A t \in Threads : pc[t] \in {"perform", "call"} => holds[t] # 0

\* Whoever is past a look at the map, or at a state that comes after it, finds
\* the face there: bringing up writes the map first, of a channel that was made.
EntryFirst ==
    /\ pc[Discovery] = "put" => made # 0
    /\ up => attached # 0
    /\ \A t \in Threads : pc[t] \in {"call", "raise", "lower", "release"} => attached # 0

IInv == ThreadsTypeOK /\ HoldsPacket /\ EntryFirst

-----------------------------------------------------------------------------

LEMMA ThreadsFacts == Main \in Threads /\ Discovery \in Threads /\ Executor \in Threads
                        /\ Forwarders \subseteq Threads
BY DEF Threads

\* A packet stays one when more are accepted.
LEMMA MorePackets ==
    ASSUME NEW n \in Nat, NEW s \in Seq(1 .. n) PROVE s \in Seq(1 .. n + 1)
<1>1. Len(s) \in Nat /\ DOMAIN s = 1 .. Len(s)
  BY LenProperties
<1>2. \A i \in 1 .. Len(s) : s[i] \in 1 .. n + 1
  BY <1>1, ElementOfSeq
<1>3. s = [i \in 1 .. Len(s) |-> s[i]]
  BY <1>1, SeqDef
<1> QED BY <1>1, <1>2, <1>3, SeqDef

\* A step of a thread that leaves the rest of the types alone.
LEMMA Moves ==
    ASSUME ThreadsTypeOK, NEW t \in Threads, NEW step \in Steps, Goes(t, step)
    PROVE  /\ pc' \in [Threads -> Steps]
           /\ pc'[t] = step
           /\ \A s \in Threads : s # t => pc'[s] = pc[s]
BY DEF ThreadsTypeOK, Goes

LEMMA InvInit == Init => IInv
<1> SUFFICES ASSUME Init PROVE IInv
  OBVIOUS
<1>1. <<>> \in Seq(Packets)
  BY EmptySeq
<1>2. ThreadsTypeOK
  <2>1. /\ made \in 0 .. MaxChannels /\ accepted \in 0 .. MaxPackets
        /\ entry \in 0 .. made /\ attached \in 0 .. made /\ results \in Nat
    BY BoundsAssumption DEF Init
  <2>2. up \in BOOLEAN /\ crashed \in BOOLEAN /\ refs \subseteq Channels
    BY DEF Init
  <2>3. pc \in [Threads -> Steps] /\ holds \in [Threads -> 0 .. accepted]
    BY <2>1, BoundsAssumption DEF Init, Steps
  <2>4. sendQueue \in Seq(Packets) /\ tasks \in Seq(Packets)
    BY <1>1 DEF Init
  <2> QED BY <2>1, <2>2, <2>3, <2>4 DEF ThreadsTypeOK
<1>3. HoldsPacket /\ EntryFirst
  BY ThreadsFacts DEF Init, HoldsPacket, EntryFirst
<1> QED BY <1>2, <1>3 DEF IInv

LEMMA InvEnqueue ==
    ASSUME IInv, NEW t \in Forwarders, Enqueue(t) PROVE IInv'
<1>0. t \in Threads /\ t # Discovery
  BY ThreadsAssumption DEF Threads
<1>1. /\ pc' \in [Threads -> Steps] /\ pc'[t] = "queued"
      /\ \A s \in Threads : s # t => pc'[s] = pc[s]
  BY <1>0, Moves DEF IInv, Enqueue, Steps
<1>2. accepted \in Nat /\ accepted' = accepted + 1 /\ accepted' \in 0 .. MaxPackets
  BY BoundsAssumption DEF IInv, ThreadsTypeOK, Enqueue, NextPacket
<1>3. sendQueue \in Seq(1 .. accepted + 1) /\ tasks \in Seq(1 .. accepted + 1)
  BY <1>2, MorePackets DEF IInv, ThreadsTypeOK, Packets
<1>4. Append(sendQueue, accepted + 1) \in Seq(1 .. accepted + 1)
  BY <1>2, <1>3, AppendProperties
<1>5. ThreadsTypeOK'
  <2>1. holds' \in [Threads -> 0 .. accepted']
    BY <1>2 DEF IInv, ThreadsTypeOK, Enqueue
  <2>2. sendQueue' \in Seq(Packets') /\ tasks' \in Seq(Packets')
    BY <1>2, <1>3, <1>4 DEF Enqueue, Packets
  <2> QED BY <1>1, <1>2, <2>1, <2>2
          DEF IInv, ThreadsTypeOK, Enqueue, channel, Channels
<1>6. HoldsPacket' /\ EntryFirst'
  BY <1>0, <1>1, ThreadsFacts DEF IInv, HoldsPacket, EntryFirst, Enqueue, channel
<1> QED BY <1>5, <1>6 DEF IInv

\* The steps that change nothing but where a thread is.
LEMMA InvMove ==
    ASSUME IInv, NEW t \in Threads,
           StartIfFirst(t) \/ SendNext(t) \/ Perform(t) \/ SeeUp(t)
    PROVE  IInv'
<1>1. UNCHANGED <<channel, queue, crashed, holds>>
  BY DEF StartIfFirst, SendNext, Perform, SeeUp
<1>2. PICK step \in {"next", "idle", "front", "call", "lower"} :
        /\ Goes(t, step)
        /\ step = "call" => pc[t] = "perform" /\ up
        /\ step = "lower" => up
  BY DEF StartIfFirst, SendNext, NextStep, Perform, SeeUp
<1>3. /\ pc' \in [Threads -> Steps] /\ pc'[t] = step
      /\ \A s \in Threads : s # t => pc'[s] = pc[s]
  BY <1>2, Moves DEF IInv, Steps
<1>4. ThreadsTypeOK'
  BY <1>1, <1>3 DEF IInv, ThreadsTypeOK, channel, queue, Channels, Packets
<1>5. HoldsPacket'
  BY <1>1, <1>2, <1>3 DEF IInv, HoldsPacket
<1>6. EntryFirst'
  BY <1>1, <1>2, <1>3, ThreadsFacts DEF IInv, EntryFirst, channel
<1> QED BY <1>4, <1>5, <1>6 DEF IInv

LEMMA InvTakeFront == ASSUME IInv, NEW t \in Threads, TakeFront(t) PROVE IInv'
<1>1. CASE sendQueue = <<>>
  BY <1>1 DEF IInv, ThreadsTypeOK, HoldsPacket, EntryFirst, TakeFront, channel, queue,
              Channels, Packets
<1>2. CASE sendQueue # <<>>
  <2>1. Head(sendQueue) \in 1 .. accepted
    BY <1>2, HeadTailProperties DEF IInv, ThreadsTypeOK, Packets
  <2>2. /\ pc' \in [Threads -> Steps] /\ pc'[t] = "perform"
        /\ \A s \in Threads : s # t => pc'[s] = pc[s]
    BY <1>2, Moves DEF IInv, TakeFront, Steps
  <2>3. /\ holds' = [holds EXCEPT ![t] = Head(sendQueue)]
        /\ UNCHANGED <<channel, queue, crashed>>
    BY <1>2 DEF TakeFront
  <2>4. accepted \in Nat /\ holds \in [Threads -> 0 .. accepted]
    BY BoundsAssumption DEF IInv, ThreadsTypeOK
  <2>5. holds' \in [Threads -> 0 .. accepted]
    BY <2>1, <2>3, <2>4
  <2>6. ThreadsTypeOK'
    BY <2>2, <2>3, <2>5 DEF IInv, ThreadsTypeOK, channel, queue, Channels, Packets
  <2>7. HoldsPacket'
    BY <2>1, <2>2, <2>3, <2>4 DEF IInv, HoldsPacket
  <2>8. EntryFirst'
    BY <2>2, <2>3, ThreadsFacts DEF IInv, EntryFirst, channel
  <2> QED BY <2>6, <2>7, <2>8 DEF IInv
<1> QED BY <1>1, <1>2

LEMMA InvCall == ASSUME IInv, NEW t \in Threads, Call(t) PROVE IInv'
<1>1. /\ pc' \in [Threads -> Steps] /\ pc'[t] = "idle"
      /\ \A s \in Threads : s # t => pc'[s] = pc[s]
  BY Moves DEF IInv, Call, Steps
<1>2. tasks' \in Seq(Packets) /\ crashed' \in BOOLEAN
  <2>1. holds[t] \in Packets
    BY BoundsAssumption DEF IInv, ThreadsTypeOK, HoldsPacket, Call, Packets
  <2>2. Append(tasks, holds[t]) \in Seq(Packets)
    BY <2>1, AppendProperties DEF IInv, ThreadsTypeOK
  <2> QED BY <2>2 DEF IInv, ThreadsTypeOK, Call
<1>3. UNCHANGED <<channel, sendQueue, results, accepted, holds>>
  BY DEF Call
<1>4. ThreadsTypeOK'
  BY <1>1, <1>2, <1>3 DEF IInv, ThreadsTypeOK, channel, Channels, Packets
<1>5. HoldsPacket' /\ EntryFirst'
  BY <1>1, <1>3, ThreadsFacts DEF IInv, HoldsPacket, EntryFirst, channel
<1> QED BY <1>4, <1>5 DEF IInv

LEMMA InvTask == ASSUME IInv, TaskSucceeds \/ TaskFails \/ Pop PROVE IInv'
<1>1. CASE TaskSucceeds \/ TaskFails
  <2>1. tasks' \in Seq(Packets)
    BY <1>1, HeadTailProperties DEF TaskSucceeds, TaskFails, IInv, ThreadsTypeOK
  <2>2. /\ results' \in Nat
        /\ UNCHANGED <<channel, sendQueue, accepted, crashed, holds>>
    BY <1>1 DEF TaskSucceeds, TaskFails, IInv, ThreadsTypeOK
  <2>3. /\ pc' \in [Threads -> Steps]
        /\ \A s \in Threads : pc'[s] = pc[s] \/ pc'[s] \in {"remove", "idle"}
    <3>1. CASE TaskSucceeds
      BY <3>1 DEF TaskSucceeds, IInv, ThreadsTypeOK
    <3>2. CASE TaskFails
      <4>1. PICK step \in {"remove", "idle"} : Goes(Executor, step)
        BY <3>2 DEF TaskFails
      <4> QED BY <4>1, Moves, ThreadsFacts DEF IInv, Steps
    <3> QED BY <1>1, <3>1, <3>2
  <2>4. ThreadsTypeOK'
    BY <2>1, <2>2, <2>3 DEF IInv, ThreadsTypeOK, channel, Channels, Packets
  <2>5. HoldsPacket' /\ EntryFirst'
    BY <2>2, <2>3, ThreadsFacts DEF IInv, HoldsPacket, EntryFirst, channel
  <2> QED BY <2>4, <2>5 DEF IInv
<1>2. CASE Pop
  <2>1. sendQueue' \in Seq(Packets) /\ crashed' \in BOOLEAN
    BY <1>2, HeadTailProperties DEF Pop, IInv, ThreadsTypeOK
  <2>2. results' \in Nat /\ UNCHANGED <<channel, tasks, accepted, holds>>
    BY <1>2 DEF Pop, IInv, ThreadsTypeOK
  <2>3. /\ pc' \in [Threads -> Steps]
        /\ \A s \in Threads : pc'[s] = pc[s] \/ pc'[s] = "next"
    <3>1. CASE sendQueue = <<>>
      BY <1>2, <3>1 DEF Pop, IInv, ThreadsTypeOK
    <3>2. CASE sendQueue # <<>>
      BY <1>2, <3>2, Moves, ThreadsFacts DEF Pop, IInv, Steps
    <3> QED BY <3>1, <3>2
  <2>4. ThreadsTypeOK'
    BY <2>1, <2>2, <2>3 DEF IInv, ThreadsTypeOK, channel, Channels, Packets
  <2>5. HoldsPacket' /\ EntryFirst'
    BY <2>2, <2>3, ThreadsFacts DEF IInv, HoldsPacket, EntryFirst, channel
  <2> QED BY <2>4, <2>5 DEF IInv
<1> QED BY <1>1, <1>2

\* Bringing the face up.
LEMMA InvUp == ASSUME IInv, PutChannel \/ Attach \/ Raise PROVE IInv'
<1>0. Discovery \in Threads
  BY ThreadsFacts
<1>1. CASE PutChannel
  <2>1. /\ pc' \in [Threads -> Steps] /\ pc'[Discovery] = "put"
        /\ \A s \in Threads : s # Discovery => pc'[s] = pc[s]
    BY <1>0, <1>1, Moves DEF IInv, PutChannel, Steps
  <2>2. /\ made \in Nat /\ made' = made + 1 /\ made' \in 0 .. MaxChannels
        /\ entry' = made'
        /\ UNCHANGED <<up, attached, refs, queue, crashed, holds>>
    BY <1>1, BoundsAssumption DEF IInv, ThreadsTypeOK, PutChannel
  <2>3. entry' \in 0 .. made' /\ attached' \in 0 .. made' /\ refs' \subseteq 1 .. made'
    BY <2>2 DEF IInv, ThreadsTypeOK, Channels
  <2>4. ThreadsTypeOK'
    BY <2>1, <2>2, <2>3 DEF IInv, ThreadsTypeOK, queue, Channels, Packets
  <2>5. HoldsPacket' /\ EntryFirst'
    BY <2>1, <2>2 DEF IInv, HoldsPacket, EntryFirst
  <2> QED BY <2>4, <2>5 DEF IInv
<1>2. CASE Attach
  <2>1. made \in Nat \ {0} /\ UNCHANGED <<entry, made, queue, crashed, holds>>
    BY <1>2, BoundsAssumption DEF IInv, ThreadsTypeOK, EntryFirst, Attach
  <2>2. CASE up
    <3>1. UNCHANGED <<up, attached, refs>>
      BY <1>2, <2>2 DEF Attach
    <3>2. /\ pc' \in [Threads -> Steps] /\ pc'[Discovery] = "idle"
          /\ \A s \in Threads : s # Discovery => pc'[s] = pc[s]
      BY <1>0, <1>2, <2>2, Moves DEF IInv, Attach, Steps
    <3>3. ThreadsTypeOK'
      BY <2>1, <3>1, <3>2 DEF IInv, ThreadsTypeOK, queue, Channels, Packets
    <3>4. HoldsPacket' /\ EntryFirst'
      BY <2>1, <3>1, <3>2 DEF IInv, HoldsPacket, EntryFirst
    <3> QED BY <3>3, <3>4 DEF IInv
  <2>3. CASE ~up
    <3>1. attached' = made /\ up' = FALSE /\ refs' = refs \cup {made}
      BY <1>2, <2>3 DEF Attach, Attachment
    <3>2. /\ pc' \in [Threads -> Steps] /\ pc'[Discovery] = "raise"
          /\ \A s \in Threads : s # Discovery => pc'[s] = pc[s]
      BY <1>0, <1>2, <2>3, Moves DEF IInv, Attach, Steps
    <3>3. attached' \in 0 .. made' /\ refs' \subseteq 1 .. made'
      BY <2>1, <3>1 DEF IInv, ThreadsTypeOK, Channels
    <3>4. ThreadsTypeOK'
      BY <2>1, <3>1, <3>2, <3>3 DEF IInv, ThreadsTypeOK, queue, Channels, Packets
    <3>5. HoldsPacket' /\ EntryFirst'
      BY <2>1, <3>1, <3>2 DEF IInv, HoldsPacket, EntryFirst
    <3> QED BY <3>4, <3>5 DEF IInv
  <2> QED BY <2>2, <2>3
<1>3. CASE Raise
  <2>1. /\ pc' \in [Threads -> Steps] /\ pc'[Discovery] = "next"
        /\ \A s \in Threads : s # Discovery => pc'[s] = pc[s]
    BY <1>0, <1>3, Moves DEF IInv, Raise, Steps
  <2>2. attached # 0 /\ up' = TRUE
        /\ UNCHANGED <<entry, attached, refs, made, queue, crashed, holds>>
    BY <1>0, <1>3 DEF IInv, EntryFirst, Raise
  <2>3. ThreadsTypeOK'
    BY <2>1, <2>2 DEF IInv, ThreadsTypeOK, queue, Channels, Packets
  <2>4. HoldsPacket' /\ EntryFirst'
    BY <2>1, <2>2 DEF IInv, HoldsPacket, EntryFirst
  <2> QED BY <2>3, <2>4 DEF IInv
<1> QED BY <1>1, <1>2, <1>3

\* Taking it down.
LEMMA InvDown ==
    ASSUME IInv, NEW t \in Threads,
           (ServiceLost /\ t = Discovery) \/ RemoveChannel(t) \/ Lower(t) \/ Release(t)
    PROVE  IInv'
<1>1. PICK step \in {"remove", "native", "release", "idle"} :
        Goes(t, step) /\ (step = "release" => pc[t] = "lower")
  BY DEF ServiceLost, RemoveChannel, Lower, Release
<1>2. /\ pc' \in [Threads -> Steps] /\ pc'[t] = step
      /\ \A s \in Threads : s # t => pc'[s] = pc[s]
  BY <1>1, Moves DEF IInv, Steps
<1>3. /\ entry' = entry \/ entry' = 0
      /\ up' = up \/ up' = FALSE
      /\ refs' \subseteq refs
      /\ UNCHANGED <<attached, made, queue, crashed, holds>>
  BY DEF ServiceLost, RemoveChannel, Lower, Release, channel
<1>4. ThreadsTypeOK'
  <2>1. entry' \in 0 .. made' /\ refs' \subseteq Channels'
    BY <1>3, BoundsAssumption DEF IInv, ThreadsTypeOK, Channels
  <2>2. up' \in BOOLEAN
    BY <1>3 DEF IInv, ThreadsTypeOK
  <2> QED BY <1>2, <1>3, <2>1, <2>2 DEF IInv, ThreadsTypeOK, queue, Packets
<1>5. HoldsPacket'
  BY <1>1, <1>2, <1>3 DEF IInv, HoldsPacket
<1>6. EntryFirst'
  <2>1. pc'[Discovery] = "put" => made' # 0
    BY <1>1, <1>2, <1>3, ThreadsFacts DEF IInv, EntryFirst
  <2>2. up' => attached' # 0
    BY <1>3 DEF IInv, EntryFirst
  <2>3. \A s \in Threads : pc'[s] \in {"call", "raise", "lower", "release"} => attached' # 0
    BY <1>1, <1>2, <1>3 DEF IInv, EntryFirst
  <2> QED BY <2>1, <2>2, <2>3 DEF EntryFirst
<1> QED BY <1>4, <1>5, <1>6 DEF IInv

LEMMA InvNext == IInv /\ [Next]_vars => IInv'
<1> SUFFICES ASSUME IInv, [Next]_vars PROVE IInv'
  OBVIOUS
<1>1. CASE \E t \in Forwarders : Enqueue(t) \/ StartIfFirst(t)
  BY <1>1, InvEnqueue, InvMove, ThreadsFacts
<1>2. CASE \E t \in Threads : SendNext(t) \/ TakeFront(t) \/ Perform(t) \/ Call(t)
  BY <1>2, InvMove, InvTakeFront, InvCall
<1>3. CASE TaskSucceeds \/ TaskFails \/ Pop
  BY <1>3, InvTask
<1>4. CASE PutChannel \/ Attach \/ Raise
  BY <1>4, InvUp
<1>5. CASE ServiceLost
  BY <1>5, InvDown, ThreadsFacts
<1>6. CASE \E t \in {Discovery, Executor} :
                RemoveChannel(t) \/ SeeUp(t) \/ Lower(t) \/ Release(t)
  BY <1>6, InvDown, InvMove, ThreadsFacts
<1>7. CASE UNCHANGED vars
  BY <1>7 DEF IInv, ThreadsTypeOK, HoldsPacket, EntryFirst, vars, channel, queue,
              Channels, Packets
<1> QED BY <1>1, <1>2, <1>3, <1>4, <1>5, <1>6, <1>7 DEF Next

LEMMA InvAlways == Spec => []IInv
BY InvInit, InvNext, PTL DEF Spec

-----------------------------------------------------------------------------

\* The variables keep their types, and so does whatever a thread holds.
THEOREM ThreadsTypes == Spec => []ThreadsTypeOK
BY InvAlways, PTL DEF IInv

\* No thread looks in vain for the face in the native map of channels, however
\* many forward.
THEOREM NeverLooksInVain == Spec => []AlwaysFound
<1>1. ASSUME IInv PROVE AlwaysFound
  BY <1>1 DEF IInv, EntryFirst, AlwaysFound
<1> QED BY <1>1, InvAlways, PTL

-----------------------------------------------------------------------------
(* With one forwarding thread no wake-up is lost.                          *)

OneForwarder == \A s, t \in Forwarders : s = t

\* Somebody will go on with the queue, or take the face's channel away: a task
\* or a result is under way, a thread is on its way to one, or the forwarding
\* thread is about to find that its packet is the only one.
Awake ==
    \/ tasks # <<>> \/ results # 0
    \/ \E t \in Threads : pc[t] \in {"next", "front", "perform", "call", "remove"}
    \/ \E t \in Forwarders : pc[t] = "queued" /\ Len(sendQueue) = 1

\* The channel in mOppChannels is that of the native map and can be sent through.
Joined == up /\ entry # 0 /\ entry = attached

WakeUp == ~crashed /\ Joined /\ sendQueue # <<>> => Awake

\* A channel that is new is not yet in the native map.
NewChannel == pc[Discovery] = "put" => entry \in {0, made} /\ attached # made

WInv == WakeUp /\ NewChannel

LEMMA WInit == Init => WInv
<1> SUFFICES ASSUME Init PROVE WInv
  OBVIOUS
<1>1. WakeUp
  BY DEF Init, WakeUp
<1>2. NewChannel
  BY ThreadsFacts DEF Init, NewChannel
<1> QED BY <1>1, <1>2 DEF WInv

\* A forwarding thread that has added to a queue that was not empty leaves it to
\* whoever was awake.
LEMMA WEnqueue ==
    ASSUME OneForwarder, IInv, WInv, ~crashed, NEW t \in Forwarders, Enqueue(t)
    PROVE  WInv'
<1>1. t \in Threads /\ t # Discovery /\ Discovery \in Threads
  BY ThreadsAssumption DEF Threads
<1>2. /\ pc'[t] = "queued" /\ pc[t] = "idle"
      /\ \A s \in Threads : s # t => pc'[s] = pc[s]
      /\ UNCHANGED <<channel, tasks, results, crashed>>
  BY <1>1, Moves DEF IInv, Enqueue, Steps
<1>3. NewChannel'
  BY <1>1, <1>2 DEF WInv, NewChannel, channel
<1>4. WakeUp'
  <2>1. CASE sendQueue = <<>>
    <3>1. Len(sendQueue') = 1
      <4>1. sendQueue' = <<accepted'>>
        BY <2>1 DEF Enqueue
      <4> QED BY <4>1
    <3> QED BY <1>2, <3>1 DEF WakeUp, Awake
  <2>2. CASE sendQueue # <<>>
    <3>1. Joined' => Joined
      BY <1>2 DEF Joined, channel
    <3>2. SUFFICES ASSUME Awake PROVE Awake'
      BY <1>2, <2>2, <3>1 DEF WInv, WakeUp
    <3>3. \A s \in Forwarders : pc[s] # "queued"
      BY <1>2 DEF OneForwarder
    <3>4. CASE tasks # <<>> \/ results # 0
      BY <1>2, <3>4 DEF Awake
    <3>5. CASE \E s \in Threads : pc[s] \in {"next", "front", "perform", "call", "remove"}
      BY <1>2, <3>5 DEF Awake
    <3> QED BY <3>2, <3>3, <3>4, <3>5 DEF Awake
  <2> QED BY <2>1, <2>2
<1> QED BY <1>3, <1>4 DEF WInv

LEMMA WStart ==
    ASSUME OneForwarder, IInv, WInv, ~crashed, NEW t \in Forwarders, StartIfFirst(t)
    PROVE  WInv'
<1>1. t \in Threads /\ t # Discovery /\ Discovery \in Threads
  BY ThreadsAssumption DEF Threads
<1>2. /\ pc[t] = "queued" /\ UNCHANGED <<channel, queue, crashed>>
      /\ pc'[t] \in {"next", "idle"}
      /\ up /\ Len(sendQueue) = 1 => pc'[t] = "next"
      /\ \A s \in Threads : s # t => pc'[s] = pc[s]
  BY <1>1, Moves DEF IInv, StartIfFirst, IsFirst, Steps
<1>3. NewChannel'
  BY <1>1, <1>2 DEF WInv, NewChannel, channel
<1>4. WakeUp'
  <2>1. Joined' => Joined /\ up
    BY <1>2 DEF Joined, channel
  <2>2. SUFFICES ASSUME Awake, up PROVE Awake'
    BY <1>2, <2>1 DEF WInv, WakeUp, queue
  <2>3. CASE \E s \in Forwarders : pc[s] = "queued" /\ Len(sendQueue) = 1
    BY <1>1, <1>2, <2>2, <2>3 DEF Awake
  <2>4. CASE tasks # <<>> \/ results # 0
    BY <1>2, <2>4 DEF Awake, queue
  <2>5. CASE \E s \in Threads : pc[s] \in {"next", "front", "perform", "call", "remove"}
    BY <1>2, <2>5 DEF Awake
  <2> QED BY <2>2, <2>3, <2>4, <2>5 DEF Awake
<1> QED BY <1>3, <1>4 DEF WInv

\* A step that leaves the queue and does not join the channels: it is enough that
\* somebody stays awake.
LEMMA WKept ==
    ASSUME IInv, WInv, ~crashed, NEW t \in Threads,
           UNCHANGED sendQueue, Joined' => Joined, NewChannel',
           \A s \in Threads : s # t => pc'[s] = pc[s],
           tasks # <<>> \/ results # 0 => Awake' \/ ~Joined',
           \/ pc[t] \notin {"next", "front", "perform", "call", "remove", "queued"}
           \/ Awake' \/ ~Joined' \/ crashed' \/ sendQueue = <<>>
    PROVE  WInv'
<1>1. SUFFICES ASSUME Awake, Joined', sendQueue # <<>>, ~crashed'
               PROVE  Awake'
  BY DEF WInv, WakeUp
<1>2. CASE \E s \in Forwarders : pc[s] = "queued" /\ Len(sendQueue) = 1
  BY <1>1, <1>2, ThreadsFacts DEF Awake
<1>3. CASE \E s \in Threads : pc[s] \in {"next", "front", "perform", "call", "remove"}
  BY <1>1, <1>3 DEF Awake
<1> QED BY <1>1, <1>2, <1>3 DEF Awake

LEMMA WSend ==
    ASSUME IInv, WInv, ~crashed, NEW t \in Threads,
           SendNext(t) \/ TakeFront(t) \/ Perform(t) \/ Call(t)
    PROVE  WInv'
<1>1. /\ UNCHANGED channel /\ UNCHANGED <<sendQueue, results>>
      /\ tasks # <<>> => tasks' # <<>>
  <2>1. CASE Call(t)
    <3>1. holds[t] \in Packets
      BY <2>1, BoundsAssumption DEF IInv, ThreadsTypeOK, HoldsPacket, Call, Packets
    <3>2. Append(tasks, holds[t]) # <<>>
      BY <3>1, AppendProperties DEF IInv, ThreadsTypeOK
    <3> QED BY <2>1, <3>2 DEF Call
  <2>2. CASE ~Call(t)
    BY <2>2 DEF SendNext, TakeFront, Perform, queue
  <2> QED BY <2>1, <2>2
<1>2. PICK step \in {"front", "perform", "call", "idle"} :
        /\ Goes(t, step) \/ (UNCHANGED pc /\ crashed' /\ pc[t] = "front")
        /\ pc[t] = "next" => step = "front" \/ sendQueue = <<>>
        /\ pc[t] = "front" => step = "perform" \/ crashed'
        /\ pc[t] = "perform" => step = "call" \/ ~up
        /\ pc[t] = "call" => tasks' # <<>> \/ crashed'
        /\ pc[t] \in {"next", "front", "perform", "call"}
  <2>1. CASE Call(t)
    <3>1. holds[t] \in Packets
      BY <2>1, BoundsAssumption DEF IInv, ThreadsTypeOK, HoldsPacket, Call, Packets
    <3>2. Append(tasks, holds[t]) # <<>>
      BY <3>1, AppendProperties DEF IInv, ThreadsTypeOK
    <3> QED BY <2>1, <3>2 DEF Call
  <2>2. CASE ~Call(t)
    BY <2>2 DEF SendNext, NextStep, TakeFront, Perform
  <2> QED BY <2>1, <2>2
<1>3. /\ \A s \in Threads : s # t => pc'[s] = pc[s]
      /\ pc'[t] = step \/ (pc'[t] = "front" /\ crashed')
  BY <1>2, Moves DEF IInv, Steps
<1>4. NewChannel'
  BY <1>1, <1>2, <1>3, ThreadsFacts DEF WInv, NewChannel, channel
<1>5. Joined' => Joined /\ up
  BY <1>1 DEF Joined, channel
<1>6. tasks # <<>> \/ results # 0 => Awake'
  BY <1>1 DEF Awake
<1>7. Awake' \/ ~Joined' \/ crashed' \/ sendQueue = <<>>
  BY <1>2, <1>3, <1>5 DEF Awake
<1> QED BY <1>1, <1>3, <1>4, <1>5, <1>6, <1>7, WKept

LEMMA WTask == ASSUME IInv, WInv, ~crashed, TaskSucceeds \/ TaskFails \/ Pop PROVE WInv'
<1>1. Main # Discovery /\ Executor # Discovery
  BY ThreadsAssumption
<1>2. CASE TaskSucceeds
  <2>1. results' # 0 /\ UNCHANGED <<channel, pc>>
    BY <1>2 DEF TaskSucceeds, IInv, ThreadsTypeOK
  <2> QED BY <2>1 DEF WInv, WakeUp, Awake, NewChannel, channel
<1>3. CASE TaskFails
  <2>1. PICK step \in {"remove", "idle"} :
            Goes(Executor, step) /\ (entry # 0 => step = "remove")
    BY <1>3 DEF TaskFails
  <2>2. pc'[Executor] = step /\ \A s \in Threads : s # Executor => pc'[s] = pc[s]
    BY <2>1, Moves, ThreadsFacts DEF IInv, Steps
  <2>3. UNCHANGED channel
    BY <1>3 DEF TaskFails
  <2>4. Joined' => Awake'
    BY <2>1, <2>2, <2>3, ThreadsFacts DEF Joined, Awake, channel
  <2> QED BY <1>1, <2>2, <2>3, <2>4, ThreadsFacts DEF WInv, WakeUp, NewChannel, channel
<1>4. CASE Pop
  <2>1. UNCHANGED channel
    BY <1>4 DEF Pop
  <2>2. CASE sendQueue = <<>>
    BY <1>4, <2>1, <2>2 DEF Pop, WInv, WakeUp, NewChannel, channel
  <2>3. CASE sendQueue # <<>>
    <3>1. pc'[Main] = "next" /\ \A s \in Threads : s # Main => pc'[s] = pc[s]
      BY <1>4, <2>3, Moves, ThreadsFacts DEF Pop, IInv, Steps
    <3>2. Awake'
      BY <3>1, ThreadsFacts DEF Awake
    <3> QED BY <1>1, <2>1, <3>1, <3>2, ThreadsFacts DEF WInv, WakeUp, NewChannel, channel
  <2> QED BY <2>2, <2>3
<1> QED BY <1>2, <1>3, <1>4

LEMMA WUp == ASSUME IInv, WInv, ~crashed, PutChannel \/ Attach \/ Raise PROVE WInv'
<1>1. made \in Nat /\ attached \in 0 .. made /\ Discovery \in Threads
  BY BoundsAssumption, ThreadsFacts DEF IInv, ThreadsTypeOK
<1>2. CASE PutChannel
  <2>1. entry' = made + 1 /\ made' = made + 1 /\ attached' = attached
    BY <1>2 DEF PutChannel
  <2>2. ~Joined' /\ NewChannel'
    BY <1>1, <2>1 DEF Joined, NewChannel
  <2> QED BY <2>2 DEF WInv, WakeUp
<1>3. CASE Attach
  <2>1. PICK step \in {"idle", "raise"} : Goes(Discovery, step)
    BY <1>3 DEF Attach
  <2>2. /\ pc'[Discovery] \in {"idle", "raise"} /\ pc[Discovery] = "put"
        /\ \A s \in Threads : s # Discovery => pc'[s] = pc[s]
    BY <1>1, <1>3, <2>1, Moves DEF Attach, IInv, Steps
  <2>3. NewChannel'
    BY <2>2 DEF NewChannel
  <2>4. UNCHANGED <<entry, queue>>
    BY <1>3 DEF Attach
  <2>5. Joined' => Joined
    BY <1>3, <2>4 DEF Attach, Attachment, Joined
  <2>6. tasks # <<>> \/ results # 0 => Awake'
    BY <2>4 DEF Awake, queue
  <2> QED BY <1>1, <2>2, <2>3, <2>4, <2>5, <2>6, WKept DEF queue
<1>4. CASE Raise
  <2>1. pc'[Discovery] = "next"
    BY <1>1, <1>4, Moves DEF Raise, IInv, Steps
  <2>2. Awake' /\ NewChannel'
    BY <1>1, <2>1 DEF Awake, NewChannel
  <2> QED BY <2>2 DEF WInv, WakeUp
<1> QED BY <1>2, <1>3, <1>4

LEMMA WDown ==
    ASSUME IInv, WInv, ~crashed, NEW t \in {Discovery, Executor},
           (ServiceLost /\ t = Discovery) \/ RemoveChannel(t) \/ SeeUp(t) \/ Lower(t)
               \/ Release(t)
    PROVE  WInv'
<1>1. t \in Threads /\ Discovery \in Threads
  BY ThreadsFacts
<1>2. PICK step \in {"remove", "native", "lower", "release", "idle"} : Goes(t, step)
  BY DEF ServiceLost, RemoveChannel, SeeUp, Lower, Release
<1>3. /\ pc'[t] = step
      /\ \A s \in Threads : s # t => pc'[s] = pc[s]
  BY <1>1, <1>2, Moves DEF IInv, Steps
<1>4. /\ UNCHANGED <<attached, made, queue, crashed>>
      /\ entry' = entry \/ entry' = 0
      /\ up' = up \/ up' = FALSE
      /\ pc[t] \in {"idle", "native", "lower", "release"} \/ entry' = 0
  BY DEF ServiceLost, RemoveChannel, SeeUp, Lower, Release, channel
<1>5. NewChannel'
  <2>1. pc'[Discovery] = "put" => pc[Discovery] = "put"
    BY <1>1, <1>3
  <2> QED BY <1>4, <2>1 DEF WInv, NewChannel
<1>6. (Joined' => Joined) /\ (tasks # <<>> \/ results # 0 => Awake')
  BY <1>4 DEF Joined, Awake, queue
<1>7. pc[t] \notin {"next", "front", "perform", "call", "remove", "queued"} \/ ~Joined'
  BY <1>4 DEF Joined
<1> QED BY <1>1, <1>3, <1>4, <1>5, <1>6, <1>7, WKept DEF queue

LEMMA WNext == ASSUME OneForwarder PROVE IInv /\ WInv /\ [Next]_vars => WInv'
<1> SUFFICES ASSUME IInv, WInv, [Next]_vars PROVE WInv'
  OBVIOUS
<1>1. ASSUME Next PROVE WInv'
  <2>1. ~crashed
    BY <1>1 DEF Next
  <2>2. CASE \E t \in Forwarders : Enqueue(t) \/ StartIfFirst(t)
    BY <2>1, <2>2, WEnqueue, WStart
  <2>3. CASE \E t \in Threads : SendNext(t) \/ TakeFront(t) \/ Perform(t) \/ Call(t)
    BY <2>1, <2>3, WSend
  <2>4. CASE TaskSucceeds \/ TaskFails \/ Pop
    BY <2>1, <2>4, WTask
  <2>5. CASE PutChannel \/ Attach \/ Raise
    BY <2>1, <2>5, WUp
  <2>6. CASE \/ ServiceLost
             \/ \E t \in {Discovery, Executor} :
                    RemoveChannel(t) \/ SeeUp(t) \/ Lower(t) \/ Release(t)
    BY <2>1, <2>6, WDown
  <2> QED BY <1>1, <2>2, <2>3, <2>4, <2>5, <2>6 DEF Next
<1>2. CASE UNCHANGED vars
  BY <1>2 DEF vars, channel, queue, WInv, WakeUp, Awake, Joined, NewChannel
<1> QED BY <1>1, <1>2

\* With one forwarding thread, a face that is up through the channel the face
\* manager keeps has sent its packets when every thread is done and no transfer
\* is under way.
THEOREM OneForwarderSends == ASSUME OneForwarder PROVE Spec => []SentIfUp
<1>1. IInv /\ WInv => SentIfUp
  BY DEF WInv, WakeUp, Awake, Joined, SentIfUp, Quiet, Threads
<1>2. Spec => [](IInv /\ WInv)
  <2>1. IInv /\ WInv /\ [Next]_vars => (IInv /\ WInv)'
    BY InvNext, WNext
  <2> QED BY <2>1, InvInit, WInit, PTL DEF Spec
<1> QED BY <1>1, <1>2, PTL

=============================================================================
