------------------------- MODULE OppTransportProofs -------------------------
(***************************************************************************)
(* Proofs about OppTransport for every number of packets and channels.     *)
(***************************************************************************)
EXTENDS OppTransport, SequenceTheorems, TLAPS

\* Removing the i-th element of a sequence moves the later ones up by one.
LEMMA RemoveAtProperties ==
    ASSUME NEW S, NEW s \in Seq(S), NEW i \in 1 .. Len(s)
    PROVE  /\ RemoveAt(s, i) \in Seq(S)
           /\ Len(RemoveAt(s, i)) = Len(s) - 1
           /\ \A j \in 1 .. Len(s) - 1 :
                RemoveAt(s, i)[j] = IF j < i THEN s[j] ELSE s[j + 1]
<1> DEFINE before == SubSeq(s, 1, i - 1)
           after  == SubSeq(s, i + 1, Len(s))
<1>1. /\ before \in Seq(S)
      /\ Len(before) = i - 1
      /\ \A j \in 1 .. i - 1 : before[j] = s[j]
  <2>1. \A j \in 1 .. i - 1 : s[j] \in S
    BY ElementOfSeq
  <2> QED BY <2>1, SubSeqProperties
<1>2. /\ after \in Seq(S)
      /\ Len(after) = Len(s) - i
      /\ \A j \in 1 .. Len(s) - i : after[j] = s[i + j]
  <2>1. \A j \in i + 1 .. Len(s) : s[j] \in S
    BY ElementOfSeq
  <2> QED BY <2>1, SubSeqProperties
<1> HIDE DEF before, after
<1>3. /\ before \o after \in Seq(S)
      /\ Len(before \o after) = Len(before) + Len(after)
      /\ \A j \in 1 .. Len(before) + Len(after) : (before \o after)[j] =
            IF j <= Len(before) THEN before[j] ELSE after[j - Len(before)]
  BY <1>1, <1>2, ConcatProperties
<1>4. RemoveAt(s, i) = before \o after
  BY DEF RemoveAt, before, after
<1>5. i \in Int /\ Len(s) \in Nat
  BY LenProperties
<1>6. Len(before) + Len(after) = Len(s) - 1
  BY <1>1, <1>2, <1>5
<1>7. ASSUME NEW j \in 1 .. Len(s) - 1
      PROVE  (before \o after)[j] = IF j < i THEN s[j] ELSE s[j + 1]
  <2>1. CASE j < i
    BY <1>1, <1>3, <1>5, <1>6, <2>1
  <2>2. CASE j >= i
    <3>1. (before \o after)[j] = after[j - (i - 1)]
      BY <1>1, <1>3, <1>5, <1>6, <2>2
    <3>2. j - (i - 1) \in 1 .. Len(s) - i /\ i + (j - (i - 1)) = j + 1
      BY <1>5, <2>2
    <3> QED BY <1>2, <1>5, <2>2, <3>1, <3>2
  <2>3. j < i \/ j >= i
    BY <1>5
  <2> QED BY <2>1, <2>2, <2>3
<1> QED BY <1>3, <1>4, <1>6, <1>7

-----------------------------------------------------------------------------

LEMMA TypeInit == Init => TypeOK
<1> SUFFICES ASSUME Init PROVE TypeOK
  OBVIOUS
<1> USE BoundsAssumption
<1>1. /\ <<>> \in Seq(Packets)
      /\ <<>> \in Seq(TaskType)
      /\ <<>> \in Seq(ResultType)
  BY EmptySeq
<1>2. /\ accepted \in 0 .. MaxPackets
      /\ channels \in 0 .. MaxChannels
      /\ channel \in 0 .. channels
      /\ attached \in 0 .. channels
      /\ wire \in 0 .. accepted
  BY DEF Init
<1>3. /\ sendQueue \in Seq(Packets)
      /\ tasks \in Seq(TaskType)
      /\ results \in Seq(ResultType)
  BY <1>1 DEF Init
<1>4. /\ state \in {"DOWN", "UP", "CLOSING"}
      /\ refs \subseteq Channels
      /\ crashed \in BOOLEAN
      /\ calm \in BOOLEAN
  BY DEF Init
<1> QED BY <1>2, <1>3, <1>4 DEF TypeOK

\* What performSend hands over is a task of the right type.
LEMMA SubmittedType ==
    ASSUME NEW P, NEW C, NEW up, NEW queue \in Seq(P), NEW entry,
           NEW pending \in Seq([packet : P, channel : C]),
           up => entry \in C
    PROVE  Submitted(up, queue, entry, pending)
                \in Seq([packet : P, channel : C])
<1>1. CASE up /\ queue # <<>>
  <2>1. [packet |-> Head(queue), channel |-> entry] \in [packet : P, channel : C]
    BY <1>1, HeadTailProperties
  <2> QED BY <1>1, <2>1, AppendProperties DEF Submitted
<1>2. CASE ~(up /\ queue # <<>>)
  BY <1>2 DEF Submitted
<1> QED BY <1>1, <1>2

\* Sequences of accepted packets stay such when more packets are accepted and
\* more channels made.
LEMMA TypesGrow ==
    ASSUME NEW m \in Nat, NEW n \in Nat, NEW a \in Nat, NEW b \in Nat,
           m <= n, a <= b
    PROVE  /\ \A s \in Seq(1 .. m) : s \in Seq(1 .. n)
           /\ \A s \in Seq([packet : 1 .. m, channel : 1 .. a]) :
                s \in Seq([packet : 1 .. n, channel : 1 .. b])
           /\ \A s \in Seq([packet : 1 .. m, ok : BOOLEAN]) :
                s \in Seq([packet : 1 .. n, ok : BOOLEAN])
<1>1. 1 .. m \subseteq 1 .. n /\ 1 .. a \subseteq 1 .. b
  OBVIOUS
<1>2. [packet : 1 .. m, channel : 1 .. a] \subseteq [packet : 1 .. n, channel : 1 .. b]
  BY <1>1
<1>3. [packet : 1 .. m, ok : BOOLEAN] \subseteq [packet : 1 .. n, ok : BOOLEAN]
  BY <1>1
<1> QED BY <1>1, <1>2, <1>3, SeqMonotonic

-----------------------------------------------------------------------------

\* The types and the attachment of the channel are proved together: a task is
\* well typed because the face is up only with a channel attached.
Shape == TypeOK /\ AttachedIffUp

LEMMA ShapeInit == Init => Shape
BY TypeInit DEF Init, Shape, AttachedIffUp

LEMMA ShapeDoSend == ASSUME Shape, DoSend PROVE Shape'
<1> USE DEF Shape, DoSend, face
<1>1. /\ accepted \in Nat /\ channels \in Nat
      /\ accepted' \in 0 .. MaxPackets /\ accepted' = accepted + 1
      /\ wire' \in 0 .. accepted'
  BY BoundsAssumption DEF TypeOK
<1>2. /\ \A s \in Seq(1 .. accepted) : s \in Seq(1 .. accepted')
      /\ tasks \in Seq([packet : 1 .. accepted', channel : 1 .. channels])
      /\ results' \in Seq(ResultType)'
  <2>1. accepted' \in Nat /\ accepted <= accepted' /\ channels <= channels
    BY <1>1
  <2> QED BY <1>1, <2>1, TypesGrow DEF TypeOK, TaskType, ResultType, Packets, Channels
<1>3. sendQueue' \in Seq(1 .. accepted')
  <2>1. sendQueue \in Seq(1 .. accepted')
    BY <1>2 DEF TypeOK, Packets
  <2>2. accepted + 1 \in 1 .. accepted'
    BY <1>1
  <2> QED BY <2>1, <2>2, AppendProperties DEF Enqueued, NextPacket
<1>4. tasks' \in Seq([packet : 1 .. accepted', channel : 1 .. channels])
  <2>1. state = "UP" => attached \in 1 .. channels
    BY <1>1 DEF TypeOK, AttachedIffUp
  <2>2. Submitted(state = "UP", sendQueue', attached, tasks)
            \in Seq([packet : 1 .. accepted', channel : 1 .. channels])
    BY <1>2, <1>3, <2>1, SubmittedType
  <2> QED BY <1>2, <2>2
<1>5. TypeOK'
  BY <1>1, <1>2, <1>3, <1>4 DEF TypeOK, TaskType, ResultType, Packets, Channels
<1>6. AttachedIffUp'
  BY DEF AttachedIffUp
<1> QED BY <1>5, <1>6

LEMMA ShapeRemovePacket == ASSUME Shape, RemovePacket PROVE Shape'
<1> USE DEF Shape, RemovePacket, face, transfers
<1>1. PICK i \in DOMAIN sendQueue : sendQueue' = RemoveAt(sendQueue, i)
  OBVIOUS
<1>2. sendQueue' \in Seq(Packets)
  BY <1>1, RemoveAtProperties, LenProperties DEF TypeOK
<1>3. TypeOK'
  BY <1>2 DEF TypeOK, TaskType, ResultType, Packets, Channels
<1>4. AttachedIffUp'
  BY DEF AttachedIffUp
<1> QED BY <1>3, <1>4

LEMMA ShapeBringUp == ASSUME Shape, BringUp PROVE Shape'
<1> USE DEF Shape
<1>1. /\ accepted \in Nat /\ channels \in Nat
      /\ channels' \in 0 .. MaxChannels /\ channels' = channels + 1
      /\ channel' \in 1 .. channels' /\ channel' = channels'
  BY BoundsAssumption DEF TypeOK, BringUp
<1>2. tasks \in Seq([packet : 1 .. accepted, channel : 1 .. channels'])
  <2>1. channels' \in Nat /\ channels <= channels' /\ accepted <= accepted
    BY <1>1
  <2> QED BY <1>1, <2>1, TypesGrow DEF TypeOK, TaskType, Packets, Channels
<1>3. /\ state' \in {"DOWN", "UP", "CLOSING"}
      /\ attached' \in 0 .. channels'
      /\ refs' \subseteq 1 .. channels'
      /\ tasks' \in Seq([packet : 1 .. accepted, channel : 1 .. channels'])
      /\ AttachedIffUp'
  <2>1. CASE state = "DOWN"
    <3>1. /\ state' = "UP" /\ attached' = channels' /\ refs' = {channels'}
          /\ tasks' = Submitted(TRUE, sendQueue, attached', tasks)
      BY <1>1, <2>1 DEF BringUp, AttachedIffUp, Resumed
    <3>2. attached' \in 1 .. channels' /\ sendQueue \in Seq(1 .. accepted)
      BY <1>1, <3>1 DEF TypeOK, Packets
    <3>3. TRUE => attached' \in 1 .. channels'
      BY <3>2
    <3>4. tasks' \in Seq([packet : 1 .. accepted, channel : 1 .. channels'])
      BY <1>2, <3>1, <3>2, <3>3, SubmittedType
    <3>5. channel' # 0 /\ attached' = channel' /\ refs' = {channel'}
      BY <1>1, <3>1
    <3>6. AttachedIffUp'
      BY <3>1, <3>5 DEF AttachedIffUp
    <3>7. refs' \subseteq 1 .. channels' /\ attached' \in 0 .. channels'
      BY <1>1, <3>1, <3>2
    <3> QED BY <3>1, <3>4, <3>6, <3>7
  <2>2. CASE state # "DOWN"
    <3>1. /\ state' = state /\ attached' = attached /\ refs' = refs
          /\ tasks' = tasks /\ channel = 0
      BY <2>2 DEF BringUp
    <3>2. state' = "CLOSING"
      BY <2>2, <3>1 DEF TypeOK, AttachedIffUp
    <3>3. attached' \in 0 .. channels' /\ refs' \subseteq 1 .. channels'
      BY <1>1, <3>1 DEF TypeOK, Channels
    <3>4. AttachedIffUp'
      BY <3>2 DEF AttachedIffUp
    <3> QED BY <1>2, <3>1, <3>2, <3>3, <3>4
  <2> QED BY <2>1, <2>2
<1>4. /\ sendQueue' \in Seq(Packets')
      /\ results' \in Seq(ResultType')
      /\ accepted' = accepted
      /\ wire' \in 0 .. accepted'
      /\ crashed' \in BOOLEAN
  BY DEF BringUp, TypeOK, Packets, ResultType
<1>5. calm' \in BOOLEAN
  BY DEF BringUp
<1> QED BY <1>1, <1>3, <1>4, <1>5 DEF TypeOK, TaskType, Packets, Channels

\* Taking the face down keeps the attachment, for either of its two causes.
LEMMA ShapeTakeDown ==
    ASSUME Shape, TakeDown
    PROVE  /\ AttachedIffUp'
           /\ channels' = channels
           /\ state' \in {"DOWN", "UP", "CLOSING"}
           /\ channel' \in 0 .. channels'
           /\ attached' \in 0 .. channels'
           /\ refs' \subseteq Channels'
BY DEF Shape, TakeDown, TypeOK, AttachedIffUp, Lowered, Released, Channels

LEMMA ShapeBringDown == ASSUME Shape, BringDown PROVE Shape'
<1>1. TypeOK'
  BY ShapeTakeDown DEF Shape, BringDown, transfers, TypeOK, TaskType,
     ResultType, Packets, Channels
<1> QED BY <1>1, ShapeTakeDown DEF Shape, BringDown

\* A finished transfer becomes a result.
LEMMA ShapeTask ==
    ASSUME TypeOK, tasks # <<>>, NEW ok \in BOOLEAN,
           tasks' = Tail(tasks),
           results' = Append(results, [packet |-> Head(tasks).packet, ok |-> ok])
    PROVE  /\ Head(tasks).packet \in Packets
           /\ tasks' \in Seq(TaskType)
           /\ results' \in Seq(ResultType)
<1>1. Head(tasks) \in TaskType /\ Tail(tasks) \in Seq(TaskType)
  BY HeadTailProperties DEF TypeOK
<1>2. [packet |-> Head(tasks).packet, ok |-> ok] \in ResultType
  BY <1>1 DEF TaskType, ResultType
<1> QED BY <1>1, <1>2, AppendProperties DEF TypeOK, TaskType

LEMMA ShapeTaskSucceeds == ASSUME Shape, TaskSucceeds PROVE Shape'
<1> USE DEF Shape, TaskSucceeds, face
<1>1. /\ Head(tasks).packet \in Packets
      /\ tasks' \in Seq(TaskType)
      /\ results' \in Seq(ResultType)
  BY ShapeTask
<1>2. TypeOK'
  BY <1>1 DEF TypeOK, TaskType, ResultType, Packets, Channels
<1> QED BY <1>2 DEF AttachedIffUp

LEMMA ShapeTaskFails == ASSUME Shape, TaskFails PROVE Shape'
<1> USE DEF Shape, TaskFails
<1>1. /\ Head(tasks).packet \in Packets
      /\ tasks' \in Seq(TaskType)
      /\ results' \in Seq(ResultType)
  BY ShapeTask
<1>2. wire' \in 0 .. accepted
  BY <1>1 DEF TypeOK, Packets
<1>3. TypeOK'
  BY <1>1, <1>2, ShapeTakeDown DEF TypeOK, TaskType, ResultType, Packets,
     Channels, InTransit
<1> QED BY <1>3, ShapeTakeDown

LEMMA ShapeSendComplete == ASSUME Shape, SendComplete PROVE Shape'
<1> USE DEF Shape, SendComplete, face
<1>1. results' \in Seq(ResultType) /\ Head(results).ok \in BOOLEAN
  <2>1. Head(results) \in ResultType /\ Tail(results) \in Seq(ResultType)
    BY HeadTailProperties DEF TypeOK
  <2> QED BY <2>1 DEF ResultType
<1>2. sendQueue' \in Seq(Packets)
  BY <1>1, HeadTailProperties DEF TypeOK, Completed
<1>3. tasks' \in Seq(TaskType)
  <2>1. state = "UP" => attached \in Channels
    BY DEF TypeOK, AttachedIffUp, Channels
  <2> QED BY <1>2, <2>1, SubmittedType DEF TypeOK, TaskType
<1>4. TypeOK'
  BY <1>1, <1>2, <1>3 DEF TypeOK, TaskType, ResultType, Packets, Channels,
     InTransit
<1> QED BY <1>4 DEF AttachedIffUp

LEMMA ShapeUnderflow == ASSUME Shape, SendCompleteUnderflow PROVE Shape'
<1> USE DEF Shape, SendCompleteUnderflow, face
<1>1. results' \in Seq(ResultType)
  BY HeadTailProperties DEF TypeOK
<1>2. TypeOK'
  BY <1>1 DEF TypeOK, TaskType, ResultType, Packets, Channels
<1> QED BY <1>2 DEF AttachedIffUp

LEMMA ShapeClose == ASSUME Shape, Close PROVE Shape'
BY DEF Shape, Close, transfers, TypeOK, AttachedIffUp, TaskType, ResultType,
   Packets, Channels

LEMMA ShapeNext == Shape /\ [Next]_vars => Shape'
<1> SUFFICES ASSUME Shape, [Next]_vars PROVE Shape'
  OBVIOUS
<1>1. CASE UNCHANGED vars
  BY <1>1 DEF vars, Shape, TypeOK, AttachedIffUp, TaskType, ResultType,
     Packets, Channels
<1> QED BY <1>1, ShapeDoSend, ShapeRemovePacket, ShapeBringUp, ShapeBringDown,
        ShapeTaskSucceeds, ShapeTaskFails, ShapeSendComplete, ShapeUnderflow,
        ShapeClose DEF Next

LEMMA ShapeAlways == Spec => []Shape
<1> QED BY ShapeInit, ShapeNext, PTL DEF Spec

\* Every variable keeps its type, for every number of packets and channels.
THEOREM TypeCorrect == Spec => []TypeOK
<1>1. Shape => TypeOK
  BY DEF Shape
<1> QED BY <1>1, ShapeAlways, PTL

\* The face manager's channel, the native map and the live JNI references
\* agree: performSend never calls a deleted reference, and none leaks.
THEOREM Attachment == Spec => []AttachedIffUp
<1>1. Shape => AttachedIffUp
  BY DEF Shape
<1> QED BY <1>1, ShapeAlways, PTL

-----------------------------------------------------------------------------
(* The order of the queue, the transfers and what the peer received.  Each *)
(* change an action makes to them keeps the order.                         *)

Waiting == Seq(Nat)
Pending == Seq([packet : Nat, channel : Nat])

LEMMA SeqFacts ==
    ASSUME NEW S, NEW s \in Seq(S)
    PROVE  /\ DOMAIN s = 1 .. Len(s) /\ Len(s) \in Nat
           /\ \A i \in 1 .. Len(s) : s[i] \in S
           /\ s # <<>> => Len(s) \in Nat \ {0} /\ Head(s) = s[1] /\ s[1] \in S
<1>1. DOMAIN s = 1 .. Len(s) /\ Len(s) \in Nat
  BY LenProperties
<1>2. \A i \in 1 .. Len(s) : s[i] \in S
  BY ElementOfSeq
<1>3. s # <<>> => Len(s) \in Nat \ {0}
  BY EmptySeq
<1>4. s # <<>> => Head(s) = s[1]
  OBVIOUS
<1> QED BY <1>1, <1>2, <1>3, <1>4

LEMMA TailFacts ==
    ASSUME NEW S, NEW s \in Seq(S), s # <<>>
    PROVE  /\ Tail(s) \in Seq(S)
           /\ DOMAIN Tail(s) = 1 .. Len(s) - 1
           /\ \A i \in 1 .. Len(s) - 1 : Tail(s)[i] = s[i + 1]
<1>1. Tail(s) \in Seq(S) /\ Len(Tail(s)) = Len(s) - 1
      /\ \A i \in 1 .. Len(Tail(s)) : Tail(s)[i] = s[i + 1]
  BY HeadTailProperties
<1> QED BY <1>1, LenProperties

LEMMA AppendFacts ==
    ASSUME NEW S, NEW s \in Seq(S), NEW e \in S
    PROVE  /\ Append(s, e) \in Seq(S)
           /\ DOMAIN Append(s, e) = 1 .. Len(s) + 1
           /\ \A i \in 1 .. Len(s) : Append(s, e)[i] = s[i]
           /\ Append(s, e)[Len(s) + 1] = e
<1>1. Append(s, e) \in Seq(S) /\ Len(Append(s, e)) = Len(s) + 1
      /\ \A i \in 1 .. Len(s) : Append(s, e)[i] = s[i]
      /\ Append(s, e)[Len(s) + 1] = e
  BY AppendProperties
<1> QED BY <1>1, LenProperties

LEMMA OrderEnqueue ==
    ASSUME NEW queue \in Waiting, NEW pending \in Pending, NEW last \in Nat,
           InOrder(queue, pending, last), NEW p \in Nat,
           \A i \in DOMAIN queue : queue[i] < p,
           \A i \in DOMAIN pending : pending[i].packet <= p,
           last <= p
    PROVE  InOrder(Append(queue, p), pending, last)
<1>1. /\ DOMAIN queue = 1 .. Len(queue) /\ Len(queue) \in Nat
      /\ \A i \in 1 .. Len(queue) : queue[i] \in Nat
  BY SeqFacts DEF Waiting
<1>2. /\ DOMAIN Append(queue, p) = 1 .. Len(queue) + 1
      /\ \A i \in 1 .. Len(queue) : Append(queue, p)[i] = queue[i]
      /\ Append(queue, p)[Len(queue) + 1] = p
  BY AppendFacts DEF Waiting
<1> QED BY <1>1, <1>2 DEF InOrder

LEMMA OrderSubmit ==
    ASSUME NEW queue \in Waiting, NEW pending \in Pending, NEW last \in Nat,
           InOrder(queue, pending, last), NEW up, NEW entry \in Nat
    PROVE  InOrder(queue, Submitted(up, queue, entry, pending), last)
<1>1. CASE ~(up /\ queue # <<>>)
  BY <1>1 DEF Submitted
<1>2. CASE up /\ queue # <<>>
  <2> DEFINE task == [packet |-> queue[1], channel |-> entry]
             more == Append(pending, task)
  <2>1. /\ DOMAIN queue = 1 .. Len(queue) /\ Len(queue) \in Nat \ {0}
        /\ \A i \in 1 .. Len(queue) : queue[i] \in Nat
        /\ Head(queue) = queue[1] /\ queue[1] \in Nat
    BY <1>2, SeqFacts DEF Waiting
  <2>2. /\ DOMAIN pending = 1 .. Len(pending) /\ Len(pending) \in Nat
        /\ \A i \in 1 .. Len(pending) :
                pending[i] \in [packet : Nat, channel : Nat]
    BY SeqFacts DEF Pending
  <2>3. task \in [packet : Nat, channel : Nat] /\ task.packet = queue[1]
    BY <2>1
  <2> HIDE DEF task
  <2>4. /\ DOMAIN more = 1 .. Len(pending) + 1
        /\ \A i \in 1 .. Len(pending) : more[i] = pending[i]
        /\ more[Len(pending) + 1] = task
    BY <2>3, AppendFacts DEF Pending
  <2> HIDE DEF more
  <2>5. \A i \in 1 .. Len(pending) : pending[i].packet \in Nat
    BY <2>2
  <2>6. \A j \in DOMAIN queue : queue[1] <= queue[j]
    BY <2>1 DEF InOrder
  <2>7. \A i, j \in DOMAIN more : i < j => more[i].packet <= more[j].packet
    BY <2>1, <2>2, <2>3, <2>4, <2>5 DEF InOrder
  <2>8. \A i \in DOMAIN more, j \in DOMAIN queue : more[i].packet <= queue[j]
    BY <2>1, <2>2, <2>3, <2>4, <2>5, <2>6 DEF InOrder
  <2>9. \A i \in DOMAIN more : last <= more[i].packet
    BY <2>1, <2>2, <2>3, <2>4, <2>5 DEF InOrder
  <2>10. InOrder(queue, more, last)
    BY <2>7, <2>8, <2>9 DEF InOrder
  <2>11. Submitted(up, queue, entry, pending) = more
    BY <1>2, <2>1 DEF Submitted, more, task
  <2> QED BY <2>10, <2>11
<1> QED BY <1>1, <1>2

LEMMA OrderRemove ==
    ASSUME NEW queue \in Waiting, NEW pending \in Pending, NEW last \in Nat,
           InOrder(queue, pending, last), NEW i \in DOMAIN queue
    PROVE  InOrder(RemoveAt(queue, i), pending, last)
<1> DEFINE rest == RemoveAt(queue, i)
<1>1. /\ DOMAIN queue = 1 .. Len(queue) /\ Len(queue) \in Nat
      /\ \A j \in 1 .. Len(queue) : queue[j] \in Nat
  BY SeqFacts DEF Waiting
<1>2. /\ rest \in Seq(Nat)
      /\ Len(rest) = Len(queue) - 1
      /\ \A j \in 1 .. Len(queue) - 1 :
            rest[j] = IF j < i THEN queue[j] ELSE queue[j + 1]
  BY <1>1, RemoveAtProperties DEF Waiting
<1>3. DOMAIN rest = 1 .. Len(queue) - 1
  BY <1>2, SeqFacts
<1> HIDE DEF rest
<1>4. \A j \in DOMAIN rest :
        \/ j < i /\ j \in DOMAIN queue /\ rest[j] = queue[j]
        \/ j >= i /\ j + 1 \in DOMAIN queue /\ rest[j] = queue[j + 1]
  BY <1>1, <1>2, <1>3
<1>5. \A j, k \in DOMAIN rest : j < k => rest[j] < rest[k]
  BY <1>1, <1>3, <1>4 DEF InOrder
<1>6. \A k \in DOMAIN pending, j \in DOMAIN rest : pending[k].packet <= rest[j]
  BY <1>4 DEF InOrder
<1>7. \A j \in DOMAIN rest : last <= rest[j]
  BY <1>4 DEF InOrder
<1> QED BY <1>5, <1>6, <1>7 DEF InOrder, rest

LEMMA OrderPop ==
    ASSUME NEW queue \in Waiting, NEW pending \in Pending, NEW last \in Nat,
           InOrder(queue, pending, last), queue # <<>>
    PROVE  InOrder(Tail(queue), pending, last)
<1>1. DOMAIN queue = 1 .. Len(queue) /\ Len(queue) \in Nat
  BY SeqFacts DEF Waiting
<1>2. /\ DOMAIN Tail(queue) = 1 .. Len(queue) - 1
      /\ \A i \in 1 .. Len(queue) - 1 : Tail(queue)[i] = queue[i + 1]
  BY TailFacts DEF Waiting
<1> QED BY <1>1, <1>2 DEF InOrder

LEMMA OrderTransfer ==
    ASSUME NEW queue \in Waiting, NEW pending \in Pending, NEW last \in Nat,
           InOrder(queue, pending, last), pending # <<>>
    PROVE  /\ Head(pending).packet \in Nat
           /\ last <= Head(pending).packet
           /\ InOrder(queue, Tail(pending), last)
           /\ InOrder(queue, Tail(pending), Head(pending).packet)
<1>1. /\ DOMAIN pending = 1 .. Len(pending) /\ Len(pending) \in Nat \ {0}
      /\ Head(pending) = pending[1]
      /\ pending[1] \in [packet : Nat, channel : Nat]
  BY SeqFacts DEF Pending
<1>2. /\ DOMAIN Tail(pending) = 1 .. Len(pending) - 1
      /\ \A i \in 1 .. Len(pending) - 1 : Tail(pending)[i] = pending[i + 1]
  BY TailFacts DEF Pending
<1>3. Head(pending).packet \in Nat
  BY <1>1
<1>4. last <= Head(pending).packet
  BY <1>1 DEF InOrder
<1>5. InOrder(queue, Tail(pending), last)
  BY <1>1, <1>2 DEF InOrder
<1>6. InOrder(queue, Tail(pending), Head(pending).packet)
  BY <1>1, <1>2 DEF InOrder
<1> QED BY <1>3, <1>4, <1>5, <1>6

LEMMA WaitingPending ==
    ASSUME NEW m \in Nat, NEW n \in Nat, NEW queue \in Seq(1 .. m),
           NEW pending \in Seq([packet : 1 .. m, channel : 1 .. n])
    PROVE  queue \in Waiting /\ pending \in Pending
<1>1. 1 .. m \subseteq Nat
  OBVIOUS
<1>2. [packet : 1 .. m, channel : 1 .. n] \subseteq [packet : Nat, channel : Nat]
  OBVIOUS
<1>3. queue \in Seq(Nat)
  BY <1>1, SeqMonotonic
<1>4. ASSUME NEW P, NEW Q, P \subseteq Q, pending \in Seq(P)
      PROVE  pending \in Seq(Q)
  BY <1>4, SeqMonotonic
<1>5. pending \in Seq([packet : Nat, channel : Nat])
  BY <1>2, <1>4
<1> QED BY <1>3, <1>5 DEF Waiting, Pending

LEMMA OrderNext ==
    Shape /\ TransfersInOrder /\ [Next]_vars => TransfersInOrder'
<1> SUFFICES ASSUME Shape, TransfersInOrder, [Next]_vars
             PROVE  TransfersInOrder'
  OBVIOUS
<1>1. /\ sendQueue \in Waiting /\ tasks \in Pending /\ wire \in Nat
      /\ InOrder(sendQueue, tasks, wire)
  <2>1. /\ accepted \in Nat /\ channels \in Nat /\ wire \in Nat
        /\ sendQueue \in Seq(1 .. accepted)
        /\ tasks \in Seq([packet : 1 .. accepted, channel : 1 .. channels])
    BY DEF Shape, TypeOK, Packets, Channels, TaskType
  <2> QED BY <2>1, WaitingPending DEF TransfersInOrder
<1>2. /\ attached \in Nat
      /\ sendQueue' \in Waiting /\ tasks' \in Pending /\ wire' \in Nat
  <2>1. TypeOK'
    BY ShapeNext DEF Shape
  <2>2. /\ accepted' \in Nat /\ channels' \in Nat /\ wire' \in Nat
        /\ sendQueue' \in Seq(1 .. accepted')
        /\ tasks' \in Seq([packet : 1 .. accepted', channel : 1 .. channels'])
    BY <2>1 DEF TypeOK, Packets, Channels, TaskType
  <2>3. sendQueue' \in Waiting /\ tasks' \in Pending
    BY <2>2, WaitingPending
  <2> QED BY <2>2, <2>3 DEF Shape, TypeOK
<1>3. CASE DoSend
  <2>1. /\ accepted \in Nat
        /\ \A i \in DOMAIN sendQueue : sendQueue[i] < accepted + 1
        /\ \A i \in DOMAIN tasks : tasks[i].packet <= accepted + 1
        /\ wire <= accepted + 1
    <3>1. \A i \in DOMAIN sendQueue : sendQueue[i] \in 1 .. accepted
      BY SeqFacts DEF Shape, TypeOK, Packets
    <3>2. \A i \in DOMAIN tasks : tasks[i] \in TaskType
      BY SeqFacts DEF Shape, TypeOK
    <3> QED BY <3>1, <3>2 DEF Shape, TypeOK, TaskType, Packets
  <2>2. sendQueue' = Append(sendQueue, accepted + 1) /\ wire' = wire
    BY <1>3 DEF DoSend, Enqueued, NextPacket
  <2>3. InOrder(sendQueue', tasks, wire')
    BY <1>1, <2>1, <2>2, OrderEnqueue
  <2>4. tasks' = tasks \/ tasks' = Submitted(state = "UP", sendQueue', attached, tasks)
    BY <1>3 DEF DoSend
  <2> QED BY <1>1, <1>2, <2>3, <2>4, OrderSubmit DEF TransfersInOrder
<1>4. CASE RemovePacket
  <2>1. PICK i \in DOMAIN sendQueue : sendQueue' = RemoveAt(sendQueue, i)
    BY <1>4 DEF RemovePacket
  <2>2. tasks' = tasks /\ wire' = wire
    BY <1>4 DEF RemovePacket, transfers
  <2> QED BY <1>1, <2>1, <2>2, OrderRemove DEF TransfersInOrder
<1>5. CASE BringUp
  <2>1. /\ sendQueue' = sendQueue /\ wire' = wire
        /\ \/ tasks' = tasks
           \/ tasks' = Submitted(TRUE, sendQueue, attached', tasks)
              /\ attached' \in Nat
    <3>1. channels \in Nat /\ channels + 1 \in Nat
      BY DEF Shape, TypeOK
    <3>2. CASE state = "DOWN"
      BY <1>5, <3>1, <3>2 DEF BringUp, Resumed
    <3>3. CASE state # "DOWN"
      BY <1>5, <3>3 DEF BringUp
    <3> QED BY <3>2, <3>3
  <2> QED BY <1>1, <2>1, OrderSubmit DEF TransfersInOrder
<1>6. CASE BringDown
  BY <1>1, <1>6 DEF BringDown, transfers, TransfersInOrder
<1>7. CASE TaskSucceeds
  BY <1>1, <1>7, OrderTransfer DEF TaskSucceeds, TransfersInOrder
<1>8. CASE TaskFails
  BY <1>1, <1>8, OrderTransfer DEF TaskFails, TransfersInOrder
<1>9. CASE SendComplete
  <2>1. InOrder(sendQueue', tasks, wire) /\ wire' = wire
    BY <1>1, <1>9, OrderPop DEF SendComplete, Completed
  <2>2. tasks' = tasks \/ tasks' = Submitted(state = "UP", sendQueue', attached, tasks)
    BY <1>9 DEF SendComplete
  <2> QED BY <1>1, <1>2, <2>1, <2>2, OrderSubmit DEF TransfersInOrder
<1>10. CASE SendCompleteUnderflow
  BY <1>1, <1>10 DEF SendCompleteUnderflow, TransfersInOrder
<1>11. CASE Close
  BY <1>1, <1>11 DEF Close, transfers, TransfersInOrder
<1>12. CASE UNCHANGED vars
  BY <1>1, <1>12 DEF vars, TransfersInOrder
<1> QED BY <1>3, <1>4, <1>5, <1>6, <1>7, <1>8, <1>9, <1>10, <1>11, <1>12 DEF Next

\* Whatever attachments, withdrawals and stray acknowledgements happen, packets
\* are queued, transferred and received in the order they were accepted in.
THEOREM Ordering == Spec => []TransfersInOrder
<1>1. Init => TransfersInOrder
  BY DEF Init, TransfersInOrder, InOrder
<1> QED BY <1>1, OrderNext, ShapeAlways, PTL DEF Spec

-----------------------------------------------------------------------------

LEMMA StallNext == Shape /\ NoStall /\ [Next]_vars => NoStall'
<1> SUFFICES ASSUME Shape, NoStall, [Next]_vars,
                    state' = "UP", sendQueue' # <<>>
             PROVE  InTransit(tasks, results)'
  BY DEF NoStall
<1>1. tasks \in Seq(TaskType) /\ results \in Seq(ResultType)
  BY DEF Shape, TypeOK
<1>2. \A t : Append(tasks, t) # <<>>
  BY <1>1
<1>3. CASE DoSend
  <2>1. CASE Len(sendQueue') = 1
    BY <1>2, <1>3, <2>1 DEF DoSend, face, Submitted, InTransit
  <2>2. CASE Len(sendQueue') # 1
    <3>1. sendQueue # <<>>
      BY <1>3, <2>2 DEF DoSend, Enqueued
    <3> QED BY <1>3, <2>2, <3>1 DEF DoSend, face, NoStall, InTransit
  <2> QED BY <2>1, <2>2
<1>4. CASE RemovePacket
  <2>1. sendQueue # <<>>
    BY <1>4 DEF RemovePacket
  <2> QED BY <1>4, <2>1 DEF RemovePacket, face, transfers, NoStall, InTransit
<1>5. CASE BringUp
  <2>1. CASE state = "DOWN"
    BY <1>2, <1>5, <2>1 DEF BringUp, Resumed, Submitted, InTransit
  <2>2. CASE state # "DOWN"
    BY <1>5, <2>2 DEF BringUp, NoStall, InTransit
  <2> QED BY <2>1, <2>2
<1>6. CASE BringDown
  BY <1>6 DEF BringDown, TakeDown, Lowered
<1>7. CASE TaskSucceeds
  <2> DEFINE r == [packet |-> Head(tasks).packet, ok |-> TRUE]
  <2>1. r \in ResultType
    BY <1>7, ShapeTask, HeadTailProperties DEF Shape, TypeOK, TaskSucceeds,
       TaskType, ResultType
  <2>2. results' = Append(results, r) /\ r.ok
    BY <1>7 DEF TaskSucceeds
  <2>3. Len(results) + 1 \in DOMAIN results' /\ results'[Len(results) + 1] = r
    BY <1>1, <2>1, <2>2, AppendFacts, SeqFacts
  <2> QED BY <2>2, <2>3 DEF InTransit
<1>8. CASE TaskFails
  <2>1. channel # 0 => state' # "UP"
    BY <1>8 DEF TaskFails, TakeDown, Lowered
  <2>2. channel = 0 => state' # "UP"
    BY <1>8 DEF TaskFails, TakeDown, Shape, AttachedIffUp
  <2> QED BY <2>1, <2>2
<1>9. CASE SendComplete
  <2>1. CASE Head(results).ok
    BY <1>2, <1>9, <2>1 DEF SendComplete, face, Submitted, InTransit
  <2>2. CASE ~Head(results).ok
    <3>1. /\ results' = Tail(results) /\ results # <<>>
          /\ sendQueue' = sendQueue /\ tasks' = tasks /\ state' = state
      BY <1>9, <2>2 DEF SendComplete, face, Completed
    <3>2. tasks # <<>> \/ \E i \in DOMAIN results : results[i].ok
      BY <3>1 DEF NoStall, InTransit
    <3>3. ASSUME NEW i \in DOMAIN results, results[i].ok
          PROVE  i - 1 \in DOMAIN results' /\ results'[i - 1].ok
      <4>1. Head(results) = results[1] /\ DOMAIN results = 1 .. Len(results)
            /\ Len(results) \in Nat
        BY <1>1, <3>1, SeqFacts
      <4>2. i # 1 /\ i - 1 \in 1 .. Len(results) - 1
        BY <2>2, <3>3, <4>1
      <4> QED BY <1>1, <3>1, <3>3, <4>1, <4>2, TailFacts
    <3> QED BY <3>1, <3>2, <3>3 DEF InTransit
  <2> QED BY <2>1, <2>2
<1>10. CASE SendCompleteUnderflow
  BY <1>10 DEF SendCompleteUnderflow
<1>11. CASE Close
  BY <1>11 DEF Close
<1>12. CASE UNCHANGED vars
  BY <1>12 DEF vars, NoStall, InTransit
<1> QED BY <1>3, <1>4, <1>5, <1>6, <1>7, <1>8, <1>9, <1>10, <1>11, <1>12 DEF Next

\* A face that is up with packets queued always has a transfer under way or a
\* success about to be reported: sendNextPacket is never left uncalled.
THEOREM NeverStalls == Spec => []NoStall
<1>1. Init => NoStall
  BY DEF Init, NoStall
<1> QED BY <1>1, StallNext, ShapeAlways, PTL DEF Spec

-----------------------------------------------------------------------------

NoSuccess(done) == \A i \in DOMAIN done : ~done[i].ok

\* What a hand-over makes of an empty list of transfers.
LEMMA FreshStart ==
    ASSUME NEW packet, NEW entry, NEW pending,
           pending = <<[packet |-> packet, channel |-> entry]>>
    PROVE  /\ Len(pending) <= 1
           /\ \A i \in DOMAIN pending :
                pending[i].packet = packet /\ pending[i].channel = entry
<1> DEFINE task == [packet |-> packet, channel |-> entry]
<1>1. task.packet = packet /\ task.channel = entry
  OBVIOUS
<1> HIDE DEF task
<1>2. pending = <<task>>
  BY DEF task
<1>3. Len(<<task>>) <= 1 /\ \A i \in DOMAIN <<task>> : <<task>>[i] = task
  OBVIOUS
<1> QED BY <1>1, <1>2, <1>3

\* A face on which nothing was in transit is calm after a step that hands over
\* at most the head of its queue.
LEMMA FreshCalm ==
    ASSUME Shape', NoSuccess(results'),
           tasks' = <<>> \/ tasks' = Submitted(TRUE, sendQueue', attached', <<>>),
           tasks' # <<>> => attached' = channel'
    PROVE  CalmTransfers'
<1>1. sendQueue' \in Seq(Nat)
  <2>1. sendQueue' \in Seq(Packets') /\ Packets' \subseteq Nat
    BY DEF Shape, TypeOK, Packets
  <2> QED BY <2>1, SeqMonotonic
<1>2. CASE tasks' = <<>>
  <2>1. Len(tasks') = 0 /\ DOMAIN tasks' = {}
    BY <1>2
  <2> QED BY <2>1 DEF CalmTransfers, NoSuccess
<1>3. CASE tasks' # <<>>
  <2>1. /\ sendQueue' # <<>>
        /\ tasks' = <<[packet |-> Head(sendQueue'), channel |-> attached']>>
    BY <1>1, <1>3 DEF Submitted
  <2>2. /\ Len(tasks') <= 1
        /\ \A i \in DOMAIN tasks' :
                /\ tasks'[i].packet = Head(sendQueue')
                /\ tasks'[i].channel = attached'
    BY <2>1, FreshStart
  <2> QED BY <1>3, <2>1, <2>2 DEF CalmTransfers, NoSuccess
<1> QED BY <1>2, <1>3

LEMMA IdleWhenNotInTransit ==
    ASSUME NEW pending, NEW done, ~InTransit(pending, done)
    PROVE  pending = <<>> /\ NoSuccess(done)
BY DEF InTransit, NoSuccess

\* On a calm face with an empty queue nothing is in transit.
LEMMA CalmAndEmpty ==
    ASSUME Shape, CalmTransfers, calm, sendQueue = <<>>
    PROVE  tasks = <<>> /\ NoSuccess(results)
<1>1. DOMAIN tasks = {} /\ NoSuccess(results)
  BY DEF CalmTransfers, NoSuccess
<1>2. tasks \in Seq(TaskType)
  BY DEF Shape, TypeOK
<1> QED BY <1>1, <1>2, SeqFacts

LEMMA CalmDoSend ==
    ASSUME Shape, Shape', CalmTransfers, DoSend, calm'
    PROVE  CalmTransfers'
<1> USE DEF DoSend, face
<1>1. sendQueue \in Seq(Packets) /\ sendQueue' = Append(sendQueue, accepted + 1)
  BY DEF Shape, TypeOK, Enqueued, NextPacket
<1>2. CASE sendQueue = <<>>
  <2>1. tasks = <<>> /\ NoSuccess(results')
    BY <1>2, CalmAndEmpty
  <2>2. tasks' = <<>> \/ (state = "UP"
            /\ tasks' = Submitted(TRUE, sendQueue', attached', <<>>))
    BY <2>1 DEF Submitted
  <2>3. state = "UP" => attached' = channel'
    BY DEF Shape, AttachedIffUp
  <2> QED BY <2>1, <2>2, <2>3, FreshCalm
<1>3. CASE sendQueue # <<>>
  <2>1. /\ Len(sendQueue') # 1
        /\ sendQueue' # <<>>
        /\ Head(sendQueue') = Head(sendQueue)
    BY <1>1, <1>3
  <2>2. tasks' = tasks /\ results' = results /\ wire' = wire /\ calm
    BY <2>1
  <2> QED BY <1>3, <2>1, <2>2 DEF CalmTransfers
<1> QED BY <1>2, <1>3

LEMMA CalmRemovePacket ==
    ASSUME Shape, Shape', CalmTransfers, RemovePacket, calm'
    PROVE  CalmTransfers'
<1>1. PICK i \in DOMAIN sendQueue :
        /\ sendQueue' = RemoveAt(sendQueue, i)
        /\ calm /\ ~(i = 1 /\ InTransit(tasks, results))
  BY DEF RemovePacket
<1>2. tasks' = tasks /\ results' = results /\ wire' = wire /\ channel' = channel
  BY DEF RemovePacket, transfers, face
<1>3. CASE i = 1
  <2>1. tasks = <<>> /\ NoSuccess(results)
    BY <1>1, <1>3, IdleWhenNotInTransit
  <2> QED BY <1>2, <2>1, FreshCalm
<1>4. CASE i # 1
  <2>1. /\ sendQueue \in Seq(Packets) /\ DOMAIN sendQueue = 1 .. Len(sendQueue)
        /\ Len(sendQueue) \in Nat
    BY SeqFacts DEF Shape, TypeOK
  <2>2. /\ sendQueue' \in Seq(Packets)
        /\ Len(sendQueue') = Len(sendQueue) - 1
        /\ \A j \in 1 .. Len(sendQueue) - 1 :
             sendQueue'[j] = IF j < i THEN sendQueue[j] ELSE sendQueue[j + 1]
    BY <1>1, <2>1, RemoveAtProperties
  <2>3. i \in 2 .. Len(sendQueue) /\ 1 \in 1 .. Len(sendQueue) - 1
    BY <1>4, <2>1
  <2>4. sendQueue'[1] = sendQueue[1]
    BY <2>2, <2>3
  <2>5. sendQueue # <<>> /\ sendQueue' # <<>>
    BY <2>1, <2>2, <2>3
  <2>6. Head(sendQueue') = Head(sendQueue)
    BY <2>1, <2>2, <2>4, <2>5, SeqFacts
  <2> QED BY <1>1, <1>2, <2>5, <2>6 DEF CalmTransfers
<1> QED BY <1>3, <1>4

LEMMA CalmBringUp ==
    ASSUME Shape, Shape', BringUp, calm'
    PROVE  CalmTransfers'
<1>1. tasks = <<>> /\ NoSuccess(results')
  BY IdleWhenNotInTransit DEF BringUp
<1>2. CASE state = "DOWN"
  BY <1>1, <1>2, FreshCalm DEF BringUp, Resumed
<1>3. CASE state # "DOWN"
  BY <1>1, <1>3, FreshCalm DEF BringUp
<1> QED BY <1>2, <1>3

\* The end of a transfer leaves a calm face with none.
LEMMA CalmTaskEnds ==
    ASSUME Shape, CalmTransfers, calm, tasks # <<>>
    PROVE  /\ Tail(tasks) = <<>>
           /\ NoSuccess(results)
           /\ sendQueue # <<>> /\ Head(tasks).packet = Head(sendQueue)
<1>1. /\ tasks \in Seq(TaskType) /\ Len(tasks) <= 1
      /\ Len(tasks) \in Nat \ {0} /\ Head(tasks) = tasks[1]
      /\ DOMAIN tasks = 1 .. Len(tasks)
  BY SeqFacts DEF Shape, TypeOK, CalmTransfers
<1>2. Tail(tasks) \in Seq(TaskType) /\ DOMAIN Tail(tasks) = 1 .. 0
  BY <1>1, TailFacts
<1>3. Tail(tasks) = <<>>
  BY <1>2, SeqFacts
<1>4. 1 \in DOMAIN tasks
  BY <1>1
<1> QED BY <1>1, <1>3, <1>4 DEF CalmTransfers, NoSuccess

LEMMA CalmTaskSucceeds ==
    ASSUME Shape, CalmTransfers, TaskSucceeds, calm'
    PROVE  CalmTransfers'
<1> USE DEF TaskSucceeds, face
<1> DEFINE r == [packet |-> Head(tasks).packet, ok |-> TRUE]
<1>1. /\ tasks' = <<>>
      /\ NoSuccess(results)
      /\ sendQueue' # <<>> /\ Head(tasks).packet = Head(sendQueue')
  BY CalmTaskEnds
<1>2. r \in ResultType /\ results \in Seq(ResultType)
  BY ShapeTask, HeadTailProperties DEF Shape, TypeOK, TaskType, ResultType
<1>3. r.packet = Head(sendQueue') /\ r.ok /\ wire' = Head(sendQueue')
  BY <1>1
<1>4. results' = Append(results, r)
  OBVIOUS
<1> HIDE DEF r
<1>5. /\ DOMAIN results = 1 .. Len(results) /\ Len(results) \in Nat
      /\ DOMAIN results' = 1 .. Len(results) + 1
      /\ \A i \in 1 .. Len(results) : results'[i] = results[i]
      /\ results'[Len(results) + 1] = r
  BY <1>2, <1>4, AppendFacts, SeqFacts
<1>6. \A i \in DOMAIN results' : results'[i].ok => i = Len(results) + 1
  BY <1>1, <1>5 DEF NoSuccess
<1>7. Len(tasks') <= 1 /\ DOMAIN tasks' = {}
  BY <1>1
<1>8. \A i \in DOMAIN results' : results'[i].ok =>
        results'[i].packet = Head(sendQueue') /\ wire' = Head(sendQueue')
  BY <1>3, <1>5, <1>6
<1>9. \A i, j \in DOMAIN results' : results'[i].ok /\ results'[j].ok => i = j
  BY <1>6
<1> QED BY <1>1, <1>7, <1>8, <1>9 DEF CalmTransfers

LEMMA CalmTaskFails ==
    ASSUME Shape, Shape', CalmTransfers, TaskFails, calm'
    PROVE  CalmTransfers'
<1> USE DEF TaskFails
<1> DEFINE r == [packet |-> Head(tasks).packet, ok |-> FALSE]
<1>1. tasks' = <<>> /\ NoSuccess(results)
  <2>1. CASE calm
    BY <2>1, CalmTaskEnds
  <2>2. CASE ~InTransit(tasks', results)
    BY <2>2, IdleWhenNotInTransit
  <2> QED BY <2>1, <2>2
<1>2. r \in ResultType /\ results \in Seq(ResultType)
  BY ShapeTask, HeadTailProperties DEF Shape, TypeOK, TaskType, ResultType
<1>3. ~r.ok
  OBVIOUS
<1>4. results' = Append(results, r)
  OBVIOUS
<1> HIDE DEF r
<1>5. /\ DOMAIN results = 1 .. Len(results) /\ Len(results) \in Nat
      /\ DOMAIN results' = 1 .. Len(results) + 1
      /\ \A i \in 1 .. Len(results) : results'[i] = results[i]
      /\ results'[Len(results) + 1] = r
  BY <1>2, <1>4, AppendFacts, SeqFacts
<1>6. NoSuccess(results')
  BY <1>1, <1>3, <1>5 DEF NoSuccess
<1> QED BY <1>1, <1>6, FreshCalm

LEMMA CalmSendComplete ==
    ASSUME Shape, Shape', CalmTransfers, SendComplete, calm'
    PROVE  CalmTransfers'
<1> USE DEF SendComplete, face
<1>1. /\ results \in Seq(ResultType) /\ results' = Tail(results)
      /\ DOMAIN results = 1 .. Len(results) /\ Len(results) \in Nat \ {0}
      /\ Head(results) = results[1]
      /\ DOMAIN results' = 1 .. Len(results) - 1
      /\ \A i \in 1 .. Len(results) - 1 : results'[i] = results[i + 1]
  BY SeqFacts, TailFacts DEF Shape, TypeOK
<1>2. CASE Head(results).ok
  <2>1. tasks = <<>> /\ NoSuccess(results')
    <3>1. CASE calm
      <4>1. 1 \in DOMAIN results /\ results[1].ok
        BY <1>1, <1>2
      <4>2. tasks = <<>>
        BY <3>1, <4>1 DEF CalmTransfers
      <4>3. \A i \in DOMAIN results : results[i].ok => i = 1
        BY <3>1, <4>1 DEF CalmTransfers
      <4>4. \A i \in DOMAIN results' :
                i + 1 \in DOMAIN results /\ i + 1 # 1 /\ results'[i] = results[i + 1]
        BY <1>1
      <4> QED BY <4>2, <4>3, <4>4 DEF NoSuccess
    <3>2. CASE ~InTransit(tasks, results')
      BY <3>2, IdleWhenNotInTransit
    <3> QED BY <3>1, <3>2
  <2>2. tasks' = <<>> \/ (state = "UP"
            /\ tasks' = Submitted(TRUE, sendQueue', attached', <<>>))
    BY <1>2, <2>1 DEF Submitted
  <2>3. state = "UP" => attached' = channel'
    BY DEF Shape, AttachedIffUp
  <2> QED BY <2>1, <2>2, <2>3, FreshCalm
<1>3. CASE ~Head(results).ok
  <2>1. /\ tasks' = tasks /\ sendQueue' = sendQueue
        /\ channel' = channel /\ wire' = wire
    BY <1>3 DEF Completed
  <2>2. CASE calm
    <3>1. \A i \in DOMAIN results' :
                i + 1 \in DOMAIN results /\ results'[i] = results[i + 1]
      BY <1>1
    <3>2. \A i, j \in DOMAIN results' : i + 1 = j + 1 => i = j
      BY <1>1
    <3> QED BY <2>1, <2>2, <3>1, <3>2 DEF CalmTransfers
  <2>3. CASE ~InTransit(tasks, results')
    <3>1. tasks' = <<>> /\ NoSuccess(results')
      BY <2>1, <2>3, IdleWhenNotInTransit
    <3> QED BY <3>1, FreshCalm
  <2> QED BY <2>2, <2>3
<1> QED BY <1>2, <1>3

LEMMA CalmNext == Shape /\ CalmTransfers /\ [Next]_vars => CalmTransfers'
<1> SUFFICES ASSUME Shape, CalmTransfers, [Next]_vars, calm'
             PROVE  CalmTransfers'
  BY DEF CalmTransfers
<1>1. Shape'
  BY ShapeNext
<1>2. CASE BringDown
  BY <1>2 DEF BringDown, TakeDown, transfers, CalmTransfers
<1>3. CASE SendCompleteUnderflow
  <2>1. calm /\ sendQueue = <<>> /\ results # <<>> /\ Head(results).ok
    BY <1>3 DEF SendCompleteUnderflow
  <2>2. 1 \in DOMAIN results /\ Head(results) = results[1]
    BY <2>1, SeqFacts DEF Shape, TypeOK
  <2> QED BY <2>1, <2>2 DEF CalmTransfers
<1>4. CASE Close
  BY <1>4 DEF Close, transfers, CalmTransfers
<1>5. CASE UNCHANGED vars
  BY <1>5 DEF vars, CalmTransfers
<1> QED BY <1>1, <1>2, <1>3, <1>4, <1>5, CalmDoSend, CalmRemovePacket,
        CalmBringUp, CalmTaskSucceeds, CalmTaskFails, CalmSendComplete DEF Next

\* No packet is lost or attributed to the wrong channel unless a transfer is
\* left over from an earlier attachment or from a withdrawn head.
THEOREM CalmIsReliable == Spec => []CalmTransfers
<1>1. Init => CalmTransfers
  <2> SUFFICES ASSUME Init PROVE CalmTransfers
    OBVIOUS
  <2>1. Len(tasks) <= 1 /\ DOMAIN tasks = {} /\ DOMAIN results = {}
    BY DEF Init
  <2> QED BY <2>1 DEF CalmTransfers
<1> QED BY <1>1, CalmNext, ShapeAlways, PTL DEF Spec

-----------------------------------------------------------------------------
(* The face implements the relay: every step is a step of PacketRelay, with *)
(* the packets in the queue as those pending there.                         *)

LEMMA ToSetAppend ==
    ASSUME NEW S, NEW s \in Seq(S), NEW e \in S
    PROVE  ToSet(Append(s, e)) = ToSet(s) \cup {e}
<1>1. /\ DOMAIN s = 1 .. Len(s) /\ Len(s) \in Nat
      /\ DOMAIN Append(s, e) = 1 .. Len(s) + 1
      /\ \A i \in 1 .. Len(s) : Append(s, e)[i] = s[i]
      /\ Append(s, e)[Len(s) + 1] = e
  BY SeqFacts, AppendFacts
<1> QED BY <1>1 DEF ToSet

Rising(queue) == \A i, j \in DOMAIN queue : i < j => queue[i] < queue[j]

LEMMA ToSetRemove ==
    ASSUME NEW queue \in Seq(Nat), Rising(queue), NEW k \in DOMAIN queue
    PROVE  ToSet(RemoveAt(queue, k)) = ToSet(queue) \ {queue[k]}
<1> DEFINE rest == RemoveAt(queue, k)
<1>1. /\ DOMAIN queue = 1 .. Len(queue) /\ Len(queue) \in Nat
      /\ \A i \in 1 .. Len(queue) : queue[i] \in Nat
  BY SeqFacts
<1>2. /\ rest \in Seq(Nat)
      /\ Len(rest) = Len(queue) - 1
      /\ \A j \in 1 .. Len(queue) - 1 :
            rest[j] = IF j < k THEN queue[j] ELSE queue[j + 1]
  BY <1>1, RemoveAtProperties
<1>3. DOMAIN rest = 1 .. Len(queue) - 1
  BY <1>2, SeqFacts
<1> HIDE DEF rest
<1>4. \A i \in DOMAIN queue : i # k => queue[i] # queue[k]
  BY <1>1 DEF Rising
<1>5. \A j \in DOMAIN rest :
        \E i \in DOMAIN queue : i # k /\ rest[j] = queue[i]
  <2> TAKE j \in DOMAIN rest
  <2>1. CASE j < k
    <3>1. j \in DOMAIN queue /\ j # k /\ rest[j] = queue[j]
      BY <1>1, <1>2, <1>3, <2>1
    <3> QED BY <3>1
  <2>2. CASE j >= k
    <3>1. j \in 1 .. Len(queue) - 1 /\ ~(j < k)
      BY <1>1, <1>3, <2>2
    <3>2. rest[j] = queue[j + 1]
      BY <1>2, <3>1
    <3>3. j + 1 \in DOMAIN queue /\ j + 1 # k
      BY <1>1, <2>2, <3>1
    <3> QED BY <3>2, <3>3
  <2>3. j < k \/ j >= k
    BY <1>1, <1>3
  <2> QED BY <2>1, <2>2, <2>3
<1>6. ASSUME NEW i \in DOMAIN queue, i # k
      PROVE  \E j \in DOMAIN rest : rest[j] = queue[i]
  <2>1. CASE i < k
    <3>1. i \in DOMAIN rest /\ rest[i] = queue[i]
      BY <1>1, <1>2, <1>3, <2>1
    <3> QED BY <3>1
  <2>2. CASE i > k
    <3>1. i - 1 \in DOMAIN rest /\ rest[i - 1] = queue[(i - 1) + 1]
      BY <1>1, <1>2, <1>3, <2>2
    <3>2. (i - 1) + 1 = i
      BY <1>1
    <3> QED BY <3>1, <3>2
  <2> QED BY <1>1, <1>6, <2>1, <2>2
<1> QED BY <1>4, <1>5, <1>6 DEF ToSet, rest

LEMMA ToSetPop ==
    ASSUME NEW queue \in Seq(Nat), Rising(queue), queue # <<>>
    PROVE  ToSet(Tail(queue)) = ToSet(queue) \ {Head(queue)}
<1>1. /\ DOMAIN queue = 1 .. Len(queue) /\ Len(queue) \in Nat \ {0}
      /\ \A i \in 1 .. Len(queue) : queue[i] \in Nat
      /\ Head(queue) = queue[1]
  BY SeqFacts
<1>2. /\ DOMAIN Tail(queue) = 1 .. Len(queue) - 1
      /\ \A i \in 1 .. Len(queue) - 1 : Tail(queue)[i] = queue[i + 1]
  BY TailFacts
<1>3. \A i \in DOMAIN queue : i # 1 => queue[i] # queue[1]
  BY <1>1 DEF Rising
<1>4. ASSUME NEW i \in DOMAIN queue, i # 1
      PROVE  i - 1 \in DOMAIN Tail(queue) /\ Tail(queue)[i - 1] = queue[i]
  <2>1. i - 1 \in 1 .. Len(queue) - 1 /\ (i - 1) + 1 = i
    BY <1>1, <1>4
  <2> QED BY <1>2, <2>1
<1>5. \A i \in DOMAIN Tail(queue) :
        i + 1 \in DOMAIN queue /\ i + 1 # 1 /\ Tail(queue)[i] = queue[i + 1]
  BY <1>1, <1>2
<1>6. ASSUME NEW x \in ToSet(Tail(queue))
      PROVE  x \in ToSet(queue) \ {Head(queue)}
  <2>1. PICK i \in DOMAIN Tail(queue) : x = Tail(queue)[i]
    BY DEF ToSet
  <2>2. i + 1 \in DOMAIN queue /\ i + 1 # 1 /\ x = queue[i + 1]
    BY <1>5, <2>1
  <2>3. x # queue[1]
    BY <1>3, <2>2
  <2> QED BY <1>1, <2>2, <2>3 DEF ToSet
<1>7. ASSUME NEW x \in ToSet(queue), x # Head(queue)
      PROVE  x \in ToSet(Tail(queue))
  <2>1. PICK i \in DOMAIN queue : x = queue[i]
    BY DEF ToSet
  <2>2. i # 1
    BY <1>1, <1>7, <2>1
  <2> QED BY <1>4, <2>1, <2>2 DEF ToSet
<1> QED BY <1>6, <1>7

LEMMA HeadIsOldest ==
    ASSUME NEW queue \in Seq(Nat), Rising(queue), queue # <<>>
    PROVE  Head(queue) \in ToSet(queue) /\ \A q \in ToSet(queue) : Head(queue) <= q
<1>1. /\ DOMAIN queue = 1 .. Len(queue) /\ Len(queue) \in Nat \ {0}
      /\ \A i \in 1 .. Len(queue) : queue[i] \in Nat
      /\ Head(queue) = queue[1]
  BY SeqFacts
<1>2. \A i \in DOMAIN queue : queue[1] <= queue[i]
  BY <1>1 DEF Rising
<1> QED BY <1>1, <1>2 DEF ToSet

IInv == Shape /\ TransfersInOrder /\ CalmTransfers

LEMMA RelayStep == IInv /\ IInv' /\ [Next]_vars => [Relay!Next]_(Relay!vars)
<1> SUFFICES ASSUME IInv, IInv', [Next]_vars
             PROVE  Relay!Next \/ UNCHANGED Relay!vars
  BY DEF Relay!vars
<1> USE DEF IInv
<1>1. /\ sendQueue \in Seq(1 .. accepted) /\ sendQueue \in Seq(Nat)
      /\ accepted \in Nat /\ wire \in Nat /\ calm' \in BOOLEAN
  <2>1. sendQueue \in Seq(1 .. accepted) /\ accepted \in Nat /\ wire \in Nat
        /\ calm' \in BOOLEAN
    BY DEF Shape, TypeOK, Packets
  <2>2. 1 .. accepted \subseteq Nat
    OBVIOUS
  <2> QED BY <2>1, <2>2, SeqMonotonic
<1>2. Rising(sendQueue)
  BY DEF TransfersInOrder, InOrder, Rising
<1>3. ASSUME UNCHANGED <<accepted, sendQueue, wire>>
      PROVE  Relay!Next
  BY <1>1, <1>3 DEF Relay!Next, Relay!Surroundings
<1>4. ASSUME tasks # <<>>, UNCHANGED <<accepted, sendQueue>>,
             wire' = Head(tasks).packet
      PROVE  Relay!Next
  <2> DEFINE p == Head(tasks).packet
  <2>1. /\ tasks \in Seq(TaskType) /\ Len(tasks) \in Nat \ {0}
        /\ DOMAIN tasks = 1 .. Len(tasks)
        /\ Head(tasks) = tasks[1] /\ tasks[1] \in TaskType
    BY <1>4, SeqFacts DEF Shape, TypeOK
  <2>2. p \in 1 .. accepted /\ wire <= p
    BY <2>1 DEF TransfersInOrder, InOrder, TaskType, Packets
  <2>3. calm => sendQueue # <<>> /\ p = Head(sendQueue)
    BY <2>1 DEF CalmTransfers
  <2>4. calm => Relay!Oldest(p)
    BY <1>1, <1>2, <2>3, HeadIsOldest DEF Relay!Oldest
  <2>5. Relay!Transmit(p)
    BY <1>1, <1>4, <2>2, <2>4 DEF Relay!Transmit
  <2> QED BY <1>1, <2>2, <2>5 DEF Relay!Next
<1>5. CASE DoSend
  <2>1. /\ accepted < MaxPackets /\ accepted' = accepted + 1 /\ wire' = wire
        /\ sendQueue' = Append(sendQueue, accepted + 1)
    BY <1>5 DEF DoSend, Enqueued, NextPacket
  <2>2. accepted + 1 \in Nat
    BY <1>1
  <2>3. ToSet(sendQueue') = ToSet(sendQueue) \cup {accepted + 1}
    BY <1>1, <2>1, <2>2, ToSetAppend
  <2> QED BY <1>1, <2>1, <2>3 DEF Relay!Next, Relay!Accept
<1>6. CASE RemovePacket
  <2>1. PICK i \in DOMAIN sendQueue :
            sendQueue[i] \in Interests /\ sendQueue' = RemoveAt(sendQueue, i)
    BY <1>6 DEF RemovePacket, Withdrawable
  <2>2. ToSet(sendQueue') = ToSet(sendQueue) \ {sendQueue[i]}
    BY <1>1, <1>2, <2>1, ToSetRemove
  <2>3. sendQueue[i] \in ToSet(sendQueue) /\ sendQueue[i] \in 1 .. accepted
    BY <1>1, SeqFacts DEF ToSet
  <2>4. accepted' = accepted /\ wire' = wire
    BY <1>6 DEF RemovePacket
  <2>5. Relay!Withdraw(sendQueue[i])
    BY <2>1, <2>2, <2>3, <2>4 DEF Relay!Withdraw
  <2> QED BY <1>1, <2>3, <2>5 DEF Relay!Next
<1>7. CASE BringUp
  BY <1>3, <1>7 DEF BringUp
<1>8. CASE BringDown
  BY <1>3, <1>8 DEF BringDown
<1>9. CASE TaskSucceeds
  BY <1>4, <1>9 DEF TaskSucceeds
<1>10. CASE TaskFails
  BY <1>3, <1>4, <1>10 DEF TaskFails
<1>11. CASE SendComplete
  <2>1. CASE ~Head(results).ok
    BY <1>3, <1>11, <2>1 DEF SendComplete, Completed
  <2>2. CASE Head(results).ok
    <3>1. /\ sendQueue # <<>> /\ sendQueue' = Tail(sendQueue)
          /\ accepted' = accepted /\ wire' = wire /\ results # <<>>
      BY <1>11, <2>2 DEF SendComplete, Completed
    <3>2. ToSet(sendQueue') = ToSet(sendQueue) \ {Head(sendQueue)}
      BY <1>1, <1>2, <3>1, ToSetPop
    <3>3. Relay!Oldest(Head(sendQueue))
      BY <1>1, <1>2, <3>1, HeadIsOldest DEF Relay!Oldest
    <3>4. 1 \in DOMAIN results /\ Head(results) = results[1]
      BY <3>1, SeqFacts DEF Shape, TypeOK
    <3>5. calm => Head(sendQueue) = wire
      BY <2>2, <3>4 DEF CalmTransfers
    <3>6. Head(sendQueue) \in 1 .. accepted
      BY <1>1, <3>1, SeqFacts
    <3>7. Relay!Release(Head(sendQueue))
      BY <3>1, <3>2, <3>3, <3>5 DEF Relay!Release
    <3> QED BY <1>1, <3>6, <3>7 DEF Relay!Next
  <2> QED BY <2>1, <2>2
<1>12. CASE SendCompleteUnderflow
  BY <1>3, <1>12 DEF SendCompleteUnderflow
<1>13. CASE Close
  BY <1>3, <1>13 DEF Close
<1>14. CASE UNCHANGED vars
  BY <1>14 DEF vars, Relay!vars
<1> QED BY <1>5, <1>6, <1>7, <1>8, <1>9, <1>10, <1>11, <1>12, <1>13, <1>14
        DEF Next

\* The face delivers as PacketRelay promises: in order at any time, and without
\* loss while it is calm.
THEOREM FaceIsRelay == Spec => RelaySpec
<1>1. Init => Relay!Init
  <2> SUFFICES ASSUME Init PROVE Relay!Init
    OBVIOUS
  <2>1. ToSet(sendQueue) = {}
    BY DEF Init, ToSet
  <2> QED BY <2>1 DEF Init, Relay!Init
<1>2. Spec => []IInv
  BY ShapeAlways, Ordering, CalmIsReliable, PTL DEF IInv
<1> QED BY <1>1, <1>2, RelayStep, PTL DEF Spec, RelaySpec, Relay!Spec

=============================================================================
