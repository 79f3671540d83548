------------------------- MODULE ConnectivityProofs -------------------------
(***************************************************************************)
(* Proofs about Connectivity for every set of devices, whichever of them   *)
(* show the fragment or see no owners, and any number of calls of join().  *)
(***************************************************************************)
EXTENDS Connectivity, SequenceTheorems, TLAPS

\* The manager that asked is still there.
Live(r) == r.from # "GONE"

\* Only a device with a lower UUID is asked without being taken for an owner.
Fine(d, r) == r.toOwner \/ r.to < d
Asked(d, q, n) ==
    /\ \A i \in DOMAIN q : Fine(d, q[i])
    /\ n # Nothing => Fine(d, n)

\* What waits for its answer (q) was asked after what Android tries (n): by a
\* manager that is gone first, by the one there is next, and the last word last.
\* When Android tries the last word, nothing waits behind it.
InOrder(q, n, on, conn) ==
    /\ \A i \in DOMAIN q : q[i].from = "LAST" => i = Len(q)
    /\ \A i, j \in DOMAIN q : i < j /\ ~Live(q[j]) => ~Live(q[i])
    /\ \A i \in DOMAIN q : ~Live(q[i]) => ~Live(n)
    /\ \A i \in DOMAIN q : Live(q[i]) => on
    /\ n.from = "LAST" => q = <<>> /\ on /\ conn

\* A Group that came of the last word leaves nothing to answer.
Kept(d) ==
    mine[d] => enabled[d] /\ connected[d] /\ owner[d] # NoDevice /\ requests[d] = <<>>

\* Why a manager may believe that it is connected.
Waiting(q, n) == Live(n) \/ \E i \in DOMAIN q : Live(q[i])
Explained(d) ==
    enabled[d] /\ connected[d]
        => missed[d] \/ owner[d] # NoDevice \/ Waiting(requests[d], negotiation[d])

\* The inductive invariant, for each device.
Sound(d) ==
    /\ peers[d][d] = "ABSENT"
    /\ Asked(d, requests[d], negotiation[d])
    /\ InOrder(requests[d], negotiation[d], enabled[d], connected[d])
    /\ Kept(d)
    /\ Explained(d)
IInv == ConnectivityTypeOK /\ \A d \in Devices : Sound(d)

-----------------------------------------------------------------------------
(* Requests.                                                               *)

LEMMA LaterRequest ==
    ASSUME NEW r \in Requests \cup {Nothing}
    PROVE  /\ Later(r) \in Requests \cup {Nothing}
           /\ r \in Requests => Later(r) \in Requests
           /\ Later(r) = Nothing => r = Nothing
           /\ r = Nothing => Later(r) = Nothing
           /\ Later(r).to = r.to /\ Later(r).toOwner = r.toOwner
           /\ Live(Later(r)) <=> Live(r)
           /\ Later(r).from # "LAST"
<1>1. CASE r \in Requests
  <2>1. r # Nothing /\ Later(r) # Nothing
    BY <1>1, DevicesAssumption DEF Requests, Nothing, Later
  <2> QED BY <1>1, <2>1 DEF Requests, Later, Live
<1>2. CASE r = Nothing
  BY <1>2 DEF Nothing, Later, Live
<1> QED BY <1>1, <1>2

LEMMA GoneRequest ==
    ASSUME NEW r \in Requests \cup {Nothing}
    PROVE  /\ Gone(r) \in Requests \cup {Nothing}
           /\ r \in Requests => Gone(r) \in Requests
           /\ Gone(r) = Nothing => r = Nothing
           /\ r = Nothing => Gone(r) = Nothing
           /\ Gone(r).to = r.to /\ Gone(r).toOwner = r.toOwner
           /\ ~Live(Gone(r)) /\ Gone(r).from # "LAST"
<1>1. CASE r \in Requests
  <2>1. r # Nothing /\ Gone(r) # Nothing
    BY <1>1, DevicesAssumption DEF Requests, Nothing, Gone
  <2> QED BY <1>1, <2>1 DEF Requests, Gone, Live
<1>2. CASE r = Nothing
  <2>1. Gone(Nothing) = Nothing
    <3>1. Nothing = [f \in {"to", "toOwner", "from"} |-> Nothing[f]]
      BY DEF Nothing
    <3>2. Gone(Nothing) = [f \in {"to", "toOwner", "from"} |-> Gone(Nothing)[f]]
      BY <3>1 DEF Gone
    <3>3. Gone(Nothing)["to"] = Nothing["to"]
      BY <3>1 DEF Gone
    <3>4. Gone(Nothing)["toOwner"] = Nothing["toOwner"]
      BY <3>1 DEF Gone
    <3>5. Gone(Nothing)["from"] = Nothing["from"]
      BY <3>1 DEF Nothing, Gone
    <3> QED BY <3>1, <3>2, <3>3, <3>4, <3>5
  <2>2. ~Live(Nothing) /\ Nothing.from # "LAST"
    BY DEF Nothing, Live
  <2> QED BY <1>2, <2>1, <2>2
<1> QED BY <1>1, <1>2

\* The requests that wait, after another join(), leave() or the manager's end.
LaterAll(q) == [i \in DOMAIN q |-> Later(q[i])]
GoneAll(q)  == [i \in DOMAIN q |-> Gone(q[i])]

LEMMA LaterAllFacts ==
    ASSUME NEW q \in Seq(Requests)
    PROVE  /\ LaterAll(q) \in Seq(Requests)
           /\ Len(LaterAll(q)) = Len(q)
           /\ DOMAIN LaterAll(q) = DOMAIN q
           /\ \A i \in DOMAIN q : LaterAll(q)[i] = Later(q[i]) /\ q[i] \in Requests
<1>1. Len(q) \in Nat /\ DOMAIN q = 1 .. Len(q)
  BY LenProperties
<1>2. \A i \in 1 .. Len(q) : q[i] \in Requests
  BY ElementOfSeq
<1>3. LaterAll(q) \in [1 .. Len(q) -> Requests]
  BY <1>1, <1>2, LaterRequest DEF LaterAll
<1>4. LaterAll(q) \in Seq(Requests)
  BY <1>1, <1>3, SeqDef
<1>5. Len(LaterAll(q)) = Len(q)
  BY <1>1, <1>3, <1>4, LenProperties
<1> QED BY <1>1, <1>2, <1>4, <1>5 DEF LaterAll

LEMMA GoneAllFacts ==
    ASSUME NEW q \in Seq(Requests)
    PROVE  /\ GoneAll(q) \in Seq(Requests)
           /\ Len(GoneAll(q)) = Len(q)
           /\ DOMAIN GoneAll(q) = DOMAIN q
           /\ \A i \in DOMAIN q : GoneAll(q)[i] = Gone(q[i]) /\ q[i] \in Requests
<1>1. Len(q) \in Nat /\ DOMAIN q = 1 .. Len(q)
  BY LenProperties
<1>2. \A i \in 1 .. Len(q) : q[i] \in Requests
  BY ElementOfSeq
<1>3. GoneAll(q) \in [1 .. Len(q) -> Requests]
  BY <1>1, <1>2, GoneRequest DEF GoneAll
<1>4. GoneAll(q) \in Seq(Requests)
  BY <1>1, <1>3, SeqDef
<1>5. Len(GoneAll(q)) = Len(q)
  BY <1>1, <1>3, <1>4, LenProperties
<1> QED BY <1>1, <1>2, <1>4, <1>5 DEF GoneAll

\* leave(): what was asked is no longer the last word, and stays in order.
LEMMA LaterKeeps ==
    ASSUME NEW d \in Devices, NEW q \in Seq(Requests),
           NEW n \in Requests \cup {Nothing}, NEW on, NEW conn, NEW now,
           Asked(d, q, n), InOrder(q, n, on, conn)
    PROVE  /\ Asked(d, LaterAll(q), Later(n))
           /\ InOrder(LaterAll(q), Later(n), on, now)
           /\ \A i \in DOMAIN q : LaterAll(q)[i].from # "LAST"
           /\ Waiting(LaterAll(q), Later(n)) <=> Waiting(q, n)
<1> DEFINE l == LaterAll(q)
<1>1. /\ DOMAIN l = DOMAIN q
      /\ \A i \in DOMAIN q :
            /\ l[i].to = q[i].to /\ l[i].toOwner = q[i].toOwner
            /\ Live(l[i]) <=> Live(q[i])
            /\ l[i].from # "LAST"
  BY LaterAllFacts, LaterRequest
<1>2. /\ Later(n).to = n.to /\ Later(n).toOwner = n.toOwner
      /\ Live(Later(n)) <=> Live(n)
      /\ Later(n).from # "LAST"
      /\ n = Nothing => Later(n) = Nothing
  BY LaterRequest
<1> HIDE DEF l
<1>3. Asked(d, l, Later(n))
  BY <1>1, <1>2 DEF Asked, Fine
<1>4. InOrder(l, Later(n), on, now)
  BY <1>1, <1>2 DEF InOrder
<1>5. Waiting(l, Later(n)) <=> Waiting(q, n)
  BY <1>1, <1>2 DEF Waiting
<1> QED BY <1>1, <1>3, <1>4, <1>5 DEF l

\* The manager's end.
LEMMA GoneKeeps ==
    ASSUME NEW d \in Devices, NEW q \in Seq(Requests),
           NEW n \in Requests \cup {Nothing}, NEW on, NEW conn,
           Asked(d, q, n)
    PROVE  Asked(d, GoneAll(q), Gone(n)) /\ InOrder(GoneAll(q), Gone(n), on, conn)
<1> DEFINE l == GoneAll(q)
<1>1. /\ DOMAIN l = DOMAIN q
      /\ \A i \in DOMAIN q :
            /\ l[i].to = q[i].to /\ l[i].toOwner = q[i].toOwner
            /\ ~Live(l[i]) /\ l[i].from # "LAST"
  BY GoneAllFacts, GoneRequest
<1>2. /\ Gone(n).to = n.to /\ Gone(n).toOwner = n.toOwner
      /\ ~Live(Gone(n)) /\ Gone(n).from # "LAST"
      /\ n = Nothing => Gone(n) = Nothing
  BY GoneRequest
<1> HIDE DEF l
<1>3. Asked(d, l, Gone(n))
  BY <1>1, <1>2 DEF Asked, Fine
<1>4. InOrder(l, Gone(n), on, conn)
  BY <1>1, <1>2 DEF InOrder
<1> QED BY <1>3, <1>4 DEF l

\* join(): one more request, the last word.
LEMMA AppendKeeps ==
    ASSUME NEW d \in Devices, NEW q \in Seq(Requests),
           NEW n \in Requests \cup {Nothing}, NEW conn,
           Asked(d, q, n), InOrder(q, n, TRUE, conn),
           \A i \in DOMAIN q : q[i].from # "LAST", n.from # "LAST",
           NEW r \in Requests, Fine(d, r), r.from = "LAST"
    PROVE  /\ Asked(d, Append(q, r), n)
           /\ InOrder(Append(q, r), n, TRUE, TRUE)
           /\ Waiting(Append(q, r), n)
<1> DEFINE l == Append(q, r)
<1>1. /\ Len(q) \in Nat /\ DOMAIN q = 1 .. Len(q)
      /\ Len(l) = Len(q) + 1 /\ DOMAIN l = 1 .. Len(q) + 1
      /\ \A i \in 1 .. Len(q) : l[i] = q[i]
      /\ l[Len(q) + 1] = r
  BY AppendProperties, LenProperties
<1> HIDE DEF l
<1>2. Live(r)
  BY DEF Live
<1>3. \A i \in DOMAIN l : (i \in DOMAIN q /\ l[i] = q[i]) \/ (i = Len(l) /\ l[i] = r)
  BY <1>1
<1>4. Asked(d, l, n)
  BY <1>3 DEF Asked
<1>5. InOrder(l, n, TRUE, TRUE)
  <2>1. \A i \in DOMAIN l : l[i].from = "LAST" => i = Len(l)
    BY <1>3
  <2>2. \A i, j \in DOMAIN l : i < j /\ ~Live(l[j]) => ~Live(l[i])
    BY <1>1, <1>2, <1>3 DEF InOrder
  <2>3. \A i \in DOMAIN l : ~Live(l[i]) => ~Live(n)
    BY <1>2, <1>3 DEF InOrder
  <2> QED BY <2>1, <2>2, <2>3 DEF InOrder
<1>6. Waiting(l, n)
  BY <1>1, <1>2 DEF Waiting
<1> QED BY <1>4, <1>5, <1>6 DEF l

\* An answer: the first request is what Android tries now, or is refused.
LEMMA TailKeeps ==
    ASSUME NEW d \in Devices, NEW q \in Seq(Requests),
           NEW n \in Requests \cup {Nothing}, NEW on, NEW conn, NEW now,
           Asked(d, q, n), InOrder(q, n, on, conn), q # <<>>,
           Head(q).from = "LAST" => now
    PROVE  /\ Head(q) \in Requests /\ Tail(q) \in Seq(Requests)
           /\ Live(Head(q)) => on
           /\ Asked(d, Tail(q), n) /\ Asked(d, Tail(q), Head(q))
           /\ InOrder(Tail(q), n, on, now) /\ InOrder(Tail(q), Head(q), on, now)
           /\ ~Live(Head(q)) => ~Live(n)
           /\ Waiting(q, n) =>
                Waiting(Tail(q), Head(q)) \/ (Waiting(Tail(q), n) /\ ~Live(n))
<1> DEFINE h == Head(q)
           t == Tail(q)
<1>1. /\ Len(q) \in Nat \ {0} /\ DOMAIN q = 1 .. Len(q)
      /\ h = q[1] /\ h \in Requests
      /\ t \in Seq(Requests) /\ Len(t) = Len(q) - 1 /\ DOMAIN t = 1 .. Len(q) - 1
      /\ \A i \in 1 .. Len(q) - 1 : t[i] = q[i + 1]
  <2>1. Len(q) \in Nat /\ DOMAIN q = 1 .. Len(q) /\ Len(q) # 0
    BY LenProperties, EmptySeq
  <2>2. h \in Requests /\ t \in Seq(Requests) /\ Len(t) = Len(q) - 1
        /\ \A i \in 1 .. Len(t) : t[i] = q[i + 1]
    BY HeadTailProperties
  <2> QED BY <2>1, <2>2, LenProperties
<1>2. Len(t) = 0 => t = <<>>
  BY <1>1, EmptySeq
<1> HIDE DEF h, t
<1>3. \A i \in DOMAIN t : i + 1 \in DOMAIN q /\ t[i] = q[i + 1]
  BY <1>1
<1>4. 1 \in DOMAIN q /\ q[1] = h
  BY <1>1
<1>5. Asked(d, t, n) /\ Asked(d, t, h)
  BY <1>3, <1>4 DEF Asked
<1>6. \A i \in DOMAIN t : t[i].from = "LAST" => i = Len(t)
  <2>1. ASSUME NEW i \in DOMAIN t, t[i].from = "LAST" PROVE i = Len(t)
    <3>1. i + 1 = Len(q)
      BY <1>3, <2>1 DEF InOrder
    <3> QED BY <1>1, <3>1
  <2> QED BY <2>1
<1>7. \A i, j \in DOMAIN t : i < j /\ ~Live(t[j]) => ~Live(t[i])
  <2>1. ASSUME NEW i \in DOMAIN t, NEW j \in DOMAIN t, i < j, ~Live(t[j])
        PROVE  ~Live(t[i])
    <3>1. i + 1 < j + 1
      BY <1>1, <2>1
    <3> QED BY <1>3, <2>1, <3>1 DEF InOrder
  <2> QED BY <2>1
<1>8. \A i \in DOMAIN t : ~Live(t[i]) => ~Live(n) /\ ~Live(h)
  <2>1. \A i \in DOMAIN t : 1 < i + 1
    BY <1>1
  <2> QED BY <1>3, <1>4, <2>1 DEF InOrder
<1>9. \A i \in DOMAIN t : Live(t[i]) => on
  BY <1>3 DEF InOrder
<1>10. n.from # "LAST"
  BY DEF InOrder
<1>11. h.from = "LAST" => t = <<>> /\ on /\ now
  <2>1. ASSUME h.from = "LAST" PROVE t = <<>> /\ on
    <3>1. Len(q) = 1
      BY <1>4, <2>1 DEF InOrder
    <3>2. on
      BY <1>4, <2>1 DEF InOrder, Live
    <3> QED BY <1>1, <1>2, <3>1, <3>2
  <2> QED BY <2>1 DEF h
<1>12. InOrder(t, n, on, now)
  BY <1>6, <1>7, <1>8, <1>9, <1>10 DEF InOrder
<1>13. InOrder(t, h, on, now)
  BY <1>6, <1>7, <1>8, <1>9, <1>11 DEF InOrder
<1>14. /\ Live(h) => on
       /\ ~Live(h) => ~Live(n)
  BY <1>4 DEF InOrder
<1>15. Waiting(q, n) => Waiting(t, h) \/ (Waiting(t, n) /\ ~Live(n))
  <2>1. CASE Live(h)
    BY <2>1 DEF Waiting
  <2>2. CASE ~Live(h)
    <3>1. ~Live(n)
      BY <1>14, <2>2
    <3>2. ASSUME NEW i \in DOMAIN q, Live(q[i]) PROVE \E j \in DOMAIN t : Live(t[j])
      <4>1. i # 1
        BY <1>4, <2>2, <3>2
      <4>2. i - 1 \in DOMAIN t /\ t[i - 1] = q[i]
        BY <1>1, <4>1
      <4> QED BY <3>2, <4>2
    <3> QED BY <3>1, <3>2 DEF Waiting
  <2> QED BY <2>1, <2>2
<1> QED BY <1>1, <1>5, <1>12, <1>13, <1>14, <1>15 DEF h, t

-----------------------------------------------------------------------------
(* Types.                                                                  *)

LEMMA ShownType ==
    ASSUME NEW known \in [Devices -> {"ABSENT", "FREE", "OWNER", "CLIENT"}],
           NEW p \in Devices,
           NEW role \in {"ABSENT", "FREE", "OWNER", "CLIENT"}
    PROVE  Shown(known, p, role) \in {"ABSENT", "FREE", "OWNER", "CLIENT"}
BY DEF Shown

LEMMA WithoutType ==
    ASSUME owner \in [Devices -> Devices \cup {NoDevice}], NEW S
    PROVE  Without(S) \in [Devices -> Devices \cup {NoDevice}]
BY DEF Without

\* Who is taken out of a Group.
LEMMA LeaversFacts ==
    ASSUME NEW d \in Devices, owner[d] # NoDevice
    PROVE  d \in Leavers(d) /\ Leavers(d) \subseteq Devices
BY DEF Leavers, Members

LEMMA TypeInit == Init => ConnectivityTypeOK
<1>1. <<>> \in Seq(Requests)
  BY EmptySeq
<1> QED BY <1>1, JoinsAssumption DEF Init, ConnectivityTypeOK

LEMMA TypeNext == ConnectivityTypeOK /\ [Next]_vars => ConnectivityTypeOK'
<1> SUFFICES ASSUME ConnectivityTypeOK, [Next]_vars PROVE ConnectivityTypeOK'
  OBVIOUS
<1> USE DEF ConnectivityTypeOK
<1>0. \A d \in Devices :
        /\ LaterAll(requests[d]) \in Seq(Requests)
        /\ GoneAll(requests[d]) \in Seq(Requests)
        /\ Later(negotiation[d]) \in Requests \cup {Nothing}
        /\ Gone(negotiation[d]) \in Requests \cup {Nothing}
  BY LaterAllFacts, GoneAllFacts, LaterRequest, GoneRequest
<1>1. ASSUME NEW d \in Devices, Enable(d) PROVE ConnectivityTypeOK'
  BY <1>1 DEF Enable, android
<1>2. ASSUME NEW d \in Devices, Disable(d) PROVE ConnectivityTypeOK'
  <2>1. requests' = [requests EXCEPT ![d] = GoneAll(requests[d])]
    BY <1>2 DEF Disable, GoneAll
  <2> QED BY <1>0, <1>2, <2>1 DEF Disable
<1>3. ASSUME NEW d \in Devices, NEW range \in SUBSET (Devices \ {d}), Scan(d, range)
      PROVE  ConnectivityTypeOK'
  <2>1. \A p \in Devices : Role(d, p) \in {"ABSENT", "FREE", "OWNER", "CLIENT"}
    BY DEF Role
  <2>2. peers' \in [Devices -> [Devices -> {"ABSENT", "FREE", "OWNER", "CLIENT"}]]
    <3> DEFINE f == [p \in Devices |->
                Shown(peers[d], p, IF p \in range THEN Role(d, p) ELSE "ABSENT")]
    <3>1. f \in [Devices -> {"ABSENT", "FREE", "OWNER", "CLIENT"}]
      <4>1. \A p \in Devices : (IF p \in range THEN Role(d, p) ELSE "ABSENT")
                                    \in {"ABSENT", "FREE", "OWNER", "CLIENT"}
        BY <2>1
      <4> QED BY <4>1, ShownType
    <3>2. peers' = [peers EXCEPT ![d] = f]
      BY <1>3 DEF Scan
    <3> HIDE DEF f
    <3> QED BY <3>1, <3>2
  <2> QED BY <1>3, <2>2 DEF Scan, manager, android
<1>4. ASSUME NEW d \in Devices, NEW p \in Devices, Join(d, p)
      PROVE  ConnectivityTypeOK'
  <2> DEFINE r == [to |-> p, toOwner |-> peers[d][p] = "OWNER", from |-> "LAST"]
  <2>1. r \in Requests
    BY DEF Requests
  <2>2. requests' = [requests EXCEPT ![d] = Append(LaterAll(requests[d]), r)]
    BY <1>4 DEF Join, LaterAll
  <2> HIDE DEF r
  <2>3. Append(LaterAll(requests[d]), r) \in Seq(Requests)
    BY <1>0, <2>1, AppendProperties
  <2>4. requests' \in [Devices -> Seq(Requests)]
    BY <2>2, <2>3
  <2>5. joins' \in 0 .. MaxJoins
    BY <1>4, JoinsAssumption DEF Join
  <2> QED BY <1>0, <1>4, <2>4, <2>5 DEF Join
<1>5. ASSUME NEW d \in Devices, Leave(d) PROVE ConnectivityTypeOK'
  <2>1. requests' = [requests EXCEPT ![d] = LaterAll(requests[d])]
    BY <1>5 DEF Leave, LaterAll
  <2>2. owner' \in [Devices -> Devices \cup {NoDevice}]
    BY <1>5, WithoutType DEF Leave
  <2>3. mine' \in [Devices -> BOOLEAN] /\ missed' \in [Devices -> BOOLEAN]
    BY <1>5 DEF Leave
  <2>4. connected' \in [Devices -> BOOLEAN]
    BY <1>5 DEF Leave
  <2>5. requests' \in [Devices -> Seq(Requests)]
    BY <1>0, <2>1
  <2>6. negotiation' \in [Devices -> Requests \cup {Nothing}]
    BY <1>0, <1>5 DEF Leave
  <2>7. UNCHANGED <<enabled, peers, joins>>
    BY <1>5 DEF Leave
  <2> QED BY <2>2, <2>3, <2>4, <2>5, <2>6, <2>7
<1>6. ASSUME NEW d \in Devices, NEW ok \in BOOLEAN, Answer(d, ok)
      PROVE  ConnectivityTypeOK'
  <2>1. Head(requests[d]) \in Requests /\ Tail(requests[d]) \in Seq(Requests)
    BY <1>6, HeadTailProperties DEF Answer
  <2>2. connected' \in [Devices -> BOOLEAN]
    BY <1>6 DEF Answer, Answered
  <2>3. requests' \in [Devices -> Seq(Requests)]
    BY <1>6, <2>1 DEF Answer
  <2>4. negotiation' \in [Devices -> Requests \cup {Nothing}]
    BY <1>6, <2>1 DEF Answer
  <2> QED BY <1>6, <2>2, <2>3, <2>4 DEF Answer
<1>7. ASSUME NEW d \in Devices, Form(d) PROVE ConnectivityTypeOK'
  <2>1. negotiation[d].to \in Devices
    BY <1>7 DEF Form, Requests
  <2>2. PICK o \in Devices :
            owner' = [owner EXCEPT ![d] = o, ![negotiation[d].to] = o]
    BY <1>7, <2>1 DEF Form
  <2>3. owner' \in [Devices -> Devices \cup {NoDevice}]
    BY <2>2
  <2>4. mine' \in [Devices -> BOOLEAN]
    BY <1>7 DEF Form
  <2>5. negotiation' \in [Devices -> Requests \cup {Nothing}]
    BY <1>7 DEF Form
  <2> QED BY <1>7, <2>3, <2>4, <2>5 DEF Form, manager
<1>8. ASSUME NEW d \in Devices, Fail(d) PROVE ConnectivityTypeOK'
  BY <1>8 DEF Fail, manager
<1>9. ASSUME NEW d \in Devices, Drop(d) PROVE ConnectivityTypeOK'
  <2>1. owner' \in [Devices -> Devices \cup {NoDevice}]
    BY <1>9, WithoutType DEF Drop
  <2>2. mine' \in [Devices -> BOOLEAN] /\ missed' \in [Devices -> BOOLEAN]
    BY <1>9 DEF Drop
  <2> QED BY <1>9, <2>1, <2>2 DEF Drop, manager
<1>10. CASE UNCHANGED vars
  BY <1>10 DEF vars, manager, android
<1>11. Shows \subseteq Devices
  BY DevicesAssumption
<1> QED BY <1>1, <1>2, <1>3, <1>4, <1>5, <1>6, <1>7, <1>8, <1>9, <1>10, <1>11
        DEF Next

-----------------------------------------------------------------------------
(* The inductive invariant.                                                *)

\* Nothing that Sound(e) speaks of changes, or only by the end of a Group.
Kin(e) ==
    /\ enabled'[e] = enabled[e] /\ connected'[e] = connected[e]
    /\ peers'[e] = peers[e]
    /\ requests'[e] = requests[e] /\ negotiation'[e] = negotiation[e]
    /\ \/ owner'[e] = owner[e] /\ mine'[e] = mine[e] /\ missed'[e] = missed[e]
       \/ mine'[e] = mine[e] /\ missed'[e] = missed[e] /\ owner'[e] # NoDevice
       \/ mine'[e] = FALSE /\ missed'[e] = TRUE

LEMMA KinSound ==
    ASSUME NEW e \in Devices, Sound(e), Kin(e) PROVE Sound(e)'
<1>1. Asked(e, requests'[e], negotiation'[e])
  BY DEF Sound, Kin
<1>2. InOrder(requests'[e], negotiation'[e], enabled'[e], connected'[e])
  BY DEF Sound, Kin
<1>3. Kept(e)'
  BY DEF Sound, Kin, Kept
<1>4. Explained(e)'
  BY DEF Sound, Kin, Explained
<1> QED BY <1>1, <1>2, <1>3, <1>4 DEF Sound, Kin

LEMMA InvInit == Init => IInv
<1> SUFFICES ASSUME Init PROVE IInv
  OBVIOUS
<1>1. ConnectivityTypeOK
  BY TypeInit
<1>2. ASSUME NEW d \in Devices PROVE Sound(d)
  <2>1. DOMAIN <<>> = {}
    OBVIOUS
  <2>2. Asked(d, <<>>, Nothing) /\ InOrder(<<>>, Nothing, FALSE, FALSE)
    BY <2>1 DEF Asked, InOrder, Nothing, Live
  <2> QED BY <2>2 DEF Init, Sound, Kept, Explained
<1> QED BY <1>1, <1>2 DEF IInv

LEMMA SoundEnable ==
    ASSUME IInv, NEW d \in Devices, Enable(d), NEW e \in Devices PROVE Sound(e)'
<1>1. CASE e # d
  <2>1. Kin(e)
    BY <1>1 DEF IInv, ConnectivityTypeOK, Enable, android, Kin
  <2> QED BY <2>1, KinSound DEF IInv
<1>2. CASE e = d
  <2>1. enabled'[d] = TRUE /\ connected'[d] = FALSE
    BY DEF IInv, ConnectivityTypeOK, Enable
  <2>2. UNCHANGED <<peers, requests, negotiation, mine>>
    BY DEF Enable, android
  <2>3. Sound(d) /\ ~enabled[d]
    BY DEF IInv, Enable
  <2>4. InOrder(requests[d], negotiation[d], TRUE, FALSE)
    BY <2>3 DEF Sound, InOrder
  <2> QED BY <1>2, <2>1, <2>2, <2>3, <2>4 DEF Sound, Kept, Explained
<1> QED BY <1>1, <1>2

LEMMA SoundDisable ==
    ASSUME IInv, NEW d \in Devices, Disable(d), NEW e \in Devices PROVE Sound(e)'
<1>1. CASE e # d
  <2>1. Kin(e)
    BY <1>1 DEF IInv, ConnectivityTypeOK, Disable, Kin
  <2> QED BY <2>1, KinSound DEF IInv
<1>2. CASE e = d
  <2>1. /\ enabled'[d] = FALSE /\ mine'[d] = FALSE /\ peers' = peers
        /\ requests'[d] = GoneAll(requests[d])
        /\ negotiation'[d] = Gone(negotiation[d])
    BY DEF IInv, ConnectivityTypeOK, Disable, GoneAll
  <2>2. /\ Sound(d)
        /\ requests[d] \in Seq(Requests) /\ negotiation[d] \in Requests \cup {Nothing}
    BY DEF IInv, ConnectivityTypeOK
  <2>3. /\ Asked(d, GoneAll(requests[d]), Gone(negotiation[d]))
        /\ InOrder(GoneAll(requests[d]), Gone(negotiation[d]), FALSE, connected'[d])
    BY <2>2, GoneKeeps DEF Sound
  <2> QED BY <1>2, <2>1, <2>2, <2>3 DEF Sound, Kept, Explained
<1> QED BY <1>1, <1>2

LEMMA SoundScan ==
    ASSUME IInv, NEW d \in Devices, NEW range \in SUBSET (Devices \ {d}),
           Scan(d, range), NEW e \in Devices
    PROVE  Sound(e)'
<1>1. peers'[e][e] = "ABSENT"
  <2>1. CASE e # d
    BY <2>1 DEF IInv, ConnectivityTypeOK, Sound, Scan
  <2>2. CASE e = d
    <3>1. peers'[d][d] = Shown(peers[d], d, "ABSENT")
      BY DEF IInv, ConnectivityTypeOK, Scan
    <3> QED BY <2>2, <3>1 DEF IInv, Sound, Shown
  <2> QED BY <2>1, <2>2
<1>2. UNCHANGED <<manager, android>>
  BY DEF Scan
<1> QED BY <1>1, <1>2 DEF IInv, Sound, Kept, Explained, manager, android

\* A device elects another one only as an owner or as the lowest.
LEMMA SelectedFine ==
    ASSUME IInv, NEW d \in Devices, NEW p \in Selected(peers[d], d), p # d
    PROVE  peers[d][p] = "OWNER" \/ p < d
<1>1. CASE Owners(peers[d]) # {}
  BY <1>1 DEF Selected, Owners
<1>2. CASE Owners(peers[d]) = {}
  <2>1. p \in Candidates(peers[d], d) /\ d \in Candidates(peers[d], d) /\ p <= d
    BY <1>2 DEF Selected, Lowest, Candidates
  <2>2. p \in Nat /\ d \in Nat
    BY <2>1, DevicesAssumption DEF Candidates
  <2> QED BY <2>1, <2>2
<1> QED BY <1>1, <1>2

LEMMA SoundJoin ==
    ASSUME IInv, NEW d \in Devices, NEW p \in Devices, Join(d, p), NEW e \in Devices
    PROVE  Sound(e)'
<1>1. CASE e # d
  <2>1. Kin(e)
    BY <1>1 DEF IInv, ConnectivityTypeOK, Join, Kin
  <2> QED BY <2>1, KinSound DEF IInv
<1>2. CASE e = d
  <2> DEFINE r == [to |-> p, toOwner |-> peers[d][p] = "OWNER", from |-> "LAST"]
             q == LaterAll(requests[d])
             n == Later(negotiation[d])
  <2>1. /\ enabled'[d] = TRUE /\ connected'[d] = TRUE
        /\ mine'[d] = FALSE /\ peers' = peers
        /\ requests'[d] = Append(q, r) /\ negotiation'[d] = n
    BY DEF IInv, ConnectivityTypeOK, Join, LaterAll
  <2>2. /\ Sound(d) /\ enabled[d] = TRUE
        /\ requests[d] \in Seq(Requests) /\ negotiation[d] \in Requests \cup {Nothing}
    BY DEF IInv, ConnectivityTypeOK, Join
  <2>3. r \in Requests /\ r.from = "LAST" /\ Fine(d, r)
    BY SelectedFine DEF Requests, Fine, Join
  <2>4. Asked(d, q, n) /\ InOrder(q, n, TRUE, TRUE) /\ \A i \in DOMAIN q : q[i].from # "LAST"
    BY <2>2, LaterKeeps, LaterAllFacts DEF Sound
  <2>5. q \in Seq(Requests) /\ n \in Requests \cup {Nothing} /\ n.from # "LAST"
    BY <2>2, LaterAllFacts, LaterRequest
  <2> HIDE DEF q, n, r
  <2>6. /\ Asked(d, Append(q, r), n)
        /\ InOrder(Append(q, r), n, TRUE, TRUE)
        /\ Waiting(Append(q, r), n)
    BY <2>3, <2>4, <2>5, AppendKeeps
  <2> QED BY <1>2, <2>1, <2>2, <2>6 DEF Sound, Kept, Explained
<1> QED BY <1>1, <1>2

LEMMA SoundLeave ==
    ASSUME IInv, NEW d \in Devices, Leave(d), NEW e \in Devices PROVE Sound(e)'
<1>0. owner[d] # NoDevice
  BY DEF Leave
<1>1. CASE e # d
  <2>1. /\ enabled'[e] = enabled[e] /\ connected'[e] = connected[e]
        /\ peers'[e] = peers[e]
        /\ requests'[e] = requests[e] /\ negotiation'[e] = negotiation[e]
    BY <1>1 DEF IInv, ConnectivityTypeOK, Leave
  <2>2. CASE e \in Leavers(d)
    <3>1. mine'[e] = FALSE /\ missed'[e] = TRUE
      BY <1>1, <2>2 DEF Leave
    <3> QED BY <2>1, <3>1, KinSound DEF IInv, Kin
  <2>3. CASE e \notin Leavers(d)
    <3>1. owner'[e] = owner[e] /\ mine'[e] = mine[e] /\ missed'[e] = missed[e]
      BY <1>1, <2>3 DEF IInv, ConnectivityTypeOK, Leave, Without
    <3> QED BY <2>1, <3>1, KinSound DEF IInv, Kin
  <2> QED BY <2>2, <2>3
<1>2. CASE e = d
  <2> DEFINE q == LaterAll(requests[d])
             n == Later(negotiation[d])
  <2>1. /\ enabled' = enabled /\ connected'[d] = FALSE /\ peers' = peers
        /\ requests'[d] = q /\ negotiation'[d] = n
    BY DEF IInv, ConnectivityTypeOK, Leave, LaterAll
  <2>2. mine'[d] = FALSE
    BY <1>0, LeaversFacts DEF Leave
  <2>3. /\ Sound(d)
        /\ requests[d] \in Seq(Requests) /\ negotiation[d] \in Requests \cup {Nothing}
    BY DEF IInv, ConnectivityTypeOK
  <2>4. Asked(d, q, n) /\ InOrder(q, n, enabled[d], FALSE)
    BY <2>3, LaterKeeps DEF Sound
  <2> HIDE DEF q, n
  <2> QED BY <1>2, <2>1, <2>2, <2>3, <2>4 DEF Sound, Kept, Explained
<1> QED BY <1>1, <1>2

LEMMA SoundAnswer ==
    ASSUME IInv, NEW d \in Devices, NEW ok \in BOOLEAN, Answer(d, ok),
           NEW e \in Devices
    PROVE  Sound(e)'
<1>1. CASE e # d
  <2>1. Kin(e)
    BY <1>1 DEF IInv, ConnectivityTypeOK, Answer, Kin
  <2> QED BY <2>1, KinSound DEF IInv
<1>2. CASE e = d
  <2> DEFINE q == requests[d]
             n == negotiation[d]
             now == IF Live(Head(q)) THEN ok ELSE connected[d]
             tried == IF ok THEN Head(q) ELSE n
  <2>1. /\ q \in Seq(Requests) /\ n \in Requests \cup {Nothing} /\ q # <<>>
        /\ Sound(d) /\ ok \in BOOLEAN
    BY DEF IInv, ConnectivityTypeOK, Answer
  <2>2. /\ UNCHANGED <<enabled, peers, owner, mine, missed>>
        /\ requests'[d] = Tail(q)
        /\ connected'[d] = now
        /\ negotiation'[d] = tried
    BY DEF IInv, ConnectivityTypeOK, Answer, Answered, Live
  <2>3. ~mine[d]
    BY <2>1 DEF Sound, Kept
  <2>4. CASE ok
    <3>1. Head(q).from = "LAST" => now
      BY <2>4 DEF Live
    <3> HIDE DEF q, n, now
    <3>2. /\ Asked(d, Tail(q), Head(q)) /\ InOrder(Tail(q), Head(q), enabled[d], now)
          /\ Waiting(q, n) => \/ Waiting(Tail(q), Head(q))
                              \/ Waiting(Tail(q), n) /\ ~Live(n)
          /\ ~Live(Head(q)) => ~Live(n)
      <4>1. Asked(d, q, n) /\ InOrder(q, n, enabled[d], connected[d])
        BY <2>1 DEF Sound, q, n
      <4> QED BY <2>1, <3>1, <4>1, TailKeeps
    <3>3. enabled[d] /\ now => missed[d] \/ owner[d] # NoDevice \/ Waiting(Tail(q), Head(q))
      <4>1. CASE Live(Head(q))
        BY <4>1 DEF Waiting
      <4>2. CASE ~Live(Head(q))
        <5>1. now = connected[d]
          BY <4>2 DEF now
        <5>2. Waiting(Tail(q), n) /\ ~Live(n) => Waiting(Tail(q), Head(q))
          BY DEF Waiting
        <5>3. enabled[d] /\ connected[d] => missed[d] \/ owner[d] # NoDevice \/ Waiting(q, n)
          BY <2>1 DEF Sound, Explained, q, n
        <5> QED BY <3>2, <5>1, <5>2, <5>3
      <4> QED BY <4>1, <4>2
    <3>4. tried = Head(q)
      BY <2>4
    <3> HIDE DEF tried
    <3>5. Asked(d, requests'[d], negotiation'[d])
      BY <2>2, <3>2, <3>4
    <3>6. InOrder(requests'[d], negotiation'[d], enabled'[d], connected'[d])
      BY <2>2, <3>2, <3>4
    <3>7. Explained(d)'
      BY <2>2, <3>3, <3>4 DEF Explained
    <3> QED BY <1>2, <2>1, <2>2, <2>3, <3>5, <3>6, <3>7 DEF Sound, Kept
  <2>5. CASE ~ok
    <3>1. CASE Head(q).from = "LAST"
      <4>1. now = FALSE /\ tried = n
        BY <2>1, <2>5, <3>1 DEF Live
      <4>2. q[1] = Head(q) /\ Len(q) \in Nat \ {0} /\ 1 \in DOMAIN q
        BY <2>1, HeadTailProperties, LenProperties, EmptySeq
      <4>3. Len(q) = 1
        BY <2>1, <3>1, <4>2 DEF Sound, InOrder
      <4>4. Tail(q) = <<>>
        <5>1. Tail(q) \in Seq(Requests) /\ Len(Tail(q)) = 0
          BY <2>1, <4>3, HeadTailProperties
        <5> QED BY <5>1, EmptySeq
      <4>5. n.from # "LAST"
        BY <2>1 DEF Sound, InOrder
      <4>6. DOMAIN <<>> = {}
        OBVIOUS
      <4>7. Asked(d, Tail(q), n)
        BY <2>1, <4>4, <4>6 DEF Sound, Asked
      <4>8. InOrder(Tail(q), n, enabled[d], FALSE)
        BY <4>4, <4>5, <4>6 DEF InOrder
      <4> HIDE DEF q, n, now, tried
      <4> QED BY <1>2, <2>1, <2>2, <2>3, <4>1, <4>7, <4>8 DEF Sound, Kept, Explained
    <3>2. CASE Head(q).from # "LAST"
      <4>1. tried = n
        BY <2>5
      <4>2. /\ Asked(d, Tail(q), n) /\ InOrder(Tail(q), n, enabled[d], now)
            /\ Waiting(q, n) => \/ Waiting(Tail(q), Head(q))
                                \/ Waiting(Tail(q), n) /\ ~Live(n)
        <5>1. Asked(d, q, n) /\ InOrder(q, n, enabled[d], connected[d])
          BY <2>1 DEF Sound
        <5> HIDE DEF q, n, now
        <5> QED BY <2>1, <3>2, <5>1, TailKeeps
      <4>3. enabled[d] /\ now => missed[d] \/ owner[d] # NoDevice \/ Waiting(Tail(q), n)
        <5>1. CASE Live(Head(q))
          BY <2>5, <5>1
        <5>2. CASE ~Live(Head(q))
          <6>1. now = connected[d]
            BY <5>2
          <6>2. Waiting(Tail(q), Head(q)) => Waiting(Tail(q), n)
            BY <5>2 DEF Waiting
          <6>3. enabled[d] /\ connected[d] => missed[d] \/ owner[d] # NoDevice \/ Waiting(q, n)
            BY <2>1 DEF Sound, Explained
          <6> QED BY <4>2, <6>1, <6>2, <6>3
        <5> QED BY <5>1, <5>2
      <4> HIDE DEF q, n, now, tried
      <4>4. Asked(d, requests'[d], negotiation'[d])
        BY <2>2, <4>1, <4>2
      <4>5. InOrder(requests'[d], negotiation'[d], enabled'[d], connected'[d])
        BY <2>2, <4>1, <4>2
      <4>6. Explained(d)'
        BY <2>2, <4>1, <4>3 DEF Explained
      <4> QED BY <1>2, <2>1, <2>2, <2>3, <4>4, <4>5, <4>6 DEF Sound, Kept
    <3> QED BY <3>1, <3>2
  <2> QED BY <2>4, <2>5
<1> QED BY <1>1, <1>2

LEMMA SoundForm ==
    ASSUME IInv, NEW d \in Devices, Form(d), NEW e \in Devices PROVE Sound(e)'
<1> DEFINE t == negotiation[d].to
<1>1. t \in Devices
  BY DEF IInv, ConnectivityTypeOK, Form, Requests
<1>2. PICK o \in Devices : owner' = [owner EXCEPT ![d] = o, ![t] = o]
  BY <1>1 DEF Form
<1>3. o # NoDevice
  BY DevicesAssumption
<1>4. /\ UNCHANGED <<enabled, connected, peers, requests, missed>>
      /\ mine' = [mine EXCEPT ![d] = negotiation[d].from = "LAST"]
      /\ negotiation' = [negotiation EXCEPT ![d] = Nothing]
  BY DEF Form, manager
<1> HIDE DEF t
<1>5. owner'[e] = owner[e] \/ owner'[e] # NoDevice
  BY <1>1, <1>2, <1>3 DEF IInv, ConnectivityTypeOK
<1>6. CASE e # d
  <2>1. mine'[e] = mine[e] /\ negotiation'[e] = negotiation[e]
    BY <1>4, <1>6 DEF IInv, ConnectivityTypeOK
  <2>2. Kin(e)
    BY <1>4, <1>5, <2>1 DEF Kin
  <2> QED BY <2>2, KinSound DEF IInv
<1>7. CASE e = d
  <2>1. owner'[d] # NoDevice
    BY <1>1, <1>2, <1>3 DEF IInv, ConnectivityTypeOK
  <2>2. /\ negotiation'[d] = Nothing
        /\ mine'[d] = (negotiation[d].from = "LAST")
    BY <1>4 DEF IInv, ConnectivityTypeOK
  <2>3. Sound(d)
    BY DEF IInv
  <2>4. ~Live(Nothing) /\ Nothing.from # "LAST"
    BY DEF Nothing, Live
  <2>5. Asked(d, requests[d], Nothing)
    BY <2>3 DEF Sound, Asked
  <2>6. InOrder(requests[d], Nothing, enabled[d], connected[d])
    BY <2>3, <2>4 DEF Sound, InOrder
  <2>7. mine'[d] => enabled[d] /\ connected[d] /\ requests[d] = <<>>
    BY <2>2, <2>3 DEF Sound, InOrder
  <2> QED BY <1>4, <1>7, <2>1, <2>2, <2>3, <2>5, <2>6, <2>7
          DEF Sound, Kept, Explained
<1> QED BY <1>6, <1>7

LEMMA SoundFail ==
    ASSUME IInv, NEW d \in Devices, Fail(d), NEW e \in Devices PROVE Sound(e)'
<1>1. CASE e # d
  <2>1. Kin(e)
    BY <1>1 DEF IInv, ConnectivityTypeOK, Fail, manager, Kin
  <2> QED BY <2>1, KinSound DEF IInv
<1>2. CASE e = d
  <2>1. /\ negotiation'[d] = Nothing /\ missed'[d] = TRUE
        /\ UNCHANGED <<enabled, connected, peers, owner, requests, mine>>
    BY DEF IInv, ConnectivityTypeOK, Fail, manager
  <2>2. Sound(d)
    BY DEF IInv
  <2>3. ~Live(Nothing) /\ Nothing.from # "LAST"
    BY DEF Nothing, Live
  <2>4. Asked(d, requests[d], Nothing)
    BY <2>2 DEF Sound, Asked
  <2>5. InOrder(requests[d], Nothing, enabled[d], connected[d])
    BY <2>2, <2>3 DEF Sound, InOrder
  <2> QED BY <1>2, <2>1, <2>2, <2>4, <2>5 DEF Sound, Kept, Explained
<1> QED BY <1>1, <1>2

LEMMA SoundDrop ==
    ASSUME IInv, NEW d \in Devices, Drop(d), NEW e \in Devices PROVE Sound(e)'
<1>1. UNCHANGED <<enabled, connected, peers, requests, negotiation>>
  BY DEF Drop, manager
<1>2. CASE e \in Leavers(d)
  <2>1. mine'[e] = FALSE /\ missed'[e] = TRUE
    BY <1>2 DEF Drop
  <2> QED BY <1>1, <2>1, KinSound DEF IInv, Kin
<1>3. CASE e \notin Leavers(d)
  <2>1. owner'[e] = owner[e] /\ mine'[e] = mine[e] /\ missed'[e] = missed[e]
    BY <1>3 DEF IInv, ConnectivityTypeOK, Drop, Without
  <2> QED BY <1>1, <2>1, KinSound DEF IInv, Kin
<1> QED BY <1>2, <1>3

LEMMA InvNext == IInv /\ [Next]_vars => IInv'
<1> SUFFICES ASSUME IInv, [Next]_vars PROVE IInv'
  OBVIOUS
<1>1. ConnectivityTypeOK'
  BY TypeNext DEF IInv
<1>2. ASSUME NEW e \in Devices PROVE Sound(e)'
  <2>1. CASE \E d \in Shows : Enable(d) \/ Disable(d)
    BY <2>1, DevicesAssumption, SoundEnable, SoundDisable
  <2>2. CASE \E d \in Shows : \E range \in SUBSET (Devices \ {d}) : Scan(d, range)
    BY <2>2, DevicesAssumption, SoundScan
  <2>3. CASE \E d \in Shows : \E p \in Devices : Join(d, p)
    BY <2>3, DevicesAssumption, SoundJoin
  <2>4. CASE \E d \in Shows : Leave(d) \/ \E ok \in BOOLEAN : Answer(d, ok)
    BY <2>4, DevicesAssumption, SoundLeave, SoundAnswer
  <2>5. CASE \E d \in Shows : Form(d) \/ Fail(d)
    BY <2>5, DevicesAssumption, SoundForm, SoundFail
  <2>6. CASE \E d \in Devices : Drop(d)
    BY <2>6, SoundDrop
  <2>7. CASE UNCHANGED vars
    BY <2>7 DEF IInv, Sound, Kept, Explained, vars, manager, android
  <2> QED BY <2>1, <2>2, <2>3, <2>4, <2>5, <2>6, <2>7 DEF Next
<1> QED BY <1>1, <1>2 DEF IInv

LEMMA InvAlways == Spec => []IInv
BY InvInit, InvNext, PTL DEF Spec

-----------------------------------------------------------------------------

\* The variables of the managers and of Android keep their types.
THEOREM ConnectivityTypes == Spec => []ConnectivityTypeOK
BY InvAlways, PTL DEF IInv

\* Devices that see the same select the same owner, however many there are.
THEOREM Agreement == Spec => []SameViewSameOwner
<1>1. ASSUME IInv PROVE SameViewSameOwner
  <2> SUFFICES ASSUME NEW d \in Devices, NEW e \in Devices, d # e,
                      peers[d][e] = "FREE", peers[e][d] = "FREE",
                      \A p \in Devices \ {d, e} : peers[d][p] = peers[e][p]
               PROVE  Selected(peers[d], d) = Selected(peers[e], e)
    BY DEF SameViewSameOwner
  <2>1. peers[d][d] = "ABSENT" /\ peers[e][e] = "ABSENT"
    BY <1>1 DEF IInv, Sound
  <2>2. Owners(peers[d]) = Owners(peers[e])
    BY <2>1 DEF Owners
  <2>3. Candidates(peers[d], d) = Candidates(peers[e], e)
    BY <2>1 DEF Candidates
  <2> QED BY <2>2, <2>3 DEF Selected
<1> QED BY <1>1, InvAlways, PTL

\* No two devices wait for each other, whenever and however often they asked.
THEOREM NoDevicesCross == Spec => []NoCrossing
<1>1. ASSUME IInv PROVE NoCrossing
  <2>1. ASSUME NEW d \in Devices, NEW r \in Pending(d) PROVE Fine(d, r)
    BY <1>1 DEF IInv, Sound, Asked, Pending
  <2>2. ASSUME NEW d \in Devices, NEW e \in Devices, NEW r \in Pending(d),
               NEW s \in Pending(e), r.to = e, s.to = d
        PROVE  r.toOwner \/ s.toOwner
    <3>1. Fine(d, r) /\ Fine(e, s)
      BY <2>1
    <3>2. d \in Nat /\ e \in Nat
      BY DevicesAssumption
    <3> QED BY <2>2, <3>1, <3>2 DEF Fine
  <2> QED BY <2>2 DEF NoCrossing
<1> QED BY <1>1, InvAlways, PTL

\* leave() works in the Group that a device asked for last.
THEOREM AskersCanLeave == Spec => []WhoAskedCanLeave
<1>1. ASSUME IInv PROVE WhoAskedCanLeave
  BY <1>1 DEF IInv, Sound, Kept, WhoAskedCanLeave
<1> QED BY <1>1, InvAlways, PTL

\* A device that cannot join has lost a Group or a negotiation unreported.
THEOREM OnlyLossBlocks == Spec => []BlockedOnlyByLoss
<1>1. ASSUME IInv PROVE BlockedOnlyByLoss
  <2> SUFFICES ASSUME NEW d \in Devices, enabled[d], connected[d],
                      owner[d] = NoDevice, Pending(d) = {}
               PROVE  missed[d]
    BY DEF BlockedOnlyByLoss
  <2>1. DOMAIN requests[d] = {} /\ negotiation[d] = Nothing
    BY DEF Pending
  <2>2. ~Live(Nothing)
    BY DEF Nothing, Live
  <2>3. ~Waiting(requests[d], negotiation[d])
    BY <2>1, <2>2 DEF Waiting
  <2> QED BY <1>1, <2>3 DEF IInv, Sound, Explained
<1> QED BY <1>1, InvAlways, PTL

=============================================================================
