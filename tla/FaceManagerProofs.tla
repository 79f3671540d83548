------------------------- MODULE FaceManagerProofs -------------------------
(***************************************************************************)
(* Proofs about FaceManager for every set of services and addresses, and   *)
(* any number of sessions and resolutions.  The first part is about the    *)
(* discoverer on its own, NsdDiscovery.                                    *)
(***************************************************************************)
EXTENDS FaceManager, SequenceTheorems, FiniteSetTheorems, TLAPS

\* Removing one of the elements of a sequence.
LEMMA RemoveOne ==
    ASSUME NEW S, NEW s \in Seq(S), NEW i \in DOMAIN s
    PROVE  /\ RemoveAt(s, i) \in Seq(S)
           /\ Len(RemoveAt(s, i)) = Len(s) - 1
           /\ Len(s) <= 1 => RemoveAt(s, i) = <<>>
<1> DEFINE before == SubSeq(s, 1, i - 1)
           after  == SubSeq(s, i + 1, Len(s))
<1>1. i \in 1 .. Len(s) /\ Len(s) \in Nat
  BY LenProperties
<1>2. before \in Seq(S) /\ Len(before) = i - 1
  <2>1. \A j \in 1 .. i - 1 : s[j] \in S
    BY <1>1, ElementOfSeq
  <2> QED BY <1>1, <2>1, SubSeqProperties
<1>3. after \in Seq(S) /\ Len(after) = Len(s) - i
  <2>1. \A j \in i + 1 .. Len(s) : s[j] \in S
    BY <1>1, ElementOfSeq
  <2> QED BY <1>1, <2>1, SubSeqProperties
<1> HIDE DEF before, after
<1>4. before \o after \in Seq(S) /\ Len(before \o after) = Len(s) - 1
  BY <1>1, <1>2, <1>3, ConcatProperties
<1>5. Len(s) <= 1 => before \o after = <<>>
  BY <1>1, <1>4, EmptySeq
<1> QED BY <1>4, <1>5 DEF RemoveAt, before, after

\* The three properties are inductive together: the types carry the queue and
\* the requests, NeverStuck the flag that says whether a request is under way,
\* and OneResolution what the flag means when nothing is left over.
IInv == NsdTypeOK /\ NeverStuck /\ OneResolution

LEMMA Records ==
    /\ \A s \in Services : Unavailable \in ServiceRecords
    /\ \A r \in ServiceRecords : MarkedUnavailable(r) \in ServiceRecords
    /\ \A h \in Hosts : Available(h) \in ServiceRecords
    /\ Absent \in ServiceRecords
BY DEF ServiceRecords, MarkedUnavailable

LEMMA InvInit == NsdInit => IInv
<1> SUFFICES ASSUME NsdInit PROVE IInv
  OBVIOUS
<1>1. NsdTypeOK
  <2>1. <<>> \in Seq(Services)
    BY EmptySeq
  <2>2. services \in [Services -> ServiceRecords]
    BY Records DEF NsdInit
  <2>3. sessions \in 0 .. MaxSessions
    BY LimitsAssumption DEF NsdInit
  <2> QED BY <2>1, <2>2, <2>3 DEF NsdInit, NsdTypeOK
<1>2. Len(<<>>) <= 1
  BY EmptySeq
<1> QED BY <1>1, <1>2 DEF IInv, NsdInit, NeverStuck, OneResolution

-----------------------------------------------------------------------------

\* What the resolver does with a service to resolve.
LEMMA RequestedFacts ==
    ASSUME IInv, NEW s \in Services,
           ResolverIs(Requested(queue, pending, flight, s))
    PROVE  /\ queue' \in Seq(Services) /\ flight' \in Seq(Services)
           /\ pending' = TRUE /\ flight' # <<>>
           /\ pending => flight' = flight
           /\ ~pending => Len(flight') = Len(flight) + 1
<1>1. queue \in Seq(Services) /\ flight \in Seq(Services)
  BY DEF IInv, NsdTypeOK
<1>2. CASE pending
  <2>1. flight # <<>>
    BY <1>2 DEF IInv, NeverStuck
  <2> QED BY <1>1, <1>2, <2>1, AppendProperties DEF Requested, ResolverIs
<1>3. CASE ~pending
  BY <1>1, <1>3, AppendProperties DEF Requested, ResolverIs
<1> QED BY <1>2, <1>3

\* What it does when an answer leaves the requests in left unanswered.
LEMMA ContinuedFacts ==
    ASSUME IInv, NEW left \in Seq(Services),
           ResolverIs(Continued(queue, pending, left))
    PROVE  /\ queue' \in Seq(Services) /\ flight' \in Seq(Services)
           /\ pending' \in BOOLEAN
           /\ queue = <<>> => queue' = <<>> /\ ~pending' /\ flight' = left
           /\ queue # <<>> => pending' /\ flight' # <<>>
                              /\ Len(flight') = Len(left) + 1
<1>1. queue \in Seq(Services)
  BY DEF IInv, NsdTypeOK
<1>2. CASE queue = <<>>
  BY <1>1, <1>2 DEF Continued, ResolverIs
<1>3. CASE queue # <<>>
  <2>1. Head(queue) \in Services /\ Tail(queue) \in Seq(Services)
    BY <1>1, <1>3, HeadTailProperties
  <2>2. /\ Append(left, Head(queue)) \in Seq(Services)
        /\ Append(left, Head(queue)) # <<>>
        /\ Len(Append(left, Head(queue))) = Len(left) + 1
    BY <2>1, AppendProperties
  <2>3. pending \in BOOLEAN /\ pending
    BY <1>3 DEF IInv, NsdTypeOK, NeverStuck
  <2>4. /\ queue' = Tail(queue)
        /\ flight' = Append(left, Head(queue))
        /\ pending' = pending
    BY <1>3 DEF Continued, ResolverIs
  <2> QED BY <1>3, <2>1, <2>2, <2>3, <2>4
<1> QED BY <1>2, <1>3

-----------------------------------------------------------------------------

\* stop() leaves the records well typed.
LEMMA StopFacts ==
    ASSUME NsdTypeOK, Stop
    PROVE  services' \in [Services -> ServiceRecords] /\ started' = FALSE
<1>1. AllUnavailable \in [Services -> ServiceRecords]
  <2>1. \A s \in Services : services[s] \in ServiceRecords
    BY DEF NsdTypeOK
  <2> QED BY <2>1, Records DEF AllUnavailable
<1> QED BY <1>1 DEF Stop, NsdTypeOK

LEMMA InvEnable == ASSUME IInv, Enable PROVE IInv'
<1>1. sessions' \in 0 .. MaxSessions
  BY LimitsAssumption DEF IInv, NsdTypeOK, Enable
<1> QED BY <1>1 DEF IInv, NsdTypeOK, NeverStuck, OneResolution, Enable, resolver

LEMMA InvDisable == ASSUME IInv, Disable PROVE IInv'
<1>1. NsdTypeOK'
  <2>1. services' \in [Services -> ServiceRecords] /\ started' = FALSE
    BY StopFacts DEF IInv, Disable
  <2>2. queue' \in Seq(Services)
    BY EmptySeq DEF Disable
  <2> QED BY <2>1, <2>2 DEF IInv, NsdTypeOK, Disable
<1>2. NeverStuck'
  BY DEF NeverStuck, Disable
<1>3. OneResolution'
  <2>1. ~leftover' => flight' = <<>> /\ ~pending'
    BY DEF Disable
  <2>2. Len(<<>>) <= 1
    BY EmptySeq
  <2> QED BY <2>1, <2>2 DEF OneResolution
<1> QED BY <1>1, <1>2, <1>3 DEF IInv

LEMMA InvConnectivity ==
    ASSUME IInv, Connected \/ Disconnected \/ DiscoveryStopped
    PROVE  IInv'
<1>1. CASE Connected
  BY <1>1 DEF IInv, NsdTypeOK, NeverStuck, OneResolution, Connected, resolver
<1>2. CASE Disconnected
  <2>1. services' \in [Services -> ServiceRecords] /\ started' = FALSE
    BY <1>2, StopFacts DEF IInv, Disconnected
  <2> QED BY <1>2, <2>1
          DEF IInv, NsdTypeOK, NeverStuck, OneResolution, Disconnected, resolver
<1>3. CASE DiscoveryStopped
  BY <1>3 DEF IInv, NsdTypeOK, NeverStuck, OneResolution, DiscoveryStopped,
              resolver, discoverer
<1> QED BY <1>1, <1>2, <1>3

LEMMA InvServiceFound ==
    ASSUME IInv, NEW s \in Services, ServiceFound(s) PROVE IInv'
<1>1. ResolverIs(Requested(queue, pending, flight, s))
  BY DEF ServiceFound
<1>2. /\ queue' \in Seq(Services) /\ flight' \in Seq(Services)
      /\ pending' = TRUE /\ flight' # <<>>
      /\ pending => flight' = flight
      /\ ~pending => Len(flight') = Len(flight) + 1
  BY <1>1, RequestedFacts
<1>3. services' \in [Services -> ServiceRecords]
  BY Records DEF IInv, NsdTypeOK, ServiceFound
<1>4. NsdTypeOK'
  BY <1>2, <1>3 DEF IInv, NsdTypeOK, ServiceFound, discoverer
<1>5. NeverStuck'
  BY <1>2 DEF NeverStuck
<1>6. OneResolution'
  <2> SUFFICES ASSUME ~leftover PROVE Len(flight') <= 1 /\ flight' # <<>> /\ pending'
    BY DEF OneResolution, ServiceFound
  <2>1. CASE pending
    BY <1>2, <2>1 DEF IInv, OneResolution
  <2>2. CASE ~pending
    <3>1. flight = <<>>
      BY <2>2 DEF IInv, OneResolution
    <3>2. Len(flight) = 0
      BY <3>1, EmptySeq
    <3>3. Len(flight') = 1
      BY <1>2, <2>2, <3>2
    <3> QED BY <1>2, <3>3
  <2> QED BY <2>1, <2>2
<1> QED BY <1>4, <1>5, <1>6 DEF IInv

LEMMA InvServiceLost ==
    ASSUME IInv, NEW s \in Services, ServiceLost(s) PROVE IInv'
<1>1. services' \in [Services -> ServiceRecords]
  BY Records DEF IInv, NsdTypeOK, ServiceLost
<1> QED BY <1>1 DEF IInv, NsdTypeOK, NeverStuck, OneResolution, ServiceLost,
                    resolver, discoverer

LEMMA InvAnswer ==
    ASSUME IInv, NEW i \in DOMAIN flight, Answer(i) PROVE IInv'
<1>1. Answered(i)
  BY DEF Answer, ResolveFailed, Resolved
<1> DEFINE left == RemoveAt(flight, i)
<1>2. /\ left \in Seq(Services)
      /\ Len(left) = Len(flight) - 1
      /\ Len(flight) <= 1 => left = <<>>
  <2>1. flight \in Seq(Services)
    BY DEF IInv, NsdTypeOK
  <2> QED BY <2>1, RemoveOne
<1>3. /\ ResolverIs(Continued(queue, pending, left))
      /\ leftover' = (leftover /\ flight' # <<>>)
      /\ UNCHANGED <<discoverer, discovering, listed>>
  BY <1>1 DEF Answered
<1> HIDE DEF left
<1>4. /\ queue' \in Seq(Services) /\ flight' \in Seq(Services)
      /\ pending' \in BOOLEAN
      /\ queue = <<>> => queue' = <<>> /\ ~pending' /\ flight' = left
      /\ queue # <<>> => pending' /\ flight' # <<>>
                         /\ Len(flight') = Len(left) + 1
  BY <1>2, <1>3, ContinuedFacts
<1>6. services' \in [Services -> ServiceRecords]
  <2>1. flight[i] \in Services
    BY ElementOfSeq DEF IInv, NsdTypeOK
  <2>2. services \in [Services -> ServiceRecords]
    BY DEF IInv, NsdTypeOK
  <2>3. CASE ResolveFailed(i)
    BY <2>2, <2>3 DEF ResolveFailed
  <2>4. CASE \E host \in Hosts, named \in BOOLEAN : Resolved(i, host, named)
    BY <2>1, <2>2, <2>4, Records DEF Resolved
  <2> QED BY <2>3, <2>4 DEF Answer
<1>7. NsdTypeOK'
  <2>1. leftover' \in BOOLEAN
    BY <1>3
  <2> QED BY <1>3, <1>4, <1>6, <2>1 DEF IInv, NsdTypeOK, discoverer
<1>8. NeverStuck'
  <2>1. CASE queue = <<>>
    BY <1>4, <2>1 DEF NeverStuck
  <2>2. CASE queue # <<>>
    BY <1>4, <2>2 DEF NeverStuck
  <2> QED BY <2>1, <2>2
<1>9. OneResolution'
  <2> SUFFICES ASSUME ~leftover'
               PROVE  Len(flight') <= 1 /\ (pending' <=> flight' # <<>>)
    BY DEF OneResolution
  <2>1. Len(<<>>) = 0
    BY EmptySeq
  <2>2. CASE ~leftover
    <3>1. left = <<>>
      BY <1>2, <2>2 DEF IInv, OneResolution
    <3>2. Len(left) = 0
      BY <2>1, <3>1
    <3>3. CASE queue = <<>>
      BY <1>4, <3>1, <3>2, <3>3
    <3>4. CASE queue # <<>>
      <4>1. Len(flight') = 1
        BY <1>4, <3>2, <3>4
      <4> QED BY <1>4, <3>4, <4>1
    <3> QED BY <3>3, <3>4
  <2>3. CASE leftover
    <3>1. flight' = <<>>
      BY <1>3, <2>3
    <3>2. queue = <<>>
      BY <1>4, <3>1
    <3>3. Len(flight') = 0
      BY <2>1, <3>1
    <3> QED BY <1>4, <3>1, <3>2, <3>3
  <2> QED BY <2>2, <2>3
<1> QED BY <1>7, <1>8, <1>9 DEF IInv

LEMMA InvNext == IInv /\ [NsdNext]_nsdVars => IInv'
<1> SUFFICES ASSUME IInv, [NsdNext]_nsdVars PROVE IInv'
  OBVIOUS
<1>1. CASE Enable
  BY <1>1, InvEnable
<1>2. CASE Disable
  BY <1>2, InvDisable
<1>3. CASE Connected \/ Disconnected \/ DiscoveryStopped
  BY <1>3, InvConnectivity
<1>4. CASE \E s \in Services : ServiceFound(s) \/ ServiceLost(s)
  BY <1>4, InvServiceFound, InvServiceLost
<1>5. CASE \E i \in DOMAIN flight : Answer(i)
  BY <1>5, InvAnswer
<1>6. CASE UNCHANGED nsdVars
  BY <1>6 DEF IInv, NsdTypeOK, NeverStuck, OneResolution, nsdVars, discoverer,
              resolver
<1> QED BY <1>1, <1>2, <1>3, <1>4, <1>5, <1>6 DEF NsdNext

LEMMA InvAlways == NsdSpec => []IInv
BY InvInit, InvNext, PTL DEF NsdSpec

-----------------------------------------------------------------------------

\* The variables of the discoverer and the resolver keep their types.
THEOREM DiscoveryTypes == NsdSpec => []NsdTypeOK
BY InvAlways, PTL DEF IInv

\* The resolver never waits for an answer that nobody owes it, however its
\* sessions, requests and answers interleave.
THEOREM ResolverNeverStuck == NsdSpec => []NeverStuck
BY InvAlways, PTL DEF IInv

\* One resolution at a time, but for those left over from before a disable.
THEOREM ResolvesOneAtATime == NsdSpec => []OneResolution
BY InvAlways, PTL DEF IInv


-----------------------------------------------------------------------------
(* The manager and the face table.                                         *)

\* The managers of the sessions to come know nothing.
Later ==
    \A m \in Sessions : m > sessions =>
        /\ peers[m] = {}
        /\ \A u \in Services : faceIds[m][u] = 0 /\ oppChannels[m][u] = NoChannel

\* A peer of the current manager has a FaceId, and every manager knows it.
Reported ==
    enabled =>
        /\ sessions \in Sessions
        /\ \A u \in Services :
            /\ faceIds[sessions][u] # 0 => \A m \in 1 .. sessions : u \in peers[m]
            /\ u \in peers[sessions] => faceIds[sessions][u] # 0

\* The service of a face that is up was told of.
Heard ==
    enabled => \A id \in DOMAIN faces :
        faces[id].state = "UP" => faces[id].peer \in known

\* The first session has no older manager that asks for faces of its own.
FirstSession ==
    enabled /\ sessions = 1 =>
        /\ \A id \in DOMAIN faces : faceIds[1][faces[id].peer] = id
        /\ \A u \in Services : oppChannels[1][u] # NoChannel => faceIds[1][u] # 0

Cause == crashed => ~ known \subseteq peers[sessions]

\* The managers and the face table agree.
Agreed == BooksAgree /\ Later /\ Reported /\ Heard /\ FirstSession /\ ChannelIffUp

FInv == IInv /\ FaceTypeOK /\ Agreed /\ Cause

-----------------------------------------------------------------------------

LEMMA ServiceFacts ==
    ASSUME NEW r \in ServiceRecords
    PROVE  /\ r.host \in Hosts \cup {NoHost}
           /\ r.status = "AVAILABLE" => r.host \in Hosts
BY DEF ServiceRecords, Absent, Unavailable, Available

LEMMA RaisedFacts ==
    ASSUME NEW table \in Seq(FaceType), NEW id, NEW host \in Hosts \cup {NoHost}
    PROVE  LET r == Raised(table, id, host) IN
           /\ r \in Seq(FaceType) /\ DOMAIN r = DOMAIN table
           /\ \A i \in DOMAIN table :
                /\ r[i].peer = table[i].peer
                /\ i # id \/ table[i].state = "UP" => r[i] = table[i]
                /\ i = id => r[i].state = "UP"
                /\ i = id /\ table[i].state = "DOWN" => r[i].host = host
<1> DEFINE r == Raised(table, id, host)
<1>1. \A i \in DOMAIN table : table[i] \in FaceType
  BY ElementOfSeq
<1>2. CASE id \in DOMAIN table /\ table[id].state = "DOWN"
  <2>1. r = [table EXCEPT ![id] = [table[id] EXCEPT !.state = "UP", !.host = host]]
    BY <1>1, <1>2 DEF Raised, FaceType
  <2>2. [table[id] EXCEPT !.state = "UP", !.host = host] \in FaceType
    BY <1>1, <1>2 DEF FaceType
  <2>3. r \in Seq(FaceType) /\ DOMAIN r = DOMAIN table
    BY <1>2, <2>1, <2>2, ExceptSeq
  <2> QED BY <1>1, <1>2, <2>1, <2>3 DEF FaceType
<1>3. CASE ~(id \in DOMAIN table /\ table[id].state = "DOWN")
  BY <1>1, <1>3 DEF Raised, FaceType
<1> QED BY <1>2, <1>3

LEMMA LoweredFacts ==
    ASSUME NEW table \in Seq(FaceType), NEW id
    PROVE  LET r == Lowered(table, id) IN
           /\ r \in Seq(FaceType) /\ DOMAIN r = DOMAIN table
           /\ \A i \in DOMAIN table :
                /\ r[i].peer = table[i].peer
                /\ i # id => r[i] = table[i]
                /\ i = id => r[i].state = "DOWN"
                /\ r[i].state = "UP" => r[i] = table[i]
<1> DEFINE r == Lowered(table, id)
<1>1. \A i \in DOMAIN table : table[i] \in FaceType
  BY ElementOfSeq
<1>2. CASE id \in DOMAIN table /\ table[id].state = "UP"
  <2>1. r = [table EXCEPT ![id] = [table[id] EXCEPT !.state = "DOWN"]]
    BY <1>1, <1>2 DEF Lowered, FaceType
  <2>2. [table[id] EXCEPT !.state = "DOWN"] \in FaceType
    BY <1>1, <1>2 DEF FaceType
  <2>3. r \in Seq(FaceType) /\ DOMAIN r = DOMAIN table
    BY <1>2, <2>1, <2>2, ExceptSeq
  <2> QED BY <1>1, <1>2, <2>1, <2>3 DEF FaceType
<1>3. CASE ~(id \in DOMAIN table /\ table[id].state = "UP")
  BY <1>1, <1>3 DEF Lowered, FaceType
<1> QED BY <1>2, <1>3

\* What a manager asks of the discoverer is a step of the discoverer.
LEMMA DiscoverySteps == ASSUME FInv, [FaceNext]_vars PROVE IInv'
<1>1. CASE Told
  <2>1. CASE StartDaemon \/ StopDaemon
    BY <2>1, InvEnable, InvDisable DEF FInv, StartDaemon, StopDaemon
  <2>2. CASE Unnoticed
    <3>1. NsdNext
      BY <2>2 DEF Unnoticed, NsdNext, Answer
    <3> QED BY <3>1, InvNext DEF FInv
  <2>3. CASE \E u \in Services : PeerUpdate(u) \/ LossNoticed(u)
    <3>1. UNCHANGED nsdVars \/ NsdNext
      BY <2>3 DEF PeerUpdate, LossNoticed, NsdNext
    <3> QED BY <3>1, InvNext DEF FInv
  <2>4. CASE \E m \in 1 .. sessions, u \in Services : TransferFails(m, u)
    <3>1. UNCHANGED nsdVars
      BY <2>4 DEF TransferFails
    <3> QED BY <3>1, InvNext DEF FInv
  <2>5. CASE \E i \in DOMAIN flight, host \in Hosts, named \in BOOLEAN :
                ResolutionNoticed(i, host, named)
    <3>1. NsdNext
      BY <2>5 DEF ResolutionNoticed, NsdNext, Answer
    <3> QED BY <3>1, InvNext DEF FInv
  <2> QED BY <1>1, <2>1, <2>2, <2>3, <2>4, <2>5 DEF Told
<1>2. CASE UNCHANGED nsdVars
  BY <1>2, InvNext DEF FInv
<1> QED BY <1>1, <1>2 DEF FaceNext, Received, vars

-----------------------------------------------------------------------------
(* Taking a face down and bringing it up.                                  *)

\* The types of the managers' variables, at any time.
LEMMA ManagerTypes ==
    ASSUME FInv
    PROVE  /\ sessions \in Nat /\ 1 .. sessions \subseteq Sessions
           /\ faces \in Seq(FaceType)
           /\ \A i \in DOMAIN faces : faces[i] \in FaceType
           /\ DOMAIN faces = 1 .. Len(faces) /\ Len(faces) \in Nat
           /\ \A m \in Sessions : peers[m] \in SUBSET Services
           /\ \A m \in Sessions : \A u \in Services :
                /\ faceIds[m][u] \in Nat
                /\ oppChannels[m][u] \in Hosts \cup {NoHost, NoChannel}
<1>1. sessions \in 0 .. MaxSessions
  BY DEF FInv, FaceTypeOK, NsdTypeOK
<1>2. sessions \in Nat /\ 1 .. sessions \subseteq Sessions
  BY <1>1, LimitsAssumption DEF Sessions
<1>3. faces \in Seq(FaceType)
  BY DEF FInv, FaceTypeOK
<1>4. DOMAIN faces = 1 .. Len(faces) /\ Len(faces) \in Nat
  BY <1>3, LenProperties
<1>5. \A i \in DOMAIN faces : faces[i] \in FaceType
  BY <1>3, ElementOfSeq
<1> QED BY <1>2, <1>3, <1>4, <1>5 DEF FInv, FaceTypeOK

\* One entry of mOppChannels.
LEMMA ChannelSet ==
    ASSUME FInv, NEW m \in Sessions, NEW u \in Services,
           NEW c \in Hosts \cup {NoHost, NoChannel},
           oppChannels' = [oppChannels EXCEPT ![m][u] = c]
    PROVE  /\ oppChannels' \in [Sessions -> [Services -> Hosts \cup {NoHost, NoChannel}]]
           /\ oppChannels'[m][u] = c
           /\ \A k \in Sessions : \A v \in Services :
                k # m \/ v # u => oppChannels'[k][v] = oppChannels[k][v]
BY DEF FInv, FaceTypeOK

LEMMA DownKeeps ==
    ASSUME FInv, NEW m \in 1 .. sessions, NEW u \in Services, BringDownFace(m, u),
           UNCHANGED <<enabled, sessions, peers, faceIds>>, known \subseteq known'
    PROVE  /\ faces' \in Seq(FaceType)
           /\ oppChannels' \in [Sessions -> [Services -> Hosts \cup {NoHost, NoChannel}]]
           /\ Agreed'
<1>0. m \in Sessions
  BY ManagerTypes
<1>1. CASE faceIds[m][u] # 0 /\ oppChannels[m][u] # NoChannel
  <2> DEFINE id == faceIds[m][u]
  <2>1. /\ oppChannels' = [oppChannels EXCEPT ![m][u] = NoChannel]
        /\ faces' = Lowered(faces, id)
    BY <1>1 DEF BringDownFace
  <2>2. /\ faces' \in Seq(FaceType) /\ DOMAIN faces' = DOMAIN faces
        /\ \A i \in DOMAIN faces :
            /\ faces'[i].peer = faces[i].peer
            /\ i # id => faces'[i] = faces[i]
            /\ i = id => faces'[i].state = "DOWN"
            /\ faces'[i].state = "UP" => faces'[i] = faces[i]
    BY <2>1, ManagerTypes, LoweredFacts
  <2>3. /\ oppChannels' \in [Sessions -> [Services -> Hosts \cup {NoHost, NoChannel}]]
        /\ oppChannels'[m][u] = NoChannel
        /\ \A k \in Sessions : \A v \in Services :
            k # m \/ v # u => oppChannels'[k][v] = oppChannels[k][v]
    BY <1>0, <2>1, ChannelSet
  <2>4. \A i \in DOMAIN faces : faces[i].peer \in Services
    BY ManagerTypes DEF FaceType
  <2> HIDE DEF id
  <2>5. BooksAgree'
    <3> SUFFICES ASSUME enabled
                 PROVE  /\ \A v \in Services : faceIds[sessions][v] # 0 =>
                            /\ faceIds[sessions][v] \in DOMAIN faces'
                            /\ faces'[faceIds[sessions][v]].peer = v
                        /\ \A i \in DOMAIN faces' : faces'[i].state = "UP" =>
                            /\ faceIds[sessions][faces'[i].peer] = i
                            /\ oppChannels'[sessions][faces'[i].peer] = faces'[i].host
                            /\ faces'[i].host \in Hosts
      BY DEF BooksAgree
    <3>1. sessions \in Sessions
      BY DEF FInv, Agreed, Reported
    <3>2. ASSUME NEW v \in Services, faceIds[sessions][v] # 0
          PROVE  /\ faceIds[sessions][v] \in DOMAIN faces'
                 /\ faces'[faceIds[sessions][v]].peer = v
      BY <2>2, <3>2 DEF FInv, Agreed, BooksAgree
    <3>3. ASSUME NEW i \in DOMAIN faces, faces'[i].state = "UP"
          PROVE  /\ faceIds[sessions][faces'[i].peer] = i
                 /\ oppChannels'[sessions][faces'[i].peer] = faces'[i].host
                 /\ faces'[i].host \in Hosts
      <4>1. faces'[i] = faces[i] /\ i # id
        BY <2>2, <3>3
      <4>2. /\ faceIds[sessions][faces[i].peer] = i
            /\ oppChannels[sessions][faces[i].peer] = faces[i].host
            /\ faces[i].host \in Hosts
        BY <3>3, <4>1 DEF FInv, Agreed, BooksAgree
      <4>3. sessions # m \/ faces[i].peer # u
        BY <4>1, <4>2 DEF id
      <4> QED BY <2>3, <2>4, <3>1, <4>1, <4>2, <4>3
    <3> QED BY <2>2, <3>2, <3>3
  <2>6. Later'
    <3>1. \A k \in Sessions : k > sessions => k # m
      BY ManagerTypes
    <3> QED BY <2>3, <3>1 DEF FInv, Agreed, Later, Sessions
  <2>7. Reported' /\ Heard'
    BY <2>2 DEF FInv, Agreed, Reported, Heard, Sessions
  <2>8. FirstSession' /\ ChannelIffUp'
    <3> SUFFICES ASSUME enabled, sessions = 1
                 PROVE  /\ \A i \in DOMAIN faces : faceIds[1][faces'[i].peer] = i
                        /\ \A v \in Services : oppChannels'[1][v] # NoChannel => faceIds[1][v] # 0
                        /\ \A i \in DOMAIN faces :
                            faces'[i].state = "UP" <=> oppChannels'[1][faces'[i].peer] # NoChannel
      BY <2>2 DEF FirstSession, ChannelIffUp
    <3>1. m = 1 /\ 1 \in Sessions
      BY <1>0
    <3>2. \A i \in DOMAIN faces : faceIds[1][faces[i].peer] = i
      BY DEF FInv, Agreed, FirstSession
    <3>3. \A v \in Services : oppChannels[1][v] # NoChannel => faceIds[1][v] # 0
      BY DEF FInv, Agreed, FirstSession
    <3>4. ASSUME NEW i \in DOMAIN faces
          PROVE  faces'[i].state = "UP" <=> oppChannels'[1][faces'[i].peer] # NoChannel
      <4>1. CASE faces[i].peer = u
        <5>1. i = id
          BY <3>1, <3>2, <4>1 DEF id
        <5> QED BY <2>2, <2>3, <3>1, <4>1, <5>1
      <4>2. CASE faces[i].peer # u
        <5>1. i # id
          BY <1>1, <3>1, <4>2 DEF id, FInv, Agreed, BooksAgree
        <5>2. faces'[i] = faces[i]
          BY <2>2, <5>1
        <5>3. oppChannels'[1][faces[i].peer] = oppChannels[1][faces[i].peer]
          BY <2>3, <2>4, <3>1, <4>2
        <5> QED BY <5>2, <5>3 DEF FInv, Agreed, ChannelIffUp
      <4> QED BY <4>1, <4>2
    <3> QED BY <2>2, <2>3, <3>1, <3>2, <3>3, <3>4
  <2> QED BY <2>2, <2>3, <2>5, <2>6, <2>7, <2>8 DEF Agreed
<1>2. CASE ~(faceIds[m][u] # 0 /\ oppChannels[m][u] # NoChannel)
  <2>1. UNCHANGED <<oppChannels, faces>>
    BY <1>2 DEF BringDownFace
  <2>2. Heard'
    BY <2>1 DEF FInv, Agreed, Heard
  <2> QED BY <2>1, <2>2 DEF FInv, FaceTypeOK, Agreed, BooksAgree, Later, Reported,
                            FirstSession, ChannelIffUp, Sessions
<1> QED BY <1>1, <1>2

LEMMA UpKeeps ==
    ASSUME FInv, IInv', enabled, NEW u \in Services, BringUpFace(u),
           services'[u].status = "AVAILABLE", known' = Recorded(known, u),
           UNCHANGED <<enabled, sessions, peers, faceIds>>
    PROVE  /\ faces' \in Seq(FaceType)
           /\ oppChannels' \in [Sessions -> [Services -> Hosts \cup {NoHost, NoChannel}]]
           /\ Agreed'
<1> DEFINE id == faceIds[sessions][u]
           host == services'[u].host
<1>0. sessions \in Sessions /\ host \in Hosts
  <2>1. services'[u] \in ServiceRecords
    BY DEF IInv, NsdTypeOK
  <2> QED BY <2>1, ServiceFacts DEF FInv, Agreed, Reported
<1>1. CASE id # 0 /\ oppChannels[sessions][u] = NoChannel
  <2>1. /\ oppChannels' = [oppChannels EXCEPT ![sessions][u] = host]
        /\ faces' = Raised(faces, id, host)
    BY <1>1 DEF BringUpFace
  <2>2. /\ faces' \in Seq(FaceType) /\ DOMAIN faces' = DOMAIN faces
        /\ \A i \in DOMAIN faces :
            /\ faces'[i].peer = faces[i].peer
            /\ i # id \/ faces[i].state = "UP" => faces'[i] = faces[i]
            /\ i = id => faces'[i].state = "UP"
            /\ i = id /\ faces[i].state = "DOWN" => faces'[i].host = host
    BY <1>0, <2>1, ManagerTypes, RaisedFacts
  <2>3. /\ oppChannels' \in [Sessions -> [Services -> Hosts \cup {NoHost, NoChannel}]]
        /\ oppChannels'[sessions][u] = host
        /\ \A k \in Sessions : \A v \in Services :
            k # sessions \/ v # u => oppChannels'[k][v] = oppChannels[k][v]
    BY <1>0, <2>1, ChannelSet
  <2>4. /\ \A i \in DOMAIN faces : faces[i].peer \in Services
        /\ \A i \in DOMAIN faces : faces[i].state = "UP" \/ faces[i].state = "DOWN"
    BY ManagerTypes DEF FaceType
  <2> HIDE DEF id, host
  <2>5. id \in DOMAIN faces /\ faces[id].peer = u /\ faces[id].state = "DOWN"
    <3>1. id \in DOMAIN faces /\ faces[id].peer = u
      BY <1>1 DEF id, FInv, Agreed, BooksAgree
    <3>2. faces[id].state # "UP"
      BY <1>1, <3>1, ChannelAssumption DEF FInv, Agreed, BooksAgree
    <3> QED BY <2>4, <3>1, <3>2
  <2>6. \A i \in DOMAIN faces : faces[i].state = "UP" => faces[i].peer # u
    BY <1>1, ChannelAssumption DEF FInv, Agreed, BooksAgree
  <2>7. BooksAgree'
    <3>2. ASSUME NEW v \in Services, faceIds[sessions][v] # 0
          PROVE  /\ faceIds[sessions][v] \in DOMAIN faces'
                 /\ faces'[faceIds[sessions][v]].peer = v
      BY <2>2, <3>2 DEF FInv, Agreed, BooksAgree
    <3>3. ASSUME NEW i \in DOMAIN faces, faces'[i].state = "UP"
          PROVE  /\ faceIds[sessions][faces'[i].peer] = i
                 /\ oppChannels'[sessions][faces'[i].peer] = faces'[i].host
                 /\ faces'[i].host \in Hosts
      <4>1. CASE i = id
        BY <1>0, <2>2, <2>3, <2>5, <4>1 DEF id
      <4>2. CASE i # id
        <5>1. faces'[i] = faces[i]
          BY <2>2, <4>2
        <5>2. faces[i].peer # u
          BY <2>6, <3>3, <5>1
        <5>3. oppChannels'[sessions][faces[i].peer] = oppChannels[sessions][faces[i].peer]
          BY <1>0, <2>3, <2>4, <5>2
        <5> QED BY <3>3, <5>1, <5>3 DEF FInv, Agreed, BooksAgree
      <4> QED BY <4>1, <4>2
    <3> QED BY <2>2, <3>2, <3>3 DEF BooksAgree
  <2>8. Later'
    <3>1. \A k \in Sessions : k > sessions => k # sessions
      BY ManagerTypes
    <3> QED BY <2>3, <3>1 DEF FInv, Agreed, Later, Sessions
  <2>9. Reported'
    BY DEF FInv, Agreed, Reported, Sessions
  <2>10. Heard'
    <3> SUFFICES ASSUME NEW i \in DOMAIN faces, faces'[i].state = "UP"
                 PROVE  faces'[i].peer \in known'
      BY <2>2 DEF Heard
    <3>1. CASE i = id
      BY <2>2, <2>5, <3>1 DEF Recorded
    <3>2. CASE i # id
      BY <2>2, <3>2 DEF FInv, Agreed, Heard, Recorded
    <3> QED BY <3>1, <3>2
  <2>11. FirstSession' /\ ChannelIffUp'
    <3> SUFFICES ASSUME sessions = 1
                 PROVE  /\ \A i \in DOMAIN faces : faceIds[1][faces'[i].peer] = i
                        /\ \A v \in Services : oppChannels'[1][v] # NoChannel => faceIds[1][v] # 0
                        /\ \A i \in DOMAIN faces :
                            faces'[i].state = "UP" <=> oppChannels'[1][faces'[i].peer] # NoChannel
      BY <2>2 DEF FirstSession, ChannelIffUp
    <3>1. 1 \in Sessions
      BY <1>0
    <3>2. \A i \in DOMAIN faces : faceIds[1][faces[i].peer] = i
      BY DEF FInv, Agreed, FirstSession
    <3>3. \A v \in Services : oppChannels'[1][v] # NoChannel => faceIds[1][v] # 0
      <4> SUFFICES ASSUME NEW v \in Services, oppChannels'[1][v] # NoChannel
                   PROVE  faceIds[1][v] # 0
        OBVIOUS
      <4>1. CASE v = u
        BY <1>1, <4>1 DEF id
      <4>2. CASE v # u
        BY <2>3, <3>1, <4>2 DEF FInv, Agreed, FirstSession
      <4> QED BY <4>1, <4>2
    <3>4. ASSUME NEW i \in DOMAIN faces
          PROVE  faces'[i].state = "UP" <=> oppChannels'[1][faces'[i].peer] # NoChannel
      <4>1. CASE faces[i].peer = u
        <5>1. i = id
          BY <3>2, <4>1 DEF id
        <5>2. host # NoChannel
          BY <1>0, ChannelAssumption
        <5> QED BY <2>2, <2>3, <4>1, <5>1, <5>2
      <4>2. CASE faces[i].peer # u
        <5>1. i # id
          BY <2>5, <4>2
        <5>2. faces'[i] = faces[i]
          BY <2>2, <5>1
        <5>3. oppChannels'[1][faces[i].peer] = oppChannels[1][faces[i].peer]
          BY <2>3, <2>4, <3>1, <4>2
        <5> QED BY <5>2, <5>3 DEF FInv, Agreed, ChannelIffUp
      <4> QED BY <4>1, <4>2
    <3> QED BY <2>2, <3>2, <3>3, <3>4
  <2> QED BY <2>2, <2>3, <2>7, <2>8, <2>9, <2>10, <2>11 DEF Agreed
<1>2. CASE ~(id # 0 /\ oppChannels[sessions][u] = NoChannel)
  <2>1. UNCHANGED <<oppChannels, faces>>
    BY <1>2 DEF BringUpFace
  <2>2. Heard'
    BY <2>1 DEF FInv, Agreed, Heard, Recorded
  <2> QED BY <2>1, <2>2 DEF FInv, FaceTypeOK, Agreed, BooksAgree, Later, Reported,
                            FirstSession, ChannelIffUp, Sessions
<1> QED BY <1>1, <1>2

-----------------------------------------------------------------------------
(* A peer is reported.                                                     *)

\* The managers that do not know u: how many faces they ask for.
LEMMA StrangerFacts ==
    ASSUME FInv, NEW u \in Services
    PROVE  /\ Cardinality(Strangers(u)) \in Nat
           /\ Cardinality(Strangers(u)) = 0 <=> Strangers(u) = {}
           /\ sessions = 1 /\ Strangers(u) # {} => Cardinality(Strangers(u)) = 1
<1>1. IsFiniteSet(1 .. sessions) /\ Strangers(u) \in SUBSET (1 .. sessions)
  <2>1. 1 \in Int /\ sessions \in Int
    BY ManagerTypes
  <2>2. IsFiniteSet(1 .. sessions)
    BY <2>1, FS_Interval
  <2> QED BY <2>2 DEF Strangers
<1>2. IsFiniteSet(Strangers(u))
  BY <1>1, FS_Subset
<1>3. sessions = 1 /\ Strangers(u) # {} => Strangers(u) = {1}
  BY <1>1
<1> QED BY <1>2, <1>3, FS_CardinalityType, FS_EmptySet, FS_Singleton

LEMMA ReportKeeps ==
    ASSUME FInv, NEW u \in Services, PeerUpdate(u)
    PROVE  /\ peers' \in [Sessions -> SUBSET Services]
           /\ faceIds' \in [Sessions -> [Services -> Nat]]
           /\ faces' \in Seq(FaceType)
           /\ Agreed'
<1> DEFINE n   == Cardinality(Strangers(u))
           new == [i \in 1 .. n |-> NewFace(u)]
           l   == Len(faces)
<1>0. /\ enabled /\ enabled' = enabled /\ sessions' = sessions
      /\ UNCHANGED <<known, oppChannels>> /\ sessions \in Sessions /\ sessions \in Nat
  BY ManagerTypes DEF PeerUpdate, nsdVars, discoverer, FInv, Agreed, Reported
<1>1. n \in Nat /\ (n = 0 <=> Strangers(u) = {})
  BY StrangerFacts
<1>2. NewFace(u) \in FaceType /\ NewFace(u).peer = u /\ NewFace(u).state = "DOWN"
  BY DEF NewFace, FaceType
<1>3. faces' = faces \o new
  BY DEF PeerUpdate
<1>4. /\ new \in Seq(FaceType) /\ Len(new) = n
      /\ \A i \in 1 .. n : new[i] = NewFace(u)
  <2> HIDE DEF n
  <2>1. new \in [1 .. n -> FaceType]
    BY <1>2
  <2> QED BY <1>1, <2>1, SeqDef, LenProperties
<1> HIDE DEF n, new
<1>5. /\ faces' \in Seq(FaceType) /\ l \in Nat
      /\ DOMAIN faces = 1 .. l /\ DOMAIN faces' = 1 .. l + n /\ Len(faces') = l + n
      /\ \A i \in 1 .. l : faces'[i] = faces[i]
      /\ \A i \in l + 1 .. l + n : faces'[i] = NewFace(u)
  <2>1. /\ faces' \in Seq(FaceType) /\ Len(faces') = l + n
        /\ \A i \in 1 .. l + n : faces'[i] = IF i <= l THEN faces[i] ELSE new[i - l]
    BY <1>3, <1>4, ManagerTypes, ConcatProperties
  <2>2. l \in Nat /\ DOMAIN faces = 1 .. l /\ DOMAIN faces' = 1 .. l + n
    BY <2>1, ManagerTypes, LenProperties
  <2>3. ASSUME NEW i \in l + 1 .. l + n PROVE faces'[i] = NewFace(u)
    <3>1. i - l \in 1 .. n /\ i \in 1 .. l + n /\ ~(i <= l)
      BY <1>1, <2>2
    <3> QED BY <1>4, <2>1, <3>1
  <2> QED BY <1>1, <2>1, <2>2, <2>3
<1> HIDE DEF l
<1>6. /\ Strangers(u) = {} => faceIds' = faceIds
      /\ Strangers(u) # {} => faceIds' = [faceIds EXCEPT ![sessions][u] = l + n]
      /\ peers' = [m \in Sessions |-> IF m \in 1 .. sessions
                                      THEN peers[m] \cup {u} ELSE peers[m]]
  BY <1>5 DEF PeerUpdate, FaceIdOf, Recorded
<1>7. /\ peers' \in [Sessions -> SUBSET Services]
      /\ faceIds' \in [Sessions -> [Services -> Nat]]
      /\ \A k \in Sessions : \A v \in Services :
            k # sessions \/ v # u => faceIds'[k][v] = faceIds[k][v]
      /\ Strangers(u) # {} => faceIds'[sessions][u] = l + n
  <2>1. faceIds \in [Sessions -> [Services -> Nat]] /\ peers \in [Sessions -> SUBSET Services]
    BY DEF FInv, FaceTypeOK
  <2>2. l + n \in Nat
    BY <1>1, <1>5
  <2> QED BY <1>0, <1>6, <2>1, <2>2
<1>8. \A m \in 1 .. sessions : u \in peers'[m] /\ \A v \in peers[m] : v \in peers'[m]
  BY <1>6, ManagerTypes
\* A face of u that is up was known to all managers.
<1>9. faceIds[sessions][u] # 0 => Strangers(u) = {}
  BY <1>0 DEF FInv, Agreed, Reported, Strangers
<1>10. BooksAgree'
  <2>1. ASSUME NEW v \in Services, faceIds'[sessions][v] # 0
        PROVE  /\ faceIds'[sessions][v] \in DOMAIN faces'
               /\ faces'[faceIds'[sessions][v]].peer = v
    <3>1. CASE v = u /\ Strangers(u) # {}
      <4>1. l + n \in l + 1 .. l + n /\ l + n \in 1 .. l + n
        BY <1>1, <1>5, <3>1
      <4> QED BY <1>2, <1>5, <1>7, <3>1, <4>1
    <3>2. CASE v # u \/ Strangers(u) = {}
      <4>1. faceIds'[sessions][v] = faceIds[sessions][v]
        BY <1>0, <1>6, <1>7, <3>2
      <4>2. /\ faceIds[sessions][v] \in DOMAIN faces
            /\ faces[faceIds[sessions][v]].peer = v
        BY <1>0, <2>1, <4>1 DEF FInv, Agreed, BooksAgree
      <4> QED BY <1>1, <1>5, <4>1, <4>2
    <3> QED BY <3>1, <3>2
  <2>2. ASSUME NEW i \in DOMAIN faces', faces'[i].state = "UP"
        PROVE  /\ faceIds'[sessions][faces'[i].peer] = i
               /\ oppChannels[sessions][faces'[i].peer] = faces'[i].host
               /\ faces'[i].host \in Hosts
    <3>1. i \in 1 .. l /\ faces'[i] = faces[i]
      BY <1>1, <1>2, <1>5, <2>2
    <3>2. /\ faceIds[sessions][faces[i].peer] = i
          /\ oppChannels[sessions][faces[i].peer] = faces[i].host
          /\ faces[i].host \in Hosts
      BY <1>0, <1>5, <2>2, <3>1 DEF FInv, Agreed, BooksAgree
    <3>3. faces[i].peer \in Services
      BY <1>5, <3>1, ManagerTypes DEF FaceType
    <3>4. faceIds'[sessions][faces[i].peer] = faceIds[sessions][faces[i].peer]
      BY <1>0, <1>6, <1>7, <1>9, <3>1, <3>2, <3>3
    <3> QED BY <3>1, <3>2, <3>4
  <2> QED BY <1>0, <2>1, <2>2 DEF BooksAgree
<1>11. Later'
  <2>1. \A k \in Sessions : k > sessions => k \notin 1 .. sessions /\ k # sessions
    BY <1>0 DEF Sessions
  <2> QED BY <1>0, <1>6, <1>7, <2>1 DEF FInv, Agreed, Later
<1>12. Reported'
  <2> SUFFICES ASSUME NEW v \in Services
               PROVE  /\ faceIds'[sessions][v] # 0 => \A m \in 1 .. sessions : v \in peers'[m]
                      /\ v \in peers'[sessions] => faceIds'[sessions][v] # 0
    BY <1>0 DEF Reported, Sessions
  <2>1. CASE v = u
    <3>1. CASE Strangers(u) # {}
      BY <1>1, <1>5, <1>7, <1>8, <2>1, <3>1
    <3>2. CASE Strangers(u) = {}
      <4>1. u \in peers[sessions]
        BY <1>0, <3>2 DEF Strangers, Sessions
      <4> QED BY <1>0, <1>6, <1>8, <2>1, <3>2, <4>1 DEF FInv, Agreed, Reported
    <3> QED BY <3>1, <3>2
  <2>2. CASE v # u
    <3>1. faceIds'[sessions][v] = faceIds[sessions][v]
      BY <1>0, <1>7, <2>2
    <3>2. v \in peers'[sessions] => v \in peers[sessions]
      BY <1>0, <1>6, <2>2
    <3> QED BY <1>0, <1>8, <3>1, <3>2 DEF FInv, Agreed, Reported
  <2> QED BY <2>1, <2>2
<1>13. Heard'
  <2> SUFFICES ASSUME NEW i \in DOMAIN faces', faces'[i].state = "UP"
               PROVE  faces'[i].peer \in known'
    BY DEF Heard
  <2>1. i \in 1 .. l /\ faces'[i] = faces[i]
    BY <1>1, <1>2, <1>5
  <2> QED BY <1>0, <1>5, <2>1 DEF FInv, Agreed, Heard
<1>14. FirstSession' /\ ChannelIffUp'
  <2> SUFFICES ASSUME sessions = 1
               PROVE  /\ \A i \in DOMAIN faces' : faceIds'[1][faces'[i].peer] = i
                      /\ \A v \in Services : oppChannels[1][v] # NoChannel => faceIds'[1][v] # 0
                      /\ \A i \in DOMAIN faces' :
                          faces'[i].state = "UP" <=> oppChannels[1][faces'[i].peer] # NoChannel
    BY <1>0 DEF FirstSession, ChannelIffUp
  <2>1. /\ \A i \in DOMAIN faces : faceIds[1][faces[i].peer] = i /\ faces[i].peer \in Services
        /\ \A v \in Services : oppChannels[1][v] # NoChannel => faceIds[1][v] # 0
        /\ \A i \in DOMAIN faces :
            faces[i].state = "UP" <=> oppChannels[1][faces[i].peer] # NoChannel
    BY <1>0, ManagerTypes DEF FInv, Agreed, FirstSession, ChannelIffUp, FaceType
  <2>2. CASE Strangers(u) = {}
    <3>1. faces' = faces /\ faceIds' = faceIds
      <4>1. n = 0
        BY <1>1, <2>2
      <4>2. new = <<>>
        BY <1>4, <4>1, LenProperties, EmptySeq
      <4> QED BY <1>3, <1>6, <2>2, <4>2, ManagerTypes, ConcatEmptySeq
    <3> QED BY <2>1, <3>1
  <2>3. CASE Strangers(u) # {}
    <3>1. n = 1
      BY <2>3, StrangerFacts DEF n
    <3>2. faceIds[1][u] = 0
      BY <1>9, <2>3
    <3>3. oppChannels[1][u] = NoChannel
      BY <2>1, <3>2
    <3>4. \A i \in DOMAIN faces : faces[i].peer # u
      BY <1>5, <2>1, <3>2
    <3>5. ASSUME NEW i \in DOMAIN faces'
          PROVE  /\ faceIds'[1][faces'[i].peer] = i
                 /\ faces'[i].state = "UP" <=> oppChannels[1][faces'[i].peer] # NoChannel
      <4>1. CASE i \in 1 .. l
        <5>1. faces'[i] = faces[i] /\ i \in DOMAIN faces
          BY <1>5, <4>1
        <5>2. faces[i].peer \in Services /\ faces[i].peer # u
          BY <2>1, <3>4, <5>1
        <5>3. faceIds'[1][faces[i].peer] = faceIds[1][faces[i].peer]
          BY <1>0, <1>7, <5>2
        <5> QED BY <2>1, <5>1, <5>3
      <4>2. CASE i \notin 1 .. l
        <5>1. i = l + 1 /\ i \in l + 1 .. l + n
          BY <1>5, <3>1, <4>2
        <5>2. faces'[i] = NewFace(u)
          BY <1>5, <5>1
        <5> QED BY <1>2, <1>7, <2>3, <3>1, <3>3, <5>1, <5>2
      <4> QED BY <4>1, <4>2
    <3>6. \A v \in Services : oppChannels[1][v] # NoChannel => faceIds'[1][v] # 0
      BY <1>0, <1>7, <2>1, <3>3
    <3> QED BY <3>5, <3>6
  <2> QED BY <2>2, <2>3
<1> QED BY <1>5, <1>7, <1>10, <1>11, <1>12, <1>13, <1>14 DEF Agreed

-----------------------------------------------------------------------------

LEMMA FaceInvInit == FaceInit => FInv
<1> SUFFICES ASSUME FaceInit PROVE FInv
  OBVIOUS
<1>1. IInv
  BY InvInit DEF FaceInit
<1>2. FaceTypeOK
  <2>1. <<>> \in Seq(FaceType)
    BY EmptySeq
  <2> QED BY <1>1, <2>1 DEF IInv, FaceInit, FaceTypeOK
<1>3. Agreed /\ Cause
  BY DEF FaceInit, NsdInit, Agreed, BooksAgree, Later, Reported, Heard, FirstSession,
         ChannelIffUp, Cause
<1> QED BY <1>1, <1>2, <1>3 DEF FInv

LEMMA DaemonKeeps ==
    ASSUME FInv, StartDaemon \/ StopDaemon PROVE faces' \in Seq(FaceType) /\ Agreed'
<1>1. /\ faces' = <<>> /\ known' = {} /\ UNCHANGED managers
      /\ faces' \in Seq(FaceType) /\ DOMAIN faces' = {}
  <2>1. <<>> \in Seq(FaceType) /\ DOMAIN <<>> = {}
    BY EmptySeq
  <2> QED BY <2>1 DEF StartDaemon, StopDaemon
<1>2. CASE StartDaemon
  <2>1. /\ enabled' /\ sessions' = sessions + 1 /\ sessions' \in Sessions
        /\ sessions' > sessions
    BY <1>2, ManagerTypes, LimitsAssumption DEF StartDaemon, Enable, Sessions
  <2>2. /\ peers[sessions'] = {}
        /\ \A u \in Services :
            faceIds[sessions'][u] = 0 /\ oppChannels[sessions'][u] = NoChannel
    BY <2>1 DEF FInv, Agreed, Later
  <2>3. Later'
    <3>1. \A m \in Sessions : m > sessions' => m > sessions
      BY <2>1, ManagerTypes DEF Sessions
    <3> QED BY <1>1, <3>1 DEF FInv, Agreed, Later, Sessions, managers
  <2>4. Reported'
    BY <1>1, <2>1, <2>2 DEF Reported, managers, Sessions
  <2>5. FirstSession'
    BY <1>1, <2>2 DEF FirstSession, managers
  <2> QED BY <1>1, <2>2, <2>3, <2>4, <2>5
          DEF Agreed, BooksAgree, Heard, ChannelIffUp, managers
<1>3. CASE StopDaemon
  <2>1. ~enabled' /\ sessions' = sessions
    BY <1>3 DEF StopDaemon, Disable
  <2>2. Later'
    BY <1>1, <2>1 DEF FInv, Agreed, Later, Sessions, managers
  <2> QED BY <1>1, <2>1, <2>2
          DEF Agreed, BooksAgree, Heard, ChannelIffUp, FirstSession, Reported
<1> QED BY <1>1, <1>2, <1>3

\* The manager is told of a service by a discovery step that leaves the sessions
\* alone.
LEMMA NotifiedKeeps ==
    ASSUME FInv, IInv', NEW u \in Services, Notified(u), UNCHANGED <<enabled, sessions>>
    PROVE  /\ faces' \in Seq(FaceType)
           /\ oppChannels' \in [Sessions -> [Services -> Hosts \cup {NoHost, NoChannel}]]
           /\ known' \in SUBSET Services
           /\ UNCHANGED <<peers, faceIds>>
           /\ Agreed'
<1>1. UNCHANGED <<peers, faceIds>>
  BY DEF Notified
<1>2. known' \in SUBSET Services
  BY DEF Notified, Recorded, FInv, FaceTypeOK
<1>3. CASE ~enabled
  BY <1>1, <1>2, <1>3 DEF Notified, FInv, FaceTypeOK, Agreed, BooksAgree, Later,
       Reported, Heard, FirstSession, ChannelIffUp, Sessions
<1>4. CASE enabled /\ services'[u].status = "AVAILABLE"
  BY <1>1, <1>2, <1>4, UpKeeps DEF Notified
<1>5. CASE enabled /\ services'[u].status # "AVAILABLE"
  <2>1. sessions \in 1 .. sessions
    BY <1>5, ManagerTypes DEF FInv, Agreed, Reported, Sessions
  <2>2. known \subseteq known'
    BY <1>5 DEF Notified, Recorded
  <2> QED BY <1>1, <1>2, <1>5, <2>1, <2>2, DownKeeps DEF Notified
<1> QED BY <1>3, <1>4, <1>5

\* A packet ends the process only for a service without a FaceId.
LEMMA ReceivedKeeps ==
    ASSUME FInv, NEW host \in Hosts, Received(host), ~crashed
    PROVE  crashed' \in BOOLEAN /\ (crashed' => ~ known \subseteq peers[sessions])
<1>1. CASE Recipients(host) = {}
  BY <1>1 DEF Received, FInv, FaceTypeOK
<1>2. CASE Recipients(host) # {}
  <2>1. PICK id \in Recipients(host) : crashed' = (id = 0)
    BY <1>2 DEF Received
  <2>2. PICK u \in known : id = faceIds[sessions][u]
    BY <2>1 DEF Recipients
  <2>3. u \in Services /\ enabled
    BY DEF FInv, FaceTypeOK, Received
  <2>4. crashed' => u \notin peers[sessions]
    BY <2>1, <2>2, <2>3 DEF FInv, Agreed, Reported
  <2> QED BY <2>1, <2>4
<1> QED BY <1>1, <1>2

LEMMA FaceInvNext == FInv /\ [FaceNext]_vars => FInv'
<1> SUFFICES ASSUME FInv, [FaceNext]_vars PROVE FInv'
  OBVIOUS
<1>1. IInv'
  BY DiscoverySteps
<1>2. NsdTypeOK'
  BY <1>1 DEF IInv
\* The steps of the discovery and the managers.
<1>3. ASSUME Told, UNCHANGED crashed, ~crashed PROVE FInv'
  <2>1. Cause' /\ crashed' \in BOOLEAN
    BY <1>3 DEF Cause, FInv, FaceTypeOK
  <2>2. CASE StartDaemon \/ StopDaemon
    <3>1. UNCHANGED managers /\ known' = {}
      BY <2>2 DEF StartDaemon, StopDaemon
    <3> QED BY <1>1, <1>2, <2>1, <2>2, <3>1, DaemonKeeps
            DEF FInv, FaceTypeOK, managers, Sessions
  <2>3. CASE Unnoticed
    <3>1. UNCHANGED <<managers, known, faces, enabled, sessions>>
      BY <2>3 DEF Unnoticed, Connected, Disconnected, DiscoveryStopped, ServiceFound,
              ResolveFailed, Answered, discoverer
    <3>2. FaceTypeOK'
      BY <1>2, <2>1, <3>1 DEF FInv, FaceTypeOK, managers, Sessions
    <3>3. Agreed'
      BY <3>1 DEF FInv, Agreed, BooksAgree, Later, Reported, Heard, FirstSession,
              ChannelIffUp, managers, Sessions
    <3> QED BY <1>1, <2>1, <3>2, <3>3 DEF FInv
  <2>4. CASE \E u \in Services : PeerUpdate(u)
    <3>1. PICK u \in Services : PeerUpdate(u)
      BY <2>4
    <3>2. UNCHANGED <<known, oppChannels>>
      BY <3>1 DEF PeerUpdate
    <3> QED BY <1>1, <1>2, <2>1, <3>1, <3>2, ReportKeeps DEF FInv, FaceTypeOK, Sessions
  <2>5. CASE \E u \in Services : LossNoticed(u)
    <3>1. PICK u \in Services : Notified(u) /\ UNCHANGED <<enabled, sessions>>
      BY <2>5 DEF LossNoticed, ServiceLost, discoverer
    <3> QED BY <1>1, <1>2, <2>1, <3>1, NotifiedKeeps DEF FInv, FaceTypeOK, Sessions
  <2>6. CASE \E m \in 1 .. sessions, u \in Services : TransferFails(m, u)
    <3>1. PICK m \in 1 .. sessions, u \in Services : TransferFails(m, u)
      BY <2>6
    <3>2. UNCHANGED <<enabled, sessions, peers, faceIds, known>>
      BY <3>1 DEF TransferFails, nsdVars, discoverer
    <3>3. BringDownFace(m, u) /\ known \subseteq known'
      BY <3>1, <3>2 DEF TransferFails
    <3> QED BY <1>1, <1>2, <2>1, <3>2, <3>3, DownKeeps DEF FInv, FaceTypeOK, Sessions
  <2>7. CASE \E i \in DOMAIN flight, host \in Hosts, named \in BOOLEAN :
                ResolutionNoticed(i, host, named)
    <3>1. PICK i \in DOMAIN flight : Notified(flight[i]) /\ UNCHANGED <<enabled, sessions>>
      BY <2>7 DEF ResolutionNoticed, Resolved, Answered, discoverer
    <3>2. flight[i] \in Services
      BY ElementOfSeq DEF FInv, IInv, NsdTypeOK
    <3> QED BY <1>1, <1>2, <2>1, <3>1, <3>2, NotifiedKeeps DEF FInv, FaceTypeOK, Sessions
  <2> QED BY <1>3, <2>2, <2>3, <2>4, <2>5, <2>6, <2>7 DEF Told
<1>4. ASSUME ~crashed, NEW host \in Hosts, Received(host) PROVE FInv'
  <2>1. UNCHANGED <<nsdVars, managers, known, faces>>
    BY <1>4 DEF Received
  <2>2. UNCHANGED <<enabled, sessions>>
    BY <2>1 DEF nsdVars, discoverer
  <2>3. crashed' \in BOOLEAN /\ Cause'
    BY <1>4, <2>1, <2>2, ReceivedKeeps DEF Cause, managers
  <2>4. FaceTypeOK'
    BY <1>2, <2>1, <2>3 DEF FInv, FaceTypeOK, managers, Sessions
  <2>5. Agreed'
    BY <2>1, <2>2 DEF FInv, Agreed, BooksAgree, Later, Reported, Heard, FirstSession,
            ChannelIffUp, managers, Sessions
  <2> QED BY <1>1, <2>3, <2>4, <2>5 DEF FInv
<1>5. CASE UNCHANGED vars
  <2>1. UNCHANGED <<enabled, sessions, peers, faceIds, oppChannels, known, faces, crashed>>
    BY <1>5 DEF vars, nsdVars, discoverer, managers
  <2> QED BY <1>1, <1>2, <2>1 DEF FInv, FaceTypeOK, Agreed, BooksAgree, Later, Reported,
            Heard, FirstSession, ChannelIffUp, Cause, Sessions
<1> QED BY <1>3, <1>4, <1>5 DEF FaceNext

LEMMA FaceInvAlways == FaceSpec => []FInv
BY FaceInvInit, FaceInvNext, PTL DEF FaceSpec

-----------------------------------------------------------------------------

\* The variables of the managers, the discoverer and the face table keep their
\* types.
THEOREM ManagersTypes == FaceSpec => []FaceTypeOK
<1>1. FInv => FaceTypeOK
  BY DEF FInv
<1> QED BY <1>1, FaceInvAlways, PTL

\* The current manager's books agree with the face table for any number of
\* restarts and late transfers of older sessions.
THEOREM BooksAlwaysAgree == FaceSpec => []BooksAgree
<1>1. FInv => BooksAgree
  BY DEF FInv, Agreed
<1> QED BY <1>1, FaceInvAlways, PTL

\* In the first session a face is up exactly while the manager keeps a channel.
THEOREM ChannelsAreUp == FaceSpec => []ChannelIffUp
<1>1. FInv => ChannelIffUp
  BY DEF FInv, Agreed
<1> QED BY <1>1, FaceInvAlways, PTL

\* A face that is up may be taken for the receiver of its peer's packets, and
\* only a service whose peer was never reported ends the process.
THEOREM UpMeansHeard == FaceSpec => []HeardWhenUp
<1>1. FInv => HeardWhenUp
  <2>1. ASSUME FInv, enabled, NEW id \in DOMAIN faces, faces[id].state = "UP",
               services[faces[id].peer].host = faces[id].host
        PROVE  id \in Recipients(faces[id].host)
    <3>1. faces[id].peer \in known /\ faceIds[sessions][faces[id].peer] = id
      BY <2>1 DEF FInv, Agreed, Heard, BooksAgree
    <3> QED BY <2>1, <3>1 DEF Recipients
  <2> QED BY <2>1 DEF HeardWhenUp, FInv, Cause
<1> QED BY <1>1, FaceInvAlways, PTL

\* The loss of a service leaves every face of its peer down, in any session.
THEOREM LossAlwaysBringsDown == FaceSpec => LossBringsDown
<1>1. ASSUME FInv, FInv', NEW u \in Services, enabled, LossNoticed(u),
             NEW id \in DOMAIN faces', faces'[id].peer = u
      PROVE  faces'[id].state = "DOWN"
  <2>1. /\ services' = [services EXCEPT ![u] = Unavailable]
        /\ UNCHANGED <<enabled, sessions, faceIds>>
    BY <1>1 DEF LossNoticed, ServiceLost, Notified, MarkedUnavailable, discoverer
  <2>2. services'[u].status # "AVAILABLE"
    BY <1>1, <2>1 DEF FInv, IInv, NsdTypeOK, Unavailable
  <2>3. BringDownFace(sessions, u)
    BY <1>1, <2>2 DEF LossNoticed, Notified
  <2>4. sessions \in Sessions
    BY <1>1 DEF FInv, Agreed, Reported
  <2>5. faceIds[sessions][u] = 0 \/ oppChannels'[sessions][u] = NoChannel
    BY <1>1, <2>3, <2>4 DEF BringDownFace, FInv, FaceTypeOK
  <2>6. faces'[id].state # "UP"
    <3> SUFFICES ASSUME faces'[id].state = "UP" PROVE FALSE
      OBVIOUS
    <3>1. /\ faceIds[sessions][u] = id /\ oppChannels'[sessions][u] \in Hosts
      BY <1>1, <2>1 DEF FInv, Agreed, BooksAgree
    <3>2. id # 0
      <4>1. faces' \in Seq(FaceType)
        BY <1>1 DEF FInv, FaceTypeOK
      <4> QED BY <1>1, <4>1, LenProperties
    <3> QED BY <2>5, <3>1, <3>2, ChannelAssumption
  <2>7. faces'[id] \in FaceType
    BY <1>1, ElementOfSeq DEF FInv, FaceTypeOK
  <2> QED BY <2>6, <2>7 DEF FaceType
<1>2. ASSUME FInv, FInv'
      PROVE  [\A u \in listed \ listed' : enabled /\ LossNoticed(u) =>
                \A id \in DOMAIN faces' : faces'[id].peer = u => faces'[id].state = "DOWN"
             ]_vars
  <2>1. listed \subseteq Services
    BY <1>2 DEF FInv, IInv, NsdTypeOK
  <2> QED BY <1>1, <1>2, <2>1
<1> QED BY <1>2, FaceInvAlways, PTL DEF LossBringsDown

\* In the first session, a resolution that makes the service of a reported peer
\* available leaves its face up.
THEOREM ResolutionAlwaysBringsUp == FaceSpec => ResolutionBringsUp
<1>1. ASSUME FInv, FInv', enabled, sessions = 1, NEW i \in DOMAIN flight,
             faceIds[1][flight[i]] # 0, services'[flight[i]].status = "AVAILABLE",
             NEW host \in Hosts, NEW named \in BOOLEAN, ResolutionNoticed(i, host, named)
      PROVE  faces'[faceIds[1][flight[i]]].state = "UP"
  <2> DEFINE u == flight[i]
             id == faceIds[1][u]
  <2>1. u \in Services
    BY <1>1, ElementOfSeq DEF FInv, IInv, NsdTypeOK
  <2>2. BringUpFace(u)
    BY <1>1 DEF ResolutionNoticed, Notified
  <2>3. id \in DOMAIN faces /\ faces[id].peer = u
    BY <1>1, <2>1 DEF FInv, Agreed, BooksAgree
  <2> HIDE DEF u
  <2>4. CASE oppChannels[1][u] = NoChannel
    <3>1. faces' = Raised(faces, id, services'[u].host)
      BY <1>1, <2>2, <2>4 DEF BringUpFace, u
    <3>2. services'[u].host \in Hosts \cup {NoHost}
      <4>1. services'[u] \in ServiceRecords
        BY <1>1, <2>1 DEF FInv, IInv, NsdTypeOK
      <4> QED BY <4>1, ServiceFacts
    <3>3. faces \in Seq(FaceType)
      BY <1>1 DEF FInv, FaceTypeOK
    <3> QED BY <2>3, <3>1, <3>2, <3>3, RaisedFacts DEF u
  <2>5. CASE oppChannels[1][u] # NoChannel
    <3>1. faces' = faces
      BY <1>1, <2>2, <2>5 DEF BringUpFace
    <3>2. faces[id].state = "UP"
      BY <1>1, <2>3, <2>5 DEF FInv, Agreed, ChannelIffUp
    <3> QED BY <3>1, <3>2 DEF u
  <2> QED BY <2>4, <2>5
<1>2. ASSUME FInv, FInv'
      PROVE  [enabled /\ sessions = 1 =>
                \A i \in DOMAIN flight :
                    LET u == flight[i] IN
                    /\ faceIds[1][u] # 0
                    /\ services'[u].status = "AVAILABLE"
                    /\ \E host \in Hosts, named \in BOOLEAN :
                            ResolutionNoticed(i, host, named)
                    => faces'[faceIds[1][u]].state = "UP"]_vars
  BY <1>1, <1>2
<1> QED BY <1>2, FaceInvAlways, PTL DEF ResolutionBringsUp

=============================================================================
