------------------------- MODULE PeerTrackingProofs -------------------------
(***************************************************************************)
(* Proofs about PeerTracking for any devices, UUIDs and broadcasts.        *)
(***************************************************************************)
EXTENDS PeerTracking, SequenceTheorems, TLAPS

\* What the receivers will have been told once the first n broadcasts of q are
\* received, if it is now what they know: the last of the two events tells.
Told(q, on, off, now, n) ==
    \/ \E j \in 1 .. n : q[j] = on /\ \A k \in j + 1 .. n : q[k] # off
    \/ now /\ \A k \in 1 .. n : q[k] # off

Searching(q, now, n) == Told(q, "STARTED", "STOPPED", now, n)
TurnedOn(q, now)     == Told(q, "ON", "OFF", now, Len(q))

\* A broadcast that Wi-Fi Direct is off comes after the one that the search
\* ended, or else is the first since the receivers were registered.
OffIsLate(q, now) ==
    \A i \in DOMAIN q : q[i] = "OFF" /\ Searching(q, now, i) => i = 1
OffInOrder(q, now) ==
    \A i \in DOMAIN q : q[i] = "OFF" => ~Searching(q, now, i)

\* A broadcast under way will start the search.
WillStart(q, now) ==
    \E i \in DOMAIN q : q[i] \in {"ON", "LEFT"} /\ ~Searching(q, now, i)

\* A peer's device is known, and is the one held unless it left the UUID.
Held ==
    \A u \in Uuids :
        peers[u] # NoPeer =>
            /\ devices[peers[u].mac] # "ABSENT"
            /\ ~peers[u].held => services[peers[u].mac] # u

\* The broadcasts under way tell the state that Wi-Fi Direct is in.
InTheEnd ==
    /\ enabled => (TurnedOn(inbox, advertised) <=> wifi)
    /\ enabled => (Searching(inbox, discovering, Len(inbox)) <=> scanning)
    /\ enabled => OffIsLate(inbox, discovering)
    /\ enabled /\ scanning => OffInOrder(inbox, discovering)
    /\ enabled /\ wifi /\ ~joined /\ ~expired /\ ~scanning =>
            WillStart(inbox, discovering)
    /\ scanning => wifi /\ ~joined
    /\ ~enabled => inbox = <<>> /\ ~advertised

IInv == TrackingTypeOK /\ EitherOrder /\ Held /\ InTheEnd

-----------------------------------------------------------------------------
(* Sequences of broadcasts.                                                *)

LEMMA EmptyTells == ASSUME NEW now, NEW on, NEW off, now \in BOOLEAN
    PROVE Told(<<>>, on, off, now, 0) <=> now
BY DEF Told

LEMMA AppendTells ==
    ASSUME NEW S, NEW q \in Seq(S), NEW e \in S, NEW now \in BOOLEAN,
           NEW on, NEW off, on # off
    PROVE  LET r == Append(q, e) IN
           /\ \A i \in 0 .. Len(q) : Told(r, on, off, now, i) <=> Told(q, on, off, now, i)
           /\ Told(r, on, off, now, Len(r)) <=>
                \/ e = on
                \/ e # off /\ Told(q, on, off, now, Len(q))
<1> DEFINE r == Append(q, e)
           n == Len(q)
<1>1. /\ n \in Nat /\ Len(r) = n + 1 /\ r[n + 1] = e
      /\ \A i \in 1 .. n : r[i] = q[i]
  BY AppendProperties
<1> HIDE DEF r, n
<1>2. \A i \in 0 .. n : Told(r, on, off, now, i) <=> Told(q, on, off, now, i)
  BY <1>1 DEF Told
<1>3. Told(r, on, off, now, n + 1) <=> (e = on \/ (e # off /\ Told(q, on, off, now, n)))
  <2>1. CASE e = on
    BY <1>1, <2>1 DEF Told
  <2>2. CASE e # on
    <3>1. CASE e = off
      BY <1>1, <2>2, <3>1 DEF Told
    <3>2. CASE e # off
      BY <1>1, <2>2, <3>2 DEF Told
    <3> QED BY <3>1, <3>2
  <2> QED BY <2>1, <2>2
<1> QED BY <1>1, <1>2, <1>3 DEF r, n

LEMMA TailTells ==
    ASSUME NEW S, NEW q \in Seq(S), q # <<>>, NEW now \in BOOLEAN,
           NEW next \in BOOLEAN, NEW on, NEW off, on # off,
           next <=> (Head(q) = on \/ (Head(q) # off /\ now))
    PROVE  \A i \in 0 .. Len(Tail(q)) :
                Told(Tail(q), on, off, next, i) <=> Told(q, on, off, now, i + 1)
<1> DEFINE t == Tail(q)
           n == Len(t)
<1>1. /\ n \in Nat /\ Len(q) = n + 1
      /\ \A i \in 1 .. n : t[i] = q[i + 1]
      /\ q[1] = Head(q)
  BY HeadTailProperties
<1>4. \A k \in 2 .. n + 1 : k - 1 \in 1 .. n /\ q[k] = t[k - 1]
  <2> HIDE DEF t, n
  <2> TAKE k \in 2 .. n + 1
  <2>1. k - 1 \in 1 .. n /\ (k - 1) + 1 = k
    BY <1>1
  <2> QED BY <1>1, <2>1
<1> HIDE DEF t, n
<1> SUFFICES ASSUME NEW i \in 0 .. n
             PROVE  Told(t, on, off, next, i) <=> Told(q, on, off, now, i + 1)
  BY DEF t, n
<1>2. ASSUME Told(t, on, off, next, i) PROVE Told(q, on, off, now, i + 1)
  <2>1. CASE next /\ \A k \in 1 .. i : t[k] # off
    <3>1. \A k \in 2 .. i + 1 : q[k] # off
      <4> TAKE k \in 2 .. i + 1
      <4>1. k - 1 \in 1 .. i /\ q[k] = t[k - 1]
        BY <1>1, <1>4
      <4> QED BY <2>1, <4>1
    <3> QED BY <1>1, <2>1, <3>1 DEF Told
  <2>2. ASSUME NEW j \in 1 .. i, t[j] = on, \A k \in j + 1 .. i : t[k] # off
        PROVE  Told(q, on, off, now, i + 1)
    <3>1. q[j + 1] = on
      BY <1>1, <2>2
    <3>2. \A k \in j + 2 .. i + 1 : q[k] # off
      <4> TAKE k \in j + 2 .. i + 1
      <4>1. k - 1 \in j + 1 .. i /\ q[k] = t[k - 1]
        BY <1>1, <1>4
      <4> QED BY <2>2, <4>1
    <3> QED BY <3>1, <3>2 DEF Told
  <2> QED BY <1>2, <2>1, <2>2 DEF Told
<1>3. ASSUME Told(q, on, off, now, i + 1) PROVE Told(t, on, off, next, i)
  <2>1. CASE now /\ \A k \in 1 .. i + 1 : q[k] # off
    BY <1>1, <2>1 DEF Told
  <2>2. ASSUME NEW j \in 1 .. i + 1, q[j] = on, \A k \in j + 1 .. i + 1 : q[k] # off
        PROVE  Told(t, on, off, next, i)
    <3>1. CASE j = 1
      BY <1>1, <2>2, <3>1 DEF Told
    <3>2. CASE j # 1
      <4>1. j - 1 \in 1 .. i /\ t[j - 1] = on
        BY <1>1, <2>2, <3>2
      <4>2. \A k \in j .. i : t[k] # off
        BY <1>1, <2>2
      <4> QED BY <4>1, <4>2 DEF Told
    <3> QED BY <3>1, <3>2
  <2> QED BY <1>3, <2>1, <2>2 DEF Told
<1> QED BY <1>2, <1>3

\* One more broadcast.
LEMMA AppendEffects ==
    ASSUME NEW q \in Seq(Events), NEW e \in Events,
           NEW now \in BOOLEAN, NEW adv \in BOOLEAN
    PROVE  LET r == Append(q, e) IN
           /\ r \in Seq(Events)
           /\ Searching(r, now, Len(r)) <=>
                (e = "STARTED" \/ (e # "STOPPED" /\ Searching(q, now, Len(q))))
           /\ TurnedOn(r, adv) <=> (e = "ON" \/ (e # "OFF" /\ TurnedOn(q, adv)))
           /\ (e = "OFF" => ~Searching(q, now, Len(q))) =>
                /\ OffIsLate(q, now) => OffIsLate(r, now)
                /\ OffInOrder(q, now) => OffInOrder(r, now)
           /\ WillStart(q, now) => WillStart(r, now)
           /\ e \in {"ON", "LEFT"} /\ ~Searching(q, now, Len(q)) => WillStart(r, now)
<1> DEFINE n == Len(q)
           r == Append(q, e)
<1>1. /\ r \in Seq(Events) /\ n \in Nat /\ Len(r) = n + 1 /\ r[n + 1] = e
      /\ \A i \in 1 .. n : r[i] = q[i]
      /\ DOMAIN q = 1 .. n /\ DOMAIN r = 1 .. n + 1
  BY AppendProperties, LenProperties
<1>2. /\ \A i \in 0 .. n : Searching(r, now, i) <=> Searching(q, now, i)
      /\ Searching(r, now, Len(r)) <=>
                (e = "STARTED" \/ (e # "STOPPED" /\ Searching(q, now, n)))
  BY AppendTells DEF Searching
<1>3. TurnedOn(r, adv) <=> (e = "ON" \/ (e # "OFF" /\ TurnedOn(q, adv)))
  BY AppendTells DEF TurnedOn
<1> HIDE DEF n, r
<1>4. ASSUME e = "OFF" => ~Searching(q, now, n),
             NEW i \in 1 .. n + 1, r[i] = "OFF", Searching(r, now, i)
      PROVE  i \in 1 .. n /\ q[i] = "OFF" /\ Searching(q, now, i)
  <2>1. i # n + 1
    BY <1>1, <1>2, <1>4
  <2>2. i \in 1 .. n
    BY <1>1, <2>1
  <2> QED BY <1>1, <1>2, <1>4, <2>2
<1>5. (e = "OFF" => ~Searching(q, now, n)) =>
        /\ OffIsLate(q, now) => OffIsLate(r, now)
        /\ OffInOrder(q, now) => OffInOrder(r, now)
  BY <1>1, <1>4 DEF OffIsLate, OffInOrder
<1>6. ASSUME WillStart(q, now) PROVE WillStart(r, now)
  <2>1. PICK i \in 1 .. n : q[i] \in {"ON", "LEFT"} /\ ~Searching(q, now, i)
    BY <1>1, <1>6 DEF WillStart
  <2>2. i \in 1 .. n + 1 /\ r[i] \in {"ON", "LEFT"} /\ ~Searching(r, now, i)
    BY <1>1, <1>2, <2>1
  <2> QED BY <1>1, <2>2 DEF WillStart
<1>7. ASSUME e \in {"ON", "LEFT"}, ~Searching(q, now, n) PROVE WillStart(r, now)
  <2>1. n + 1 \in 1 .. n + 1 /\ ~Searching(r, now, n + 1)
    BY <1>1, <1>2, <1>7
  <2> QED BY <1>1, <1>7, <2>1 DEF WillStart
<1> QED BY <1>1, <1>2, <1>3, <1>5, <1>6, <1>7 DEF n, r

\* The next broadcast is received.
LEMMA TailEffects ==
    ASSUME NEW q \in Seq(Events), q # <<>>, NEW now \in BOOLEAN, NEW adv \in BOOLEAN,
           NEW next \in BOOLEAN, NEW nextAdv \in BOOLEAN,
           next = Discovering(Head(q), now),
           nextAdv <=> (Head(q) = "ON" \/ (Head(q) # "OFF" /\ adv))
    PROVE  LET t == Tail(q) IN
           /\ t \in Seq(Events)
           /\ Searching(t, next, Len(t)) <=> Searching(q, now, Len(q))
           /\ TurnedOn(t, nextAdv) <=> TurnedOn(q, adv)
           /\ OffIsLate(q, now) => OffIsLate(t, next) /\ OffInOrder(t, next)
           /\ WillStart(q, now) =>
                WillStart(t, next) \/ (Head(q) \in {"ON", "LEFT"} /\ ~now)
           /\ OffInOrder(q, now) /\ Head(q) = "OFF" => ~now
<1> DEFINE t == Tail(q)
           n == Len(t)
<1>1. /\ t \in Seq(Events) /\ n \in Nat /\ Len(q) = n + 1 /\ Head(q) = q[1]
      /\ \A i \in 1 .. n : t[i] = q[i + 1]
      /\ DOMAIN q = 1 .. n + 1 /\ DOMAIN t = 1 .. n
  BY HeadTailProperties, LenProperties
<1>2. next <=> (Head(q) = "STARTED" \/ (Head(q) # "STOPPED" /\ now))
  BY DEF Discovering
<1>3. \A i \in 0 .. n : Searching(t, next, i) <=> Searching(q, now, i + 1)
  BY <1>2, TailTells DEF Searching
<1>4. TurnedOn(t, nextAdv) <=> TurnedOn(q, adv)
  <2>1. \A i \in 0 .. n : Told(t, "ON", "OFF", nextAdv, i) <=> Told(q, "ON", "OFF", adv, i + 1)
    BY TailTells
  <2> QED BY <1>1, <2>1 DEF TurnedOn
<1>5. Searching(q, now, 1) <=> next
  BY <1>1, <1>2 DEF Searching, Told
<1> HIDE DEF n, t
<1>6. ASSUME OffIsLate(q, now) PROVE OffIsLate(t, next) /\ OffInOrder(t, next)
  <2> SUFFICES ASSUME NEW i \in 1 .. n, t[i] = "OFF", Searching(t, next, i) PROVE FALSE
    BY <1>1 DEF OffIsLate, OffInOrder
  <2>1. i + 1 \in 1 .. n + 1 /\ q[i + 1] = "OFF" /\ Searching(q, now, i + 1)
    BY <1>1, <1>3
  <2> QED BY <1>1, <1>6, <2>1 DEF OffIsLate
<1>7. ASSUME WillStart(q, now), ~(Head(q) \in {"ON", "LEFT"} /\ ~now)
      PROVE  WillStart(t, next)
  <2>1. PICK i \in 1 .. n + 1 : q[i] \in {"ON", "LEFT"} /\ ~Searching(q, now, i)
    BY <1>1, <1>7 DEF WillStart
  <2>2. i # 1
    BY <1>1, <1>2, <1>5, <1>7, <2>1
  <2>3. /\ i - 1 \in 1 .. n /\ t[i - 1] \in {"ON", "LEFT"}
        /\ ~Searching(t, next, i - 1)
    BY <1>1, <1>3, <2>1, <2>2
  <2> QED BY <1>1, <2>3 DEF WillStart
<1>8. OffInOrder(q, now) /\ Head(q) = "OFF" => ~now
  <2>1. OffInOrder(q, now) /\ Head(q) = "OFF" => ~Searching(q, now, 1)
    BY <1>1 DEF OffInOrder
  <2> QED BY <1>2, <1>5, <2>1
<1>9. Searching(t, next, n) <=> Searching(q, now, Len(q))
  BY <1>1, <1>3
<1> QED BY <1>1, <1>4, <1>6, <1>7, <1>8, <1>9 DEF n, t

-----------------------------------------------------------------------------
(* What the WifiP2pManager does, and what the tracker does with broadcasts. *)

LEMMA Lists ==
    ASSUME NEW q \in Seq(Events), NEW a \in Events, NEW b \in Events
    PROVE  /\ q \o <<a>> = Append(q, a)
           /\ q \o <<>> = q
           /\ <<>> \o <<a>> = <<a>>
           /\ q \o (<<a>> \o <<b>>) = Append(Append(q, a), b)
<1>1. <<a>> \in Seq(Events) /\ <<b>> \in Seq(Events) /\ <<>> \in Seq(Events)
  OBVIOUS
<1>2. q \o <<a>> = Append(q, a) /\ Append(q, a) \in Seq(Events)
  BY AppendIsConcat, AppendProperties
<1>3. Append(q, a) \o <<b>> = Append(Append(q, a), b)
  BY <1>2, AppendIsConcat
<1>4. q \o (<<a>> \o <<b>>) = (q \o <<a>>) \o <<b>>
  BY <1>1, ConcatAssociative
<1> QED BY <1>1, <1>2, <1>3, <1>4, ConcatEmptySeq

LEMMA InvInit == Init => IInv
<1> SUFFICES ASSUME Init PROVE IInv
  OBVIOUS
<1>1. TrackingTypeOK
  BY EmptySeq DEF Init, TrackingTypeOK, PeerType
<1>2. EitherOrder /\ Held
  BY DEF Init, EitherOrder, Held, Carriers
<1>3. InTheEnd
  BY DEF Init, InTheEnd
<1> QED BY <1>1, <1>2, <1>3 DEF IInv

LEMMA OnOrLeft ==
    ASSUME IInv, WifiOn \/ LeaveGroup PROVE inbox' \in Seq(Events) /\ InTheEnd'
<1>0. /\ inbox \in Seq(Events) /\ discovering \in BOOLEAN /\ advertised \in BOOLEAN
      /\ scanning \in BOOLEAN
  BY DEF IInv, TrackingTypeOK
<1>1. PICK e \in {"ON", "LEFT"} :
        /\ Broadcast(<<e>>)
        /\ UNCHANGED <<enabled, control, scanning, expired>>
        /\ ~scanning
        /\ e = "ON" => wifi' /\ ~wifi /\ joined' = joined
        /\ e = "LEFT" => wifi' = wifi
  BY DEF WifiOn, LeaveGroup, IInv, InTheEnd
<1>2. CASE ~enabled
  BY <1>0, <1>1, <1>2 DEF IInv, InTheEnd, Broadcast, control
<1>3. CASE enabled
  <2>1. inbox' = Append(inbox, e)
    BY <1>0, <1>1, <1>3, Lists DEF Broadcast, Events
  <2> QED BY <1>0, <1>1, <1>3, <2>1, AppendEffects
          DEF IInv, InTheEnd, Events, control
<1> QED BY <1>2, <1>3

LEMMA SearchEnds ==
    ASSUME IInv, JoinGroup \/ Expire PROVE inbox' \in Seq(Events) /\ InTheEnd'
<1>0. /\ inbox \in Seq(Events) /\ discovering \in BOOLEAN /\ advertised \in BOOLEAN
      /\ scanning \in BOOLEAN
  BY DEF IInv, TrackingTypeOK
<1>1. /\ Broadcast(Ended) /\ UNCHANGED <<enabled, control, wifi>>
      /\ scanning' = FALSE /\ (joined' \/ expired')
  BY DEF JoinGroup, Expire
<1>2. CASE ~enabled
  BY <1>0, <1>1, <1>2 DEF IInv, InTheEnd, Broadcast, control
<1>3. CASE enabled /\ scanning
  <2>1. PICK e \in {"STOPPED"} : inbox' = Append(inbox, e) /\ e \in Events
    BY <1>0, <1>1, <1>3, Lists DEF Broadcast, Events, Ended
  <2> QED BY <1>0, <1>1, <1>3, <2>1, AppendEffects DEF IInv, InTheEnd, control
<1>4. CASE enabled /\ ~scanning
  <2>1. inbox' = inbox
    BY <1>0, <1>1, <1>4, Lists DEF Broadcast, Events, Ended
  <2> QED BY <1>0, <1>1, <1>4, <2>1 DEF IInv, InTheEnd, control
<1> QED BY <1>0, <1>2, <1>3, <1>4

\* Sequences tell what was appended to them.
LEMMA AppendNotSame ==
    ASSUME NEW q \in Seq(Events), NEW a \in Events, NEW b \in Events
    PROVE  q # Append(q, a) /\ (Append(q, a) = Append(q, b) => a = b)
<1>1. /\ Len(Append(q, a)) = Len(q) + 1 /\ Len(q) \in Nat
      /\ Append(q, a)[Len(q) + 1] = a /\ Append(q, b)[Len(q) + 1] = b
  BY AppendProperties, LenProperties
<1> QED BY <1>1

LEMMA TurnedOff ==
    ASSUME IInv, WifiOff PROVE inbox' \in Seq(Events) /\ InTheEnd'
<1>0. /\ inbox \in Seq(Events) /\ discovering \in BOOLEAN /\ advertised \in BOOLEAN
      /\ scanning \in BOOLEAN
  BY DEF IInv, TrackingTypeOK
<1>1. /\ Broadcast(Ended \o (IF joined THEN <<"LEFT">> ELSE <<>>) \o <<"OFF">>)
      /\ UNCHANGED <<enabled, control>>
      /\ wifi' = FALSE /\ joined' = FALSE /\ scanning' = FALSE
      /\ ~(scanning /\ joined)
  BY DEF WifiOff, IInv, InTheEnd
<1>2. CASE ~enabled
  BY <1>0, <1>1, <1>2 DEF IInv, InTheEnd, Broadcast, control
<1>3. CASE enabled
  \* q is what is under way before the last broadcast.
  <2>1. PICK q \in {inbox, Append(inbox, "STOPPED"), Append(inbox, "LEFT")} :
            /\ inbox' = Append(q, "OFF")
            /\ scanning => q = Append(inbox, "STOPPED")
    <3>1. /\ <<>> \in Seq(Events) /\ <<"STOPPED">> \in Seq(Events)
          /\ <<"LEFT">> \in Seq(Events)
      BY DEF Events
    <3>2. CASE scanning
      <4>1. (<<"STOPPED">> \o <<>>) \o <<"OFF">> = <<"STOPPED">> \o <<"OFF">>
        BY <3>1, ConcatEmptySeq
      <4>2. inbox' = inbox \o (<<"STOPPED">> \o <<"OFF">>)
        BY <1>1, <1>3, <3>2, <4>1 DEF Broadcast, Ended
      <4> QED BY <1>0, <3>2, <4>2, Lists DEF Events
    <3>3. CASE ~scanning /\ joined
      <4>1. (<<>> \o <<"LEFT">>) \o <<"OFF">> = <<"LEFT">> \o <<"OFF">>
        BY <3>1, ConcatEmptySeq
      <4>2. inbox' = inbox \o (<<"LEFT">> \o <<"OFF">>)
        BY <1>1, <1>3, <3>3, <4>1 DEF Broadcast, Ended
      <4> QED BY <1>0, <3>3, <4>2, Lists DEF Events
    <3>4. CASE ~scanning /\ ~joined
      <4>1. (<<>> \o <<>>) \o <<"OFF">> = <<"OFF">>
        BY <3>1, ConcatEmptySeq
      <4>2. inbox' = inbox \o <<"OFF">>
        BY <1>1, <1>3, <3>4, <4>1 DEF Broadcast, Ended
      <4> QED BY <1>0, <3>4, <4>2, Lists DEF Events
    <3> QED BY <3>2, <3>3, <3>4
  <2>2. /\ q \in Seq(Events) /\ OffIsLate(q, discovering)
        /\ ~Searching(q, discovering, Len(q))
    <3>1. CASE q = inbox
      BY <1>0, <1>3, <2>1, <3>1, AppendNotSame DEF IInv, InTheEnd, Events
    <3>2. CASE q # inbox
      <4>1. PICK e \in {"STOPPED", "LEFT"} : q = Append(inbox, e) /\ e \in Events
        BY <2>1, <3>2 DEF Events
      <4>2. scanning => e = "STOPPED"
        BY <1>0, <2>1, <4>1, AppendNotSame DEF Events
      <4> QED BY <1>0, <1>3, <4>1, <4>2, AppendEffects DEF IInv, InTheEnd
    <3> QED BY <3>1, <3>2
  <2>3. PICK e \in {"OFF"} : inbox' = Append(q, e) /\ e \in Events
    BY <2>1 DEF Events
  <2>4. /\ inbox' \in Seq(Events)
        /\ ~Searching(inbox', discovering, Len(inbox'))
        /\ ~TurnedOn(inbox', advertised)
        /\ OffIsLate(inbox', discovering)
    BY <1>0, <2>2, <2>3, AppendEffects
  <2> QED BY <1>1, <1>3, <2>4 DEF InTheEnd, control
<1> QED BY <1>2, <1>3

LEMMA Enabled ==
    ASSUME IInv, Enable PROVE inbox' \in Seq(Events) /\ InTheEnd'
<1>0. /\ discovering \in BOOLEAN /\ advertised \in BOOLEAN
      /\ scanning \in BOOLEAN /\ wifi \in BOOLEAN
  BY DEF IInv, TrackingTypeOK
<1>1. /\ enabled' /\ UNCHANGED <<control, wifi, joined, scanning, expired>>
      /\ scanning => wifi /\ ~joined
  BY DEF Enable, IInv, InTheEnd
<1> DEFINE a == IF wifi THEN "ON" ELSE "OFF"
           b == IF scanning THEN "STARTED" ELSE "STOPPED"
<1>2. <<a, b>> \in Seq(Events) /\ <<>> \in Seq(Events) /\ a \in Events /\ b \in Events
  BY DEF Events
<1>3. /\ Len(<<a, b>>) = 2 /\ <<a, b>>[1] = a /\ <<a, b>>[2] = b
      /\ DOMAIN <<a, b>> = 1 .. 2
  OBVIOUS
<1>4. /\ Searching(<<a, b>>, discovering, Len(<<a, b>>)) <=> scanning
      /\ TurnedOn(<<a, b>>, advertised) <=> wifi
      /\ OffIsLate(<<a, b>>, discovering)
      /\ scanning => OffInOrder(<<a, b>>, discovering)
  <2> HIDE DEF a, b
  <2> DEFINE q == <<a, b>>
  <2>0. /\ Len(q) = 2 /\ q[1] = a /\ q[2] = b /\ DOMAIN q = 1 .. 2
    BY <1>3
  <2> HIDE DEF q
  <2>1. Searching(q, discovering, 2) <=> scanning
    BY <1>0, <2>0 DEF a, b, Searching, Told
  <2>2. TurnedOn(q, advertised) <=> wifi
    BY <1>0, <2>0 DEF a, b, TurnedOn, Told
  <2>3. OffIsLate(q, discovering) /\ (scanning => OffInOrder(q, discovering))
    <3>1. \A i \in 1 .. 2 : q[i] = "OFF" => i = 1 /\ ~scanning
      BY <1>1, <2>0 DEF a, b
    <3> QED BY <2>0, <3>1 DEF OffIsLate, OffInOrder
  <2> QED BY <2>0, <2>1, <2>2, <2>3 DEF q
<1>5. CASE joined
  <2>1. inbox' = <<a, b>>
    BY <1>2, <1>5, ConcatEmptySeq DEF Enable
  <2> QED BY <1>0, <1>1, <1>2, <1>4, <1>5, <2>1 DEF InTheEnd, control
<1>6. CASE ~joined
  <2>1. PICK e \in {"LEFT"} : inbox' = Append(<<a, b>>, e) /\ e \in Events
    BY <1>2, <1>6, AppendIsConcat DEF Enable, Events
  <2> DEFINE q == <<a, b>>
  <2>2. /\ q \in Seq(Events) /\ inbox' = Append(q, e) /\ OffIsLate(q, discovering)
        /\ Searching(q, discovering, Len(q)) <=> scanning
        /\ TurnedOn(q, advertised) <=> wifi
        /\ scanning => OffInOrder(q, discovering)
    BY <1>2, <1>4, <2>1
  <2> HIDE DEF a, b, q
  <2>3. /\ inbox' \in Seq(Events)
        /\ Searching(inbox', discovering, Len(inbox')) <=> scanning
        /\ TurnedOn(inbox', advertised) <=> wifi
        /\ OffIsLate(inbox', discovering)
        /\ scanning => OffInOrder(inbox', discovering)
        /\ ~scanning => WillStart(inbox', discovering)
    <3>1. e \in Events /\ e = "LEFT"
      BY <2>1
    <3>2. e \in {"ON", "LEFT"} /\ e \notin {"OFF", "STARTED", "STOPPED"}
      BY <3>1
    <3> QED BY <1>0, <2>2, <3>1, <3>2, AppendEffects
  <2> QED BY <1>0, <1>1, <2>3 DEF InTheEnd, control
<1> QED BY <1>5, <1>6

\* What is left under way tells the same once the next broadcast is received.
LEMMA Received ==
    ASSUME IInv, NEW event, Receive(event),
           advertised' <=> (event = "ON" \/ (event # "OFF" /\ advertised)),
           advertised' \in BOOLEAN
    PROVE  /\ discovering' \in BOOLEAN
           /\ Tail(inbox) \in Seq(Events)
           /\ Searching(Tail(inbox), discovering', Len(Tail(inbox))) <=> scanning
           /\ TurnedOn(Tail(inbox), advertised') <=> wifi
           /\ OffIsLate(Tail(inbox), discovering')
           /\ OffInOrder(Tail(inbox), discovering')
           /\ wifi /\ ~joined /\ ~expired /\ ~scanning =>
                \/ WillStart(Tail(inbox), discovering')
                \/ event \in {"ON", "LEFT"} /\ ~discovering
           /\ scanning /\ event = "OFF" => ~discovering
<1>1. /\ inbox \in Seq(Events) /\ discovering \in BOOLEAN /\ advertised \in BOOLEAN
      /\ enabled /\ inbox # <<>> /\ event = Head(inbox)
      /\ discovering' = Discovering(event, discovering)
  BY DEF IInv, TrackingTypeOK, Receive
<1>2. discovering' \in BOOLEAN
  BY <1>1 DEF Discovering
<1> QED BY <1>1, <1>2, TailEffects DEF IInv, InTheEnd

\* start(), when the next broadcast is that Wi-Fi Direct is on or a Group left.
LEMMA Started ==
    ASSUME IInv, ReceiveOn \/ ReceiveLeft
    PROVE  /\ inbox' \in Seq(Events) /\ InTheEnd'
           /\ discovering' \in BOOLEAN /\ scanning' \in BOOLEAN /\ expired' \in BOOLEAN
<1>0. /\ inbox \in Seq(Events) /\ discovering \in BOOLEAN /\ advertised \in BOOLEAN
      /\ scanning \in BOOLEAN /\ expired \in BOOLEAN /\ wifi \in BOOLEAN /\ joined \in BOOLEAN
  BY DEF IInv, TrackingTypeOK
<1> DEFINE t == Tail(inbox)
<1>1. PICK event \in {"ON", "LEFT"} :
        /\ Receive(event) /\ Start(t)
        /\ advertised' <=> (event = "ON" \/ (event # "OFF" /\ advertised))
        /\ advertised' \in BOOLEAN
  <2>1. CASE ReceiveOn
    <3>1. Receive("ON") /\ Start(t) /\ advertised' = TRUE
      BY <2>1 DEF ReceiveOn
    <3> QED BY <3>1
  <2>2. CASE ReceiveLeft
    <3>1. Receive("LEFT") /\ Start(t) /\ advertised' = advertised
      BY <2>2 DEF ReceiveLeft
    <3> QED BY <1>0, <3>1
  <2> QED BY <2>1, <2>2
<1>2. /\ discovering' = discovering /\ enabled' /\ UNCHANGED <<wifi, joined>>
      /\ enabled
  BY <1>1 DEF Receive, Discovering
<1>3. /\ t \in Seq(Events)
      /\ Searching(t, discovering', Len(t)) <=> scanning
      /\ TurnedOn(t, advertised') <=> wifi
      /\ OffIsLate(t, discovering') /\ OffInOrder(t, discovering')
      /\ wifi /\ ~joined /\ ~expired /\ ~scanning =>
            WillStart(t, discovering') \/ ~discovering
  BY <1>1, Received
<1>4. scanning => wifi /\ ~joined
  BY DEF IInv, InTheEnd
<1>5. CASE discovering
  <2>1. inbox' = t /\ UNCHANGED <<scanning, expired>>
    BY <1>1, <1>5 DEF Start
  <2> QED BY <1>0, <1>2, <1>3, <1>4, <1>5, <2>1 DEF InTheEnd
<1>6. CASE ~discovering
  <2>1. DiscoverPeers(t)
    BY <1>1, <1>6 DEF Start
  <2>2. CASE scanning \/ ~wifi \/ joined
    <3>1. inbox' = t /\ scanning' = scanning /\ expired' \in BOOLEAN
      BY <1>0, <1>4, <2>1, <2>2 DEF DiscoverPeers
    <3> QED BY <1>0, <1>2, <1>3, <1>4, <2>2, <3>1 DEF InTheEnd
  <2>3. CASE ~scanning /\ wifi /\ ~joined
    <3>1. PICK e \in {"STARTED"} : inbox' = Append(t, e) /\ e \in Events
      BY <2>1, <2>3 DEF DiscoverPeers, Events
    <3>2. scanning' = TRUE /\ expired' = FALSE
      BY <1>0, <2>1, <2>3 DEF DiscoverPeers
    <3> HIDE DEF t
    <3>3. /\ inbox' \in Seq(Events)
          /\ Searching(inbox', discovering, Len(inbox'))
          /\ TurnedOn(inbox', advertised') <=> wifi
          /\ OffIsLate(inbox', discovering) /\ OffInOrder(inbox', discovering)
      BY <1>0, <1>1, <1>2, <1>3, <3>1, AppendEffects
    <3> QED BY <1>0, <1>2, <2>3, <3>2, <3>3 DEF InTheEnd
  <2> QED BY <2>2, <2>3
<1> QED BY <1>0, <1>5, <1>6

\* stop() when Wi-Fi Direct is off, and the broadcasts that the search started
\* or ended: nothing new is under way.
LEMMA Stopped ==
    ASSUME IInv, ReceiveOff \/ ReceiveDiscovery
    PROVE  /\ inbox' \in Seq(Events) /\ InTheEnd'
           /\ discovering' \in BOOLEAN /\ scanning' \in BOOLEAN /\ expired' \in BOOLEAN
<1>0. /\ inbox \in Seq(Events) /\ discovering \in BOOLEAN /\ advertised \in BOOLEAN
      /\ scanning \in BOOLEAN /\ expired \in BOOLEAN
  BY DEF IInv, TrackingTypeOK
<1> DEFINE t == Tail(inbox)
<1>1. PICK event \in {"OFF", "STARTED", "STOPPED"} :
        /\ Receive(event)
        /\ event = "OFF" => Stop(t)
        /\ event # "OFF" => inbox' = t /\ UNCHANGED <<scanning, expired>>
        /\ advertised' <=> (event = "ON" \/ (event # "OFF" /\ advertised))
        /\ advertised' \in BOOLEAN
  <2>1. CASE ReceiveOff
    <3>1. Receive("OFF") /\ Stop(t) /\ advertised' = FALSE
      BY <2>1 DEF ReceiveOff
    <3> QED BY <3>1
  <2>2. CASE ReceiveDiscovery
    <3>1. /\ Receive("STARTED") \/ Receive("STOPPED")
          /\ inbox' = t /\ UNCHANGED <<scanning, expired>> /\ advertised' = advertised
      BY <2>2 DEF ReceiveDiscovery
    <3> QED BY <1>0, <3>1
  <2> QED BY <2>1, <2>2
<1>2. enabled' /\ UNCHANGED <<wifi, joined>> /\ enabled
  BY <1>1 DEF Receive
<1>3. /\ discovering' \in BOOLEAN
      /\ t \in Seq(Events)
      /\ Searching(t, discovering', Len(t)) <=> scanning
      /\ TurnedOn(t, advertised') <=> wifi
      /\ OffIsLate(t, discovering') /\ OffInOrder(t, discovering')
      /\ wifi /\ ~joined /\ ~expired /\ ~scanning => WillStart(t, discovering')
      /\ scanning /\ event = "OFF" => ~discovering
  BY <1>1, Received
<1>4. inbox' = t /\ UNCHANGED <<scanning, expired>>
  BY <1>0, <1>1, <1>3 DEF Stop, StopPeerDiscovery
<1> QED BY <1>0, <1>2, <1>3, <1>4 DEF IInv, InTheEnd

LEMMA Disabled ==
    ASSUME IInv, Disable PROVE inbox' \in Seq(Events) /\ InTheEnd'
BY EmptySeq DEF IInv, TrackingTypeOK, InTheEnd, Disable, Withdrawn

-----------------------------------------------------------------------------
(* The devices, the services and the peers.                                *)

LEMMA PeerFacts ==
    /\ \A p \in PeerType :
        /\ p.held \in BOOLEAN /\ p.mac \in Macs \cup {NoMac}
        /\ p = NoPeer <=> p.mac = NoMac
        /\ p = NoPeer => ~p.held
    /\ \A m \in Macs : [mac |-> m, held |-> TRUE] \in PeerType
<1>1. NoPeer.mac = NoMac /\ NoPeer.held = FALSE
  BY DEF NoPeer
<1>2. ASSUME NEW p \in PeerType
      PROVE  p = NoPeer \/ (p.mac \in Macs /\ p.held \in BOOLEAN)
  BY DEF PeerType
<1>3. \A m \in Macs : [mac |-> m, held |-> TRUE] \in PeerType
  BY DEF PeerType
<1> QED BY <1>1, <1>2, <1>3, NoneAssumption

\* An object that is no longer held.
LEMMA Released ==
    ASSUME NEW p \in PeerType, NEW scan
    PROVE  LET r == [p EXCEPT !.held = @ /\ p.mac \notin scan] IN
           /\ r \in PeerType /\ r.mac = p.mac
           /\ r.held <=> (p.held /\ p.mac \notin scan)
<1> DEFINE b == p.mac \notin scan
           r == [p EXCEPT !.held = @ /\ b]
<1>1. CASE p \in [mac : Macs, held : BOOLEAN]
  BY <1>1 DEF PeerType
<1>2. CASE p = NoPeer
  <2>1. r = [mac |-> NoMac, held |-> FALSE /\ b]
    BY <1>2 DEF NoPeer
  <2>2. (FALSE /\ b) = FALSE
    OBVIOUS
  <2>3. r = NoPeer
    BY <2>1, <2>2 DEF NoPeer
  <2> QED BY <1>2, <2>3, PeerFacts DEF PeerType
<1> QED BY <1>1, <1>2 DEF PeerType

LEMMA ListsDevices ==
    ASSUME IInv, NEW scan \in SUBSET Macs, NEW last \in [Uuids -> Macs \cup {NoMac}],
           PeersChanged(scan, last)
    PROVE  IInv'
<1>1. devices' \in [Macs -> {"ABSENT", "FOUND", "LOST"}]
  BY DEF IInv, TrackingTypeOK, PeersChanged, Scanned
<1>2. ASSUME NEW u \in Uuids
      PROVE  /\ last[u] # NoMac =>
                    /\ last[u] \in Macs /\ devices'[last[u]] # "ABSENT"
                    /\ peers'[u] = [mac |-> last[u], held |-> TRUE]
             /\ last[u] # NoMac => peers'[u].mac = last[u] /\ peers'[u].held
             /\ last[u] = NoMac =>
                    /\ Carriers(devices', services, u) = {}
                    /\ peers'[u] = [peers[u] EXCEPT !.held = @ /\ peers[u].mac \notin scan]
  BY NoneAssumption DEF IInv, TrackingTypeOK, PeersChanged, Carriers, Updated
<1>3. ASSUME NEW u \in Uuids, last[u] = NoMac
      PROVE  /\ peers'[u] \in PeerType /\ peers'[u].mac = peers[u].mac
             /\ peers'[u].held <=> (peers[u].held /\ peers[u].mac \notin scan)
             /\ peers[u] = NoPeer => peers'[u] = NoPeer
  <2>1. peers[u] \in PeerType
    BY DEF IInv, TrackingTypeOK
  <2>2. peers'[u] = [peers[u] EXCEPT !.held = @ /\ peers[u].mac \notin scan]
    BY <1>2, <1>3
  <2>3. /\ peers'[u] \in PeerType /\ peers'[u].mac = peers[u].mac
        /\ peers'[u].held <=> (peers[u].held /\ peers[u].mac \notin scan)
    BY <2>1, <2>2, Released
  <2> QED BY <2>1, <2>3, PeerFacts
<1>4. TrackingTypeOK'
  <2>1. peers' \in [Uuids -> PeerType]
    <3>1. ASSUME NEW u \in Uuids PROVE peers'[u] \in PeerType
      <4>1. CASE last[u] # NoMac
        <5>1. last[u] \in Macs /\ peers'[u] = [mac |-> last[u], held |-> TRUE]
          BY <1>2, <4>1
        <5> QED BY <5>1 DEF PeerType
      <4>2. CASE last[u] = NoMac
        BY <1>3, <4>2
      <4> QED BY <4>1, <4>2
    <3>2. peers' = [u \in Uuids |-> peers'[u]]
      BY DEF PeersChanged
    <3> QED BY <3>1, <3>2
  <2> QED BY <1>1, <2>1 DEF IInv, TrackingTypeOK, PeersChanged, control, manager
<1>5. EitherOrder'
  <2> SUFFICES ASSUME NEW u \in Uuids, Carriers(devices', services', u) # {}
               PROVE  peers'[u] # NoPeer
    BY DEF EitherOrder
  <2>1. last[u] # NoMac
    BY <1>2 DEF PeersChanged
  <2>2. peers'[u] \in PeerType /\ peers'[u].mac \in Macs
    BY <1>2, <1>4, <2>1 DEF TrackingTypeOK
  <2> QED BY <2>2, NoneAssumption, PeerFacts
<1>6. Held'
  <2> SUFFICES ASSUME NEW u \in Uuids, peers'[u] # NoPeer
               PROVE  /\ devices'[peers'[u].mac] # "ABSENT"
                      /\ ~peers'[u].held => services'[peers'[u].mac] # u
    BY DEF Held
  <2>1. CASE last[u] # NoMac
    BY <1>2, <2>1
  <2>2. CASE last[u] = NoMac
    <3> DEFINE m == peers[u].mac
    <3>1. peers[u] # NoPeer /\ m \in Macs /\ peers'[u].mac = m
      <4>1. peers[u] \in PeerType
        BY DEF IInv, TrackingTypeOK
      <4> QED BY <1>3, <2>2, <4>1, PeerFacts
    <3>2. devices[m] # "ABSENT" /\ (~peers[u].held => services[m] # u)
      BY <3>1 DEF IInv, Held
    <3>3. devices'[m] # "ABSENT"
      BY <3>1, <3>2 DEF PeersChanged, Scanned
    <3>4. services[m] # u
      BY <1>2, <2>2, <3>1, <3>3 DEF Carriers
    <3> QED BY <3>1, <3>3, <3>4 DEF PeersChanged
  <2> QED BY <2>1, <2>2
<1>7. InTheEnd'
  BY DEF IInv, InTheEnd, PeersChanged, control, manager
<1> QED BY <1>4, <1>5, <1>6, <1>7 DEF IInv

LEMMA TellsService ==
    ASSUME IInv, NEW m \in Macs, NEW u \in Uuids, ServiceFound(m, u) PROVE IInv'
<1>1. /\ services' \in [Macs -> Uuids \cup {NoUuid}] /\ services'[m] = u
      /\ \A k \in Macs : k # m => services'[k] = services[k]
      /\ devices' = devices
  BY DEF IInv, TrackingTypeOK, ServiceFound
<1>2. /\ peers' \in [Uuids -> PeerType]
      /\ \A v \in Uuids : v # u => peers'[v] = peers[v]
      /\ devices[m] # "ABSENT" => peers'[u] = [mac |-> m, held |-> TRUE]
      /\ devices[m] = "ABSENT" => peers'[u] = peers[u]
  BY DEF IInv, TrackingTypeOK, ServiceFound, Updated, PeerType
<1>3. TrackingTypeOK'
  BY <1>1, <1>2 DEF IInv, TrackingTypeOK, ServiceFound, control, manager
<1>4. EitherOrder'
  <2> SUFFICES ASSUME NEW v \in Uuids, NEW k \in Macs, devices[k] # "ABSENT",
                      services'[k] = v
               PROVE  peers'[v] # NoPeer
    BY <1>1 DEF EitherOrder, Carriers
  <2>1. CASE k = m
    BY <1>1, <1>2, <2>1, NoneAssumption, PeerFacts
  <2>2. CASE k # m
    <3>1. peers[v] # NoPeer
      BY <1>1, <2>2 DEF IInv, EitherOrder, Carriers
    <3> QED BY <1>2, <3>1, NoneAssumption, PeerFacts
  <2> QED BY <2>1, <2>2
<1>5. Held'
  <2> SUFFICES ASSUME NEW v \in Uuids, peers'[v] # NoPeer
               PROVE  /\ devices[peers'[v].mac] # "ABSENT"
                      /\ ~peers'[v].held => services'[peers'[v].mac] # v
    BY <1>1 DEF Held
  <2>1. CASE v = u /\ devices[m] # "ABSENT"
    BY <1>2, <2>1
  <2>2. CASE v # u \/ devices[m] = "ABSENT"
    <3>1. peers'[v] = peers[v] /\ peers[v].mac \in Macs
      BY <1>2, <2>2, NoneAssumption DEF IInv, TrackingTypeOK, PeerType, NoPeer
    <3>2. /\ devices[peers[v].mac] # "ABSENT"
          /\ ~peers[v].held => services[peers[v].mac] # v
      BY <3>1 DEF IInv, Held
    <3> QED BY <1>1, <2>2, <3>1, <3>2
  <2> QED BY <2>1, <2>2
<1>6. InTheEnd'
  BY DEF IInv, InTheEnd, ServiceFound, control, manager
<1> QED BY <1>3, <1>4, <1>5, <1>6 DEF IInv

-----------------------------------------------------------------------------

LEMMA InvNext == IInv /\ [Next]_vars => IInv'
<1> SUFFICES ASSUME IInv, [Next]_vars PROVE IInv'
  OBVIOUS
\* The steps that leave the records alone.
<1>1. ASSUME UNCHANGED records, InTheEnd', inbox' \in Seq(Events),
             enabled' \in BOOLEAN, discovering' \in BOOLEAN, advertised' \in BOOLEAN,
             requested' \in BOOLEAN, wifi' \in BOOLEAN, joined' \in BOOLEAN,
             scanning' \in BOOLEAN, expired' \in BOOLEAN
      PROVE  IInv'
  BY <1>1 DEF IInv, TrackingTypeOK, EitherOrder, Held, Carriers, records
<1>2. CASE WifiOn \/ LeaveGroup
  BY <1>1, <1>2, OnOrLeft DEF IInv, TrackingTypeOK, WifiOn, LeaveGroup, control
<1>3. CASE JoinGroup \/ Expire
  BY <1>1, <1>3, SearchEnds DEF IInv, TrackingTypeOK, JoinGroup, Expire, control
<1>4. CASE WifiOff
  BY <1>1, <1>4, TurnedOff DEF IInv, TrackingTypeOK, WifiOff, control
<1>5. CASE Enable
  BY <1>1, <1>5, Enabled DEF IInv, TrackingTypeOK, Enable, control
<1>6. CASE Disable
  BY <1>1, <1>6, Disabled DEF IInv, TrackingTypeOK, Disable, Withdrawn
<1>7. CASE ReceiveOn \/ ReceiveLeft
  BY <1>1, <1>7, Started DEF IInv, TrackingTypeOK, ReceiveOn, ReceiveLeft, Receive
<1>8. CASE ReceiveOff \/ ReceiveDiscovery
  BY <1>1, <1>8, Stopped DEF IInv, TrackingTypeOK, ReceiveOff, ReceiveDiscovery, Receive
<1>9. CASE \E scan \in SUBSET Macs, last \in [Uuids -> Macs \cup {NoMac}] :
                PeersChanged(scan, last)
  BY <1>9, ListsDevices
<1>10. CASE \E m \in Macs, u \in Uuids : ServiceFound(m, u)
  BY <1>10, TellsService
<1>11. CASE UNCHANGED vars
  BY <1>11 DEF IInv, TrackingTypeOK, EitherOrder, Held, Carriers, InTheEnd, vars,
               control, records, manager
<1> QED BY <1>2, <1>3, <1>4, <1>5, <1>6, <1>7, <1>8, <1>9, <1>10, <1>11 DEF Next

LEMMA Invariant == Spec => []IInv
BY InvInit, InvNext, PTL DEF Spec

\* Every variable keeps its type: broadcasts are those Android sends, and a peer
\* refers to a device around.
THEOREM TrackingTypes == Spec => []TrackingTypeOK
<1>1. IInv => TrackingTypeOK
  BY DEF IInv
<1> QED BY <1>1, Invariant, PTL

\* For any devices and UUIDs, a UUID that a known device told of is a peer,
\* whether the device or its service was detected first.
THEOREM DetectedEitherWay == Spec => []EitherOrder
<1>1. IInv => EitherOrder
  BY DEF IInv
<1> QED BY <1>1, Invariant, PTL

\* A peer that shows the one device that told of its UUID has that device's
\* status, since no such peer is left with an object that a scan replaced.
THEOREM PeersUpToDate == Spec => []UpToDate
<1>1. IInv => UpToDate
  <2> SUFFICES ASSUME IInv, NEW u \in Uuids, peers[u] # NoPeer,
                      {m \in Macs : services[m] = u} = {peers[u].mac}
               PROVE  PeerStatus(u) = devices[peers[u].mac]
    BY DEF UpToDate
  <2>1. services[peers[u].mac] = u
    OBVIOUS
  <2>2. peers[u].held
    BY <2>1 DEF IInv, Held
  <2> QED BY <2>2 DEF PeerStatus
<1> QED BY <1>1, Invariant, PTL

\* After a scan, a peer whose UUID no known device carries is not within range.
THEOREM NoGhostsAfterScans == Spec => NoGhosts
<1>1. ASSUME IInv, [Next]_vars, devices' # devices, NEW u \in Uuids,
             Carriers(devices', services', u) = {}
      PROVE  PeerStatus(u)' # "FOUND"
  <2>1. PICK scan \in SUBSET Macs, last \in [Uuids -> Macs \cup {NoMac}] :
            PeersChanged(scan, last)
    BY <1>1 DEF Next, WifiOn, WifiOff, JoinGroup, LeaveGroup, Expire, Enable, Disable,
                ReceiveOn, ReceiveOff, ReceiveDiscovery, ReceiveLeft, Receive,
                ServiceFound, vars, records
  <2>2. last[u] = NoMac
    BY <1>1, <2>1 DEF PeersChanged
  <2>3. peers'[u] = [peers[u] EXCEPT !.held = @ /\ peers[u].mac \notin scan]
    BY <2>1, <2>2 DEF PeersChanged
  <2>4. peers[u] \in PeerType
    BY <1>1 DEF IInv, TrackingTypeOK
  <2>5. CASE peers'[u] = NoPeer
    BY <2>5 DEF PeerStatus
  <2>6. CASE peers'[u] # NoPeer
    <3>1. peers[u].mac \in Macs /\ peers'[u].mac = peers[u].mac
      <4>1. peers'[u] \in PeerType /\ peers'[u].mac = peers[u].mac
        BY <2>3, <2>4, Released
      <4> QED BY <2>6, <4>1, PeerFacts
    <3>2. peers'[u].held => peers[u].mac \notin scan
      BY <2>3, <2>4, Released
    <3>3. peers[u].mac \notin scan => devices'[peers[u].mac] # "FOUND"
      BY <2>1, <3>1 DEF PeersChanged, Scanned
    <3> QED BY <2>6, <3>1, <3>2, <3>3 DEF PeerStatus
  <2> QED BY <2>5, <2>6
<1>2. IInv /\ [Next]_vars =>
        [devices' # devices =>
            \A u \in Uuids :
                Carriers(devices', services', u) = {} => PeerStatus(u)' # "FOUND"]_vars
  BY <1>1
<1> QED BY <1>2, Invariant, PTL DEF Spec, NoGhosts

\* Once all broadcasts are received, a device that may look for others does,
\* unless Android gave up: one that starts the search is under way until then.
THEOREM SearchesIfFree == Spec => []SearchesWhenFree
<1>1. IInv => SearchesWhenFree
  BY DEF IInv, InTheEnd, SearchesWhenFree, WillStart
<1> QED BY <1>1, Invariant, PTL

\* Once all broadcasts are received, the service is advertised if and only if
\* Wi-Fi Direct is on and the registrar enabled.
THEOREM AdvertisedIfOn == Spec => []AdvertisedWhileOn
<1>1. IInv => AdvertisedWhileOn
  <2> SUFFICES ASSUME IInv, inbox = <<>> PROVE advertised <=> enabled /\ wifi
    BY DEF AdvertisedWhileOn
  <2>1. advertised \in BOOLEAN /\ Len(inbox) = 0
    BY DEF IInv, TrackingTypeOK
  <2>2. TurnedOn(inbox, advertised) <=> advertised
    BY <2>1, EmptyTells DEF TurnedOn
  <2> QED BY <2>2 DEF IInv, InTheEnd
<1> QED BY <1>1, Invariant, PTL

=============================================================================
