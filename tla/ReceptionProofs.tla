-------------------------- MODULE ReceptionProofs --------------------------
(***************************************************************************)
(* Proofs of the safety properties of Reception, for any addresses and     *)
(* bounds.                                                                 *)
(***************************************************************************)
EXTENDS Reception, SequenceTheorems, TLAPS

(***************************************************************************)
(* The inductive invariant.  What is under way: the last broadcast tells   *)
(* whether the device is in a Group; with none left, the manager knows the *)
(* address.  What the manager does: while enabled, its last handler        *)
(* listens on the address it knows, and no other handler does.  What the   *)
(* NsdManager owes: the calls that each state of the listener allows; a    *)
(* registration that stands is one the registrar knows of.                 *)
(***************************************************************************)
Told ==
    /\ manager = "NEW" => assignedIpv4 = NoAddress
    /\ inbox # <<>> => manager = "ON"
    /\ manager = "ON" =>
        IF inbox = <<>> THEN assignedIpv4 = address
        ELSE inbox[Len(inbox)] = "CONNECTED" <=> address # NoAddress

Serving ==
    /\ enabled => /\ manager = "ON"
                  /\ Len(handlers) > 0
                  /\ handlers[Len(handlers)].open
                  /\ handlers[Len(handlers)].ip = assignedIpv4
    /\ manager = "ON" /\ assignedIpv4 # NoAddress => enabled \/ refused

OneSocket ==
    \A h \in DOMAIN handlers : handlers[h].open => enabled /\ h = Len(handlers)

Owed ==
    /\ listener \in {"FREE", "REGISTERING"} => callbacks = <<>>
    /\ listener \in {"REGISTERED", "UNREGISTERING"} =>
            callbacks \in {<<>>, <<"REGISTERED">>}
    /\ listener = "FAILED" => callbacks = <<"FAILED">>
    /\ listener = "UNREGISTERED" =>
            callbacks \in {<<"UNREGISTERED">>, <<"REGISTERED", "UNREGISTERED">>}

Known ==
    /\ listener \in {"REGISTERING", "REGISTERED"} => registered /\ enabled
    /\ listener = "REGISTERED" => announced = handlers[Len(handlers)].ip
    /\ announced # NoAddress => listener \in {"REGISTERED", "UNREGISTERING"}

IInv ==
    /\ ReceptionTypeOK
    /\ ~crashed => Told /\ Serving /\ OneSocket /\ Owed /\ Known

-----------------------------------------------------------------------------
(* Sequences of one or two calls.                                          *)

\* What Append, Head and Tail make of them.
LEMMA OneOrTwo ==
    ASSUME NEW S, NEW a \in S, NEW b \in S
    PROVE  /\ Append(<<a>>, b) = <<a, b>>
           /\ Append(<<>>, a) = <<a>>
           /\ Head(<<a>>) = a /\ Tail(<<a>>) = <<>>
           /\ Head(<<a, b>>) = a /\ Tail(<<a, b>>) = <<b>>
<1>. DEFINE s == Append(<<a>>, b)
            t == <<a, b>>
<1>1. /\ <<a>> \in Seq(S) /\ Len(<<a>>) = 1 /\ <<a>>[1] = a
      /\ t \in Seq(S) /\ Len(t) = 2 /\ t[1] = a /\ t[2] = b
  OBVIOUS
<1>2. s \in Seq(S) /\ Len(s) = 2 /\ s[1] = a /\ s[2] = b
  BY <1>1, AppendProperties
<1>3. s = t
  <2>. HIDE DEF s, t
  <2>1. \A i \in 1 .. 2 : s[i] = t[i]
    BY <1>1, <1>2
  <2>. QED
    BY <1>1, <1>2, <2>1, SeqEqual
<1>4. Append(<<>>, a) = <<a>>
  OBVIOUS
<1>5. Head(<<a>>) = a /\ Tail(<<a>>) = <<>>
  OBVIOUS
<1>6. Head(<<a, b>>) = a /\ Tail(<<a, b>>) = <<b>>
  OBVIOUS
<1>. QED
  BY <1>3, <1>4, <1>5, <1>6

\* The calls of the registrar's listener, and the sequences of them that occur.
Calls == {"REGISTERED", "FAILED", "UNREGISTERED"}

\* The same for the calls of the listener.
LEMMA CallSequences ==
    /\ Append(<<>>, "UNREGISTERED") = <<"UNREGISTERED">>
    /\ Append(<<"REGISTERED">>, "UNREGISTERED") = <<"REGISTERED", "UNREGISTERED">>
    /\ \A c \in Calls : Head(<<c>>) = c /\ Tail(<<c>>) = <<>>
    /\ Head(<<"REGISTERED", "UNREGISTERED">>) = "REGISTERED"
    /\ Tail(<<"REGISTERED", "UNREGISTERED">>) = <<"UNREGISTERED">>
<1>1. "REGISTERED" \in Calls /\ "UNREGISTERED" \in Calls
  BY DEF Calls
<1>. QED
  BY <1>1, OneOrTwo

-----------------------------------------------------------------------------
(* Types.                                                                  *)

\* A new manager has variables of their types.
LEMMA InitTypes == Init => ReceptionTypeOK
<1>1. /\ <<>> \in Seq(Handler)
      /\ <<>> \in Seq({"CONNECTED", "DISCONNECTED"})
      /\ <<>> \in Seq({"REGISTERED", "FAILED", "UNREGISTERED"})
  BY EmptySeq
<1>. QED
  BY <1>1 DEF Init, ReceptionTypeOK

\* The handlers after disableService() are handlers, as many as before, at the
\* same addresses, and none is open but those that were and are not the last.
LEMMA DisabledHandlers ==
    ASSUME handlers \in Seq(Handler), enabled \in BOOLEAN,
           enabled => Len(handlers) > 0
    PROVE  /\ Disabled \in Seq(Handler)
           /\ Len(Disabled) = Len(handlers)
           /\ \A h \in DOMAIN handlers :
                /\ Disabled[h].ip = handlers[h].ip
                /\ Disabled[h].open <=>
                        handlers[h].open /\ ~(enabled /\ h = Len(handlers))
<1>1. CASE enabled
  <2>1. /\ Len(handlers) \in DOMAIN handlers
        /\ handlers[Len(handlers)] \in Handler
    BY <1>1, LenProperties
  <2>2. Disabled = [handlers EXCEPT ![Len(handlers)] = Terminated(@)]
    BY <1>1 DEF Disabled, Connector
  <2>3. \A r \in Handler : /\ Terminated(r) \in Handler
                            /\ Terminated(r).ip = r.ip
                            /\ Terminated(r).open = FALSE
    BY DEF Terminated, Handler
  <2>5. Disabled \in Seq(Handler) /\ Len(Disabled) = Len(handlers)
    BY <2>1, <2>2, <2>3, ExceptSeq
  <2>6. ASSUME NEW h \in DOMAIN handlers
        PROVE  Disabled[h] = IF h = Len(handlers) THEN Terminated(handlers[h])
                             ELSE handlers[h]
    BY <2>2
  <2>. QED
    BY <1>1, <2>1, <2>3, <2>5, <2>6
<1>2. CASE ~enabled
  BY <1>2 DEF Disabled
<1>. QED
  BY <1>1, <1>2

-----------------------------------------------------------------------------
(* The invariant.                                                          *)

\* A new manager satisfies it.
LEMMA InitInv == Init => IInv
<1>. SUFFICES ASSUME Init PROVE IInv
  OBVIOUS
<1>1. ReceptionTypeOK
  BY InitTypes
<1>2. Told /\ Serving
  BY DEF Init, Told, Serving
<1>3. OneSocket
  BY DEF Init, OneSocket
<1>4. Owed /\ Known
  BY DEF Init, Owed, Known
<1>. QED
  BY <1>1, <1>2, <1>3, <1>4 DEF IInv

\* Nothing listens after disableService(), and the registration is on its way
\* out, if there was one.
LEMMA AfterDisableService ==
    ASSUME IInv, ~crashed
    PROVE  /\ Disabled \in Seq(Handler) /\ Len(Disabled) = Len(handlers)
           /\ \A h \in DOMAIN Disabled : ~Disabled[h].open
           /\ RegisteredAfter \in BOOLEAN
           /\ ListenerAfter \in {"FREE", "FAILED", "UNREGISTERING", "UNREGISTERED"}
           /\ ListenerAfter = "FREE" => callbacks = <<>>
           /\ ListenerAfter = "UNREGISTERING" => callbacks \in {<<>>, <<"REGISTERED">>}
           /\ ListenerAfter = "FAILED" => callbacks = <<"FAILED">>
           /\ ListenerAfter = "UNREGISTERED" =>
                callbacks \in {<<"UNREGISTERED">>, <<"REGISTERED", "UNREGISTERED">>}
           /\ announced # NoAddress => ListenerAfter = "UNREGISTERING"
<1>1. /\ handlers \in Seq(Handler) /\ enabled \in BOOLEAN /\ registered \in BOOLEAN
      /\ enabled => Len(handlers) > 0
  BY DEF IInv, ReceptionTypeOK, Serving
<1>2. /\ Disabled \in Seq(Handler) /\ Len(Disabled) = Len(handlers)
      /\ \A h \in DOMAIN handlers :
            Disabled[h].open <=> handlers[h].open /\ ~(enabled /\ h = Len(handlers))
  BY <1>1, DisabledHandlers
<1>3. \A h \in DOMAIN Disabled : ~Disabled[h].open
  BY <1>1, <1>2 DEF IInv, OneSocket
<1>4. RegisteredAfter \in BOOLEAN
  BY <1>1 DEF RegisteredAfter
<1>. QED
  BY <1>1, <1>2, <1>3, <1>4
  DEF IInv, ReceptionTypeOK, Owed, Known, ListenerAfter, Unregistering

\* A broadcast is the last one under way.
LEMMA Broadcasts ==
    ASSUME ReceptionTypeOK, NEW event \in {"CONNECTED", "DISCONNECTED"},
           Broadcast(event)
    PROVE  /\ inbox' \in Seq({"CONNECTED", "DISCONNECTED"})
           /\ manager = "ON" => inbox' # <<>> /\ inbox'[Len(inbox')] = event
           /\ manager # "ON" => inbox' = inbox
<1>1. inbox \in Seq({"CONNECTED", "DISCONNECTED"})
  BY DEF ReceptionTypeOK
<1>2. /\ Append(inbox, event) \in Seq({"CONNECTED", "DISCONNECTED"})
      /\ Append(inbox, event) # <<>>
      /\ Append(inbox, event)[Len(Append(inbox, event))] = event
  BY <1>1, AppendProperties
<1>. QED
  BY <1>1, <1>2 DEF Broadcast

\* A device that joins or leaves a Group is told of it last.
LEMMA StepGroup ==
    ASSUME IInv, (\E ip \in Addresses : Join(ip)) \/ Leave
    PROVE  IInv'
<1>1. /\ ~crashed /\ ~crashed'
      /\ UNCHANGED <<manager, assignedIpv4, refused, crashed, service, registry>>
      /\ address' \in Addresses \cup {NoAddress}
      /\ Broadcast(IF address' = NoAddress THEN "DISCONNECTED" ELSE "CONNECTED")
  BY AddressAssumption DEF Join, Leave, IInv, ReceptionTypeOK
<1>2. /\ inbox' \in Seq({"CONNECTED", "DISCONNECTED"})
      /\ manager = "ON" =>
            /\ inbox' # <<>>
            /\ inbox'[Len(inbox')] = IF address' = NoAddress THEN "DISCONNECTED"
                                     ELSE "CONNECTED"
      /\ manager # "ON" => inbox' = inbox
  BY <1>1, Broadcasts DEF IInv
<1>3. ReceptionTypeOK'
  BY <1>1, <1>2 DEF IInv, ReceptionTypeOK, service, registry
<1>4. Told'
  BY <1>1, <1>2 DEF IInv, Told
<1>5. (Serving /\ OneSocket /\ Owed /\ Known)'
  BY <1>1 DEF IInv, Serving, OneSocket, Owed, Known, service, registry
<1>. QED
  BY <1>3, <1>4, <1>5 DEF IInv

\* What the NsdManager does leaves the manager and its sockets alone.
LEMMA StepNsd ==
    ASSUME IInv, Announce \/ Refuse \/ Withdraw
    PROVE  IInv'
<1>1. /\ ~crashed /\ ~crashed'
      /\ UNCHANGED <<manager, assignedIpv4, refused, service, registered, group>>
  BY DEF Announce, Refuse, Withdraw, IInv
<1>2. (Told /\ Serving /\ OneSocket)'
  BY <1>1 DEF IInv, Told, Serving, OneSocket, service, group
<1>3. handlers \in Seq(Handler) /\ (enabled => Len(handlers) > 0)
  BY <1>1 DEF IInv, ReceptionTypeOK, Serving
<1>4. CASE Announce
  <2>1. /\ callbacks = <<>> /\ callbacks' = <<"REGISTERED">>
        /\ registered /\ enabled
    BY <1>1, <1>4 DEF IInv, Owed, Known, Announce
  <2>2. announced' = handlers[Len(handlers)].ip /\ announced' \in Addresses
    <3>1. handlers[Len(handlers)] \in Handler
      BY <1>3, <2>1, LenProperties
    <3>. QED
      BY <1>4, <3>1 DEF Announce, Connector, Handler
  <2>3. ReceptionTypeOK'
    BY <1>1, <1>4, <2>1, <2>2 DEF IInv, ReceptionTypeOK, Announce, service, group
  <2>4. (Owed /\ Known)'
    BY <1>1, <1>4, <2>1, <2>2 DEF Owed, Known, Announce, service
  <2>. QED
    BY <1>2, <2>3, <2>4 DEF IInv
<1>5. CASE Refuse
  <2>1. callbacks' = <<"FAILED">> /\ announced' = NoAddress
    BY <1>1, <1>5 DEF IInv, Owed, Known, Refuse
  <2>2. ReceptionTypeOK'
    BY <1>1, <1>5, <2>1 DEF IInv, ReceptionTypeOK, Refuse, service, group
  <2>3. (Owed /\ Known)'
    BY <1>1, <1>5, <2>1 DEF Owed, Known, Refuse, service
  <2>. QED
    BY <1>2, <2>2, <2>3 DEF IInv
<1>6. CASE Withdraw
  <2>1. callbacks' \in {<<"UNREGISTERED">>, <<"REGISTERED", "UNREGISTERED">>}
    <3>1. callbacks \in {<<>>, <<"REGISTERED">>}
      BY <1>1, <1>6 DEF IInv, Owed, Withdraw
    <3>2. callbacks' = Append(callbacks, "UNREGISTERED")
      BY <1>6 DEF Withdraw
    <3>3. /\ Append(<<>>, "UNREGISTERED") = <<"UNREGISTERED">>
          /\ Append(<<"REGISTERED">>, "UNREGISTERED") = <<"REGISTERED", "UNREGISTERED">>
      BY CallSequences
    <3>. QED
      BY <3>1, <3>2, <3>3
  <2>2. ReceptionTypeOK'
    BY <1>1, <1>6, <2>1 DEF IInv, ReceptionTypeOK, Withdraw, service, group
  <2>3. (Owed /\ Known)'
    BY <1>1, <1>6, <2>1 DEF Owed, Known, Withdraw, service
  <2>. QED
    BY <1>2, <2>2, <2>3 DEF IInv
<1>. QED
  BY <1>4, <1>5, <1>6

\* A call of the listener.  Only a success can come while a registration stands,
\* and it tells the registrar what it knows.
LEMMA StepCallback ==
    ASSUME IInv, Callback
    PROVE  IInv'
<1>1. /\ ~crashed /\ ~crashed'
      /\ UNCHANGED <<manager, assignedIpv4, refused, crashed, service, announced, group>>
      /\ callbacks # <<>> /\ callbacks' = Tail(callbacks)
      /\ registered' = Confirmed(Head(callbacks), registered)
      /\ listener' = IF Head(callbacks) = "REGISTERED" THEN listener ELSE "FREE"
  BY DEF Callback
<1>2. (Told /\ Serving /\ OneSocket)'
  BY <1>1 DEF IInv, Told, Serving, OneSocket, service, group
<1>3. registered \in BOOLEAN /\ registered' \in BOOLEAN
  BY <1>1 DEF IInv, ReceptionTypeOK, Confirmed
<1>4. CASE listener \in {"REGISTERED", "UNREGISTERING"}
  <2>1. callbacks = <<"REGISTERED">>
    BY <1>1, <1>4 DEF IInv, Owed
  <2>2. callbacks' = <<>> /\ listener' = listener /\ registered'
    BY <1>1, <2>1, CallSequences DEF Confirmed, Calls
  <2>3. ReceptionTypeOK'
    BY <1>1, <1>3, <2>2 DEF IInv, ReceptionTypeOK, service, group
  <2>4. (Owed /\ Known)'
    BY <1>1, <1>4, <2>2 DEF IInv, Owed, Known, service
  <2>. QED
    BY <1>2, <2>3, <2>4 DEF IInv
<1>5. CASE listener = "FAILED"
  <2>1. callbacks' = <<>> /\ listener' = "FREE" /\ announced' = NoAddress
    BY <1>1, <1>5, CallSequences DEF IInv, Owed, Known, Calls
  <2>2. ReceptionTypeOK'
    BY <1>1, <1>3, <2>1 DEF IInv, ReceptionTypeOK, service, group
  <2>. QED
    BY <1>2, <2>1, <2>2 DEF IInv, Owed, Known
<1>6. CASE listener = "UNREGISTERED"
  <2>1. \/ callbacks = <<"UNREGISTERED">>
        \/ callbacks = <<"REGISTERED", "UNREGISTERED">>
    BY <1>1, <1>6 DEF IInv, Owed
  <2>2. \/ callbacks' = <<>> /\ listener' = "FREE"
        \/ callbacks' = <<"UNREGISTERED">> /\ listener' = "UNREGISTERED"
    BY <1>1, <1>6, <2>1, CallSequences DEF Calls
  <2>3. announced' = NoAddress
    BY <1>1, <1>6 DEF IInv, Known
  <2>4. ReceptionTypeOK'
    BY <1>1, <1>3, <2>2 DEF IInv, ReceptionTypeOK, service, group
  <2>. QED
    BY <1>2, <2>2, <2>3, <2>4 DEF IInv, Owed, Known
<1>. QED
  BY <1>1, <1>4, <1>5, <1>6 DEF IInv, ReceptionTypeOK, Owed

\* A step of a ConnectionHandler's thread opens no socket and moves none.
LEMMA StepThread ==
    ASSUME IInv, NEW h \in DOMAIN handlers,
           Begin(h) \/ Accept(h) \/ PassOn(h) \/ End(h)
    PROVE  IInv'
<1>1. PICK from \in {"STARTED", "ACCEPT", "RECEIVE"},
           to \in {"ACCEPT", "RECEIVE", "ENDED"} : Step(h, from, to)
  BY DEF Begin, Accept, PassOn, End
<1>2. /\ ~crashed /\ ~crashed'
      /\ UNCHANGED <<manager, assignedIpv4, refused, crashed, enabled, registry, group>>
  BY <1>1 DEF Step
<1>3. /\ handlers \in Seq(Handler) /\ h \in 1 .. Len(handlers)
      /\ handlers[h] \in Handler
  BY LenProperties DEF IInv, ReceptionTypeOK
<1>4. DEFINE moved == [handlers[h] EXCEPT !.at = to,
                                          !.enabled = @ \/ from = "STARTED"]
<1>5. moved \in Handler /\ moved.ip = handlers[h].ip /\ moved.open = handlers[h].open
  BY <1>3 DEF Handler
<1>6. handlers' = [handlers EXCEPT ![h] = moved]
  BY <1>1, <1>3 DEF Step, Handler
<1>. HIDE DEF moved
<1>7. /\ handlers' \in Seq(Handler) /\ Len(handlers') = Len(handlers)
      /\ \A i \in 1 .. Len(handlers) :
            handlers'[i].ip = handlers[i].ip /\ handlers'[i].open = handlers[i].open
  BY <1>3, <1>5, <1>6, ExceptSeq
<1>8. ReceptionTypeOK'
  BY <1>2, <1>7 DEF IInv, ReceptionTypeOK, registry, group
<1>9. Told'
  BY <1>2 DEF IInv, Told, group
<1>10. Len(handlers) \in Nat /\ DOMAIN handlers' = 1 .. Len(handlers)
       /\ DOMAIN handlers = 1 .. Len(handlers)
  BY <1>3, <1>7, LenProperties
<1>11. Serving'
  <2>1. Serving
    BY <1>2 DEF IInv
  <2>2. Len(handlers) > 0 => Len(handlers) \in 1 .. Len(handlers)
    BY <1>10
  <2>. QED
    BY <1>2, <1>7, <2>1, <2>2 DEF Serving
<1>12. OneSocket'
  BY <1>2, <1>7, <1>10 DEF IInv, OneSocket
<1>13. (Owed /\ Known)'
  <2>1. Owed /\ Known /\ Serving
    BY <1>2 DEF IInv
  <2>2. listener = "REGISTERED" => Len(handlers) \in 1 .. Len(handlers)
    BY <1>10, <2>1 DEF Known, Serving
  <2>. QED
    BY <1>2, <1>7, <2>1, <2>2 DEF Owed, Known, registry
<1>. QED
  BY <1>8, <1>9, <1>11, <1>12, <1>13 DEF IInv

\* enable() asks for the last broadcast, which tells of the Group as it is.
LEMMA StepEnable ==
    ASSUME IInv, Enable
    PROVE  IInv'
<1>1. /\ manager = "NEW" /\ manager' = "ON"
      /\ UNCHANGED <<assignedIpv4, refused, crashed, service, registry, address>>
  BY DEF Enable
<1>2. PICK event \in {"CONNECTED", "DISCONNECTED"} :
        inbox' = <<event>> /\ (event = "CONNECTED" <=> address # NoAddress)
  BY DEF Enable
<1>3. /\ inbox' \in Seq({"CONNECTED", "DISCONNECTED"})
      /\ inbox' # <<>> /\ inbox'[Len(inbox')] = event
  BY <1>2
<1>4. ReceptionTypeOK'
  BY <1>1, <1>3 DEF IInv, ReceptionTypeOK, service, registry
<1>5. Told'
  BY <1>1, <1>2, <1>3 DEF Told
<1>6. ASSUME ~crashed
      PROVE  (Serving /\ OneSocket /\ Owed /\ Known)'
  <2>1. ~enabled /\ assignedIpv4 = NoAddress
    BY <1>1, <1>6 DEF IInv, Serving, Told
  <2>. QED
    BY <1>1, <1>6, <2>1 DEF IInv, Serving, OneSocket, Owed, Known, service, registry
<1>. QED
  BY <1>1, <1>4, <1>5, <1>6 DEF IInv

\* The variables that enabling and disabling the service changes.
ServiceTypes ==
    /\ enabled \in BOOLEAN /\ handlers \in Seq(Handler)
    /\ registered \in BOOLEAN /\ refused \in BOOLEAN /\ crashed \in BOOLEAN
    /\ listener \in {"FREE", "REGISTERING", "REGISTERED", "FAILED",
                     "UNREGISTERING", "UNREGISTERED"}
    /\ callbacks \in Seq({"REGISTERED", "FAILED", "UNREGISTERED"})
    /\ announced \in Addresses \cup {NoAddress}

\* disableService() leaves no socket open, or ends the process.
LEMMA Disabling ==
    ASSUME IInv, ~crashed, DisableService
    PROVE  /\ ServiceTypes'
           /\ ~crashed' => ~enabled' /\ (OneSocket /\ Owed /\ Known)'
<1>1. CASE enabled /\ UnregisterThrows
  BY <1>1 DEF DisableService, Crash, service, registry, ServiceTypes, IInv,
              ReceptionTypeOK
<1>2. CASE ~(enabled /\ UnregisterThrows)
  <2>1. /\ ~enabled' /\ handlers' = Disabled
        /\ registered' = RegisteredAfter /\ listener' = ListenerAfter
        /\ UNCHANGED <<refused, crashed, callbacks, announced>>
    BY <1>2 DEF DisableService
  <2>2. enabled' \in BOOLEAN
    BY <1>2 DEF DisableService
  <2>3. ServiceTypes'
    BY <2>1, <2>2, AfterDisableService DEF ServiceTypes, IInv, ReceptionTypeOK
  <2>4. (OneSocket /\ Owed /\ Known)'
    BY <2>1, AfterDisableService DEF OneSocket, Owed, Known
  <2>. QED
    BY <2>1, <2>3, <2>4
<1>. QED
  BY <1>1, <1>2

\* disable() drops the broadcasts under way and the service.
LEMMA StepDisable ==
    ASSUME IInv, Disable
    PROVE  IInv'
<1>1. /\ ~crashed /\ manager' = "OFF" /\ inbox' = <<>> /\ DisableService
      /\ UNCHANGED <<assignedIpv4, address>>
  BY DEF Disable
<1>2. /\ ServiceTypes'
      /\ ~crashed' => ~enabled' /\ (OneSocket /\ Owed /\ Known)'
  BY <1>1, Disabling
<1>3. <<>> \in Seq({"CONNECTED", "DISCONNECTED"})
  BY EmptySeq
<1>4. ReceptionTypeOK'
  BY <1>1, <1>2, <1>3 DEF IInv, ReceptionTypeOK, ServiceTypes
<1>5. Told' /\ (~enabled' => Serving')
  BY <1>1 DEF Told, Serving
<1>. QED
  BY <1>2, <1>4, <1>5 DEF IInv

\* After a broadcast the manager knows the address, if it was the last one.
LEMMA Received ==
    ASSUME IInv, NEW event \in {"CONNECTED", "DISCONNECTED"}, Receive(event)
    PROVE  /\ manager = "ON" /\ Told'
           /\ inbox' \in Seq({"CONNECTED", "DISCONNECTED"})
           /\ assignedIpv4' = IF event = "CONNECTED" THEN address ELSE NoAddress
           /\ assignedIpv4' \in Addresses \cup {NoAddress}
<1>1. /\ ~crashed /\ inbox # <<>> /\ Head(inbox) = event /\ inbox' = Tail(inbox)
      /\ assignedIpv4' = IF event = "CONNECTED" THEN address ELSE NoAddress
      /\ UNCHANGED <<manager, address>>
  BY DEF Receive, Assigned
<1>2. /\ inbox \in Seq({"CONNECTED", "DISCONNECTED"})
      /\ address \in Addresses \cup {NoAddress}
  BY DEF IInv, ReceptionTypeOK
<1>3. /\ manager = "ON"
      /\ inbox[Len(inbox)] = "CONNECTED" <=> address # NoAddress
  BY <1>1 DEF IInv, Told
<1>4. /\ inbox' \in Seq({"CONNECTED", "DISCONNECTED"})
      /\ Len(inbox') = Len(inbox) - 1
      /\ \A i \in 1 .. Len(inbox') : inbox'[i] = inbox[i + 1]
  BY <1>1, <1>2, HeadTailProperties
<1>5. Len(inbox) \in Nat /\ Len(inbox) > 0 /\ Head(inbox) = inbox[1]
  BY <1>1, <1>2, EmptySeq
<1>6. CASE inbox' = <<>>
  <2>1. Len(inbox) = 1
    BY <1>4, <1>5, <1>6
  <2>2. assignedIpv4' = address'
    BY <1>1, <1>3, <1>5, <2>1
  <2>. QED
    BY <1>1, <1>2, <1>3, <1>4, <1>6, <2>2 DEF Told
<1>7. CASE inbox' # <<>>
  <2>1. Len(inbox') \in 1 .. Len(inbox')
    BY <1>4, <1>5, <1>7, EmptySeq
  <2>2. inbox'[Len(inbox')] = inbox[Len(inbox)]
    BY <1>4, <1>5, <2>1
  <2>. QED
    BY <1>1, <1>2, <1>3, <1>4, <1>7, <2>2 DEF Told
<1>. QED
  BY <1>6, <1>7

\* A device out of the Group serves no more.
LEMMA StepDisconnected ==
    ASSUME IInv, Disconnected
    PROVE  IInv'
<1>1. /\ ~crashed /\ DisableService /\ UNCHANGED <<manager, address>>
      /\ manager = "ON" /\ Told' /\ assignedIpv4' = NoAddress
      /\ inbox' \in Seq({"CONNECTED", "DISCONNECTED"})
  BY Received DEF Disconnected, Receive
<1>2. /\ ServiceTypes'
      /\ ~crashed' => ~enabled' /\ (OneSocket /\ Owed /\ Known)'
  BY <1>1, Disabling
<1>3. ReceptionTypeOK'
  BY <1>1, <1>2 DEF IInv, ReceptionTypeOK, ServiceTypes
<1>4. ~enabled' => Serving'
  BY <1>1 DEF Serving
<1>. QED
  BY <1>1, <1>2, <1>3, <1>4 DEF IInv

\* A broadcast that tells nothing new leaves the service on the address it is on.
LEMMA StepConnectedAsBefore ==
    ASSUME IInv, ConnectedAsBefore
    PROVE  IInv'
<1>1. /\ ~crashed /\ Unmoved
      /\ UNCHANGED <<manager, address, service, registry, refused, crashed>>
      /\ manager = "ON" /\ Told' /\ assignedIpv4' = address
      /\ assignedIpv4' \in Addresses \cup {NoAddress}
      /\ inbox' \in Seq({"CONNECTED", "DISCONNECTED"})
  BY Received DEF ConnectedAsBefore, Receive
<1>2. assignedIpv4' = assignedIpv4
  <2>1. CASE assignedIpv4 = NoAddress
    <3>1. /\ enabled /\ handlers \in Seq(Handler) /\ Len(handlers) > 0
          /\ handlers[Len(handlers)].ip = NoAddress
      BY <1>1, <2>1 DEF IInv, ReceptionTypeOK, Serving, Unmoved
    <3>2. handlers[Len(handlers)] \in Handler
      BY <3>1, LenProperties
    <3>. QED
      BY <3>1, <3>2, AddressAssumption DEF Handler
  <2>2. CASE assignedIpv4 # NoAddress
    BY <1>1, <2>2 DEF Unmoved
  <2>. QED
    BY <2>1, <2>2
<1>3. ReceptionTypeOK'
  BY <1>1 DEF IInv, ReceptionTypeOK, service, registry
<1>4. (Serving /\ OneSocket /\ Owed /\ Known)'
  BY <1>1, <1>2 DEF IInv, Serving, OneSocket, Owed, Known, service, registry
<1>. QED
  BY <1>1, <1>3, <1>4 DEF IInv

\* enableService() that gets its socket: one handler listens on the address, and
\* the registrar asks for it to be announced, or still holds the listener.
LEMMA Binding ==
    ASSUME IInv, ~crashed, NEW ip \in Addresses,
           ~RegisterThrows(RegisteredAfter, ListenerAfter),
           handlers' = Append(Disabled, NewHandler(ip)), enabled',
           registered' = Claimed(RegisteredAfter),
           listener' = Registering(RegisteredAfter, ListenerAfter),
           UNCHANGED <<callbacks, announced>>
    PROVE  /\ handlers' \in Seq(Handler) /\ Len(handlers') > 0
           /\ handlers'[Len(handlers')] = NewHandler(ip)
           /\ (OneSocket /\ Owed /\ Known)'
           /\ registered'
           /\ listener' \in {"FREE", "REGISTERING", "REGISTERED", "FAILED",
                             "UNREGISTERING", "UNREGISTERED"}
<1>1. NewHandler(ip) \in Handler
  BY DEF NewHandler, Handler
<1>2. /\ Disabled \in Seq(Handler)
      /\ \A h \in DOMAIN Disabled : ~Disabled[h].open
  BY AfterDisableService
<1>3. /\ handlers' \in Seq(Handler) /\ Len(handlers') = Len(Disabled) + 1
      /\ \A i \in 1 .. Len(Disabled) : handlers'[i] = Disabled[i]
      /\ handlers'[Len(handlers')] = NewHandler(ip)
  BY <1>1, <1>2, AppendProperties
<1>4. Len(Disabled) \in Nat /\ DOMAIN Disabled = 1 .. Len(Disabled)
      /\ DOMAIN handlers' = 1 .. Len(handlers')
  BY <1>2, <1>3, LenProperties
<1>5. OneSocket'
  <2>. SUFFICES ASSUME NEW h \in DOMAIN handlers', handlers'[h].open
                PROVE  h = Len(handlers')
    BY DEF OneSocket
  <2>. QED
    BY <1>2, <1>3, <1>4
<1>6. registered'
  BY DEF Claimed
<1>7. /\ listener' \in {"FREE", "REGISTERING", "FAILED", "UNREGISTERING", "UNREGISTERED"}
      /\ listener' = "REGISTERING" => ListenerAfter = "FREE"
      /\ listener' # "REGISTERING" => listener' = ListenerAfter
  BY AfterDisableService DEF Registering, RegisterThrows
<1>8. Owed'
  BY <1>7, AfterDisableService DEF Owed
<1>9. Known'
  BY <1>6, <1>7, AfterDisableService DEF Known
<1>. QED
  BY <1>3, <1>4, <1>5, <1>6, <1>7, <1>8, <1>9

\* enableService() that is refused its socket leaves the service off.
LEMMA Refusal ==
    ASSUME IInv, ~crashed, ~enabled', handlers' = Disabled,
           registered' = RegisteredAfter, listener' = ListenerAfter,
           UNCHANGED <<callbacks, announced>>
    PROVE  (OneSocket /\ Owed /\ Known)'
BY AfterDisableService DEF OneSocket, Owed, Known

\* A broadcast that tells of another address moves the service to it, unless the
\* socket is refused or the process ends.
LEMMA StepConnected ==
    ASSUME IInv, NEW binds \in BOOLEAN, Connected(binds)
    PROVE  IInv'
<1>1. /\ ~crashed /\ EnableService(address, binds)
      /\ UNCHANGED <<manager, address>>
      /\ manager = "ON" /\ Told' /\ assignedIpv4' = address
      /\ assignedIpv4' \in Addresses \cup {NoAddress}
      /\ inbox' \in Seq({"CONNECTED", "DISCONNECTED"})
  BY Received DEF Connected, Receive
<1>2. CASE Crash
  <2>1. crashed' /\ UNCHANGED <<refused, service, registry>>
    BY <1>2 DEF Crash
  <2>2. crashed' \in BOOLEAN
    BY <1>2 DEF Crash
  <2>3. ReceptionTypeOK'
    BY <1>1, <2>1, <2>2 DEF IInv, ReceptionTypeOK, service, registry
  <2>. QED
    BY <2>1, <2>3 DEF IInv
<1>3. CASE ~Crash
  <2>1. /\ address # NoAddress
        /\ binds => ~RegisterThrows(RegisteredAfter, ListenerAfter)
        /\ enabled' = binds /\ refused' = ~binds
        /\ UNCHANGED <<crashed, callbacks, announced>>
    BY <1>1, <1>3 DEF EnableService
  <2>2. address \in Addresses
    BY <2>1 DEF IInv, ReceptionTypeOK
  <2>3. CASE binds
    <3>1. /\ handlers' = Append(Disabled, NewHandler(address))
          /\ registered' = Claimed(RegisteredAfter)
          /\ listener' = Registering(RegisteredAfter, ListenerAfter)
      BY <1>1, <1>3, <2>3 DEF EnableService
    <3>2. /\ handlers' \in Seq(Handler) /\ Len(handlers') > 0
          /\ handlers'[Len(handlers')] = NewHandler(address)
          /\ (OneSocket /\ Owed /\ Known)'
          /\ listener' \in {"FREE", "REGISTERING", "REGISTERED", "FAILED",
                            "UNREGISTERING", "UNREGISTERED"}
      BY <1>1, <2>1, <2>2, <2>3, <3>1, Binding
    <3>3. registered' \in BOOLEAN
      BY <3>1 DEF Claimed
    <3>4. ReceptionTypeOK'
      BY <1>1, <2>1, <2>3, <3>2, <3>3 DEF IInv, ReceptionTypeOK
    <3>5. Serving'
      BY <1>1, <2>1, <2>3, <3>2 DEF Serving, NewHandler
    <3>. QED
      BY <1>1, <3>2, <3>4, <3>5 DEF IInv
  <2>4. CASE ~binds
    <3>1. /\ handlers' = Disabled
          /\ registered' = RegisteredAfter /\ listener' = ListenerAfter
      BY <1>1, <1>3, <2>4 DEF EnableService
    <3>2. (OneSocket /\ Owed /\ Known)'
      BY <1>1, <2>1, <2>4, <3>1, Refusal
    <3>3. ReceptionTypeOK'
      BY <1>1, <2>1, <2>4, <3>1, AfterDisableService DEF IInv, ReceptionTypeOK
    <3>4. Serving'
      BY <2>1, <2>4 DEF Serving
    <3>. QED
      BY <1>1, <3>2, <3>3, <3>4 DEF IInv
  <2>. QED
    BY <2>3, <2>4
<1>. QED
  BY <1>2, <1>3

\* The invariant holds in every step, and of a process that waits.
LEMMA NextInv == IInv /\ [Next]_vars => IInv'
<1>. SUFFICES ASSUME IInv, [Next]_vars PROVE IInv'
  OBVIOUS
<1>1. CASE (\E ip \in Addresses : Join(ip)) \/ Leave
  BY <1>1, StepGroup
<1>2. CASE Announce \/ Refuse \/ Withdraw
  BY <1>2, StepNsd
<1>3. CASE Callback
  BY <1>3, StepCallback
<1>4. CASE Enable
  BY <1>4, StepEnable
<1>5. CASE Disable
  BY <1>5, StepDisable
<1>6. CASE ConnectedAsBefore
  BY <1>6, StepConnectedAsBefore
<1>7. ASSUME NEW binds \in BOOLEAN, Connected(binds) PROVE IInv'
  BY <1>7, StepConnected
<1>8. CASE Disconnected
  BY <1>8, StepDisconnected
<1>9. ASSUME NEW h \in DOMAIN handlers,
             Begin(h) \/ Accept(h) \/ PassOn(h) \/ End(h)
      PROVE  IInv'
  BY <1>9, StepThread
<1>10. CASE UNCHANGED vars
  BY <1>10 DEF vars, service, registry, group, IInv, ReceptionTypeOK, Told,
               Serving, OneSocket, Owed, Known
<1>. QED
  BY <1>1, <1>2, <1>3, <1>4, <1>5, <1>6, <1>7, <1>8, <1>9, <1>10 DEF Next

\* The invariant holds at all times.
LEMMA Invariance == Spec => []IInv
<1>. QED
  BY InitInv, NextInv, PTL DEF Spec

-----------------------------------------------------------------------------
(* The properties.                                                         *)

\* Every variable of the receiving side keeps its type: broadcasts, handlers and
\* calls of the listener are never anything else.
THEOREM ReceptionTypes == Spec => []ReceptionTypeOK
<1>1. IInv => ReceptionTypeOK
  BY DEF IInv
<1>. QED
  BY <1>1, Invariance, PTL

\* A device in a Group that was told all there is to tell listens on its address
\* there, unless the socket was refused: for any number of changes of the Group,
\* received however late by the ConnectionEventDetector.
THEOREM Listens == Spec => []ListensInGroup
<1>1. IInv => ListensInGroup
  BY DEF IInv, Told, Serving, ListensInGroup, Informed, Connector
<1>. QED
  BY <1>1, Invariance, PTL

\* No ServerSocket stays open on an address the device has given up, whatever
\* handlers enableService() and disableService() made and terminated.
THEOREM NothingStray == Spec => []NoStraySocket
<1>1. IInv => NoStraySocket
  BY DEF IInv, Told, Serving, OneSocket, NoStraySocket, Informed
<1>. QED
  BY <1>1, Invariance, PTL

\* The registrar, whose mRegistered two threads write, leaves no announcement
\* standing for an address where the face manager does not listen.
THEOREM NothingStale == Spec => []NoStaleAnnouncement
<1>1. IInv => NoStaleAnnouncement
  BY DEF IInv, Known, NoStaleAnnouncement, Informed, Connector
<1>. QED
  BY <1>1, Invariance, PTL

=============================================================================
