---------------------------- MODULE NsdDiscovery ----------------------------
(***************************************************************************)
(* Discovery of the NDN-Opp services of a Wi-Fi Direct Group: the Java     *)
(* NsdServiceDiscoverer, the NsdServiceResolver that serialises the        *)
(* resolutions, and the NsdService records they keep.  Both are singletons *)
(* that outlive the daemon.                                                *)
(*                                                                         *)
(* Android's NsdManager is external.  It reports services found and lost   *)
(* for as long as discovery goes on, which is until it says it stopped and *)
(* not until it is told to, and it answers each resolution once, in any    *)
(* order, whether or not anybody still waits for the answer.               *)
(***************************************************************************)
EXTENDS Integers, SequencesExt

CONSTANTS
    Services,       \* the other NDN-Opp services, one per device
    Hosts,          \* addresses a service may be resolved to
    OwnHost,        \* the address of this device
    NoHost,         \* "0.0.0.0", the address of a service not resolved
    MaxQueue,       \* bound on the resolutions that wait
    MaxSessions     \* bound on the times the discoverer is enabled

ASSUME HostsAssumption == OwnHost # NoHost /\ NoHost \notin Hosts
ASSUME LimitsAssumption == MaxQueue \in Nat /\ MaxSessions \in Nat

VARIABLES
    enabled,        \* mEnabled of the discoverer and of its resolver
    started,        \* mStarted: discovery was requested
    assigned,       \* mAssignedIpv4 is known (not null)
    services,       \* mServices
    pending,        \* mResolutionPending
    queue           \* mQueue of the resolver

VARIABLES           \* the NsdManager, and bookkeeping
    discovering,    \* the listener is registered with the NsdManager
    listed,         \* services reported found and not lost since
    flight,         \* resolutions requested and not answered
    sessions,       \* number of times the discoverer was enabled
    leftover        \* a resolution requested before a disable is unanswered

discoverer == <<enabled, started, assigned, sessions>>
resolver   == <<pending, queue, flight>>
nsdVars    == <<discoverer, services, resolver, discovering, listed, leftover>>

\* Not in mServices; otherwise the status and address of the NsdService.
Absent      == [status |-> "ABSENT", host |-> NoHost]
Unavailable == [status |-> "UNAVAILABLE", host |-> NoHost]
Available(host) == [status |-> "AVAILABLE", host |-> host]
ServiceRecords == {Absent, Unavailable} \cup {Available(host) : host \in Hosts}

\* The type of every variable.
NsdTypeOK ==
    /\ enabled \in BOOLEAN /\ started \in BOOLEAN /\ assigned \in BOOLEAN
    /\ services \in [Services -> ServiceRecords]
    /\ pending \in BOOLEAN
    /\ queue \in Seq(Services)
    /\ discovering \in BOOLEAN
    /\ listed \subseteq Services
    /\ flight \in Seq(Services)
    /\ sessions \in 0 .. MaxSessions
    /\ leftover \in BOOLEAN

-----------------------------------------------------------------------------
(* Plausible bugs in the helpers below, for checking the properties.       *)

AlwaysRequest(waiting, busy, unanswered, service) ==
    [queue |-> waiting, pending |-> TRUE, flight |-> Append(unanswered, service)]
StayBusy(waiting, busy, unanswered) ==
    IF waiting = <<>>
    THEN [queue |-> waiting, pending |-> busy, flight |-> unanswered]
    ELSE [queue |-> Tail(waiting), pending |-> busy,
          flight |-> Append(unanswered, Head(waiting))]
NewestFirst(waiting, busy, unanswered) ==
    IF waiting = <<>>
    THEN [queue |-> waiting, pending |-> FALSE, flight |-> unanswered]
    ELSE [queue |-> Front(waiting), pending |-> busy,
          flight |-> Append(unanswered, Last(waiting))]

-----------------------------------------------------------------------------

\* NsdServiceResolver.resolve: wait behind the resolution under way, if any.
\* It does not look at mEnabled.
Requested(waiting, busy, unanswered, service) ==
    IF busy
    THEN [queue |-> Append(waiting, service), pending |-> TRUE,
          flight |-> unanswered]
    ELSE [queue |-> waiting, pending |-> TRUE,
          flight |-> Append(unanswered, service)]

\* NsdServiceResolver.resolveNext, after an answer: mResolutionPending is left
\* alone when there is a next one.
Continued(waiting, busy, unanswered) ==
    IF waiting = <<>>
    THEN [queue |-> waiting, pending |-> FALSE, flight |-> unanswered]
    ELSE [queue |-> Tail(waiting), pending |-> busy,
          flight |-> Append(unanswered, Head(waiting))]

ResolverIs(r) ==
    /\ queue' = r.queue
    /\ pending' = r.pending
    /\ flight' = r.flight

\* NsdService.markAsUnavailable
MarkedUnavailable(record) == Unavailable

\* stop() marks every service ever seen.
AllUnavailable ==
    [s \in Services |-> IF services[s] = Absent THEN Absent
                        ELSE MarkedUnavailable(services[s])]

NsdInit ==
    /\ enabled = FALSE /\ started = FALSE /\ assigned = FALSE
    /\ services = [s \in Services |-> Absent]
    /\ pending = FALSE /\ queue = <<>>
    /\ discovering = FALSE /\ listed = {} /\ flight = <<>>
    /\ sessions = 0 /\ leftover = FALSE

-----------------------------------------------------------------------------

\* The daemon enables the discoverer, which observes its resolver again.
Enable ==
    /\ ~enabled
    /\ sessions < MaxSessions
    /\ enabled' = TRUE
    /\ sessions' = sessions + 1
    /\ UNCHANGED <<started, assigned, services, resolver, discovering, listed,
                   leftover>>

\* stop(): only if discovery was started.
Stop ==
    /\ services' = IF started THEN AllUnavailable ELSE services
    /\ started' = FALSE

\* The daemon disables the discoverer; the resolver drops what waits and
\* forgets that it asked for a resolution.
Disable ==
    /\ enabled
    /\ Stop
    /\ enabled' = FALSE
    /\ queue' = <<>>
    /\ pending' = FALSE
    /\ leftover' = (flight # <<>>)
    /\ UNCHANGED <<assigned, flight, discovering, listed, sessions>>

\* Broadcast: the device is in a Group, whose interface may have no address.
\* A restart before the listener is released is refused by the NsdManager with
\* an exception that ends the application, and is left out.
Connected ==
    /\ enabled
    /\ started \/ ~discovering
    /\ assigned' \in BOOLEAN
    /\ started' = TRUE
    /\ discovering' = TRUE
    /\ UNCHANGED <<enabled, services, resolver, listed, sessions, leftover>>

\* Broadcast: the device left its Group.
Disconnected ==
    /\ enabled
    /\ assigned' = FALSE
    /\ Stop
    /\ UNCHANGED <<enabled, resolver, discovering, listed, sessions, leftover>>

\* onDiscoveryStopped: only now do the reports end.
DiscoveryStopped ==
    /\ discovering
    /\ ~started
    /\ discovering' = FALSE
    /\ listed' = {}
    /\ UNCHANGED <<discoverer, services, resolver, leftover>>

ServiceFound(s) ==
    /\ discovering
    /\ s \notin listed
    /\ Len(queue) < MaxQueue
    /\ listed' = listed \cup {s}
    /\ services' = IF services[s] = Absent
                   THEN [services EXCEPT ![s] = Unavailable] ELSE services
    /\ ResolverIs(Requested(queue, pending, flight, s))
    /\ UNCHANGED <<discoverer, discovering, leftover>>

ServiceLost(s) ==
    /\ discovering
    /\ s \in listed
    /\ listed' = listed \ {s}
    /\ services' = [services EXCEPT ![s] = MarkedUnavailable(@)]
    /\ UNCHANGED <<discoverer, resolver, discovering, leftover>>

\* The NsdManager answers the i-th of the resolutions it was asked for.
Answered(i) ==
    /\ i \in DOMAIN flight
    /\ ResolverIs(Continued(queue, pending, RemoveAt(flight, i)))
    /\ leftover' = (leftover /\ flight' # <<>>)
    /\ UNCHANGED <<discoverer, discovering, listed>>

\* resolutionCompleted, unless the discoverer no longer observes the resolver:
\* an answer with this device's own address is ignored as a known fault, if the
\* name that a reverse lookup gives for the address is the address itself.
Resolved(i, host, named) ==
    /\ Answered(i)
    /\ services' = IF enabled /\ ~(assigned /\ host = OwnHost /\ ~named)
                   THEN [services EXCEPT ![flight[i]] = Available(host)]
                   ELSE services

ResolveFailed(i) ==
    /\ Answered(i)
    /\ UNCHANGED services

Answer(i) ==
    \/ ResolveFailed(i)
    \/ \E host \in Hosts, named \in BOOLEAN : Resolved(i, host, named)

NsdNext ==
    \/ Enable
    \/ Disable
    \/ Connected
    \/ Disconnected
    \/ DiscoveryStopped
    \/ \E s \in Services : ServiceFound(s) \/ ServiceLost(s)
    \/ \E i \in DOMAIN flight : Answer(i)

\* The NsdManager answers every request in the end.
NsdFairness == WF_nsdVars(\E i \in DOMAIN flight : Answer(i))

NsdSpec == NsdInit /\ [][NsdNext]_nsdVars /\ NsdFairness

-----------------------------------------------------------------------------

\* A queued resolution always has one under way ahead of it whose answer will
\* start it, across every interleaving of answers with disable and enable: the
\* resolver never waits for an answer that nobody owes it.
NeverStuck ==
    /\ queue # <<>> => pending
    /\ pending => flight # <<>>

\* Unless one is left over from before a disable, the resolver has at most one
\* resolution under way, and knows whether it has.
OneResolution ==
    ~leftover => Len(flight) <= 1 /\ (pending <=> flight # <<>>)

\* A service that waits for its resolution is resolved in the end, or dropped
\* by disable.
EventuallyResolved ==
    \A s \in Services :
        s \in ToSet(queue) ~> (s \in ToSet(flight) \/ queue = <<>>)

=============================================================================
