------------------------- MODULE ForwarderLifecycle -------------------------
(***************************************************************************)
(* The life of the native forwarder: jniStart and jniStop, the objects they *)
(* make and destroy, the thread that runs the global I/O service, and the   *)
(* JNI calls of other threads that come meanwhile.                          *)
(*                                                                         *)
(* Each step reads or writes one global pointer once.  An access through a  *)
(* null pointer or to a freed object may end the process (crashed), and an  *)
(* access to a freed object may also go unnoticed.  NFD is external: it     *)
(* schedules its events from its construction to its destruction.           *)
(***************************************************************************)
EXTENDS Naturals, Sequences

CONSTANTS
    Callers,        \* the other threads that make JNI calls
    MaxStarts       \* bound on the sessions of the daemon

ASSUME LifecycleBound == MaxStarts \in Nat

None == 0

VARIABLES
    state,          \* current of the OpportunisticDaemon
    starts,         \* sessions begun
    main,           \* what the main thread has to do next in jniStart
    nfd, nrd,       \* g_nfd and g_nrd: the session that made the object
    scheduler,      \* g_scheduler: the I/O service it runs on
    ioService,      \* g_ioService, an index in services
    services,       \* the I/O services made
    threads,        \* the thread of each session
    calls,          \* JNI calls under way
    crashed,        \* an access ended the process
    overlapped,     \* history: a session began before the last had ended
    raced           \* history: a call was under way during a clean-up

objects == <<nfd, nrd>>
global  == <<scheduler, ioService, services>>
history == <<overlapped, raced>>
vars    == <<state, starts, main, objects, global, threads, calls, crashed, history>>

Session == 0 .. MaxStarts
IoService == [posted : Nat, stopped : BOOLEAN, freed : BOOLEAN]
Thread == [at : {"BORN", "RUN", "NFD", "NRD", "SCHEDULER", "BOTH", "SERVICE",
                 "BACK", "ENDED"},
           service : Nat]
Idle == [at |-> "IDLE", on |-> "NFD", of |-> None]
Call == [at : {"IDLE", "CHECKED", "INSIDE"}, on : {"NFD", "NRD"}, of : Session]

\* The type of every variable.
LifecycleTypeOK ==
    /\ state \in {"STOPPED", "STARTED"}
    /\ starts \in Session
    /\ main \in {"IDLE", "NFD", "NRD", "INITIALIZE", "THREAD"}
    /\ nfd \in Session /\ nrd \in Session
    /\ services \in Seq(IoService)
    /\ scheduler \in 0 .. Len(services) /\ ioService \in 0 .. Len(services)
    /\ threads \in Seq(Thread)
    /\ calls \in [Callers -> Call]
    /\ crashed \in {"NO", "NULL", "FREED", "SERVICE FREED"}
    /\ overlapped \in BOOLEAN /\ raced \in BOOLEAN

-----------------------------------------------------------------------------
(* Plausible bugs in the definitions below, for checking the properties.   *)

Kept == scheduler
SkippedIndex == IF ioService = None THEN Len(services) + 2 ELSE ioService
NoTimers(i) == FALSE
Unchecked(on) == TRUE
KeepNrd(t) ==
    /\ crashed = "NO" /\ threads[t].at = "NRD"
    /\ threads' = [threads EXCEPT ![t].at = "SCHEDULER"]
    /\ UNCHANGED <<state, starts, main, objects, global, calls, crashed, history>>
KeepService(t) ==
    /\ crashed = "NO" /\ threads[t].at = "SERVICE"
    /\ threads' = [threads EXCEPT ![t].at = "BACK"]
    /\ UNCHANGED <<state, starts, main, objects, global, calls, crashed, history>>

-----------------------------------------------------------------------------
(* The globals.                                                            *)

\* getGlobalIoService(): which service it returns, after making one if need be.
Made == IF ioService = None
        THEN Append(services, [posted |-> 0, stopped |-> FALSE, freed |-> FALSE])
        ELSE services
Current == IF ioService = None THEN Len(services) + 1 ELSE ioService

\* resetGlobalScheduler()
Reset == None

\* What g_ioService.reset() makes of the service.
Freed(s) == [s EXCEPT !.freed = TRUE]

\* getGlobalScheduler()
GetScheduler ==
    IF scheduler # None THEN UNCHANGED global
    ELSE /\ scheduler' = Current /\ ioService' = Current /\ services' = Made

Dangling == scheduler # None /\ services[scheduler].freed

\* The clean-up of an earlier session, or its thread, has not ended.
Lingering == \E t \in DOMAIN threads : threads[t].at # "ENDED"

Cleaning == \E t \in DOMAIN threads : threads[t].at \in {"NFD", "NRD"}

\* Events are scheduled on the service, so that it has work.
HasWork(i) == nfd # None /\ scheduler = i

Fault(kind) ==
    /\ crashed' = kind
    /\ UNCHANGED <<state, starts, main, objects, global, threads, calls, history>>

Init ==
    /\ state = "STOPPED" /\ starts = 0 /\ main = "IDLE"
    /\ nfd = None /\ nrd = None
    /\ scheduler = None /\ ioService = None /\ services = <<>>
    /\ threads = <<>>
    /\ calls = [c \in Callers |-> Idle]
    /\ crashed = "NO"
    /\ overlapped = FALSE /\ raced = FALSE

-----------------------------------------------------------------------------
(* The main thread.                                                        *)

\* onStartCommand() of a daemon that is stopped calls jniStart.
Start ==
    /\ crashed = "NO" /\ main = "IDLE" /\ starts < MaxStarts
    /\ state = "STOPPED" /\ state' = "STARTED"
    /\ starts' = starts + 1
    /\ main' = "NFD"
    /\ overlapped' = (overlapped \/ Lingering)
    /\ UNCHANGED <<objects, global, threads, calls, crashed, raced>>

\* The steps of jniStart.  Each schedules events of its object.
MakeNfd ==
    /\ crashed = "NO" /\ main = "NFD"
    /\ main' = "NRD" /\ nfd' = starts
    /\ GetScheduler
    /\ UNCHANGED <<state, starts, nrd, threads, calls, crashed, history>>

MakeNrd ==
    /\ crashed = "NO" /\ main = "NRD"
    /\ main' = "INITIALIZE" /\ nrd' = starts
    /\ GetScheduler
    /\ UNCHANGED <<state, starts, nfd, threads, calls, crashed, history>>

Initialize ==
    /\ crashed = "NO" /\ main = "INITIALIZE"
    /\ IF nfd = None \/ nrd = None THEN Fault("NULL")
       ELSE /\ main' = "THREAD"
            /\ GetScheduler
            /\ UNCHANGED <<state, starts, objects, threads, calls, crashed, history>>

\* The scheduler may run on a service that was freed.
ScheduleLost ==
    /\ crashed = "NO" /\ main \in {"NFD", "NRD", "INITIALIZE"}
    /\ Dangling
    /\ Fault("SERVICE FREED")

Spawn ==
    /\ crashed = "NO" /\ main = "THREAD"
    /\ main' = "IDLE"
    /\ threads' = Append(threads, [at |-> "BORN", service |-> None])
    /\ UNCHANGED <<state, starts, objects, global, calls, crashed, history>>

\* onDestroy() of a daemon that is started calls jniStop, which posts the
\* clean-up to the I/O service.
Stop ==
    /\ crashed = "NO" /\ main = "IDLE"
    /\ state = "STARTED" /\ state' = "STOPPED"
    /\ services' = [Made EXCEPT ![Current].posted = @ + 1]
    /\ ioService' = Current
    /\ UNCHANGED <<starts, main, objects, scheduler, threads, calls, crashed, history>>

-----------------------------------------------------------------------------
(* The forwarder's threads.                                                *)

Step(t, from, to) ==
    /\ crashed = "NO"
    /\ threads[t].at = from
    /\ threads' = [threads EXCEPT ![t].at = to]
    /\ UNCHANGED <<state, starts, main, calls, crashed, overlapped>>

\* The thread runs the service that is the global one when it begins.
Run(t) ==
    /\ crashed = "NO" /\ threads[t].at = "BORN"
    /\ threads' = [threads EXCEPT ![t] = [at |-> "RUN", service |-> Current]]
    /\ ioService' = Current /\ services' = Made
    /\ UNCHANGED <<state, starts, main, objects, scheduler, calls, crashed, history>>

Mine(t) == threads[t].service

\* run() returns when the service was stopped, or has nothing left to do, which
\* stops it too.
Return(t) ==
    LET i == Mine(t)
    IN  /\ Step(t, "RUN", "ENDED")
        /\ ~services[i].freed
        /\ services[i].stopped \/ (services[i].posted = 0 /\ ~HasWork(i))
        /\ services' = [services EXCEPT ![i].stopped = TRUE]
        /\ UNCHANGED <<objects, scheduler, ioService, raced>>

\* The clean-up that jniStop posted: it stops the global service first.
CleanUp(t) ==
    LET i == Mine(t)
    IN  /\ Step(t, "RUN", "NFD")
        /\ ~services[i].freed /\ ~services[i].stopped /\ services[i].posted > 0
        /\ services' = [Made EXCEPT ![i].posted = @ - 1, ![Current].stopped = TRUE]
        /\ ioService' = Current
        /\ UNCHANGED <<objects, scheduler, raced>>

Caught == raced \/ \E c \in Callers : calls[c].at # "IDLE"

DropNfd(t) ==
    /\ threads[t].at = "NFD"
    /\ IF nfd = None THEN crashed = "NO" /\ Fault("NULL")
       ELSE /\ Step(t, "NFD", "NRD")
            /\ nfd' = None /\ raced' = Caught
            /\ UNCHANGED <<nrd, global>>

DropNrd(t) ==
    /\ Step(t, "NRD", "SCHEDULER")
    /\ nrd' = None /\ raced' = Caught
    /\ UNCHANGED <<nfd, global>>

ResetScheduler(t) ==
    /\ \/ Step(t, "SCHEDULER", "BOTH")
       \/ Step(t, "BOTH", "SERVICE")
    /\ scheduler' = Reset
    /\ UNCHANGED <<objects, ioService, services, raced>>

ResetService(t) ==
    /\ Step(t, "SERVICE", "BACK")
    /\ ioService' = None
    /\ services' = IF ioService = None THEN services
                   ELSE [services EXCEPT ![ioService] = Freed(@)]
    /\ UNCHANGED <<objects, scheduler, raced>>

\* The clean-up returns into run() of its service, or a thread still runs one.
\* If it was freed, what is left of it says that it was stopped.
Resume(t) ==
    LET freed == services[Mine(t)].freed
    IN  /\ crashed = "NO" /\ threads[t].at \in {"BACK", "RUN"}
        /\ threads[t].at = "RUN" => freed
        /\ \/ /\ Step(t, threads[t].at, IF freed THEN "ENDED" ELSE "RUN")
              /\ UNCHANGED <<objects, global, raced>>
           \/ freed /\ Fault("SERVICE FREED")

-----------------------------------------------------------------------------
(* JNI calls of other threads.                                             *)

Object(on) == IF on = "NFD" THEN nfd ELSE nrd

\* if(g_nfd.get() != nullptr), or the same of g_nrd
Checked(on) == Object(on) # None

Enter(c, on) ==
    /\ crashed = "NO" /\ calls[c].at = "IDLE"
    /\ Checked(on)
    /\ calls' = [calls EXCEPT ![c] = [at |-> "CHECKED", on |-> on, of |-> None]]
    /\ raced' = (raced \/ Cleaning)
    /\ UNCHANGED <<state, starts, main, objects, global, threads, crashed, overlapped>>

\* The pointer is read again, and followed.
Follow(c) ==
    LET object == Object(calls[c].on)
    IN  /\ crashed = "NO" /\ calls[c].at = "CHECKED"
        /\ IF object = None THEN Fault("NULL")
           ELSE /\ calls' = [calls EXCEPT ![c].at = "INSIDE", ![c].of = object]
                /\ UNCHANGED <<state, starts, main, objects, global, threads, crashed, history>>

\* The RIB service signs with the KeyChain of the forwarder it was made with.
Alive(on, of) == nfd = of /\ (on = "NRD" => nrd = of)

\* The call ends, and has scheduled events if a packet or a route came with it.
Leave(c) ==
    /\ crashed = "NO" /\ calls[c].at = "INSIDE"
    /\ IF Alive(calls[c].on, calls[c].of)
       THEN GetScheduler \/ UNCHANGED global
       ELSE UNCHANGED global
    /\ calls' = [calls EXCEPT ![c] = Idle]
    /\ UNCHANGED <<state, starts, main, objects, threads, crashed, history>>

Lost(c) ==
    /\ crashed = "NO" /\ calls[c].at = "INSIDE"
    /\ ~Alive(calls[c].on, calls[c].of)
    /\ Fault("FREED")

-----------------------------------------------------------------------------

ThreadStep(t) ==
    /\ t \in DOMAIN threads
    /\ \/ Run(t) \/ Return(t)
       \/ CleanUp(t) \/ DropNfd(t) \/ DropNrd(t)
       \/ ResetScheduler(t) \/ ResetService(t) \/ Resume(t)

Next ==
    \/ Start \/ MakeNfd \/ MakeNrd \/ Initialize \/ ScheduleLost \/ Spawn
    \/ Stop
    \/ \E t \in 1 .. MaxStarts : ThreadStep(t)
    \/ \E c \in Callers : \/ \E on \in {"NFD", "NRD"} : Enter(c, on)
                          \/ Follow(c) \/ Leave(c) \/ Lost(c)

Spec == Init /\ [][Next]_vars

\* The forwarder's thread is scheduled while it can go on.
FairSpec == Spec /\ \A t \in 1 .. MaxStarts : WF_vars(ThreadStep(t))

-----------------------------------------------------------------------------

\* "Starts the NDN Opportunistic Daemon" (OpportunisticDaemon.java:123): a daemon
\* that is started, and was not while its last session lingered, has both its
\* objects and one thread that runs, or will run, the service their events are
\* on.
RunsWhenStarted ==
    crashed = "NO" /\ ~overlapped /\ state = "STARTED" /\ main = "IDLE" =>
        /\ nfd = starts /\ nrd = starts
        /\ scheduler = ioService /\ ioService # None
        /\ ~services[ioService].stopped /\ ~services[ioService].freed
        /\ \A t \in DOMAIN threads :
              IF t < Len(threads) THEN threads[t].at = "ENDED"
              ELSE \/ threads[t].at = "BORN"
                   \/ threads[t].at = "RUN" /\ Mine(t) = ioService

\* Once the threads of a stopped daemon have ended nothing of it is left, so that
\* the next session makes all anew: no object, no scheduler, no I/O service, and
\* no clean-up that would wait for the next session.
CleanWhenStopped ==
    crashed = "NO" /\ ~overlapped /\ state = "STOPPED" /\ ~Lingering =>
        /\ nfd = None /\ nrd = None
        /\ scheduler = None /\ ioService = None
        /\ \A i \in DOMAIN services : services[i].freed /\ services[i].posted = 0

\* The global scheduler runs on the global I/O service, and goes before it: its
\* events are never left on a service that was freed, though any thread makes
\* the scheduler by asking for it.
SchedulerAlive == ~overlapped => scheduler \in {None, ioService} /\ ~Dangling

\* The null checks of the JNI calls suffice for every call that is not under way
\* during a clean-up: no call, nor the clean-up itself, follows a null pointer or
\* uses a forwarder that was destroyed.
CallsSafe == crashed \in {"NULL", "FREED"} => overlapped \/ raced

\* What jniStop posts is carried out: a daemon that is stopped loses its
\* forwarder, as long as the I/O service has work that keeps its thread there.
StopEnds ==
    state = "STOPPED" /\ nfd # None ~> nfd = None \/ overlapped \/ crashed # "NO"

=============================================================================
