-------------------------- MODULE LifecycleProofs --------------------------
(***************************************************************************)
(* Proofs about ForwarderLifecycle for every set of threads that make JNI   *)
(* calls and any number of sessions.                                       *)
(***************************************************************************)
EXTENDS ForwarderLifecycle, SequenceTheorems, TLAPS

\* What is true of a thread or a call whatever the sessions do: a thread that
\* began runs one of the services, and a call inside an object follows a pointer.
Ran ==
    /\ \A t \in DOMAIN threads :
          threads[t].at # "BORN" => threads[t].service \in DOMAIN services
    /\ \A c \in Callers : calls[c].at = "INSIDE" => calls[c].of # None

Types == LifecycleTypeOK /\ Ran

-----------------------------------------------------------------------------
(* The phases of a session, as long as the sessions do not overlap.        *)

Spent(j) == services[j].freed /\ services[j].posted = 0

\* Nothing is left of the sessions.
Nothing ==
    /\ nfd = None /\ nrd = None /\ scheduler = None /\ ioService = None
    /\ \A j \in DOMAIN services : Spent(j)

\* The scheduler runs on the global service, which has so many jobs posted.
Serving(jobs) ==
    /\ ioService # None /\ scheduler = ioService
    /\ services[ioService].posted = jobs
    /\ ~services[ioService].stopped /\ ~services[ioService].freed
    /\ \A j \in DOMAIN services : j # ioService => Spent(j)

\* Only the last thread has not ended, and it is at one of these places.
Last == Len(threads)
Only(places) ==
    /\ threads # <<>> /\ threads[Last].at \in places
    /\ \A t \in DOMAIN threads : t # Last => threads[t].at = "ENDED"

Between ==
    /\ main \in {"IDLE", "NFD"} /\ (state = "STARTED" <=> main = "NFD")
    /\ main = "NFD" => starts # 0
    /\ ~Lingering /\ Nothing

Starting ==
    /\ main \in {"NRD", "INITIALIZE", "THREAD"} /\ state = "STARTED"
    /\ ~Lingering
    /\ starts # 0 /\ nfd = starts
    /\ nrd = IF main = "NRD" THEN None ELSE starts
    /\ Serving(0)

Running ==
    /\ main = "IDLE"
    /\ Only({"BORN", "RUN"})
    /\ threads[Last].at = "RUN" => Mine(Last) = ioService
    /\ starts # 0 /\ nfd = starts /\ nrd = starts
    /\ Serving(IF state = "STARTED" THEN 0 ELSE 1)

\* The clean-up takes away one after the other.
Clearing ==
    /\ main = "IDLE" /\ state = "STOPPED"
    /\ Only({"NFD", "NRD", "SCHEDULER", "BOTH", "SERVICE"})
    /\ LET at == threads[Last].at IN
        /\ at = "NFD" => nfd = starts /\ starts # 0
        /\ at # "NFD" => nfd = None
        /\ at \notin {"NFD", "NRD"} => nrd = None
        /\ scheduler = IF at \in {"NFD", "NRD", "SCHEDULER"} THEN ioService ELSE None
    /\ ioService # None /\ Mine(Last) = ioService
    /\ ~services[ioService].freed /\ services[ioService].posted = 0
    /\ \A j \in DOMAIN services : j # ioService => Spent(j)

Returning ==
    /\ main = "IDLE" /\ state = "STOPPED"
    /\ Only({"BACK"}) /\ Nothing

Phase == Between \/ Starting \/ Running \/ Clearing \/ Returning

\* A call that was not under way during a clean-up finds its object.
CallsSound ==
    \A c \in Callers :
        /\ calls[c].at = "CHECKED" => /\ Object(calls[c].on) # None
                                       /\ Alive(calls[c].on, Object(calls[c].on))
        /\ calls[c].at = "INSIDE" => Alive(calls[c].on, calls[c].of)

Sound == ~overlapped /\ ~raced => CallsSound

IInv == Types /\ (~overlapped => Phase) /\ Sound /\ CallsSafe

-----------------------------------------------------------------------------
(* The sequences of services and threads.                                  *)

LEMMA TypeFacts ==
    ASSUME Types
    PROVE  /\ services \in Seq(IoService) /\ DOMAIN services = 1 .. Len(services)
           /\ Len(services) \in Nat
           /\ \A i \in DOMAIN services : services[i] \in IoService
           /\ threads \in Seq(Thread) /\ DOMAIN threads = 1 .. Len(threads)
           /\ Len(threads) \in Nat
           /\ \A t \in DOMAIN threads : threads[t] \in Thread
           /\ \A c \in Callers : calls[c] \in Call
           /\ None = 0
           /\ ioService # None => ioService \in DOMAIN services
           /\ scheduler # None => scheduler \in DOMAIN services
<1>1. services \in Seq(IoService) /\ threads \in Seq(Thread)
  BY DEF Types, LifecycleTypeOK
<1>2. /\ DOMAIN services = 1 .. Len(services) /\ Len(services) \in Nat
      /\ DOMAIN threads = 1 .. Len(threads) /\ Len(threads) \in Nat
  BY <1>1, LenProperties
<1>3. /\ \A i \in DOMAIN services : services[i] \in IoService
      /\ \A t \in DOMAIN threads : threads[t] \in Thread
  BY <1>1, ElementOfSeq
<1>4. /\ scheduler \in 0 .. Len(services) /\ ioService \in 0 .. Len(services)
      /\ \A c \in Callers : calls[c] \in Call
  BY DEF Types, LifecycleTypeOK
<1> QED BY <1>1, <1>2, <1>3, <1>4 DEF None

\* getGlobalIoService() returns a service, and keeps all there are.
LEMMA MadeFacts ==
    ASSUME Types
    PROVE  /\ Made \in Seq(IoService) /\ DOMAIN Made = 1 .. Len(Made)
           /\ Len(Made) \in Nat
           /\ Current \in DOMAIN Made /\ Current # None
           /\ DOMAIN services \subseteq DOMAIN Made
           /\ \A j \in DOMAIN services : Made[j] = services[j]
           /\ ioService # None => Made = services /\ Current = ioService
           /\ ioService = None =>
                /\ Made[Current] = [posted |-> 0, stopped |-> FALSE, freed |-> FALSE]
                /\ \A j \in DOMAIN Made : j # Current => j \in DOMAIN services
<1> DEFINE new == [posted |-> 0, stopped |-> FALSE, freed |-> FALSE]
<1>1. CASE ioService # None
  BY <1>1, TypeFacts DEF Made, Current
<1>2. CASE ioService = None
  <2>1. Made = Append(services, new) /\ Current = Len(services) + 1
    BY <1>2 DEF Made, Current
  <2>2. new \in IoService
    BY DEF IoService
  <2>3. /\ Made \in Seq(IoService) /\ Len(Made) = Len(services) + 1
        /\ \A j \in 1 .. Len(services) : Made[j] = services[j]
        /\ Made[Len(services) + 1] = new
    BY <2>1, <2>2, TypeFacts, AppendProperties
  <2>4. DOMAIN Made = 1 .. Len(Made) /\ Len(Made) \in Nat
    BY <2>3, LenProperties
  <2> HIDE DEF new
  <2>5. /\ Current \in DOMAIN Made /\ Current # None
        /\ DOMAIN services \subseteq DOMAIN Made
        /\ \A j \in DOMAIN Made : j # Current => j \in DOMAIN services
    BY <2>1, <2>3, <2>4, TypeFacts DEF None
  <2> QED BY <1>2, <2>1, <2>3, <2>4, <2>5, TypeFacts DEF new
<1> QED BY <1>1, <1>2

\* A thread goes on: it keeps its service and the others stay where they are.
LEMMA Moved ==
    ASSUME Types, NEW t \in DOMAIN threads, NEW to,
           [threads[t] EXCEPT !.at = to] \in Thread,
           threads' = [threads EXCEPT ![t].at = to]
    PROVE  /\ threads' \in Seq(Thread) /\ DOMAIN threads' = DOMAIN threads
           /\ Len(threads') = Len(threads)
           /\ threads'[t].at = to /\ threads'[t].service = threads[t].service
           /\ \A u \in DOMAIN threads : u # t => threads'[u] = threads[u]
<1> DEFINE new == [threads[t] EXCEPT !.at = to]
<1>1. threads \in Seq(Thread) /\ threads[t] \in Thread
  BY TypeFacts
<1>2. new.at = to /\ new.service = threads[t].service
  BY <1>1 DEF Thread
<1>3. threads' = [threads EXCEPT ![t] = new]
  BY <1>1
<1> HIDE DEF new
<1>4. /\ threads' \in Seq(Thread) /\ Len(threads') = Len(threads)
      /\ \A u \in 1 .. Len(threads) : u # t => threads'[u] = threads[u]
      /\ threads'[t] = new
  BY <1>1, <1>3, TypeFacts, ExceptSeq DEF new
<1> QED BY <1>2, <1>4, TypeFacts, LenProperties

\* The same for Step, and the types that it takes care of.
LEMMA StepFacts ==
    ASSUME Types, NEW t \in DOMAIN threads, NEW from, NEW to, Step(t, from, to),
           from # "BORN",
           to \in {"RUN", "NFD", "NRD", "SCHEDULER", "BOTH", "SERVICE", "BACK", "ENDED"},
           DOMAIN services \subseteq DOMAIN services'
    PROVE  /\ threads' \in Seq(Thread) /\ DOMAIN threads' = DOMAIN threads
           /\ Len(threads') = Len(threads)
           /\ threads'[t].at = to /\ threads'[t].service = threads[t].service
           /\ \A u \in DOMAIN threads : u # t => threads'[u] = threads[u]
           /\ Mine(t) \in DOMAIN services
           /\ Ran'
<1>1. threads[t] \in Thread
  BY TypeFacts
<1>2. [threads[t] EXCEPT !.at = to] \in Thread
  BY <1>1 DEF Thread
<1>3. threads' = [threads EXCEPT ![t].at = to]
  BY DEF Step
<1>4. /\ threads' \in Seq(Thread) /\ DOMAIN threads' = DOMAIN threads
      /\ Len(threads') = Len(threads)
      /\ threads'[t].at = to /\ threads'[t].service = threads[t].service
      /\ \A u \in DOMAIN threads : u # t => threads'[u] = threads[u]
  BY <1>2, <1>3, Moved
<1>5. Mine(t) \in DOMAIN services
  BY DEF Step, Mine, Types, Ran
<1>6. Ran'
  <2>1. ASSUME NEW u \in DOMAIN threads', threads'[u].at # "BORN"
        PROVE  threads'[u].service \in DOMAIN services'
    <3>1. CASE u = t
      BY <1>4, <1>5, <3>1 DEF Mine
    <3>2. CASE u # t
      BY <1>4, <2>1, <3>2 DEF Types, Ran
    <3> QED BY <3>1, <3>2
  <2>2. calls' = calls
    BY DEF Step
  <2> QED BY <2>1, <2>2 DEF Types, Ran
<1> QED BY <1>4, <1>5, <1>6

-----------------------------------------------------------------------------
(* Types.                                                                  *)

LEMMA TypesInit == Init => Types
<1> SUFFICES ASSUME Init PROVE Types
  OBVIOUS
<1>1. <<>> \in Seq(IoService) /\ <<>> \in Seq(Thread) /\ Len(<<>>) = 0 /\ DOMAIN <<>> = {}
  BY EmptySeq
<1>2. 0 \in Session
  BY LifecycleBound DEF Session
<1>3. calls \in [Callers -> Call]
  BY <1>2 DEF Init, Idle, Call, None
<1>4. LifecycleTypeOK
  <2>1. services \in Seq(IoService) /\ threads \in Seq(Thread) /\ Len(services) = 0
    BY <1>1 DEF Init
  <2>2. scheduler \in 0 .. Len(services) /\ ioService \in 0 .. Len(services)
    BY <2>1 DEF Init, None
  <2>3. starts \in Session /\ nfd \in Session /\ nrd \in Session
    BY <1>2 DEF Init, None
  <2> QED BY <1>3, <2>1, <2>2, <2>3 DEF Init, LifecycleTypeOK
<1>5. Ran
  BY <1>1 DEF Init, Ran, Idle
<1> QED BY <1>4, <1>5 DEF Types

\* Nothing but the services' number matters to the types of the threads.
LEMMA RanKept ==
    ASSUME Types, UNCHANGED threads, DOMAIN services \subseteq DOMAIN services',
           UNCHANGED calls
    PROVE  Ran'
BY DEF Types, Ran

LEMMA GetSchedulerTypes ==
    ASSUME Types, GetScheduler
    PROVE  /\ services' \in Seq(IoService)
           /\ scheduler' \in 0 .. Len(services') /\ ioService' \in 0 .. Len(services')
           /\ DOMAIN services \subseteq DOMAIN services'
<1>1. CASE scheduler # None
  BY <1>1 DEF GetScheduler, global, Types, LifecycleTypeOK
<1>2. CASE scheduler = None
  BY <1>2, MadeFacts DEF GetScheduler
<1> QED BY <1>1, <1>2

LEMMA FaultTypes ==
    ASSUME Types, NEW kind \in {"NULL", "FREED", "SERVICE FREED"}, Fault(kind)
    PROVE  Types'
BY DEF Fault, Types, LifecycleTypeOK, Ran, objects, global, history

\* The main thread.
LEMMA TypesMain ==
    ASSUME Types,
           Start \/ MakeNfd \/ MakeNrd \/ Initialize \/ ScheduleLost \/ Spawn \/ Stop
    PROVE  Types'
<1>1. CASE Start
  <2>1. starts' \in Session
    BY <1>1, LifecycleBound DEF Start, Types, LifecycleTypeOK, Session
  <2>2. LifecycleTypeOK'
    BY <1>1, <2>1 DEF Start, Types, LifecycleTypeOK, objects, global
  <2> QED BY <1>1, <2>2, RanKept DEF Start, Types, global
<1>2. CASE MakeNfd \/ MakeNrd
  <2>1. LifecycleTypeOK'
    BY <1>2, GetSchedulerTypes
       DEF MakeNfd, MakeNrd, Types, LifecycleTypeOK, history
  <2> QED BY <1>2, <2>1, RanKept, GetSchedulerTypes DEF MakeNfd, MakeNrd, Types
<1>3. CASE Initialize
  <2>1. CASE nfd = None \/ nrd = None
    BY <1>3, <2>1, FaultTypes DEF Initialize
  <2>2. CASE ~(nfd = None \/ nrd = None)
    <3>1. LifecycleTypeOK'
      BY <1>3, <2>2, GetSchedulerTypes
         DEF Initialize, Types, LifecycleTypeOK, objects, history
    <3> QED BY <1>3, <2>2, <3>1, RanKept, GetSchedulerTypes DEF Initialize, Types
  <2> QED BY <2>1, <2>2
<1>4. CASE ScheduleLost
  BY <1>4, FaultTypes DEF ScheduleLost
<1>5. CASE Spawn
  <2> DEFINE new == [at |-> "BORN", service |-> None]
  <2>1. new \in Thread
    BY DEF Thread, None
  <2>2. threads' = Append(threads, new)
    BY <1>5 DEF Spawn
  <2>3. /\ threads' \in Seq(Thread) /\ Len(threads') = Len(threads) + 1
        /\ \A t \in 1 .. Len(threads) : threads'[t] = threads[t]
        /\ threads'[Len(threads) + 1] = new
    BY <2>1, <2>2, TypeFacts, AppendProperties
  <2>4. DOMAIN threads' = 1 .. Len(threads')
    BY <2>3, LenProperties
  <2>5. new.at = "BORN"
    OBVIOUS
  <2> HIDE DEF new
  <2>6. \A t \in DOMAIN threads' :
            (t \in DOMAIN threads /\ threads'[t] = threads[t]) \/ threads'[t] = new
    BY <2>3, <2>4, TypeFacts
  <2>7. Ran'
    BY <1>5, <2>5, <2>6 DEF Spawn, Types, Ran, global
  <2>8. LifecycleTypeOK'
    BY <1>5, <2>3 DEF Spawn, Types, LifecycleTypeOK, objects, global, history
  <2> QED BY <2>7, <2>8 DEF Types
<1>6. CASE Stop
  <2>1. Made[Current] \in IoService
    BY MadeFacts, ElementOfSeq
  <2>2. [Made[Current] EXCEPT !.posted = @ + 1] \in IoService
    BY <2>1 DEF IoService
  <2>3. services' = [Made EXCEPT ![Current] = [Made[Current] EXCEPT !.posted = @ + 1]]
    BY <1>6, <2>1 DEF Stop, IoService
  <2>4. services' \in Seq(IoService) /\ Len(services') = Len(Made)
    BY <2>2, <2>3, MadeFacts, ExceptSeq
  <2>5. DOMAIN services' = DOMAIN Made
    BY <2>3
  <2>6. LifecycleTypeOK'
    <3>1. /\ scheduler' \in 0 .. Len(services') /\ ioService' \in 0 .. Len(services')
      BY <1>6, <2>4, MadeFacts, TypeFacts DEF Stop
    <3> QED BY <1>6, <2>4, <3>1 DEF Stop, Types, LifecycleTypeOK, objects, history
  <2> QED BY <1>6, <2>5, <2>6, MadeFacts, RanKept DEF Stop, Types
<1> QED BY <1>1, <1>2, <1>3, <1>4, <1>5, <1>6

\* The forwarder's threads.
LEMMA TypesRun ==
    ASSUME Types, NEW t \in DOMAIN threads, Run(t)
    PROVE  /\ Types' /\ Len(threads') = Len(threads) /\ DOMAIN threads' = DOMAIN threads
           /\ threads'[t] = [at |-> "RUN", service |-> Current]
           /\ \A u \in DOMAIN threads : u # t => threads'[u] = threads[u]
<1> DEFINE new == [at |-> "RUN", service |-> Current]
<1>1. new \in Thread
  BY MadeFacts DEF Thread
<1>2. new.at = "RUN" /\ new.service = Current
  OBVIOUS
<1>3. threads' = [threads EXCEPT ![t] = new]
  BY DEF Run
<1> HIDE DEF new
<1>4. /\ threads' \in Seq(Thread) /\ Len(threads') = Len(threads)
      /\ \A u \in DOMAIN threads : u # t => threads'[u] = threads[u]
      /\ threads'[t] = new /\ DOMAIN threads' = DOMAIN threads
  BY <1>1, <1>3, TypeFacts, ExceptSeq
<1>5. Ran'
  BY <1>2, <1>4, MadeFacts DEF Run, Types, Ran
<1>6. LifecycleTypeOK'
  <2>1. scheduler' \in 0 .. Len(services') /\ ioService' \in 0 .. Len(services')
    BY MadeFacts, TypeFacts DEF Run
  <2> QED BY <1>4, <2>1, MadeFacts DEF Run, Types, LifecycleTypeOK, objects, history
<1> QED BY <1>4, <1>5, <1>6 DEF Types, new

\* run() returns, or runs the clean-up: what it does to the services.
LEMMA ServiceChanged ==
    ASSUME Types, NEW t \in DOMAIN threads, threads[t].at = "RUN"
    PROVE  /\ Mine(t) \in DOMAIN services
           /\ Return(t) => /\ services' \in Seq(IoService)
                           /\ DOMAIN services' = DOMAIN services
                           /\ Len(services') = Len(services)
           /\ CleanUp(t) => /\ services' \in Seq(IoService)
                            /\ DOMAIN services' = DOMAIN Made
                            /\ Len(services') = Len(Made)
<1> DEFINE i == Mine(t)
<1>1. i \in DOMAIN services
  BY DEF Types, Ran, Mine
<1>2. services[i] \in IoService /\ Made[i] = services[i] /\ i \in DOMAIN Made
  BY <1>1, TypeFacts, MadeFacts
<1> HIDE DEF i
<1>3. ASSUME Return(t)
      PROVE  /\ services' \in Seq(IoService)
             /\ DOMAIN services' = DOMAIN services
             /\ Len(services') = Len(services)
  <2> DEFINE s == [services[i] EXCEPT !.stopped = TRUE]
  <2>1. s \in IoService
    BY <1>2 DEF IoService
  <2>2. services' = [services EXCEPT ![i] = s]
    BY <1>2, <1>3 DEF Return, i, IoService
  <2> HIDE DEF s
  <2>3. services' \in Seq(IoService) /\ Len(services') = Len(services)
    BY <1>1, <2>1, <2>2, TypeFacts, ExceptSeq
  <2> QED BY <2>2, <2>3
<1>4. ASSUME CleanUp(t)
      PROVE  /\ services' \in Seq(IoService)
             /\ DOMAIN services' = DOMAIN Made
             /\ Len(services') = Len(Made)
  <2> DEFINE s == [Made[i] EXCEPT !.posted = @ - 1]
             once == [Made EXCEPT ![i] = s]
             u == [once[Current] EXCEPT !.stopped = TRUE]
  <2>1. s \in IoService
    <3>1. services[i].posted \in Nat /\ services[i].posted > 0
      BY <1>2, <1>4 DEF CleanUp, i, IoService
    <3>2. services[i].posted - 1 \in Nat
      BY <3>1
    <3> QED BY <1>2, <3>2 DEF IoService
  <2>2. once \in Seq(IoService) /\ Len(once) = Len(Made) /\ DOMAIN once = DOMAIN Made
    <3> HIDE DEF s
    <3> QED BY <1>2, <2>1, MadeFacts, ExceptSeq
  <2>3. once[Current] \in IoService /\ Current \in DOMAIN once
    BY <2>2, MadeFacts, ElementOfSeq
  <2>4. services' = [once EXCEPT ![Current] = u]
    BY <1>2, <1>4, <2>3, MadeFacts DEF CleanUp, i, IoService
  <2> HIDE DEF once
  <2>5. u \in IoService
    BY <2>3 DEF IoService
  <2> HIDE DEF u
  <2>6. services' \in Seq(IoService) /\ Len(services') = Len(once)
    BY <2>2, <2>3, <2>4, <2>5, ExceptSeq
  <2>7. DOMAIN services' = DOMAIN once
    BY <2>4
  <2> QED BY <2>2, <2>6, <2>7
<1> QED BY <1>1, <1>3, <1>4 DEF i

LEMMA TypesThread ==
    ASSUME Types, NEW t \in DOMAIN threads, ThreadStep(t)
    PROVE  Types'
<1>1. CASE Run(t)
  BY <1>1, TypesRun
<1>2. CASE Return(t)
  <2>1. /\ services' \in Seq(IoService) /\ DOMAIN services' = DOMAIN services
        /\ Len(services') = Len(services)
    BY <1>2, ServiceChanged DEF Return, Step
  <2>2. threads' \in Seq(Thread) /\ Ran'
    BY <1>2, <2>1, StepFacts DEF Return
  <2> QED BY <1>2, <2>1, <2>2 DEF Return, Step, Types, LifecycleTypeOK, objects, history
<1>3. CASE CleanUp(t)
  <2>1. /\ services' \in Seq(IoService) /\ DOMAIN services' = DOMAIN Made
        /\ Len(services') = Len(Made)
    BY <1>3, ServiceChanged DEF CleanUp, Step
  <2>2. threads' \in Seq(Thread) /\ Ran'
    BY <1>3, <2>1, StepFacts, MadeFacts DEF CleanUp
  <2>3. scheduler' \in 0 .. Len(services') /\ ioService' \in 0 .. Len(services')
    BY <1>3, <2>1, MadeFacts, TypeFacts DEF CleanUp
  <2> QED BY <1>3, <2>1, <2>2, <2>3 DEF CleanUp, Step, Types, LifecycleTypeOK, objects
<1>4. CASE DropNfd(t) \/ DropNrd(t)
  <2>1. CASE Fault("NULL")
    BY <2>1, FaultTypes
  <2>2. CASE ~Fault("NULL")
    <3>1. UNCHANGED global /\ raced' = Caught /\ None \in Session
      BY <1>4, <2>2, LifecycleBound DEF DropNfd, DropNrd, Session, None
    <3>2. threads' \in Seq(Thread) /\ Ran'
      BY <1>4, <2>2, <3>1, StepFacts DEF DropNfd, DropNrd, global
    <3>3. Caught \in BOOLEAN
      BY DEF Caught, Types, LifecycleTypeOK
    <3> QED BY <1>4, <2>2, <3>1, <3>2, <3>3
            DEF DropNfd, DropNrd, Step, Types, LifecycleTypeOK, global
  <2> QED BY <2>1, <2>2
<1>5. CASE ResetScheduler(t)
  <2>1. threads' \in Seq(Thread) /\ Ran'
    BY <1>5, StepFacts DEF ResetScheduler
  <2>2. None \in 0 .. Len(services)
    BY TypeFacts
  <2>3. UNCHANGED <<state, starts, main, objects, ioService, services, calls, crashed,
                    history>> /\ scheduler' = None
    BY <1>5 DEF ResetScheduler, Step, Reset, history
  <2> QED BY <2>1, <2>2, <2>3 DEF Types, LifecycleTypeOK, objects, history
<1>6. CASE ResetService(t)
  <2>1. services' \in Seq(IoService) /\ Len(services') = Len(services)
    <3>1. CASE ioService = None
      BY <1>6, <3>1, TypeFacts DEF ResetService
    <3>2. CASE ioService # None
      <4>1. ioService \in DOMAIN services /\ services[ioService] \in IoService
        BY <3>2, TypeFacts
      <4>2. Freed(services[ioService]) \in IoService
        BY <4>1 DEF Freed, IoService
      <4>3. services' = [services EXCEPT ![ioService] = Freed(services[ioService])]
        BY <1>6, <3>2, <4>1 DEF ResetService
      <4> QED BY <4>1, <4>2, <4>3, TypeFacts, ExceptSeq
    <3> QED BY <3>1, <3>2
  <2>2. threads' \in Seq(Thread) /\ Ran'
    BY <1>6, <2>1, StepFacts, LenProperties DEF ResetService
  <2> QED BY <1>6, <2>1, <2>2, TypeFacts
          DEF ResetService, Step, Types, LifecycleTypeOK, objects, history, None
<1>7. CASE Resume(t)
  <2>1. CASE \E kind \in {"SERVICE FREED"} : Fault(kind)
    BY <2>1, FaultTypes
  <2>2. CASE /\ \E to \in {"ENDED", "RUN"} : Step(t, threads[t].at, to)
             /\ UNCHANGED <<objects, global, raced>>
    <3>1. threads' \in Seq(Thread) /\ Ran'
      BY <1>7, <2>2, StepFacts DEF Resume, global
    <3> QED BY <1>7, <2>2, <3>1
            DEF Resume, Step, Types, LifecycleTypeOK, objects, global
  <2> QED BY <1>7, <2>1, <2>2 DEF Resume
<1> QED BY <1>1, <1>2, <1>3, <1>4, <1>5, <1>6, <1>7 DEF ThreadStep

\* The calls of other threads.
LEMMA TypesCall ==
    ASSUME Types, NEW c \in Callers,
           \/ \E on \in {"NFD", "NRD"} : Enter(c, on)
           \/ Follow(c) \/ Leave(c) \/ Lost(c)
    PROVE  Types'
<1>1. calls \in [Callers -> Call] /\ calls[c] \in Call
  BY DEF Types, LifecycleTypeOK
<1>2. ASSUME NEW on \in {"NFD", "NRD"}, Enter(c, on) PROVE Types'
  <2> DEFINE new == [at |-> "CHECKED", on |-> on, of |-> None]
  <2>1. new \in Call
    BY LifecycleBound DEF Call, Session, None
  <2>2. calls' \in [Callers -> Call]
    BY <1>1, <1>2, <2>1 DEF Enter
  <2>3. raced' \in BOOLEAN
    BY <1>2 DEF Enter, Cleaning, Types, LifecycleTypeOK
  <2>4. Ran'
    BY <1>1, <1>2 DEF Enter, Types, Ran, global
  <2> QED BY <1>2, <2>2, <2>3, <2>4
          DEF Enter, Types, LifecycleTypeOK, objects, global
<1>3. CASE Follow(c)
  <2>1. CASE Object(calls[c].on) = None
    BY <1>3, <2>1, FaultTypes DEF Follow
  <2>2. CASE Object(calls[c].on) # None
    <3> DEFINE new == [calls[c] EXCEPT !.at = "INSIDE", !.of = Object(calls[c].on)]
    <3>1. Object(calls[c].on) \in Session
      BY DEF Object, Types, LifecycleTypeOK
    <3>2. new \in Call /\ new.of # None
      BY <1>1, <2>2, <3>1 DEF Call
    <3>3. calls' = [calls EXCEPT ![c] = new]
      BY <1>1, <1>3, <2>2 DEF Follow, Call
    <3> HIDE DEF new
    <3>4. calls' \in [Callers -> Call]
      BY <1>1, <3>2, <3>3
    <3>5. Ran'
      BY <1>1, <1>3, <2>2, <3>2, <3>3 DEF Follow, Types, Ran, global
    <3> QED BY <1>3, <2>2, <3>4, <3>5
            DEF Follow, Types, LifecycleTypeOK, objects, global, history
  <2> QED BY <2>1, <2>2
<1>4. CASE Leave(c)
  <2>1. Idle \in Call
    BY LifecycleBound DEF Idle, Call, Session, None
  <2>2. calls' \in [Callers -> Call]
    BY <1>1, <1>4, <2>1 DEF Leave
  <2>3. /\ services' \in Seq(IoService) /\ DOMAIN services \subseteq DOMAIN services'
        /\ scheduler' \in 0 .. Len(services') /\ ioService' \in 0 .. Len(services')
    BY <1>4, GetSchedulerTypes DEF Leave, Types, LifecycleTypeOK, global
  <2>4. Ran'
    BY <1>1, <1>4, <2>3 DEF Leave, Types, Ran, Idle
  <2> QED BY <1>4, <2>2, <2>3, <2>4
          DEF Leave, Types, LifecycleTypeOK, objects, history
<1>5. CASE Lost(c)
  BY <1>5, FaultTypes DEF Lost
<1> QED BY <1>2, <1>3, <1>4, <1>5

LEMMA TypesNext == Types /\ [Next]_vars => Types'
<1> SUFFICES ASSUME Types, [Next]_vars PROVE Types'
  OBVIOUS
<1>1. CASE Start \/ MakeNfd \/ MakeNrd \/ Initialize \/ ScheduleLost \/ Spawn \/ Stop
  BY <1>1, TypesMain
<1>2. CASE \E t \in 1 .. MaxStarts : ThreadStep(t)
  BY <1>2, TypesThread DEF ThreadStep
<1>3. CASE \E c \in Callers : \/ \E on \in {"NFD", "NRD"} : Enter(c, on)
                              \/ Follow(c) \/ Leave(c) \/ Lost(c)
  BY <1>3, TypesCall
<1>4. CASE UNCHANGED vars
  BY <1>4 DEF Types, LifecycleTypeOK, Ran, vars, objects, global, history
<1> QED BY <1>1, <1>2, <1>3, <1>4 DEF Next

-----------------------------------------------------------------------------
(* From one phase to the next.                                             *)

LEMMA OnlyFacts ==
    ASSUME Types, NEW places, Only(places)
    PROVE  /\ Last \in DOMAIN threads /\ threads[Last].at \in places
           /\ \A t \in DOMAIN threads : t # Last => threads[t].at = "ENDED"
           /\ "ENDED" \notin places => Lingering
<1>1. Len(threads) # 0
  BY TypeFacts, EmptySeq DEF Only
<1>2. Last \in DOMAIN threads
  BY <1>1, TypeFacts DEF Last
<1> QED BY <1>2 DEF Only, Lingering

LEMMA PhaseStays ==
    ASSUME Phase, UNCHANGED <<state, starts, main, objects, global, threads>>
    PROVE  Phase'
BY DEF Phase, Between, Starting, Running, Clearing, Returning, Nothing, Serving, Spent,
       Only, Last, Lingering, Mine, objects, global

LEMMA FaultStays ==
    ASSUME Phase, NEW kind, Fault(kind)
    PROVE  Phase'
BY PhaseStays DEF Fault

\* While there is a forwarder there is a scheduler.
LEMMA Scheduling ==
    ASSUME Phase, nfd # None
    PROVE  scheduler # None
BY DEF Phase, Between, Starting, Running, Clearing, Returning, Nothing, Serving

LEMMA PhaseMain ==
    ASSUME Types, Phase, ~overlapped',
           Start \/ MakeNfd \/ MakeNrd \/ Initialize \/ ScheduleLost \/ Spawn \/ Stop
    PROVE  Phase'
<1>1. CASE Start
  <2>1. ~Lingering
    BY <1>1 DEF Start
  <2>2. Between
    BY <1>1, <2>1, OnlyFacts DEF Start, Phase, Starting, Running, Clearing, Returning
  <2>3. starts' # 0
    BY <1>1, LifecycleBound DEF Start, Types, LifecycleTypeOK, Session
  <2>4. Between'
    BY <1>1, <2>2, <2>3 DEF Start, Between, Nothing, Spent, Lingering, objects, global
  <2> QED BY <2>4 DEF Phase
<1>2. CASE MakeNfd
  <2>1. Between
    BY <1>2 DEF MakeNfd, Phase, Starting, Running, Clearing, Returning
  <2>2. scheduler' = Current /\ ioService' = Current /\ services' = Made
    BY <1>2, <2>1 DEF MakeNfd, Between, Nothing, GetScheduler
  <2>3. ioService = None
    BY <2>1 DEF Between, Nothing
  <2>4. Serving(0)'
    BY <2>1, <2>2, <2>3, MadeFacts DEF Serving, Between, Nothing, Spent
  <2>5. Starting'
    BY <1>2, <2>1, <2>4 DEF MakeNfd, Starting, Between, Nothing, Lingering
  <2> QED BY <2>5 DEF Phase
<1>3. CASE MakeNrd \/ Initialize
  <2>1. Starting
    BY <1>3 DEF MakeNrd, Initialize, Phase, Between, Running, Clearing, Returning
  <2>2. scheduler # None /\ nfd # None /\ (main = "INITIALIZE" => nrd # None)
    BY <2>1 DEF Starting, Serving, None
  <2>3. UNCHANGED global
    BY <1>3, <2>2 DEF MakeNrd, Initialize, GetScheduler
  <2>4. Starting'
    BY <1>3, <2>1, <2>2, <2>3
       DEF MakeNrd, Initialize, Starting, Serving, Spent, Lingering, objects, global
  <2> QED BY <2>4 DEF Phase
<1>4. CASE ScheduleLost
  BY <1>4, FaultStays DEF ScheduleLost
<1>5. CASE Spawn
  <2>1. Starting /\ main = "THREAD"
    BY <1>5 DEF Spawn, Phase, Between, Running, Clearing, Returning
  <2> DEFINE new == [at |-> "BORN", service |-> None]
  <2>2. new \in Thread
    BY DEF Thread, None
  <2>3. threads' = Append(threads, new)
    BY <1>5 DEF Spawn
  <2>4. /\ threads' \in Seq(Thread) /\ Len(threads') = Len(threads) + 1
        /\ \A t \in 1 .. Len(threads) : threads'[t] = threads[t]
        /\ threads'[Len(threads) + 1] = new
    BY <2>2, <2>3, TypeFacts, AppendProperties
  <2>5. new.at = "BORN"
    OBVIOUS
  <2> HIDE DEF new
  <2>6. threads' # <<>> /\ DOMAIN threads' = 1 .. Len(threads) + 1
    BY <2>4, TypeFacts, EmptySeq, LenProperties
  <2>7. Only({"BORN", "RUN"})' /\ threads'[Last'].at = "BORN"
    BY <2>1, <2>4, <2>5, <2>6, TypeFacts DEF Only, Last, Starting, Lingering
  <2>8. Serving(0)' /\ Serving(0)
    BY <1>5, <2>1 DEF Spawn, Starting, Serving, Spent, global
  <2>9. /\ main' = "IDLE" /\ state' = "STARTED"
        /\ starts' # 0 /\ nfd' = starts' /\ nrd' = starts'
    BY <1>5, <2>1 DEF Spawn, Starting, objects
  <2>10. Running'
    BY <2>7, <2>8, <2>9 DEF Running
  <2> QED BY <2>10 DEF Phase
<1>6. CASE Stop
  <2>1. Running
    BY <1>6 DEF Stop, Phase, Between, Starting, Clearing, Returning
  <2>2. /\ ioService # None /\ scheduler = ioService /\ Serving(0)
        /\ services[ioService].posted = 0
    BY <1>6, <2>1 DEF Stop, Running, Serving
  <2>3. services' = [services EXCEPT ![ioService].posted = @ + 1] /\ ioService' = ioService
    BY <1>6, <2>2, MadeFacts DEF Stop
  <2>4. ioService \in DOMAIN services /\ services[ioService] \in IoService
    BY <2>2, TypeFacts
  <2>5. /\ DOMAIN services' = DOMAIN services
        /\ services'[ioService].posted = 1
        /\ services'[ioService].stopped = services[ioService].stopped
        /\ services'[ioService].freed = services[ioService].freed
        /\ \A j \in DOMAIN services : j # ioService => services'[j] = services[j]
    BY <2>2, <2>3, <2>4 DEF IoService
  <2>6. Serving(1)'
    BY <1>6, <2>2, <2>3, <2>4, <2>5 DEF Stop, Serving, Spent
  <2>7. Running'
    BY <1>6, <2>1, <2>3, <2>6 DEF Stop, Running, Only, Last, Mine, objects
  <2> QED BY <2>7 DEF Phase
<1> QED BY <1>1, <1>2, <1>3, <1>4, <1>5, <1>6

LEMMA PhaseRun ==
    ASSUME Types, Types', Running, NEW t \in DOMAIN threads, ThreadStep(t)
    PROVE  Phase'
<1>1. /\ Last \in DOMAIN threads /\ threads[Last].at \in {"BORN", "RUN"}
      /\ \A u \in DOMAIN threads : u # Last => threads[u].at = "ENDED"
  BY OnlyFacts DEF Running
<1>2. t = Last
  <2>1. threads[t].at # "ENDED"
    BY DEF ThreadStep, Run, Return, CleanUp, DropNfd, DropNrd, ResetScheduler,
           ResetService, Resume, Step, Fault
  <2> QED BY <1>1, <2>1
<1>3. /\ ioService # None /\ scheduler = ioService /\ ioService \in DOMAIN services
      /\ services[ioService].stopped = FALSE /\ services[ioService].freed = FALSE
      /\ services[ioService].posted = IF state = "STARTED" THEN 0 ELSE 1
      /\ Made = services /\ Current = ioService
      /\ \A j \in DOMAIN services : j # ioService => Spent(j)
  BY TypeFacts, MadeFacts DEF Running, Serving
<1>4. nfd # None
  BY DEF Running, None
<1>5. CASE Run(t)
  <2>1. /\ Len(threads') = Len(threads) /\ DOMAIN threads' = DOMAIN threads
        /\ threads'[t] = [at |-> "RUN", service |-> ioService]
        /\ \A u \in DOMAIN threads : u # t => threads'[u] = threads[u]
    BY <1>3, <1>5, TypesRun
  <2>2. UNCHANGED <<state, starts, main, objects, global>>
    BY <1>3, <1>5 DEF Run, global
  <2>3. threads' # <<>>
    BY <1>1, <2>1
  <2>4. Only({"BORN", "RUN"})' /\ Mine(Last)' = ioService'
    BY <1>1, <1>2, <2>1, <2>2, <2>3 DEF Only, Last, Mine, global
  <2>5. Running'
    BY <2>2, <2>4 DEF Running, Serving, Spent, objects, global
  <2> QED BY <2>5 DEF Phase
<1>6. ASSUME threads[t].at = "RUN" PROVE Mine(t) = ioService
  BY <1>2, <1>6 DEF Running
<1>7. ~Return(t)
  <2> SUFFICES ASSUME Return(t) PROVE FALSE
    OBVIOUS
  <2>1. Mine(t) = ioService
    BY <1>6 DEF Return, Step
  <2> QED BY <1>3, <1>4, <2>1 DEF Return, HasWork
<1>8. CASE CleanUp(t)
  <2>1. Mine(t) = ioService
    BY <1>6, <1>8 DEF CleanUp, Step
  <2>2. services[ioService].posted > 0 /\ Step(t, "RUN", "NFD")
    BY <1>8, <2>1 DEF CleanUp
  <2>3. state = "STOPPED" /\ services[ioService].posted = 1
    <3>1. state # "STARTED"
      BY <1>3, <2>2
    <3> QED BY <1>3, <3>1 DEF Types, LifecycleTypeOK
  <2>4. /\ services' = [services EXCEPT ![ioService].posted = @ - 1,
                                        ![ioService].stopped = TRUE]
        /\ ioService' = ioService
    BY <1>3, <1>8, <2>1 DEF CleanUp
  <2>5. services[ioService] \in IoService
    BY <1>3, TypeFacts
  <2>6. /\ DOMAIN services' = DOMAIN services
        /\ services'[ioService].posted = 0 /\ services'[ioService].freed = FALSE
        /\ \A j \in DOMAIN services : j # ioService => services'[j] = services[j]
    BY <1>3, <2>3, <2>4, <2>5 DEF IoService
  <2>7. /\ threads' \in Seq(Thread) /\ DOMAIN threads' = DOMAIN threads
        /\ Len(threads') = Len(threads)
        /\ threads'[t].at = "NFD" /\ threads'[t].service = threads[t].service
        /\ \A u \in DOMAIN threads : u # t => threads'[u] = threads[u]
    BY <2>2, <2>6, StepFacts
  <2>8. threads' # <<>>
    BY <1>1, <2>7
  <2>9. Only({"NFD", "NRD", "SCHEDULER", "BOTH", "SERVICE"})' /\ Mine(Last)' = ioService
        /\ threads'[Last'].at = "NFD"
    BY <1>1, <1>2, <2>1, <2>7, <2>8 DEF Only, Last, Mine
  <2>10. /\ main' = "IDLE" /\ state' = "STOPPED" /\ nfd' = starts' /\ starts' # 0
         /\ scheduler' = ioService
    BY <1>3, <1>8, <2>3 DEF CleanUp, Step, Running, objects
  <2>11. Clearing'
    BY <1>3, <2>4, <2>6, <2>9, <2>10 DEF Clearing, Spent
  <2> QED BY <2>11 DEF Phase
<1>9. ~Resume(t)
  <2> SUFFICES ASSUME Resume(t) PROVE FALSE
    OBVIOUS
  <2>1. threads[t].at = "RUN"
    BY <1>1, <1>2 DEF Resume
  <2> QED BY <1>3, <1>6, <2>1 DEF Resume
<1> QED BY <1>1, <1>2, <1>5, <1>7, <1>8, <1>9
        DEF ThreadStep, DropNfd, DropNrd, ResetScheduler, ResetService, Step, Fault

LEMMA PhaseClear ==
    ASSUME Types, Types', Clearing, NEW t \in DOMAIN threads, ThreadStep(t)
    PROVE  Phase'
<1> DEFINE Places == {"NFD", "NRD", "SCHEDULER", "BOTH", "SERVICE"}
<1>1. /\ Last \in DOMAIN threads /\ threads[Last].at \in Places
      /\ \A u \in DOMAIN threads : u # Last => threads[u].at = "ENDED"
  BY OnlyFacts DEF Clearing
<1>2. t = Last
  <2>1. threads[t].at # "ENDED"
    BY DEF ThreadStep, Run, Return, CleanUp, DropNfd, DropNrd, ResetScheduler,
           ResetService, Resume, Step, Fault
  <2> QED BY <1>1, <2>1
<1>3. /\ ioService # None /\ ioService \in DOMAIN services
      /\ services[ioService] \in IoService
  BY TypeFacts DEF Clearing
<1>4. ASSUME NEW from, NEW to \in Places \cup {"BACK"}, Step(t, from, to), from # "BORN",
             DOMAIN services \subseteq DOMAIN services'
      PROVE  /\ Only({to})' /\ threads'[Last'].at = to
             /\ Mine(Last)' = Mine(Last) /\ threads[Last].at = from
             /\ main' = "IDLE" /\ state' = "STOPPED" /\ starts' = starts
  <2>1. /\ threads' \in Seq(Thread) /\ DOMAIN threads' = DOMAIN threads
        /\ Len(threads') = Len(threads)
        /\ threads'[t].at = to /\ threads'[t].service = threads[t].service
        /\ \A u \in DOMAIN threads : u # t => threads'[u] = threads[u]
    BY <1>4, StepFacts
  <2>2. threads' # <<>>
    BY <1>1, <2>1
  <2> QED BY <1>1, <1>2, <1>4, <2>1, <2>2 DEF Only, Last, Mine, Step, Clearing
<1>5. ASSUME NEW from \in Places, NEW to \in Places, Step(t, from, to),
             UNCHANGED <<ioService, services>>,
             /\ to = "NFD" => nfd' = starts' /\ starts' # 0
             /\ to # "NFD" => nfd' = None
             /\ to \notin {"NFD", "NRD"} => nrd' = None
             /\ scheduler' = IF to \in {"NFD", "NRD", "SCHEDULER"} THEN ioService ELSE None
      PROVE  Phase'
  <2>1. /\ Only({to})' /\ threads'[Last'].at = to
        /\ Mine(Last)' = Mine(Last) /\ threads[Last].at = from
        /\ main' = "IDLE" /\ state' = "STOPPED" /\ starts' = starts
    BY <1>4, <1>5
  <2>2. Only(Places)'
    BY <2>1 DEF Only
  <2>3. Clearing'
    BY <1>5, <2>1, <2>2 DEF Clearing, Spent
  <2> QED BY <2>3 DEF Phase
<1>6. CASE DropNfd(t)
  <2>1. threads[Last].at = "NFD" /\ nfd # None /\ scheduler = ioService
    BY <1>2, <1>6 DEF DropNfd, Clearing, None
  <2>2. /\ Step(t, "NFD", "NRD") /\ nfd' = None /\ UNCHANGED <<scheduler, ioService, services>>
    BY <1>6, <2>1 DEF DropNfd, global
  <2> QED BY <1>5, <2>1, <2>2
<1>7. CASE DropNrd(t)
  <2>1. /\ Step(t, "NRD", "SCHEDULER") /\ nrd' = None /\ nfd' = nfd
        /\ UNCHANGED <<scheduler, ioService, services>>
    BY <1>7 DEF DropNrd, global
  <2>2. threads[Last].at = "NRD"
    BY <1>2, <2>1 DEF Step
  <2>3. nfd = None /\ scheduler = ioService
    BY <2>2 DEF Clearing
  <2> QED BY <1>5, <2>1, <2>3
<1>8. CASE ResetScheduler(t)
  <2>1. /\ scheduler' = None /\ nfd' = nfd /\ nrd' = nrd /\ UNCHANGED <<ioService, services>>
        /\ Step(t, "SCHEDULER", "BOTH") \/ Step(t, "BOTH", "SERVICE")
    BY <1>8 DEF ResetScheduler, Reset, objects
  <2>2. threads[Last].at \in {"SCHEDULER", "BOTH"}
    BY <1>2, <2>1 DEF Step
  <2>3. nfd = None /\ nrd = None
    BY <2>2 DEF Clearing
  <2> QED BY <1>5, <2>1, <2>3
<1>9. CASE ResetService(t)
  <2>1. /\ ioService' = None /\ scheduler' = scheduler /\ nfd' = nfd /\ nrd' = nrd
        /\ Step(t, "SERVICE", "BACK")
        /\ services' = [services EXCEPT ![ioService] = Freed(services[ioService])]
    BY <1>3, <1>9 DEF ResetService, objects
  <2>2. threads[Last].at = "SERVICE"
    BY <1>2, <2>1 DEF Step
  <2>3. nfd = None /\ nrd = None /\ scheduler = None
    BY <2>2 DEF Clearing
  <2>4. /\ DOMAIN services' = DOMAIN services
        /\ services'[ioService].freed = TRUE
        /\ services'[ioService].posted = services[ioService].posted
        /\ \A j \in DOMAIN services : j # ioService => services'[j] = services[j]
    BY <1>3, <2>1 DEF Freed, IoService
  <2>5. \A j \in DOMAIN services' : Spent(j)'
    BY <1>3, <2>4 DEF Clearing, Spent
  <2>6. Only({"BACK"})' /\ main' = "IDLE" /\ state' = "STOPPED"
    BY <1>4, <2>1, <2>4
  <2>7. Returning'
    BY <2>1, <2>3, <2>5, <2>6 DEF Returning, Nothing
  <2> QED BY <2>7 DEF Phase
<1> QED BY <1>1, <1>2, <1>6, <1>7, <1>8, <1>9
        DEF ThreadStep, Run, Return, CleanUp, Resume, Step

LEMMA PhaseReturn ==
    ASSUME Types, Types', Returning, NEW t \in DOMAIN threads, ThreadStep(t)
    PROVE  Phase'
<1>1. /\ Last \in DOMAIN threads /\ threads[Last].at = "BACK"
      /\ \A u \in DOMAIN threads : u # Last => threads[u].at = "ENDED"
  BY OnlyFacts DEF Returning
<1>2. t = Last
  <2>1. threads[t].at # "ENDED"
    BY DEF ThreadStep, Run, Return, CleanUp, DropNfd, DropNrd, ResetScheduler,
           ResetService, Resume, Step, Fault
  <2> QED BY <1>1, <2>1
<1>3. Resume(t)
  BY <1>1, <1>2 DEF ThreadStep, Run, Return, CleanUp, DropNfd, DropNrd, ResetScheduler,
                    ResetService, Step
<1>4. services[Mine(t)].freed
  <2>1. Mine(t) \in DOMAIN services
    BY <1>1, <1>2 DEF Types, Ran, Mine
  <2> QED BY <2>1 DEF Returning, Nothing, Spent
<1>5. CASE Fault("SERVICE FREED")
  BY <1>5, FaultStays DEF Phase
<1>6. CASE Step(t, "BACK", "ENDED") /\ UNCHANGED <<objects, global, raced>>
  <2>1. /\ DOMAIN threads' = DOMAIN threads
        /\ threads'[t].at = "ENDED"
        /\ \A u \in DOMAIN threads : u # t => threads'[u] = threads[u]
    BY <1>6, StepFacts DEF global
  <2>2. ~Lingering'
    BY <1>1, <1>2, <2>1 DEF Lingering
  <2>3. Between'
    BY <1>6, <2>2 DEF Step, Returning, Between, Nothing, Spent, objects, global
  <2> QED BY <2>3 DEF Phase
<1> QED BY <1>1, <1>2, <1>3, <1>4, <1>5, <1>6 DEF Resume

LEMMA PhaseCall ==
    ASSUME Types, Phase, NEW c \in Callers,
           \/ \E on \in {"NFD", "NRD"} : Enter(c, on)
           \/ Follow(c) \/ Leave(c) \/ Lost(c)
    PROVE  Phase'
<1>1. CASE \E on \in {"NFD", "NRD"} : Enter(c, on)
  BY <1>1, PhaseStays DEF Enter
<1>2. CASE Follow(c)
  BY <1>2, PhaseStays, FaultStays DEF Follow, history
<1>3. CASE Leave(c)
  <2>1. UNCHANGED global
    <3>1. CASE Alive(calls[c].on, calls[c].of)
      <4>1. calls[c].of # None
        BY <1>3 DEF Leave, Types, Ran
      <4>2. scheduler # None
        BY <3>1, <4>1, Scheduling DEF Alive
      <4> QED BY <1>3, <3>1, <4>2 DEF Leave, GetScheduler
    <3>2. CASE ~Alive(calls[c].on, calls[c].of)
      BY <1>3, <3>2 DEF Leave
    <3> QED BY <3>1, <3>2
  <2> QED BY <1>3, <2>1, PhaseStays DEF Leave, history
<1>4. CASE Lost(c)
  BY <1>4, FaultStays DEF Lost
<1> QED BY <1>1, <1>2, <1>3, <1>4

\* The sessions that begin when nothing lingers go through the phases in turn.
LEMMA PhaseNext ==
    ASSUME Types, Types', Phase, ~overlapped', [Next]_vars
    PROVE  Phase'
<1>1. CASE Start \/ MakeNfd \/ MakeNrd \/ Initialize \/ ScheduleLost \/ Spawn \/ Stop
  BY <1>1, PhaseMain
<1>2. CASE \E t \in 1 .. MaxStarts : ThreadStep(t)
  <2>1. PICK t \in DOMAIN threads : ThreadStep(t)
    BY <1>2 DEF ThreadStep
  <2>2. Lingering
    BY <2>1 DEF Lingering, ThreadStep, Run, Return, CleanUp, DropNfd, DropNrd,
                ResetScheduler, ResetService, Resume, Step, Fault
  <2>3. Running \/ Clearing \/ Returning
    BY <2>2 DEF Phase, Between, Starting
  <2> QED BY <2>1, <2>3, PhaseRun, PhaseClear, PhaseReturn
<1>3. CASE \E c \in Callers : \/ \E on \in {"NFD", "NRD"} : Enter(c, on)
                              \/ Follow(c) \/ Leave(c) \/ Lost(c)
  BY <1>3, PhaseCall
<1>4. CASE UNCHANGED vars
  BY <1>4, PhaseStays DEF vars
<1> QED BY <1>1, <1>2, <1>3, <1>4 DEF Next

-----------------------------------------------------------------------------
(* The calls.                                                              *)

\* A call can only fail that was under way during a clean-up.
LEMMA CallsKept ==
    ASSUME CallsSound, UNCHANGED <<objects, calls>>
    PROVE  CallsSound'
BY DEF CallsSound, Object, Alive, objects

LEMMA SoundMain ==
    ASSUME Types, Phase, CallsSound,
           Start \/ MakeNfd \/ MakeNrd \/ Initialize \/ ScheduleLost \/ Spawn \/ Stop
    PROVE  CallsSound' /\ (crashed' = crashed \/ crashed' = "SERVICE FREED")
<1>1. CASE Start \/ Spawn \/ Stop
  BY <1>1, CallsKept DEF Start, Spawn, Stop
<1>2. CASE ScheduleLost
  BY <1>2, CallsKept DEF ScheduleLost, Fault
<1>3. CASE Initialize
  <2>1. nfd # None /\ nrd # None
    BY <1>3 DEF Initialize, Phase, Between, Starting, Running, Clearing, Returning, None
  <2> QED BY <1>3, <2>1, CallsKept DEF Initialize
<1>4. CASE MakeNfd
  <2>1. nfd = None /\ nrd = None
    BY <1>4 DEF MakeNfd, Phase, Between, Starting, Running, Clearing, Returning, Nothing
  <2>2. \A c \in Callers : calls[c].at # "CHECKED" /\ calls[c].at # "INSIDE"
    BY <2>1 DEF CallsSound, Object, Alive, Types, Ran
  <2> QED BY <1>4, <2>2 DEF MakeNfd, CallsSound
<1>5. CASE MakeNrd
  <2>1. nrd = None /\ nfd' = nfd /\ calls' = calls /\ crashed' = crashed
    BY <1>5 DEF MakeNrd, Phase, Between, Starting, Running, Clearing, Returning
  <2>2. \A c \in Callers : calls[c].on \in {"NFD", "NRD"}
    BY TypeFacts DEF Call
  <2>3. \A c \in Callers : calls[c].at \in {"CHECKED", "INSIDE"} => calls[c].on = "NFD"
    BY <2>1, <2>2 DEF CallsSound, Object, Alive, Types, Ran
  <2> QED BY <2>1, <2>3 DEF CallsSound, Object, Alive
<1> QED BY <1>1, <1>2, <1>3, <1>4, <1>5

LEMMA SoundThread ==
    ASSUME Types, Phase, CallsSound, ~raced', NEW t \in DOMAIN threads, ThreadStep(t)
    PROVE  CallsSound' /\ (crashed' = crashed \/ crashed' = "SERVICE FREED")
<1>1. CASE Run(t) \/ Return(t) \/ CleanUp(t) \/ ResetScheduler(t) \/ ResetService(t)
  BY <1>1, CallsKept DEF Run, Return, CleanUp, ResetScheduler, ResetService, Step
<1>2. CASE Resume(t)
  BY <1>2, CallsKept DEF Resume, Step, Fault
<1>3. CASE DropNfd(t)
  <2>1. threads[t].at = "NFD"
    BY <1>3 DEF DropNfd
  <2>2. Lingering /\ ~Only({"BORN", "RUN"}) /\ ~Only({"BACK"})
    BY <2>1, OnlyFacts DEF Lingering
  <2>3. Clearing
    BY <2>2 DEF Phase, Between, Starting, Running, Returning
  <2>4. t = Last
    BY <2>1, <2>3, OnlyFacts DEF Clearing
  <2>5. nfd # None
    BY <2>1, <2>3, <2>4 DEF Clearing, None
  <2>6. raced' = Caught /\ UNCHANGED <<calls, crashed>>
    BY <1>3, <2>5 DEF DropNfd, Step
  <2>7. \A c \in Callers : calls'[c].at = "IDLE"
    BY <2>6 DEF Caught
  <2> QED BY <2>6, <2>7 DEF CallsSound
<1>4. CASE DropNrd(t)
  <2>1. raced' = Caught /\ UNCHANGED <<calls, crashed>>
    BY <1>4 DEF DropNrd, Step
  <2>2. \A c \in Callers : calls'[c].at = "IDLE"
    BY <2>1 DEF Caught
  <2> QED BY <2>1, <2>2 DEF CallsSound
<1> QED BY <1>1, <1>2, <1>3, <1>4 DEF ThreadStep

LEMMA SoundCall ==
    ASSUME Types, Phase, CallsSound, ~raced', NEW c \in Callers,
           \/ \E on \in {"NFD", "NRD"} : Enter(c, on)
           \/ Follow(c) \/ Leave(c) \/ Lost(c)
    PROVE  CallsSound' /\ crashed' = crashed
<1>1. calls \in [Callers -> Call] /\ calls[c] \in Call
  BY DEF Types, LifecycleTypeOK
<1>2. ASSUME NEW on \in {"NFD", "NRD"}, Enter(c, on)
      PROVE  CallsSound' /\ crashed' = crashed
  <2>1. Object(on) # None /\ UNCHANGED <<objects, crashed>> /\ ~Cleaning
    BY <1>2 DEF Enter, Checked
  <2>2. \A d \in Callers : calls'[d] = IF d = c
            THEN [at |-> "CHECKED", on |-> on, of |-> None] ELSE calls[d]
    BY <1>1, <1>2 DEF Enter
  <2>3. nrd # None => nfd = nrd
    <3>1. CASE Clearing
      <4>1. threads[Last].at \notin {"NFD", "NRD"}
        BY <2>1, <3>1, OnlyFacts DEF Clearing, Cleaning
      <4> QED BY <3>1, <4>1 DEF Clearing
    <3>2. CASE ~Clearing
      BY <3>2 DEF Phase, Between, Starting, Running, Returning, Nothing
    <3> QED BY <3>1, <3>2
  <2> QED BY <2>1, <2>2, <2>3 DEF CallsSound, Object, Alive, objects
<1>3. CASE Follow(c)
  <2>1. Object(calls[c].on) # None
    BY <1>3 DEF Follow, CallsSound
  <2>2. UNCHANGED <<objects, crashed>>
    BY <1>3, <2>1 DEF Follow
  <2>3. /\ calls'[c].at = "INSIDE" /\ calls'[c].of = Object(calls[c].on)
        /\ calls'[c].on = calls[c].on
        /\ \A d \in Callers : d # c => calls'[d] = calls[d]
    BY <1>1, <1>3, <2>1 DEF Follow, Call
  <2>4. Alive(calls[c].on, Object(calls[c].on))
    BY <1>3 DEF Follow, CallsSound
  <2> QED BY <2>2, <2>3, <2>4 DEF CallsSound, Object, Alive, objects
<1>4. CASE Leave(c)
  <2>1. \A d \in Callers : calls'[d] = IF d = c THEN Idle ELSE calls[d]
    BY <1>1, <1>4 DEF Leave
  <2> QED BY <1>4, <2>1 DEF Leave, CallsSound, Object, Alive, Idle, objects
<1>5. ~Lost(c)
  BY DEF Lost, CallsSound
<1> QED BY <1>2, <1>3, <1>4, <1>5

-----------------------------------------------------------------------------

LEMMA InvInit == Init => IInv
<1> SUFFICES ASSUME Init PROVE IInv
  OBVIOUS
<1>1. Types
  BY TypesInit
<1>2. DOMAIN <<>> = {}
  BY EmptySeq
<1>3. Between
  BY <1>2 DEF Init, Between, Lingering, Nothing
<1>4. CallsSound /\ CallsSafe
  BY DEF Init, CallsSound, CallsSafe, Idle
<1> QED BY <1>1, <1>3, <1>4 DEF IInv, Phase, Sound

LEMMA InvNext == IInv /\ [Next]_vars => IInv'
<1> SUFFICES ASSUME IInv, [Next]_vars PROVE IInv'
  OBVIOUS
<1>1. Types /\ Types'
  BY TypesNext DEF IInv
<1>2. (overlapped => overlapped') /\ (raced => raced')
  <2>1. /\ overlapped \in BOOLEAN /\ overlapped' \in BOOLEAN
        /\ raced \in BOOLEAN /\ raced' \in BOOLEAN
    BY <1>1 DEF Types, LifecycleTypeOK
  <2>2. overlapped' = overlapped \/ overlapped' = (overlapped \/ Lingering)
    BY DEF Next, vars, history, Start, MakeNfd, MakeNrd, Initialize, ScheduleLost, Spawn,
           Stop, ThreadStep, Run, Return, CleanUp, DropNfd, DropNrd, ResetScheduler,
           ResetService, Resume, Step, Enter, Follow, Leave, Lost, Fault
  <2>3. raced' = raced \/ raced' = Caught \/ raced' = (raced \/ Cleaning)
    BY DEF Next, vars, history, Start, MakeNfd, MakeNrd, Initialize, ScheduleLost, Spawn,
           Stop, ThreadStep, Run, Return, CleanUp, DropNfd, DropNrd, ResetScheduler,
           ResetService, Resume, Step, Enter, Follow, Leave, Lost, Fault
  <2>4. overlapped => overlapped'
    BY <2>1, <2>2
  <2>5. raced => raced'
    BY <2>1, <2>3 DEF Caught
  <2> QED BY <2>4, <2>5
<1>3. ~overlapped' => Phase'
  BY <1>1, <1>2, PhaseNext DEF IInv
<1>4. ASSUME ~overlapped', ~raced'
      PROVE  CallsSound' /\ (crashed' = crashed \/ crashed' = "SERVICE FREED")
  <2>1. Phase /\ CallsSound
    BY <1>2, <1>4 DEF IInv, Sound
  <2>2. CASE Start \/ MakeNfd \/ MakeNrd \/ Initialize \/ ScheduleLost \/ Spawn \/ Stop
    BY <1>1, <2>1, <2>2, SoundMain
  <2>3. CASE \E t \in 1 .. MaxStarts : ThreadStep(t)
    <3>1. PICK t \in DOMAIN threads : ThreadStep(t)
      BY <2>3 DEF ThreadStep
    <3> QED BY <1>1, <1>4, <2>1, <3>1, SoundThread
  <2>4. CASE \E c \in Callers : \/ \E on \in {"NFD", "NRD"} : Enter(c, on)
                                \/ Follow(c) \/ Leave(c) \/ Lost(c)
    BY <1>1, <1>4, <2>1, <2>4, SoundCall
  <2>5. CASE UNCHANGED vars
    BY <2>1, <2>5, CallsKept DEF vars
  <2> QED BY <2>2, <2>3, <2>4, <2>5 DEF Next
<1>5. Sound'
  BY <1>4 DEF Sound
<1>6. CallsSafe'
  <2> SUFFICES ASSUME ~overlapped', ~raced' PROVE crashed' \notin {"NULL", "FREED"}
    BY DEF CallsSafe
  <2>1. crashed \notin {"NULL", "FREED"}
    BY <1>2 DEF IInv, CallsSafe
  <2> QED BY <1>4, <2>1
<1> QED BY <1>1, <1>3, <1>5, <1>6 DEF IInv

LEMMA InvAlways == Spec => []IInv
BY InvInit, InvNext, PTL DEF Spec

-----------------------------------------------------------------------------

\* The variables of the forwarder's life keep their types, whether sessions
\* overlap or not.
THEOREM LifecycleTypes == Spec => []LifecycleTypeOK
BY InvAlways, PTL DEF IInv, Types

\* A daemon that is started, and was not while its last session lingered, has its
\* objects and one thread for the I/O service that their events are on.
THEOREM StartedDaemonRuns == Spec => []RunsWhenStarted
<1>1. IInv => RunsWhenStarted
  <2> SUFFICES ASSUME IInv, ~overlapped, state = "STARTED", main = "IDLE"
               PROVE  /\ nfd = starts /\ nrd = starts
                      /\ scheduler = ioService /\ ioService # None
                      /\ ~services[ioService].stopped /\ ~services[ioService].freed
                      /\ \A t \in DOMAIN threads :
                            IF t < Len(threads) THEN threads[t].at = "ENDED"
                            ELSE \/ threads[t].at = "BORN"
                                 \/ threads[t].at = "RUN" /\ Mine(t) = ioService
    BY DEF RunsWhenStarted
  <2>1. Running
    BY DEF IInv, Phase, Between, Starting, Clearing, Returning
  <2>2. /\ Last \in DOMAIN threads /\ threads[Last].at \in {"BORN", "RUN"}
        /\ \A t \in DOMAIN threads : t # Last => threads[t].at = "ENDED"
    BY <2>1, OnlyFacts DEF IInv, Running
  <2>3. \A t \in DOMAIN threads : t < Len(threads) <=> t # Last
    BY TypeFacts DEF IInv, Last
  <2> QED BY <2>1, <2>2, <2>3 DEF Running, Serving
<1> QED BY <1>1, InvAlways, PTL

\* Once the threads of a stopped daemon have ended, nothing of its session is
\* left for the next one to find.
THEOREM StoppedDaemonIsClean == Spec => []CleanWhenStopped
<1>1. IInv => CleanWhenStopped
  <2> SUFFICES ASSUME IInv, ~overlapped, state = "STOPPED", ~Lingering
               PROVE  Nothing
    BY DEF CleanWhenStopped, Nothing, Spent
  <2>1. Between
    BY OnlyFacts DEF IInv, Phase, Starting, Running, Clearing, Returning
  <2> QED BY <2>1 DEF Between
<1> QED BY <1>1, InvAlways, PTL

\* The scheduler runs on the global I/O service and never outlives it.
THEOREM SchedulerNeverDangles == Spec => []SchedulerAlive
<1>1. IInv => SchedulerAlive
  <2> SUFFICES ASSUME IInv, ~overlapped
               PROVE  scheduler \in {None, ioService} /\ ~Dangling
    BY DEF SchedulerAlive
  <2>1. CASE Clearing
    BY <2>1 DEF Clearing, Dangling
  <2>2. CASE ~Clearing
    BY <2>2 DEF IInv, Phase, Between, Starting, Running, Returning, Nothing, Serving,
                Dangling
  <2> QED BY <2>1, <2>2
<1> QED BY <1>1, InvAlways, PTL

\* No call follows a null pointer or uses a forwarder that was destroyed, unless
\* one was under way during a clean-up or sessions overlapped.
THEOREM CallsAreSafe == Spec => []CallsSafe
BY InvAlways, PTL DEF IInv

=============================================================================
