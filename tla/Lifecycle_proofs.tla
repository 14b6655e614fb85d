-------------------------- MODULE Lifecycle_proofs --------------------------
(***************************************************************************)
(* Proofs about Lifecycle: for any number of calling threads, connections  *)
(* and calls, the worker never starts on an old timer, is idle when Host's *)
(* members are destroyed, and leaves no session behind.                    *)
(***************************************************************************)
EXTENDS Lifecycle, TLAPS

\* Where the worker and the callers are.
Worker(places) == pc["p2p"] \in places
SomeCaller(places) == \E t \in Caller : pc[t] \in places

\* In Host::stop, after m_run was unset and before Worker::stopWorking.
InStop == {"timer", "working", "stopWork"}
\* The worker is in workLoop, or between it and its next round.
InLoop == {"loop", "doWork", "io"}
Down == Shutdown \cup {"exchange"}

\* Each is at a place of its own code, or in doneWorking, which both run.
Places == /\ \A t \in Caller : pc[t] \in CallerPlaces
          /\ pc["p2p"] \in WorkerPlaces

\* Whoever unset m_run is the only one to stop the worker, until the worker's
\* next start sets it again.
OneStopper == /\ \A t, u \in Caller : pc[t] \in InStop /\ pc[u] \in InStop => t = u
              /\ run => ~ SomeCaller(InStop)

\* What the state of the worker says about the place it is at.
StateFits ==
    /\ Worker({"none"}) => state = "Starting"
    /\ Worker({"head"}) => state \in {"Starting", "Killing"}
    /\ Worker({"setup", "open", "first"}) => state = "Started"
    /\ Worker(InLoop) => state \in {"Started", "Stopping"}
    /\ Worker(Down) => state = "Stopping"
    /\ Worker({"wait"}) => state \in {"Stopped", "Starting", "Killing"}
    /\ Worker({"ended"}) => state = "Killing"

\* Some caller stands for every state of the worker that is to change.
Awaited ==
    /\ state = "Starting" /\ ~ Worker({"none"}) => SomeCaller({"starting"})
    /\ Worker({"setup"}) => SomeCaller({"starting", "await"})
    /\ state = "Stopping" => SomeCaller({"stopping"})
    /\ state = "Killing" => SomeCaller({"join", "gone"})

\* The timer is there, and m_run set or a stop under way, from startedWorking to
\* stopWorking, which waits for the timer to go first.
TimerFits ==
    /\ Worker({"none", "head", "setup", "wait", "ended"} \cup Down) =>
         timer = "none" /\ ~ run /\ ~ SomeCaller(InStop)
    /\ Worker({"open", "first"}) =>
         timer = "set" /\ (run \/ SomeCaller(InStop))
    /\ Worker(InLoop) /\ state = "Started" => run \/ SomeCaller(InStop)
    /\ Worker(InLoop) /\ state = "Stopping" =>
         timer = "none" /\ ~ run /\ ~ SomeCaller(InStop)
    /\ SomeCaller({"working", "stopWork"}) => timer = "none"

\* ~Host is called with no other call under way, and ends with the worker idle.
InDestructor == InStop \cup {"stop", "stopping", "kill", "join", "gone"}
Destroying ==
    /\ dying => \E t \in Caller : /\ pc[t] \in InDestructor
                                  /\ \A u \in Caller \ {t} : pc[u] = "out"
    /\ SomeCaller({"kill", "join", "gone"}) => dying
    /\ SomeCaller({"kill"}) => Worker({"none", "wait"})
    /\ SomeCaller({"join"}) => Worker({"wait", "head", "ended"})

\* The inductive invariant.
IInv == /\ TypeOK /\ Places
        /\ OneStopper /\ StateFits /\ Awaited /\ TimerFits /\ Destroying

\* As long as no start has failed, only the worker is in doneWorking, forgets no
\* session, and has none connected at its end.
LeftInv ==
    ~ failed =>
      /\ ~ SomeCaller(Shutdown)
      /\ ~ Are("orphan")
      /\ Worker(Shutdown \ {"reset"}) => ~ shut
      /\ Worker({"finish"}) => ~ Are("session") /\ ~ Are("reset")
      /\ Worker({"exchange", "wait"}) /\ shut => ~ Are("session") /\ ~ Are("reset")
-----------------------------------------------------------------------------
(* Every action keeps the invariant.                                       *)

\* Host::start and Worker::startWorking.
LEMMA StartInv ==
    ASSUME IInv, NEW t \in Caller,
           CallStart(t) \/ Create(t) \/ Starting(t) \/ Await(t) \/ Check(t)
    PROVE  IInv'
  <1> USE LifecycleConstants DEF IInv, Thread, Places, Worker, SomeCaller, Goes, work, net, past, user,
               InStop, InLoop, Down, Shutdown, Polls
  <1>1. CASE CallStart(t)
    BY <1>1, SMTT(30) DEF CallStart, TypeOK, State, Stage, WorkerPlaces, CallerPlaces,
                OneStopper, StateFits, Awaited, TimerFits, Destroying, InDestructor
  <1>2. CASE Create(t)
    BY <1>2, SMTT(30) DEF Create, TypeOK, State, Stage, WorkerPlaces, CallerPlaces,
                OneStopper, StateFits, Awaited, TimerFits, Destroying, InDestructor
  <1>3. CASE Starting(t)
    BY <1>3, SMTT(30) DEF Starting, TypeOK, State, Stage, WorkerPlaces, CallerPlaces,
                OneStopper, StateFits, Awaited, TimerFits, Destroying, InDestructor
  <1>4. CASE Await(t)
    BY <1>4, SMTT(30) DEF Await, TypeOK, State, Stage, WorkerPlaces, CallerPlaces,
                OneStopper, StateFits, Awaited, TimerFits, Destroying, InDestructor
  <1>5. CASE Check(t)
    <2>1. PICK p \in {"out", "reset"} : pc' = [pc EXCEPT ![t] = p]
      BY <1>5 DEF Check
    <2>2. pc[t] = "check" /\ UNCHANGED <<work, net, shut, user>> /\ failed' \in BOOLEAN
      BY <1>5 DEF Check, TypeOK
    <2> QED
      BY <2>1, <2>2, SMTT(30) DEF TypeOK, State, Stage, WorkerPlaces, CallerPlaces,
                  OneStopper, StateFits, Awaited, TimerFits, Destroying, InDestructor
  <1> QED
    BY <1>1, <1>2, <1>3, <1>4, <1>5

\* Host::stop and Worker::stopWorking.
LEMMA StopInv ==
    ASSUME IInv, NEW t \in Caller,
           CallStop(t) \/ StopRun(t) \/ WaitTimer(t) \/ Working(t) \/ StopWork(t)
           \/ Stopping(t)
    PROVE  IInv'
  <1> USE LifecycleConstants DEF IInv, Thread, Places, Worker, SomeCaller, Goes, work, net, past, user,
               InStop, InLoop, Down, Shutdown, Polls
  <1>1. CASE CallStop(t)
    <2> USE <1>1 DEF CallStop
    <2>1. TypeOK' /\ Places'
      <3>1. calls' \in 0..MaxCalls
        BY DEF TypeOK
      <3>2. dying' \in BOOLEAN
        BY DEF TypeOK
      <3> QED
        BY <3>1, <3>2 DEF TypeOK, WorkerPlaces, CallerPlaces
    <2>2. OneStopper' /\ TimerFits'
      BY DEF TypeOK, OneStopper, TimerFits, StateFits, Destroying
    <2>3. StateFits' /\ Awaited'
      BY DEF TypeOK, StateFits, Awaited, TimerFits, Destroying
    <2>4. Destroying'
      BY DEF TypeOK, Destroying, InDestructor, StateFits, Awaited, TimerFits
    <2> QED
      BY <2>1, <2>2, <2>3, <2>4
  <1>2. CASE StopRun(t)
    <2> USE <1>2 DEF StopRun, Return
    <2>1. TypeOK' /\ Places'
      <3>1. PICK p \in {"timer", "kill", "out"} : pc' = [pc EXCEPT ![t] = p]
        OBVIOUS
      <3>2. UNCHANGED <<work, timer, table, stopped, accepting, listening, links, past, user>> /\ run' = FALSE
        OBVIOUS
      <3>3. Places' /\ (pc \in [Thread -> WorkerPlaces \cup CallerPlaces])'
        BY <3>1 DEF TypeOK, WorkerPlaces, CallerPlaces
      <3>4. (\A u \in Caller : xWork = u <=> pc[u] \in {"starting", "stopping"})'
        BY <3>1, <3>2 DEF TypeOK
      <3> HIDE DEF Places, StopRun
      <3> QED
        BY <3>2, <3>3, <3>4 DEF TypeOK
    <2>2. OneStopper' /\ TimerFits'
      BY DEF TypeOK, OneStopper, TimerFits, StateFits, Destroying
    <2>3. StateFits' /\ Awaited'
      BY DEF TypeOK, StateFits, Awaited, TimerFits, Destroying
    <2>4. Destroying'
      <3>1. CASE ~ dying
        BY <3>1 DEF TypeOK, Destroying, InDestructor
      <3>2. CASE dying
        <4>1. \A u \in Caller \ {t} : pc[u] = "out"
          BY <3>2 DEF Destroying
        <4>2. CASE run
          BY <3>2, <4>1, <4>2 DEF TypeOK, Destroying, InDestructor
        \* Nobody has started or is about to stop the worker, nor has stopped it.
        <4>3. CASE ~ run
          <5>1. pc["p2p"] \in {"none", "wait"}
            BY <4>1, <4>3 DEF TypeOK, WorkerPlaces, StateFits, Awaited, TimerFits
          <5> QED
            BY <3>2, <4>1, <4>3, <5>1 DEF TypeOK, Destroying, InDestructor
        <4> QED
          BY <4>2, <4>3
      <3> QED
        BY <3>1, <3>2
    <2> QED
      BY <2>1, <2>2, <2>3, <2>4
  <1>3. CASE WaitTimer(t)
    BY <1>3, SMTT(30) DEF WaitTimer, TypeOK, State, Stage, WorkerPlaces, CallerPlaces,
                OneStopper, StateFits, Awaited, TimerFits, Destroying, InDestructor
  <1>4. CASE Working(t)
    <2> USE <1>4 DEF Working, Return
    <2>1. TypeOK' /\ Places'
      BY DEF TypeOK, State, WorkerPlaces, CallerPlaces
    <2>2. OneStopper' /\ TimerFits'
      BY DEF TypeOK, OneStopper, TimerFits, StateFits, Destroying
    <2>3. StateFits' /\ Awaited'
      BY DEF TypeOK, StateFits, Awaited, TimerFits, Destroying
    <2>4. Destroying'
      <3>1. state = "Started"
        BY DEF TypeOK, WorkerPlaces, StateFits, TimerFits
      <3> QED
        BY <3>1 DEF TypeOK, Destroying, InDestructor
    <2> QED
      BY <2>1, <2>2, <2>3, <2>4
  <1>5. CASE StopWork(t)
    BY <1>5, SMTT(30) DEF StopWork, TypeOK, State, Stage, WorkerPlaces, CallerPlaces,
                OneStopper, StateFits, Awaited, TimerFits, Destroying, InDestructor
  <1>6. CASE Stopping(t)
    <2> USE <1>6 DEF Stopping, Return
    <2>1. TypeOK' /\ Places'
      BY DEF TypeOK, State, WorkerPlaces, CallerPlaces
    <2>2. OneStopper' /\ TimerFits'
      BY DEF TypeOK, OneStopper, TimerFits, StateFits, Destroying
    <2>3. StateFits' /\ Awaited'
      BY DEF TypeOK, StateFits, Awaited, TimerFits, Destroying
    <2>4. Destroying'
      <3>1. pc["p2p"] = "wait"
        BY DEF WorkerPlaces, StateFits
      <3>2. CASE ~ dying
        BY <3>2 DEF TypeOK, Destroying, InDestructor
      <3>3. CASE dying
        <4>1. \A u \in Caller \ {t} : pc[u] = "out"
          BY <3>3 DEF Destroying
        <4> QED
          BY <3>1, <3>3, <4>1 DEF TypeOK, Destroying, InDestructor
      <3> QED
        BY <3>2, <3>3
    <2> QED
      BY <2>1, <2>2, <2>3, <2>4
  <1> QED
    BY <1>1, <1>2, <1>3, <1>4, <1>5, <1>6

\* Worker::terminate.
LEMMA DestroyInv ==
    ASSUME IInv, NEW t \in Caller,
           Kill(t) \/ Join(t)
    PROVE  IInv'
  <1> USE LifecycleConstants DEF IInv, Thread, Places, Worker, SomeCaller, Goes, work, net, past, user,
               InStop, InLoop, Down, Shutdown, Polls
  <1>1. CASE Kill(t)
    BY <1>1, SMTT(30) DEF Kill, TypeOK, State, Stage, WorkerPlaces, CallerPlaces,
                OneStopper, StateFits, Awaited, TimerFits, Destroying, InDestructor
  <1>2. CASE Join(t)
    BY <1>2, SMTT(30) DEF Join, TypeOK, State, Stage, WorkerPlaces, CallerPlaces,
                OneStopper, StateFits, Awaited, TimerFits, Destroying, InDestructor
  <1> QED
    BY <1>1, <1>2

\* Host::doneWorking, in any thread.
LEMMA ShutdownInv ==
    ASSUME IInv, NEW t \in Thread,
           Reset(t) \/ Accepts(t) \/ Shakes(t) \/ Sessions(t) \/ PollReturns(t)
           \/ Finish(t)
    PROVE  IInv'
  <1> USE LifecycleConstants DEF IInv, Thread, Places, Worker, SomeCaller, Goes, work, net, past, user,
               InStop, InLoop, Down, Shutdown, Polls
  <1>1. CASE Reset(t)
    <2> USE <1>1 DEF Reset, Leaves
    <2>1. TypeOK' /\ Places'
      <3>1. PICK p \in {"accepts", "exchange", "out"} :
               pc' = [pc EXCEPT ![t] = p] /\ (p = "exchange" => t = "p2p") /\ (p = "out" => t # "p2p")
        OBVIOUS
      <3>2. /\ UNCHANGED <<work, run, timer, table, links, failed, user>>
            /\ stopped' = FALSE /\ listening' = FALSE /\ shut' = FALSE
            /\ accepting' \in {"no", "yes", "cancelled"}
        BY DEF TypeOK
      <3>3. Places' /\ (pc \in [Thread -> WorkerPlaces \cup CallerPlaces])'
        BY <3>1 DEF TypeOK, WorkerPlaces, CallerPlaces
      <3>4. (\A u \in Caller : xWork = u <=> pc[u] \in {"starting", "stopping"})'
        BY <3>1, <3>2 DEF TypeOK
      <3> HIDE DEF Places, Reset
      <3> QED
        BY <3>2, <3>3, <3>4 DEF TypeOK
    <2>3. OneStopper' /\ TimerFits'
      BY DEF TypeOK, OneStopper, TimerFits, StateFits, Destroying
    <2>4. StateFits' /\ Awaited'
      BY DEF TypeOK, StateFits, Awaited, TimerFits, Destroying
    <2>5. Destroying'
      BY DEF TypeOK, Destroying, InDestructor, StateFits, Awaited, TimerFits
    <2> QED
      BY <2>1, <2>3, <2>4, <2>5
  <1>2. CASE Accepts(t)
    BY <1>2, SMTT(30) DEF Accepts, TypeOK, State, Stage, WorkerPlaces, CallerPlaces,
                OneStopper, StateFits, Awaited, TimerFits, Destroying, InDestructor
  <1>3. CASE Shakes(t)
    <2> USE <1>3 DEF Shakes
    <2>1. TypeOK' /\ Places'
      <3>1. links' \in [Link -> Stage]
        BY DEF TypeOK, Stage, Becomes
      <3> QED
        BY <3>1 DEF TypeOK, State, WorkerPlaces, CallerPlaces
    <2>2. OneStopper' /\ TimerFits'
      BY DEF TypeOK, OneStopper, TimerFits, StateFits, Destroying
    <2>3. StateFits' /\ Awaited'
      BY DEF TypeOK, StateFits, Awaited, TimerFits, Destroying
    <2>4. Destroying'
      BY DEF TypeOK, Destroying, InDestructor, StateFits, Awaited, TimerFits
    <2> QED
      BY <2>1, <2>2, <2>3, <2>4
  <1>4. CASE Sessions(t)
    <2> USE <1>4 DEF Sessions
    <2>1. TypeOK' /\ Places'
      <3>1. links' \in [Link -> Stage]
        OBVIOUS
      <3> QED
        BY <3>1 DEF TypeOK, State, WorkerPlaces, CallerPlaces
    <2>2. OneStopper' /\ TimerFits'
      BY DEF TypeOK, OneStopper, TimerFits, StateFits, Destroying
    <2>3. StateFits' /\ Awaited'
      BY DEF TypeOK, StateFits, Awaited, TimerFits, Destroying
    <2>4. Destroying'
      BY DEF TypeOK, Destroying, InDestructor, StateFits, Awaited, TimerFits
    <2> QED
      BY <2>1, <2>2, <2>3, <2>4
  <1>5. CASE PollReturns(t)
    BY <1>5, SMTT(30) DEF PollReturns, TypeOK, State, Stage, WorkerPlaces, CallerPlaces,
                OneStopper, StateFits, Awaited, TimerFits, Destroying, InDestructor
  <1>6. CASE Finish(t)
    <2> USE <1>6 DEF Finish, Leaves
    <2>1. TypeOK' /\ Places'
      <3>1. links' \in [Link -> Stage]
        BY DEF TypeOK, Stage
      <3>2. PICK p \in {"exchange", "out"} : pc' = [pc EXCEPT ![t] = p] /\ (t = "p2p" <=> p = "exchange")
        OBVIOUS
      <3>3. UNCHANGED <<work, run, timer, table, accepting, listening, failed, user>>
            /\ stopped' = FALSE /\ shut' = TRUE
        OBVIOUS
      <3>4. Places' /\ (pc \in [Thread -> WorkerPlaces \cup CallerPlaces])'
        BY <3>2 DEF TypeOK, WorkerPlaces, CallerPlaces
      <3>5. (\A u \in Caller : xWork = u <=> pc[u] \in {"starting", "stopping"})'
        BY <3>2, <3>3 DEF TypeOK
      <3>6. state' \in State /\ xWork' \in Caller \cup {"none"} /\ calls' \in 0..MaxCalls /\ dying' \in BOOLEAN
        BY DEF TypeOK, State
      <3> HIDE DEF Places, Finish
      <3> QED
        BY <3>1, <3>3, <3>4, <3>5, <3>6 DEF TypeOK
    <2>2. OneStopper' /\ TimerFits'
      BY DEF TypeOK, OneStopper, TimerFits, StateFits, Destroying
    <2>3. StateFits' /\ Awaited'
      BY DEF TypeOK, StateFits, Awaited, TimerFits, Destroying
    <2>4. Destroying'
      BY DEF TypeOK, Destroying, InDestructor, StateFits, Awaited, TimerFits
    <2> QED
      BY <2>1, <2>2, <2>3, <2>4
  <1> QED
    BY <1>1, <1>2, <1>3, <1>4, <1>5, <1>6

\* The worker thread.
LEMMA WorkerInv ==
    ASSUME IInv, Head \/ Setup \/ Open \/ First \/ Loop \/ DoWork \/ IoReturns \/ Exchange
           \/ Wait
    PROVE  IInv'
  <1> USE LifecycleConstants DEF IInv, Thread, Places, Worker, SomeCaller, Goes, work, net, past, user,
               InStop, InLoop, Down, Shutdown, Polls
  <1>1. CASE Head
    BY <1>1, SMTT(30) DEF Head, TypeOK, State, Stage, WorkerPlaces, CallerPlaces,
                OneStopper, StateFits, Awaited, TimerFits, Destroying, InDestructor
  <1>2. CASE Setup
    BY <1>2, SMTT(30) DEF Setup, TypeOK, State, Stage, WorkerPlaces, CallerPlaces,
                OneStopper, StateFits, Awaited, TimerFits, Destroying, InDestructor
  <1>3. CASE Open
    <2> USE <1>3 DEF Open
    <2>1. TypeOK'
      <3>1. accepting' \in {"no", "yes", "cancelled"} /\ listening' \in BOOLEAN
        BY DEF TypeOK
      <3>2. UNCHANGED <<work, run, timer, stopped, links, past, user>> /\ table' = TRUE
            /\ pc' = [pc EXCEPT !["p2p"] = "first"]
        OBVIOUS
      <3> HIDE <1>3 DEF Open
      <3> QED
        BY <3>1, <3>2 DEF TypeOK, WorkerPlaces
    <2>2. Places'
      BY DEF TypeOK, WorkerPlaces, CallerPlaces
    <2>3. OneStopper' /\ TimerFits'
      BY DEF TypeOK, OneStopper, TimerFits, StateFits, Destroying
    <2>4. StateFits' /\ Awaited'
      BY DEF TypeOK, StateFits, Awaited, TimerFits, Destroying
    <2>5. Destroying'
      BY DEF TypeOK, Destroying, InDestructor, StateFits, Awaited, TimerFits
    <2> QED
      BY <2>1, <2>2, <2>3, <2>4, <2>5
  <1>4. CASE First
    <2> USE <1>4 DEF First, RunHost
    <2>1. TypeOK' /\ Places'
      <3>1. links' \in [Link -> Stage]
        BY DEF TypeOK, Stage
      <3>2. timer' \in {"none", "armed"} /\ table' \in BOOLEAN /\ stopped' \in BOOLEAN
        BY DEF TypeOK
      <3>3. UNCHANGED <<work, run, accepting, listening, past, user>>
        OBVIOUS
      <3>4. pc' = [pc EXCEPT !["p2p"] = "loop"] /\ TypeOK /\ Places /\ "p2p" \notin Caller
        OBVIOUS
      <3> HIDE <1>4 DEF First, RunHost, IInv, Goes
      <3>5. /\ \A c \in Caller : pc'[c] = pc[c]
            /\ pc'["p2p"] = "loop" /\ pc' \in [Thread -> WorkerPlaces \cup CallerPlaces]
        BY <3>4 DEF TypeOK, WorkerPlaces
      <3> QED
        BY <3>1, <3>2, <3>3, <3>4, <3>5 DEF TypeOK, WorkerPlaces
    <2>2. OneStopper' /\ TimerFits'
      BY DEF TypeOK, OneStopper, TimerFits, StateFits, Destroying
    <2>3. StateFits' /\ Awaited'
      BY DEF TypeOK, StateFits, Awaited, TimerFits, Destroying
    <2>4. Destroying'
      BY DEF TypeOK, Destroying, InDestructor, StateFits, Awaited, TimerFits
    <2> QED
      BY <2>1, <2>2, <2>3, <2>4
  <1>5. CASE Loop
    BY <1>5, SMTT(30) DEF Loop, TypeOK, State, Stage, WorkerPlaces, CallerPlaces,
                OneStopper, StateFits, Awaited, TimerFits, Destroying, InDestructor
  <1>6. CASE DoWork
    BY <1>6, SMTT(30) DEF DoWork, TypeOK, State, Stage, WorkerPlaces, CallerPlaces,
                OneStopper, StateFits, Awaited, TimerFits, Destroying, InDestructor
  <1>7. CASE IoReturns
    BY <1>7, SMTT(30) DEF IoReturns, TypeOK, State, Stage, WorkerPlaces, CallerPlaces,
                OneStopper, StateFits, Awaited, TimerFits, Destroying, InDestructor
  <1>8. CASE Exchange
    BY <1>8, SMTT(30) DEF Exchange, TypeOK, State, Stage, WorkerPlaces, CallerPlaces,
                OneStopper, StateFits, Awaited, TimerFits, Destroying, InDestructor
  <1>9. CASE Wait
    BY <1>9, SMTT(30) DEF Wait, TypeOK, State, Stage, WorkerPlaces, CallerPlaces,
                OneStopper, StateFits, Awaited, TimerFits, Destroying, InDestructor
  <1> QED
    BY <1>1, <1>2, <1>3, <1>4, <1>5, <1>6, <1>7, <1>8, <1>9

\* Handlers.
LEMMA HandlerInv ==
    ASSUME IInv,
           TimerFires \/ Accepted \/ (\E c \in Link : Moved(c) \/ Noticed(c))
           \/ (\E t \in Thread : SessionThrows(t))
    PROVE  IInv'
  <1> USE LifecycleConstants DEF IInv, Thread, Places, Worker, SomeCaller, Goes, work, net, past, user,
               InStop, InLoop, Down, Shutdown, Polls
  <1>1. CASE TimerFires
    <2> USE <1>1 DEF TimerFires, RunHost
    <2>1. TypeOK' /\ Places'
      <3>1. links' \in [Link -> Stage]
        BY DEF TypeOK, Stage
      <3>2. timer' \in {"none", "armed"} /\ table' \in BOOLEAN /\ stopped' \in BOOLEAN
        BY DEF TypeOK
      <3>3. UNCHANGED <<work, run, accepting, listening, past, user, pc>>
        OBVIOUS
      <3> QED
        BY <3>1, <3>2, <3>3 DEF TypeOK, State, WorkerPlaces, CallerPlaces
    <2>2. OneStopper' /\ TimerFits'
      BY DEF TypeOK, OneStopper, TimerFits, StateFits, Destroying
    <2>3. StateFits' /\ Awaited'
      BY DEF TypeOK, StateFits, Awaited, TimerFits, Destroying
    <2>4. Destroying'
      BY DEF TypeOK, Destroying, InDestructor, StateFits, Awaited, TimerFits
    <2> QED
      BY <2>1, <2>2, <2>3, <2>4
  <1>2. CASE Accepted
    <2> USE <1>2 DEF Accepted
    <2>1. TypeOK' /\ Places'
      <3>1. links' \in [Link -> Stage]
        BY DEF TypeOK, Stage
      <3> QED
        BY <3>1 DEF TypeOK, State, WorkerPlaces, CallerPlaces
    <2>2. OneStopper' /\ TimerFits'
      BY DEF TypeOK, OneStopper, TimerFits, StateFits, Destroying
    <2>3. StateFits' /\ Awaited'
      BY DEF TypeOK, StateFits, Awaited, TimerFits, Destroying
    <2>4. Destroying'
      BY DEF TypeOK, Destroying, InDestructor, StateFits, Awaited, TimerFits
    <2> QED
      BY <2>1, <2>2, <2>3, <2>4
  <1>3. CASE (\E c \in Link : Moved(c) \/ Noticed(c))
    <2> USE <1>3 DEF Moved, Noticed
    <2>1. TypeOK' /\ Places'
      <3>1. links' \in [Link -> Stage]
        BY DEF TypeOK, Stage, LinkMoves
      <3> QED
        BY <3>1 DEF TypeOK, State, WorkerPlaces, CallerPlaces
    <2>2. OneStopper' /\ TimerFits'
      BY DEF TypeOK, OneStopper, TimerFits, StateFits, Destroying
    <2>3. StateFits' /\ Awaited'
      BY DEF TypeOK, StateFits, Awaited, TimerFits, Destroying
    <2>4. Destroying'
      BY DEF TypeOK, Destroying, InDestructor, StateFits, Awaited, TimerFits
    <2> QED
      BY <2>1, <2>2, <2>3, <2>4
  <1>4. ASSUME NEW t \in Thread, SessionThrows(t)
        PROVE  IInv'
    <2> USE <1>4 DEF SessionThrows, Leaves
    <2>1. TypeOK' /\ Places'
      <3>1. PICK p \in {"loop", "exchange", "out"} :
               pc' = [pc EXCEPT ![t] = p] /\ (p \in {"loop", "exchange"} <=> t = "p2p")
        BY DEF TypeOK, CallerPlaces
      <3>2. UNCHANGED <<work, net, past, user>>
        OBVIOUS
      <3>3. Places' /\ (pc \in [Thread -> WorkerPlaces \cup CallerPlaces])'
        BY <3>1 DEF TypeOK, WorkerPlaces, CallerPlaces
      <3>4. (\A u \in Caller : xWork = u <=> pc[u] \in {"starting", "stopping"})'
        BY <3>1, <3>2 DEF TypeOK
      <3> HIDE DEF Places, SessionThrows
      <3> QED
        BY <3>2, <3>3, <3>4 DEF TypeOK
    <2>2. OneStopper' /\ TimerFits'
      BY DEF TypeOK, OneStopper, TimerFits, StateFits, Destroying, CallerPlaces
    <2>3. StateFits' /\ Awaited'
      BY DEF TypeOK, StateFits, Awaited, TimerFits, Destroying, CallerPlaces
    <2>4. Destroying'
      BY DEF TypeOK, Destroying, InDestructor, StateFits, Awaited, TimerFits, CallerPlaces
    <2> QED
      BY <2>1, <2>2, <2>3, <2>4
  <1> QED
    BY <1>1, <1>2, <1>3, <1>4
-----------------------------------------------------------------------------
(* The invariant, and what follows from it.                                *)

LEMMA InitInv == Init => IInv
  <1> USE LifecycleConstants DEF Thread, Places, Worker, SomeCaller, InStop, InLoop, Down,
                                 Shutdown, Polls, InDestructor
  <1> SUFFICES ASSUME Init PROVE IInv
    OBVIOUS
  <1>1. Places /\ pc \in [Thread -> WorkerPlaces \cup CallerPlaces]
    BY DEF Init, WorkerPlaces, CallerPlaces
  <1>2. links \in [Link -> Stage] /\ xWork \in Caller \cup {"none"}
        /\ \A t \in Caller : xWork # t /\ pc[t] = "out"
    BY DEF Init, Stage
  <1>3. TypeOK
    <2>1. calls \in 0..MaxCalls /\ state \in State /\ timer \in {"none", "set", "armed"}
      BY DEF Init, State
    <2>2. /\ run \in BOOLEAN /\ table \in BOOLEAN /\ stopped \in BOOLEAN
          /\ accepting \in {"no", "yes", "cancelled"} /\ listening \in BOOLEAN
          /\ shut \in BOOLEAN /\ failed \in BOOLEAN /\ dying \in BOOLEAN
      BY DEF Init
    <2>3. \A t \in Caller : xWork = t <=> pc[t] \in {"starting", "stopping"}
      BY <1>2
    <2> QED
      BY <1>1, <1>2, <2>1, <2>2, <2>3, Zenon DEF TypeOK
  <1> QED
    BY <1>1, <1>3 DEF Init, IInv, OneStopper, StateFits, Awaited, TimerFits, Destroying

LEMMA NextInv == IInv /\ [Next]_vars => IInv'
  <1> SUFFICES ASSUME IInv, [Next]_vars PROVE IInv'
    OBVIOUS
  <1>1. CASE UNCHANGED vars
    BY <1>1 DEF vars, IInv, TypeOK, Places, OneStopper, StateFits, Awaited, TimerFits, Destroying,
                Worker, SomeCaller
  <1>2. ASSUME NEW t \in Caller, CallStart(t) \/ CallStop(t) \/ CallerStep(t)
        PROVE  IInv'
    BY <1>2, StartInv, StopInv, DestroyInv DEF CallerStep
  <1> QED
    BY <1>1, <1>2, ShutdownInv, WorkerInv, HandlerInv DEF Next, ShutdownStep, WorkerStep

\* The inductive invariant holds for any number of callers, connections and calls.
THEOREM Invariance == Spec => []IInv
  BY InitInv, NextInv, PTL DEF Spec

\* The variables keep their types; the mutex x_work is held by a caller exactly
\* while it waits for the worker (Worker.cpp:29-86).
THEOREM TypesCorrect == Spec => []TypeOK
  <1>1. IInv => TypeOK
    BY DEF IInv
  <1> QED
    BY <1>1, Invariance, PTL

\* The assertion of Host::startedWorking, "!m_timer" (Host.cpp:686), holds for
\* any number of threads that call start and stop, in any order.
THEOREM NeverTimerAtStart == Spec => []NoTimerAtStart
  <1>1. IInv => NoTimerAtStart
    BY DEF IInv, TimerFits, NoTimerAtStart, Worker
  <1> QED
    BY <1>1, Invariance, PTL

\* When ~Host destroys its members the worker is outside startedWorking, doWork
\* and doneWorking, whatever the calls of start and stop before (Host.cpp:115-146).
THEOREM AlwaysIdleWhenDestroyed == Spec => []IdleWhenDestroyed
  <1>1. IInv => IdleWhenDestroyed
    BY DEF IInv, Destroying, IdleWhenDestroyed, Worker, SomeCaller
  <1> QED
    BY <1>1, Invariance, PTL
-----------------------------------------------------------------------------
(* What a stop leaves.                                                     *)

LEMMA LeftCaller ==
    ASSUME IInv, LeftInv, NEW t \in Caller, CallStart(t) \/ CallStop(t) \/ CallerStep(t)
    PROVE  LeftInv'
  <1> USE LifecycleConstants DEF IInv, LeftInv, Thread, Places, Worker, SomeCaller,
          Goes, work, net, past, user, Shutdown, Polls, TypeOK, Are
  <1>1. CASE CallStart(t) \/ CallStop(t) \/ Starting(t) \/ Await(t) \/ Check(t)
    BY <1>1 DEF CallStart, CallStop, Starting, Await, Check
  <1>2. CASE Create(t)
    BY <1>2 DEF Create
  <1>3. CASE StopRun(t) \/ WaitTimer(t) \/ Working(t) \/ StopWork(t) \/ Stopping(t)
             \/ Kill(t) \/ Join(t)
    BY <1>3 DEF StopRun, WaitTimer, Working, StopWork, Stopping, Kill, Join, Return
  <1> QED
    BY <1>1, <1>2, <1>3 DEF CallerStep

LEMMA LeftShutdown ==
    ASSUME IInv, LeftInv, ~ failed, NEW t \in Thread, ShutdownStep(t)
    PROVE  LeftInv'
  <1> USE LifecycleConstants DEF IInv, LeftInv, Thread, Worker, SomeCaller, Shutdown, Polls, TypeOK
  <1>1. t = "p2p"
    BY DEF ShutdownStep, Reset, Accepts, Shakes, Sessions, PollReturns, Finish
  <1>2. UNCHANGED failed /\ \A u \in Caller : pc'[u] = pc[u]
    BY <1>1 DEF ShutdownStep, Reset, Accepts, Shakes, Sessions, PollReturns, Finish, past, Goes, Leaves
  <1>3. CASE Reset(t) \/ Accepts(t) \/ PollReturns(t)
    BY <1>1, <1>2, <1>3 DEF Reset, Accepts, PollReturns, Goes, Leaves, net, past, Are
  <1>4. CASE Shakes(t)
    BY <1>1, <1>2, <1>4 DEF Shakes, Goes, past, Are, Becomes
  <1>5. CASE Sessions(t)
    BY <1>1, <1>2, <1>5 DEF Sessions, Goes, past, Are
  <1>6. CASE Finish(t)
    BY <1>1, <1>2, <1>6 DEF Finish, Goes, Leaves, Are
  <1> QED
    BY <1>3, <1>4, <1>5, <1>6 DEF ShutdownStep

LEMMA LeftWorker ==
    ASSUME IInv, LeftInv, WorkerStep
    PROVE  LeftInv'
  <1> USE LifecycleConstants DEF IInv, LeftInv, Thread, Worker, SomeCaller, Shutdown, Polls,
          TypeOK, Goes, work, net, past, user, Are
  <1>1. CASE Head \/ Setup \/ Open \/ Exchange
    BY <1>1 DEF Head, Setup, Open, Exchange
  <1>2. CASE Loop \/ DoWork \/ IoReturns \/ Wait
    BY <1>2 DEF Loop, DoWork, IoReturns, Wait
  <1>3. CASE First
    BY <1>3 DEF First, RunHost
  <1> QED
    BY <1>1, <1>2, <1>3 DEF WorkerStep

LEMMA LeftHandler ==
    ASSUME IInv, LeftInv, ~ failed,
           TimerFires \/ Accepted \/ (\E c \in Link : Moved(c) \/ Noticed(c))
    PROVE  LeftInv'
  <1> USE LifecycleConstants DEF IInv, LeftInv, Thread, Worker, SomeCaller, Shutdown, Polls, TypeOK,
          past, user
  <1>1. UNCHANGED <<shut, failed, pc>> /\ pc["p2p"] \in Polls \cup {"io"}
    BY DEF TimerFires, Accepted, Moved, Noticed, Handling, Places, CallerPlaces
  <1>2. \A c \in Link : links'[c] = "orphan" => links[c] = "orphan"
    <2>1. CASE TimerFires
      BY <2>1 DEF TimerFires, RunHost
    <2>2. CASE Accepted
      BY <2>2 DEF Accepted
    <2>3. CASE \E c \in Link : Moved(c) \/ Noticed(c)
      BY <2>3 DEF Moved, Noticed, LinkMoves
    <2> QED
      BY <2>1, <2>2, <2>3
  <1> QED
    BY <1>1, <1>2 DEF Are

LEMMA LeftThrows ==
    ASSUME IInv, LeftInv, ~ failed, NEW t \in Thread, SessionThrows(t)
    PROVE  LeftInv'
  <1> USE LifecycleConstants DEF IInv, LeftInv, Thread, Worker, SomeCaller, Shutdown, Polls, TypeOK,
          past, net
  <1>1. t = "p2p"
    BY DEF SessionThrows, Places, CallerPlaces
  <1> QED
    BY <1>1 DEF SessionThrows, Goes, Leaves, Are

LEMMA LeftNext == IInv /\ LeftInv /\ [Next]_vars => LeftInv'
  <1> SUFFICES ASSUME IInv, LeftInv, [Next]_vars PROVE LeftInv'
    OBVIOUS
  <1>1. CASE UNCHANGED vars
    BY <1>1 DEF vars, LeftInv, Worker, SomeCaller, Are
  <1>2. CASE failed
    <2>1. failed'
      BY <1>1, <1>2 DEF Next, CallStart, CallStop, CallerStep, Create, Starting, Await, Check, StopRun,
         WaitTimer, Working, StopWork, Stopping, Kill, Join, ShutdownStep, Reset, Accepts, Shakes,
         Sessions, PollReturns, Finish, WorkerStep, Head, Setup, Open, First, Loop, DoWork, IoReturns,
         Exchange, Wait, TimerFires, Accepted, Moved, Noticed, SessionThrows, past, vars
    <2> QED
      BY <2>1 DEF LeftInv
  <1>3. CASE ~ failed
    BY <1>1, <1>3, LeftCaller, LeftShutdown, LeftWorker, LeftHandler, LeftThrows DEF Next
  <1> QED
    BY <1>2, <1>3

\* The worker never starts on an old timer and is idle when Host's members go;
\* it leaves no session behind that is connected, known to Host or not, when it
\* says that it has stopped, if doneWorking ran to its end (an acceptor that is
\* not open makes it throw, Host.cpp:169) and no start has run another: for any
\* number of threads that call start and stop (Host.cpp:120-218, Worker.cpp:29-106).
THEOREM AlwaysStopsClean == Spec => []StopsClean
  <1>1. Init => LeftInv
    BY LifecycleConstants DEF Init, LeftInv, SomeCaller, Worker, Are, Thread, Shutdown, Polls
  <1>2. IInv /\ LeftInv /\ [Next]_vars => LeftInv'
    BY LeftNext
  <1>3. IInv /\ LeftInv => StopsClean
    <2>1. state = "Stopped" /\ IInv => pc["p2p"] = "wait"
      BY DEF IInv, StateFits, Worker, Places, WorkerPlaces, InLoop, Down, Shutdown, Polls
    <2> QED
      BY <2>1 DEF IInv, LeftInv, StopsClean, NoTimerAtStart, NoSessionLeft, IdleWhenDestroyed,
                  TimerFits, Destroying, Worker, SomeCaller
  <1> QED
    BY <1>1, <1>2, <1>3, Invariance, PTL DEF Spec
=============================================================================
