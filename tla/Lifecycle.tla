----------------------------- MODULE Lifecycle -----------------------------
(***************************************************************************)
(* Starting and stopping the network: Worker.{h,cpp} and Host's start,     *)
(* stop, startedWorking, run, doWork and doneWorking.                      *)
(*                                                                         *)
(* Threads: "p2p", the worker thread, which lives from the first start to  *)
(* the destructor, and the callers of Host::start, Host::stop and ~Host.   *)
(* Handlers of the io_service run in a thread that runs or polls it.       *)
(*                                                                         *)
(* A connection is dialing (async_connect is outstanding), in a handshake, *)
(* cancelled (its handshake is, and has not noticed), or a connected       *)
(* session, which Host knows or, as an "orphan", no longer knows.  "reset" *)
(* is a session that drop left connected as its connection was reset.      *)
(*                                                                         *)
(* Left out: capabilities, restoreNetwork, exceptions of startedWorking    *)
(* and run, and what an io_service does that has no work left.             *)
(***************************************************************************)
EXTENDS Naturals, FiniteSets

CONSTANTS Caller,   \* threads that call start and stop
          Link,     \* connections
          MaxCalls  \* bound on the number of calls

ASSUME LifecycleConstants ==
    {"p2p", "none"} \cap Caller = {} /\ MaxCalls \in Nat

VARIABLES state,     \* Worker::m_state
          xWork,     \* who holds Worker::x_work
          run,       \* m_run
          timer,     \* m_timer: "none", set, or waiting for its time
          table,     \* m_nodeTable is there
          stopped,   \* the io_service is stopped
          accepting, \* m_accepting, and whether the acceptor was closed on the accept
          listening, \* the acceptor is open
          links,     \* the stage of each connection
          pc,        \* where each thread is
          shut,      \* the last doneWorking ran to its end (history)
          failed,    \* a start has failed (history)
          dying,     \* ~Host was called
          calls      \* number of calls so far

vars == <<state, xWork, run, timer, table, stopped, accepting, listening, links, pc, shut, failed, dying, calls>>
work == <<state, xWork>>
net  == <<run, timer, table, stopped, accepting, listening, links>>
past == <<shut, failed>>
user == <<dying, calls>>

Thread == Caller \cup {"p2p"}
State == {"Starting", "Started", "Stopping", "Stopped", "Killing"}
Stage == {"none", "dialing", "shaking", "cancelled", "session", "reset", "orphan"}

\* Places in doneWorking, which the worker or a caller executes.
Polls == {"pollAccept", "pollShakes", "pollSessions"}
Shutdown == {"reset", "accepts", "shakes", "sessions", "finish"} \cup Polls
WorkerPlaces == {"none", "head", "setup", "open", "first", "loop", "doWork", "io",
                 "exchange", "wait", "ended"} \cup Shutdown
CallerPlaces == {"out", "create", "starting", "await", "check", "stop", "timer", "working",
                 "stopWork", "stopping", "kill", "join", "gone"} \cup Shutdown

Goes(t, place) == pc' = [pc EXCEPT ![t] = place]
Are(stage) == \E c \in Link : links[c] = stage
Becomes(from, to) == [c \in Link |-> IF links[c] = from THEN to ELSE links[c]]

Init == /\ state = "Starting"
        /\ xWork = "none"
        /\ run = FALSE
        /\ timer = "none"
        /\ table = FALSE
        /\ stopped = FALSE
        /\ accepting = "no"
        /\ listening = FALSE
        /\ links = [c \in Link |-> "none"]
        /\ pc = [t \in Thread |-> IF t = "p2p" THEN "none" ELSE "out"]
        /\ shut = TRUE
        /\ failed = FALSE
        /\ dying = FALSE
        /\ calls = 0
-----------------------------------------------------------------------------
(* Host::start.                                                            *)

CallStart(t) ==
    /\ pc[t] = "out" /\ ~ dying /\ calls < MaxCalls
    /\ calls' = calls + 1
    /\ Goes(t, "create")
    /\ UNCHANGED <<work, net, past, dying>>

\* startWorking creates the thread, or lets one that has stopped go on, ...
Create(t) ==
    /\ pc[t] = "create" /\ xWork = "none"
    /\ xWork' = t
    /\ IF pc["p2p"] = "none"
       THEN state' = "Starting" /\ pc' = [pc EXCEPT ![t] = "starting", !["p2p"] = "head"]
       ELSE state' = (IF state = "Stopped" THEN "Starting" ELSE state) /\ Goes(t, "starting")
    /\ UNCHANGED <<net, past, user>>

\* ... and waits for it with the lock held.
Starting(t) ==
    /\ pc[t] = "starting" /\ state # "Starting"
    /\ xWork' = "none"
    /\ Goes(t, "await")
    /\ UNCHANGED <<state, net, past, user>>

\* isWorking takes the lock.
Await(t) ==
    /\ pc[t] = "await" /\ xWork = "none"
    /\ state # "Started" \/ (run /\ table)
    /\ Goes(t, "check")
    /\ UNCHANGED <<work, net, past, user>>

\* A start that finds the worker stopped has failed, and shuts the network down.
Check(t) ==
    /\ pc[t] = "check" /\ xWork = "none"
    /\ IF state = "Started" THEN Goes(t, "out") /\ UNCHANGED failed
                            ELSE Goes(t, "reset") /\ failed' = TRUE
    /\ UNCHANGED <<work, net, shut, user>>
-----------------------------------------------------------------------------
(* Host::stop, and ~Host, which calls it and, with Host's members gone,    *)
(* Worker::terminate.                                                      *)

CallStop(t) ==
    /\ pc[t] = "out" /\ ~ dying /\ calls < MaxCalls
    /\ calls' = calls + 1
    /\ \/ UNCHANGED dying
       \/ (\A u \in Caller : pc[u] = "out") /\ dying' = TRUE
    /\ Goes(t, "stop")
    /\ UNCHANGED <<work, net, past>>

Return == IF dying THEN "kill" ELSE "out"

\* Under x_runTimer.
StopRun(t) ==
    /\ pc[t] = "stop"
    /\ run' = FALSE
    /\ Goes(t, IF run THEN "timer" ELSE Return)
    /\ UNCHANGED <<work, timer, table, stopped, accepting, listening, links, past, user>>

WaitTimer(t) ==
    /\ pc[t] = "timer" /\ timer = "none"
    /\ Goes(t, "working")
    /\ UNCHANGED <<work, net, past, user>>

Working(t) ==
    /\ pc[t] = "working" /\ xWork = "none"
    /\ Goes(t, IF state = "Started" THEN "stopWork" ELSE Return)
    /\ UNCHANGED <<work, net, past, user>>

\* stopWorking
StopWork(t) ==
    /\ pc[t] = "stopWork" /\ xWork = "none"
    /\ xWork' = t
    /\ state' = (IF state = "Started" THEN "Stopping" ELSE state)
    /\ Goes(t, "stopping")
    /\ UNCHANGED <<net, past, user>>

\* Mutant: stopWorking does not wait for the thread.
StoppingAtOnce(t) ==
    /\ pc[t] = "stopping"
    /\ xWork' = "none"
    /\ Goes(t, Return)
    /\ UNCHANGED <<state, net, past, user>>

Stopping(t) ==
    /\ pc[t] = "stopping" /\ state = "Stopped"
    /\ xWork' = "none"
    /\ Goes(t, Return)
    /\ UNCHANGED <<state, net, past, user>>

\* terminate
Kill(t) ==
    /\ pc[t] = "kill" /\ xWork = "none"
    /\ IF pc["p2p"] = "none" THEN UNCHANGED state /\ Goes(t, "gone")
                             ELSE state' = "Killing" /\ Goes(t, "join")
    /\ UNCHANGED <<xWork, net, past, user>>

Join(t) ==
    /\ pc[t] = "join" /\ pc["p2p"] = "ended"
    /\ Goes(t, "gone")
    /\ UNCHANGED <<work, net, past, user>>
-----------------------------------------------------------------------------
(* Host::doneWorking.                                                      *)

\* How doneWorking ends, also by an exception: that is caught in the worker's
\* loop, and leaves start.
Leaves(t) == Goes(t, IF t = "p2p" THEN "exchange" ELSE "out")

\* m_ioService.reset; the acceptor is cancelled, which throws if it is not open,
\* and closed.
Reset(t) ==
    /\ pc[t] = "reset"
    /\ stopped' = FALSE
    /\ shut' = FALSE
    /\ listening' = FALSE
    /\ accepting' = IF listening /\ accepting = "yes" THEN "cancelled" ELSE accepting
    /\ IF listening THEN Goes(t, "accepts") ELSE Leaves(t)
    /\ UNCHANGED <<work, run, timer, table, links, failed, user>>

Accepts(t) ==
    /\ pc[t] = "accepts"
    /\ Goes(t, IF accepting # "no" THEN "pollAccept" ELSE "shakes")
    /\ UNCHANGED <<work, net, past, user>>

\* m_connecting holds the handshakes that still have a handler.
Shakes(t) ==
    /\ pc[t] = "shakes"
    /\ Goes(t, IF Are("shaking") \/ Are("cancelled") THEN "pollShakes" ELSE "sessions")
    /\ links' = Becomes("shaking", "cancelled")
    /\ UNCHANGED <<work, run, timer, table, stopped, accepting, listening, past, user>>

\* Session::disconnect closes the socket, unless the connection was reset.
Sessions(t) ==
    /\ pc[t] = "sessions"
    /\ Goes(t, IF Are("session") \/ Are("reset") THEN "pollSessions" ELSE "finish")
    /\ links' \in {f \in [Link -> Stage] :
                     \A c \in Link : f[c] \in IF links[c] = "session" THEN {"none", "reset"} ELSE {links[c]}}
    /\ UNCHANGED <<work, run, timer, table, stopped, accepting, listening, past, user>>

PollReturns(t) ==
    /\ pc[t] \in Polls
    /\ Goes(t, CASE pc[t] = "pollAccept" -> "accepts"
                 [] pc[t] = "pollShakes" -> "shakes"
                 [] pc[t] = "pollSessions" -> "sessions")
    /\ UNCHANGED <<work, net, past, user>>

\* m_ioService.stop, m_ioService.reset, m_sessions.clear
Finish(t) ==
    /\ pc[t] = "finish"
    /\ stopped' = FALSE
    /\ links' = [c \in Link |-> IF links[c] \in {"session", "reset"} THEN "orphan" ELSE links[c]]
    /\ shut' = TRUE
    /\ Leaves(t)
    /\ UNCHANGED <<work, run, timer, table, accepting, listening, failed, user>>
-----------------------------------------------------------------------------
(* The worker thread.                                                      *)

\* Mutant: the io_service goes on when the network shuts down.
RunHostGoesOn ==
    IF run
    THEN /\ timer' = "armed"
         /\ links' \in {links} \cup
              {[links EXCEPT ![c] = "dialing"] : c \in {d \in Link : links[d] = "none"}}
         /\ UNCHANGED <<run, table, stopped, accepting, listening>>
    ELSE /\ timer' = "none"
         /\ table' = FALSE
         /\ UNCHANGED <<run, stopped, accepting, listening, links>>

\* Host::run connects to peers and sets the timer again, or, after stop, takes
\* the network down.
RunHost ==
    IF run
    THEN /\ timer' = "armed"
         /\ links' \in {links} \cup
              {[links EXCEPT ![c] = "dialing"] : c \in {d \in Link : links[d] = "none"}}
         /\ UNCHANGED <<run, table, stopped, accepting, listening>>
    ELSE /\ timer' = "none"
         /\ table' = FALSE
         /\ stopped' = TRUE
         /\ UNCHANGED <<run, accepting, listening, links>>

Head == /\ pc["p2p"] = "head"
        /\ IF state = "Killing" THEN Goes("p2p", "ended") ELSE Goes("p2p", "setup")
        /\ state' = (IF state = "Starting" THEN "Started" ELSE state)
        /\ UNCHANGED <<xWork, net, past, user>>

\* startedWorking, under x_runTimer, ...
Setup == /\ pc["p2p"] = "setup"
         /\ timer' = "set"
         /\ run' = TRUE
         /\ Goes("p2p", "open")
         /\ UNCHANGED <<work, table, stopped, accepting, listening, links, past, user>>

\* ... listens, if the port can be had, makes the node table, ...
Open == /\ pc["p2p"] = "open"
        /\ \/ /\ listening' = TRUE
              /\ accepting' = IF accepting = "no" /\ run THEN "yes" ELSE accepting
           \/ UNCHANGED <<listening, accepting>>
        /\ table' = TRUE
        /\ Goes("p2p", "first")
        /\ UNCHANGED <<work, run, timer, stopped, links, past, user>>

\* ... and calls run.
First == /\ pc["p2p"] = "first"
         /\ RunHost
         /\ Goes("p2p", "loop")
         /\ UNCHANGED <<work, past, user>>

\* workLoop
Loop == /\ pc["p2p"] = "loop"
        /\ Goes("p2p", IF state = "Started" THEN "doWork" ELSE "reset")
        /\ UNCHANGED <<work, net, past, user>>

DoWork == /\ pc["p2p"] = "doWork"
          /\ Goes("p2p", IF run THEN "io" ELSE "loop")
          /\ UNCHANGED <<work, net, past, user>>

IoReturns == /\ pc["p2p"] = "io" /\ stopped
             /\ Goes("p2p", "loop")
             /\ UNCHANGED <<work, net, past, user>>

\* The thread says that it has stopped, unless it is to go on or to end.
Exchange == /\ pc["p2p"] = "exchange"
            /\ state' = (IF state \in {"Killing", "Starting"} THEN state ELSE "Stopped")
            /\ Goes("p2p", "wait")
            /\ UNCHANGED <<xWork, net, past, user>>

Wait == /\ pc["p2p"] = "wait" /\ state # "Stopped"
        /\ Goes("p2p", "head")
        /\ UNCHANGED <<work, net, past, user>>
-----------------------------------------------------------------------------
(* Handlers.                                                               *)

Handling == ~ stopped /\ \E t \in Thread : pc[t] \in Polls \cup {"io"}

TimerFires == /\ Handling
              /\ timer = "armed"
              /\ RunHost
              /\ UNCHANGED <<work, past, user, pc>>

\* runAcceptor's handler: a connection, which begins a handshake or is refused,
\* or an error because the acceptor was closed, unless one had come just before.
Accepted ==
    /\ Handling /\ accepting # "no"
    /\ \E taken \in IF accepting = "yes" THEN {run} ELSE {FALSE, run} :
         IF taken
         THEN /\ accepting' = IF listening THEN "yes" ELSE "cancelled"
              /\ links' \in {links} \cup
                   {[links EXCEPT ![c] = "shaking"] : c \in {d \in Link : links[d] = "none"}}
         ELSE accepting' = "no" /\ UNCHANGED links
    /\ UNCHANGED <<work, run, timer, table, stopped, listening, past, user, pc>>

\* What becomes of a connection: connect's handler does not look at m_run.
LinkMoves == {<<"dialing", "shaking">>, <<"dialing", "none">>,
              <<"shaking", "session">>, <<"shaking", "none">>,
              <<"session", "none">>, <<"session", "reset">>, <<"orphan", "none">>}

Moved(c) ==
    /\ Handling
    /\ \E m \in LinkMoves : links[c] = m[1] /\ links' = [links EXCEPT ![c] = m[2]]
    /\ UNCHANGED <<work, run, timer, table, stopped, accepting, listening, past, user, pc>>

\* A cancelled handshake finds its socket closed; the reads and writes of a
\* session whose connection was reset fail, and with the last of them it goes.
Noticed(c) ==
    /\ Handling
    /\ links[c] \in {"cancelled", "reset"}
    /\ links' = [links EXCEPT ![c] = "none"]
    /\ UNCHANGED <<work, run, timer, table, stopped, accepting, listening, past, user, pc>>

\* A packet that is no RLP makes a session's handler throw.  doWork catches that;
\* in a poll it ends doneWorking.
SessionThrows(t) ==
    /\ ~ stopped /\ pc[t] \in Polls \cup {"io"}
    /\ Are("session") \/ Are("reset") \/ Are("orphan")
    /\ IF pc[t] = "io" THEN Goes(t, "loop") ELSE Leaves(t)
    /\ UNCHANGED <<work, net, past, user>>
-----------------------------------------------------------------------------
CallerStep(t) == \/ Create(t) \/ Starting(t) \/ Await(t) \/ Check(t)
                 \/ StopRun(t) \/ WaitTimer(t) \/ Working(t) \/ StopWork(t) \/ Stopping(t)
                 \/ Kill(t) \/ Join(t)

ShutdownStep(t) == \/ Reset(t) \/ Accepts(t) \/ Shakes(t) \/ Sessions(t)
                   \/ PollReturns(t) \/ Finish(t)

WorkerStep == \/ Head \/ Setup \/ Open \/ First \/ Loop \/ DoWork \/ IoReturns
              \/ Exchange \/ Wait

Next == \/ \E t \in Caller : CallStart(t) \/ CallStop(t) \/ CallerStep(t)
        \/ \E t \in Thread : ShutdownStep(t) \/ SessionThrows(t)
        \/ WorkerStep
        \/ TimerFires \/ Accepted
        \/ \E c \in Link : Moved(c) \/ Noticed(c)

Spec == Init /\ [][Next]_vars

\* Threads run.  A handler that is due runs when the io_service is run or
\* polled often enough: strong fairness, as polls come and go.
Fairness == /\ \A t \in Caller : WF_vars(CallerStep(t))
            /\ \A t \in Thread : WF_vars(ShutdownStep(t))
            /\ WF_vars(WorkerStep)
            /\ SF_vars(TimerFires)
            /\ SF_vars(accepting = "cancelled" /\ Accepted)
            /\ \A c \in Link : SF_vars(Noticed(c))

FairSpec == Spec /\ Fairness
-----------------------------------------------------------------------------
TypeOK == /\ state \in State
          /\ xWork \in Caller \cup {"none"}
          /\ \A t \in Caller : xWork = t <=> pc[t] \in {"starting", "stopping"}
          /\ run \in BOOLEAN
          /\ timer \in {"none", "set", "armed"}
          /\ table \in BOOLEAN
          /\ stopped \in BOOLEAN
          /\ accepting \in {"no", "yes", "cancelled"}
          /\ listening \in BOOLEAN
          /\ links \in [Link -> Stage]
          /\ pc \in [Thread -> WorkerPlaces \cup CallerPlaces]
          /\ shut \in BOOLEAN
          /\ failed \in BOOLEAN
          /\ dying \in BOOLEAN
          /\ calls \in 0..MaxCalls
-----------------------------------------------------------------------------
(* What holds.                                                             *)

\* Host.cpp:686, "asserts(!m_timer)": the thread never starts the network
\* before the scheduler of the previous one is gone, whatever calls of start
\* and stop it has seen.
NoTimerAtStart == pc["p2p"] = "setup" => timer = "none"

\* When ~Host destroys its members, which is before ~Worker joins the thread,
\* the thread uses none of them.
IdleWhenDestroyed ==
    (\E t \in Caller : pc[t] \in {"kill", "join"}) => pc["p2p"] \in {"none", "wait", "head", "ended"}

\* A worker that has stopped leaves no session behind that is connected, if its
\* doneWorking ran to the end and no start has run another.
NoSessionLeft ==
    state = "Stopped" /\ shut /\ ~ failed => ~ Are("session") /\ ~ Are("reset") /\ ~ Are("orphan")

\* Whatever calls of start, stop and ~Host the worker has seen: it never starts
\* before the last timer is gone, leaves no session behind when it stops, and is
\* idle when Host's members are destroyed.
StopsClean == NoTimerAtStart /\ NoSessionLeft /\ IdleWhenDestroyed

\* startWorking and stopWorking wait for the thread with x_work held, which
\* isWorking needs, too; both waits end, unless a start has failed.
LockReleased == xWork # "none" ~> xWork = "none" \/ failed
-----------------------------------------------------------------------------
(* What the source says and the code does not do.                          *)

\* Host.cpp:690: "in case stop() is called at same time, stop will wait on m_timer
\* and graceful network shutdown": the wait, and the stop, come to an end.
StopReturns == \A t \in Caller : pc[t] = "stop" ~> pc[t] \in {"out", "gone"}

\* Host.cpp:184: "disconnect pending handshake, before peers, as a handshake may
\* create a peer": no handshake that is not cancelled is under way after that.
ShakesCancelled == pc["p2p"] = "finish" => ~ Are("shaking")

\* Host.h:274 says of doneWorking: "Not thread-safe; to be called only by worker",
\* and Host.h:202 that start is "threadsafe": a start that shuts the network down
\* does not do so under a worker that another start has set going.
ShutdownAlone ==
    (\E t \in Caller : pc[t] \in Shutdown) => pc["p2p"] \in {"none", "wait", "head", "ended"}

\* Host.h:205 of stop: "Resets acceptor, socket, and IO service", and Host.cpp:199,
\* "disconnect peers": a worker that has stopped leaves no session connected.
StopDisconnects == state = "Stopped" => ~ Are("session") /\ ~ Are("reset") /\ ~ Are("orphan")
=============================================================================
