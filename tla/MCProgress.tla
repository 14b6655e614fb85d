----------------------------- MODULE MCProgress -----------------------------
(***************************************************************************)
(* The parts of the network that must go on, or come to an end, whatever   *)
(* their threads and timers do: the UDP socket and the lookups of          *)
(* discovery, a session and the timers of DeadlineOps.                     *)
(* They share no state: each behaviour is of one of them, the subject.     *)
(***************************************************************************)
EXTENDS UDPSocket, Discovery

VARIABLES subject,
          open, reset, dropped, reason, kinds, packets, seals, writing, wire, reading, op, \* of the session
          m_timers, m_stopped, ready, done                                          \* of DeadlineOps

session == <<open, reset, dropped, reason, kinds, packets, seals, writing, wire, reading, op>>
deadlines == <<m_timers, m_stopped, ready, done>>
all == <<subject, vars, session, discoveryVars, deadlines>>

Sessions == INSTANCE Session WITH Caller <- {"c"}, MaxMsgs <- 1, accepted <- kinds, queue <- packets

Deadlines == INSTANCE Deadline WITH Chain <- {"discovery", "evictions"}, Reap <- "reap", MaxTimers <- 5

ASSUME LookupConstants == DiscoveryConstants

-----------------------------------------------------------------------------
Is(part) == subject = part

\* A session that is not the subject starts in one way.
MCInit == /\ subject \in {"socket", "session", "discovery", "deadlines"}
          /\ Init /\ Sessions!Init /\ DiscoveryInit /\ Deadlines!Init
          /\ Is("session") \/ op["io"] = Sessions!Disconnect

MCNext == \/ Is("socket") /\ Next /\ UNCHANGED <<subject, session, discoveryVars, deadlines>>
          \/ Is("session") /\ Sessions!Next /\ UNCHANGED <<subject, vars, discoveryVars, deadlines>>
          \/ Is("discovery") /\ DiscoveryNext /\ UNCHANGED <<subject, vars, session, deadlines>>
          \/ Is("deadlines") /\ Deadlines!Next /\ UNCHANGED <<subject, vars, session, discoveryVars>>

\* The fairness of each: see the modules.
MCFairness ==
    /\ \A t \in Threads : WF_vars(Is("socket") /\ (Push(t) \/ Disconnecting(t)))
    /\ WF_vars(Is("socket") /\ (WriteDone \/ Pop \/ Read))
    /\ WF_vars(Is("socket") /\ ReadDone /\ ~isOpen)
    /\ \A t \in {"c", "io"} : WF_session(Is("session") /\ Sessions!Step(t))
    /\ SF_session(Is("session") /\ (~open \/ reset) /\ Sessions!WriteFails)
    /\ SF_session(Is("session") /\ (~open \/ reset) /\ Sessions!ReadFails)
    /\ SF_session(Is("session") /\ Sessions!WriteDone)
    /\ SF_session(Is("session") /\ Sessions!HeaderRead)
    /\ SF_session(Is("session") /\ Sessions!FrameRead)
    /\ WF_discoveryVars(Is("discovery") /\ Timers)
    /\ WF_deadlines(Is("deadlines") /\ Deadlines!Notice)
    /\ WF_deadlines(Is("deadlines") /\ Deadlines!Run)
    /\ \A f \in {"discovery", "evictions", "reap"} :
          WF_deadlines(Is("deadlines") /\ \E i \in DOMAIN m_timers : m_timers[i].f = f /\ Deadlines!Pass(i))

MCSpec == MCInit /\ [][MCNext]_all /\ MCFairness

-----------------------------------------------------------------------------
\* Session.h:126: a session that was dropped comes to have no handlers.
DroppedEnds == Is("session") => Sessions!DroppedEnds

\* DeadlineOps::reap collects again and again, until it is stopped.
TimersCollected == Is("deadlines") => Deadlines!TimersCollected
=============================================================================
