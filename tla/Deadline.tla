------------------------------ MODULE Deadline ------------------------------
(***************************************************************************)
(* DeadlineOps of libp2p/Common: timers whose handlers schedule the next,  *)
(* kept in a vector that a timer of its own clears of those that expired.  *)
(*                                                                         *)
(* A deadline passes at any time.  The io_service notices it only between  *)
(* two handlers, and then queues the handlers of all that have passed;     *)
(* destroying a timer that it has not noticed queues the handler as        *)
(* aborted.  NodeTable's chains, doDiscovery and doCheckEvictions, are the *)
(* users; destroying NodeTable stops its timers.                           *)
(***************************************************************************)
EXTENDS Naturals, SequencesExt

CONSTANTS Chain,    \* chains of timers of the owner
          Reap,     \* the chain of reap
          MaxTimers \* no other deadline passes while m_timers is as long

VARIABLES m_timers,  \* each the chain it is of, and how far it has come
          m_stopped,
          ready,     \* the handlers that are to run, and whether with success
          done       \* the chain whose handler has done its work last

vars == <<m_timers, m_stopped, ready, done>>

Op(f) == [f |-> f, at |-> "set"]
Handler(f, ok) == [f |-> f, ok |-> ok]

Expired(op) == op.at # "set"
Waits(op) == op.at # "queued"

Queued(ops, ok) == [i \in DOMAIN ops |-> Handler(ops[i].f, ok)]

\* The destructors of ops: the waits that are not over are aborted.
Aborted(ops) == Queued(SelectSeq(ops, Waits), FALSE)

\* Mutant: reap does not schedule itself again.
ReapOnce(ops) == SelectSeq(ops, LAMBDA op : ~Expired(op))

\* reap, which also schedules the next one.
Reaped(ops) == Append(SelectSeq(ops, LAMBDA op : ~Expired(op)), Op(Reap))

Init == /\ m_timers = <<Op(Reap)>> \o SetToSeq({Op(c) : c \in Chain})
        /\ m_stopped = FALSE /\ ready = <<>> /\ done = Reap

\* The deadline of the i-th timer passes.
Pass(i) ==
    /\ m_timers[i].at = "set"
    /\ m_timers[i].f = Reap \/ Len(m_timers) < MaxTimers
    /\ m_timers' = [m_timers EXCEPT ![i].at = "due"]
    /\ UNCHANGED <<m_stopped, ready, done>>

\* The io_service looks for deadlines that have passed.
Notice ==
    /\ \E i \in DOMAIN m_timers : m_timers[i].at = "due"
    /\ ready' = ready \o Queued(SelectSeq(m_timers, LAMBDA op : op.at = "due"), TRUE)
    /\ m_timers' = [i \in DOMAIN m_timers |->
                      IF m_timers[i].at = "due" THEN [m_timers[i] EXCEPT !.at = "queued"] ELSE m_timers[i]]
    /\ UNCHANGED <<m_stopped, done>>

\* The next handler runs.  One that is aborted, or stopped, does nothing.
Run ==
    /\ ready # <<>>
    /\ LET f == Head(ready).f
           works == Head(ready).ok /\ ~m_stopped
       IN  /\ ready' = Tail(ready) \o (IF works /\ f = Reap
                                       THEN Aborted(SelectSeq(m_timers, Expired)) ELSE <<>>)
           /\ m_timers' = CASE ~works   -> m_timers
                            [] works /\ f = Reap -> Reaped(m_timers)
                            [] works /\ f # Reap -> Append(m_timers, Op(f))
           /\ done' = IF works THEN f ELSE done
    /\ UNCHANGED m_stopped

\* stop, by the destructor of the owner.
Stop == /\ ~m_stopped
        /\ m_stopped' = TRUE
        /\ ready' = ready \o Aborted(m_timers)
        /\ m_timers' = <<>>
        /\ UNCHANGED done

Next == Notice \/ Run \/ Stop \/ \E i \in DOMAIN m_timers : Pass(i)

\* Time passes for every chain's timer, and the network thread goes on.
Fairness == /\ WF_vars(Notice) /\ WF_vars(Run)
            /\ \A f \in Chain \cup {Reap} :
                  WF_vars(\E i \in DOMAIN m_timers : m_timers[i].f = f /\ Pass(i))

Spec == Init /\ [][Next]_vars /\ Fairness

---------------------------------------------------------------------------
\* The timers whose handlers have run are collected again and again, until
\* the owner stops: reap's chain outlives each of its own timers, though it
\* destroys them itself.
TimersCollected == []<>(m_stopped \/ \A i \in DOMAIN m_timers : Waits(m_timers[i]))

\* NodeTable.h:241, of doDiscovery: "Looks up a random node at
\* @c_bucketRefresh interval."
ChainsGoOn == \A c \in Chain : []<>(m_stopped \/ done = c)
=============================================================================
