----------------------------- MODULE Reputation -----------------------------
(***************************************************************************)
(* ReputationManager (Host.h, Host.cpp): what threads note of nodes, each  *)
(* under a shared_mutex, and ask about them.  isRude of a subprotocol asks *)
(* for the node as a whole while it still holds the lock, so it locks      *)
(* twice; a thread that waits to write lets no reader in meanwhile.        *)
(***************************************************************************)
EXTENDS Naturals

CONSTANTS Thread,
          Session, \* what m_nodes is indexed by: a session's id and client version
          Sub      \* subprotocols; Whole is the empty name

Whole == "the node as a whole"
Topic == Session \X (Sub \cup {Whole})

VARIABLES nodes,         \* what m_nodes notes as rude
          knownSessions, \* sessions that m_nodes has anything about
          stored,        \* subprotocols with data, of sessions that are known
          readers,       \* how many times x_nodes is locked to read, by each thread
          blocked,       \* a thread waits to write
          calls,         \* what each thread is doing
          noted          \* rude before the call of each thread began

reputationVars == <<nodes, knownSessions, stored, readers, blocked, calls, noted>>

NoCall == [op |-> "none", on |-> <<>>, ret |-> FALSE]
Op(t, op) == calls[t].op = op
Goes(t, op, ret) == calls' = [calls EXCEPT ![t].op = op, ![t].ret = ret]
Done(t) == calls' = [calls EXCEPT ![t] = NoCall] /\ noted' = [noted EXCEPT ![t] = {}]
Unread == \A t \in Thread : readers[t] = 0

ReputationInit == /\ nodes = {} /\ knownSessions = {} /\ stored = {} /\ blocked = FALSE
                  /\ readers = [t \in Thread |-> 0]
                  /\ calls = [t \in Thread |-> NoCall]
                  /\ noted = [t \in Thread |-> {}]

Call(t, op, topic) ==
    /\ Op(t, "none")
    /\ calls' = [calls EXCEPT ![t] = [op |-> op, on |-> topic, ret |-> FALSE]]
    /\ noted' = [noted EXCEPT ![t] = nodes]
    /\ UNCHANGED <<nodes, knownSessions, stored, readers, blocked>>

\* lock_shared
ReadLock(t) == /\ ~blocked /\ readers' = [readers EXCEPT ![t] = @ + 1]
               /\ UNCHANGED <<nodes, knownSessions, stored, blocked, noted>>

\* A read of a topic; a subprotocol's goes on to the node as a whole, unless
\* nothing is known of the session.
Read(t) == /\ Op(t, "rude?") /\ ReadLock(t)
           /\ Goes(t, IF calls[t].on[2] = Whole \/ calls[t].on[1] \notin knownSessions THEN "release" ELSE "whole?",
                   calls[t].on \in nodes)

\* data: "yes" stands for what setData had stored.
ReadData(t) == /\ Op(t, "data?") /\ ReadLock(t)
               /\ Goes(t, "release data", calls[t].on[1] \in knownSessions /\ calls[t].on \in stored)

\* Mutant: nobody asks for the node as a whole.
ReadNoWhole(t) == /\ Op(t, "whole?") /\ Goes(t, "release", calls[t].ret)
                  /\ UNCHANGED <<nodes, knownSessions, stored, readers, blocked, noted>>

\* isRude(_s) is called within isRude, unless the subprotocol was rude.
ReadWhole(t) ==
    /\ Op(t, "whole?")
    /\ IF calls[t].ret
         THEN Goes(t, "release", TRUE) /\ UNCHANGED <<nodes, knownSessions, stored, readers, blocked, noted>>
         ELSE ReadLock(t) /\ Goes(t, "release", <<calls[t].on[1], Whole>> \in nodes)

\* Locks are released as the calls return.
Release(t) == /\ calls[t].op \in {"release", "release data"}
              /\ readers' = [readers EXCEPT ![t] = 0]
              /\ Goes(t, IF Op(t, "release") THEN "answer" ELSE "data", calls[t].ret)
              /\ UNCHANGED <<nodes, knownSessions, stored, blocked, noted>>

\* lock: one thread waits, then new readers and writers do, for the others.
WaitToWrite(t) == /\ calls[t].op \in {"note", "store"} /\ ~blocked /\ blocked' = TRUE
                  /\ Goes(t, IF Op(t, "note") THEN "write" ELSE "write data", FALSE)
                  /\ UNCHANGED <<nodes, knownSessions, stored, readers, noted>>

\* noteRude
Write(t) ==
    /\ Op(t, "write") /\ Unread
    /\ nodes' = nodes \cup {calls[t].on} /\ knownSessions' = knownSessions \cup {calls[t].on[1]}
    /\ Done(t) /\ blocked' = FALSE
    /\ UNCHANGED <<stored, readers>>

\* setData: it makes the session known, and tells of no rudeness.
WriteData(t) ==
    /\ Op(t, "write data") /\ Unread
    /\ stored' = stored \cup {calls[t].on} /\ knownSessions' = knownSessions \cup {calls[t].on[1]}
    /\ Done(t) /\ blocked' = FALSE
    /\ UNCHANGED <<nodes, readers>>

Return(t) == /\ calls[t].op \in {"answer", "data"}
             /\ Done(t)
             /\ UNCHANGED <<nodes, knownSessions, stored, readers, blocked>>

RunCall(t) == \/ Read(t) \/ ReadData(t) \/ ReadWhole(t) \/ Release(t)
              \/ WaitToWrite(t) \/ Write(t) \/ WriteData(t) \/ Return(t)

ReputationNext ==
    \E t \in Thread : \/ \E op \in {"rude?", "note", "data?", "store"}, topic \in Topic : Call(t, op, topic)
                      \/ RunCall(t)

ReputationSpec == ReputationInit /\ [][ReputationNext]_reputationVars

-----------------------------------------------------------------------------
\* An answer about a subprotocol or a node as a whole says "rude" if that, or
\* the node as a whole, was noted before the question was asked, and only if it
\* has been noted since, whatever other threads note at the time
\* (ReputationManager::noteRude, isRude).
RudeIsRemembered ==
    \A t \in Thread : Op(t, "answer") =>
       LET topics == {calls[t].on, <<calls[t].on[1], Whole>>}
       IN  /\ topics \cap noted[t] # {} => calls[t].ret
           /\ calls[t].ret => topics \cap nodes # {}

\* Nobody waits to read for a thread that waits for it to have read.  It does
\* not hold: isRude of a subprotocol locks a second time.
NoReaderInTheWay ==
    \A t \in Thread : Op(t, "whole?") /\ ~calls[t].ret => ~blocked
=============================================================================
