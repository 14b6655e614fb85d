----------------------------- MODULE Handshake -----------------------------
(***************************************************************************)
(* The handshake of a connection (RLPxHandshake.cpp), at both of its ends, *)
(* up to the session that each host starts (Host::startPeerSession), when  *)
(* two hosts may dial each other at the same time.                         *)
(*                                                                         *)
(* Each handler of a host runs on its network thread and is one step here. *)
(* A message is on its way from the moment it is written; a connection may *)
(* break, a message may arrive damaged (bound: MaxFaults), and nothing     *)
(* says that a message ever arrives.  Of the cryptography the model keeps  *)
(* whose key auth is encrypted to, and that damage is noticed.             *)
(***************************************************************************)
EXTENDS Integers, SequencesExt

CONSTANTS Host,      \* the hosts, by the id each has
          Dial,      \* the connections: [from, to: hosts]
          Stale,     \* ids that a host had once: the one who dials it may expect them
          Slow,      \* bound: the connections on which a timer may expire, a message
                     \* be damaged, or that break or are cancelled
          MaxFaults  \* bound: connections broken and messages damaged

Sides == {"from", "to"}
End == Dial \X Sides

ASSUME HandshakeConstants ==
    /\ \A c \in Dial : c.from \in Host /\ c.to \in Host \ {c.from}
    /\ Slow \subseteq Dial
    /\ MaxFaults \in Nat

Originated(e) == e[2] = "from"
Other(e) == <<e[1], IF Originated(e) THEN "to" ELSE "from">>
Me(e) == e[1][e[2]]
Them(e) == Me(Other(e))
Nobody == "nobody"
NoSession == <<>>

VARIABLES next,     \* m_nextState
          op,       \* the asynchronous operation under way, or "session", or "none"
          armed,    \* m_idleTimer is waited for
          fired,    \* its handler is queued: cancelling the timer comes too late
          cancel,   \* m_cancel
          open,     \* m_socket is open
          remote,   \* m_remote
          inbox,    \* what is on its way to an end or waits there to be read
          broken,   \* connections that are broken
          sessions, \* of a host and an id, the end that m_sessions has for it
          faults    \* number of faults so far

timers == <<armed, fired>>
wires == <<inbox, broken, faults>>
vars == <<next, op, timers, cancel, open, remote, wires, sessions>>

Writes == {"writeAuth", "writeAck", "writeHello"}
Reads == {"readAuth", "readAck", "readHeader", "readFrame"}
Shaking(e) == op[e] \in Writes \cup Reads

Init == /\ next = [e \in End |-> "New"]
        /\ op = [e \in End |-> "new"]
        /\ armed = [e \in End |-> FALSE]
        /\ fired = [e \in End |-> FALSE]
        /\ cancel = [e \in End |-> FALSE]
        /\ open = [e \in End |-> FALSE]
        /\ \E id \in [Dial -> Host \cup Stale] :
               /\ \A c \in Dial : id[c] \in {c.to} \cup Stale
               /\ remote = [e \in End |-> IF Originated(e) THEN id[e[1]] ELSE Nobody]
        /\ inbox = [e \in End |-> <<>>]
        /\ broken = {}
        /\ sessions = [h \in Host |-> [id \in Host \cup Stale |-> NoSession]]
        /\ faults = 0

-----------------------------------------------------------------------------
\* What an operation writes.  The header of hello is read before the rest.
Written(e, write) ==
    CASE write = "writeAuth"  -> << [what |-> "auth", to |-> remote[e], from |-> Me(e)] >>
      [] write = "writeAck"   -> << [what |-> "ack"] >>
      [] write = "writeHello" -> << [what |-> "header"], [what |-> "frame"] >>
      [] OTHER                -> <<>>

\* The socket is closed and nothing is under way.
Close(e) == /\ open' = [open EXCEPT ![e] = FALSE]
            /\ op' = [op EXCEPT ![e] = "none"]

\* transition after an error or with m_nextState set to Error, and error.
Fail(e) == /\ armed' = [armed EXCEPT ![e] = FALSE]
           /\ Close(e)
           /\ UNCHANGED next

\* The state that follows and the operation that is begun.
Following(e) ==
    CASE next[e] = "New"        -> <<"AckAuth", IF Originated(e) THEN "writeAuth" ELSE "readAuth">>
      [] next[e] = "AckAuth"    -> <<"WriteHello", IF Originated(e) THEN "readAck" ELSE "writeAck">>
      [] next[e] = "WriteHello" -> <<"ReadHello", "writeHello">>
      [] next[e] = "ReadHello"  -> <<"StartSession", "readHeader">>

\* The inboxes when e has left rest of its own and writes what write says.  A
\* socket that is closed receives nothing more.
Sent(e, rest, write) ==
    [f \in End |-> CASE f = e -> rest
                     [] f = Other(e) /\ (open[f] \/ op[f] = "new") /\ e[1] \notin broken
                             -> inbox[f] \o Written(e, write)
                     [] OTHER -> inbox[f]]

\* Mutant: the timer is cancelled and not started again.
TransitionUntimed(e, rest) ==
    /\ ~cancel[e]
    /\ armed' = [armed EXCEPT ![e] = FALSE]
    /\ next' = [next EXCEPT ![e] = Following(e)[1]]
    /\ op' = [op EXCEPT ![e] = Following(e)[2]]
    /\ inbox' = Sent(e, rest, Following(e)[2])
    /\ UNCHANGED open

\* transition, when the operation before it has succeeded and has left rest.
Transition(e, rest) ==
    IF cancel[e]
      THEN /\ Fail(e)
           /\ inbox' = [inbox EXCEPT ![e] = rest]
      ELSE /\ armed' = [armed EXCEPT ![e] = TRUE]
           /\ next' = [next EXCEPT ![e] = Following(e)[1]]
           /\ op' = [op EXCEPT ![e] = Following(e)[2]]
           /\ inbox' = Sent(e, rest, Following(e)[2])
           /\ UNCHANGED open

\* The connection is there: Host::connect or runAcceptor start a handshake.
Start(e) ==
    /\ op[e] = "new"
    /\ Originated(e) \/ op[Other(e)] # "new"
    /\ open' = [open EXCEPT ![e] = TRUE]
    /\ armed' = [armed EXCEPT ![e] = TRUE]
    /\ next' = [next EXCEPT ![e] = Following(e)[1]]
    /\ op' = [op EXCEPT ![e] = Following(e)[2]]
    /\ inbox' = Sent(e, inbox[e], Following(e)[2])
    /\ UNCHANGED <<fired, cancel, remote, broken, faults, sessions>>

\* A write has completed.
WriteDone(e) ==
    /\ op[e] \in Writes /\ open[e] /\ e[1] \notin broken
    /\ Transition(e, inbox[e])
    /\ UNCHANGED <<fired, cancel, remote, broken, faults, sessions>>

\* An operation fails: the socket was closed, the connection is broken, or the
\* other end has closed it and everything it sent has been read.
Lost(e) == \/ ~open[e]
           \/ e[1] \in broken
           \/ op[Other(e)] # "new" /\ ~open[Other(e)] /\ (op[e] \in Writes \/ inbox[e] = <<>>)

OperationFails(e) ==
    /\ Shaking(e) /\ Lost(e)
    /\ Fail(e)
    /\ UNCHANGED <<fired, cancel, remote, wires, sessions>>

-----------------------------------------------------------------------------
\* The message that a read has received, if it has.  A read that completed
\* before the socket was closed is handled all the same.
Received(e, read, what) ==
    /\ op[e] = read /\ inbox[e] # <<>>
    /\ inbox[e][1].what \in {what, "junk"}

\* Mutant: a failure to decrypt auth goes unnoticed.
InvalidIfDamaged(e) == inbox[e][1].what = "junk"

\* The message read does not decrypt, or is not authentic.
Invalid(e) == LET message == inbox[e][1]
              IN  \/ message.what = "junk"
                  \/ message.what = "auth" /\ message.to # Me(e)

Rest(e) == Tail(inbox[e])
Consume(e) == inbox' = [inbox EXCEPT ![e] = Rest(e)]

TransitionReading(e) == IF Invalid(e) THEN Fail(e) /\ Consume(e) ELSE Transition(e, Rest(e))

\* readAuth: the id of the remote is what auth says.
ReadAuth(e) ==
    /\ Received(e, "readAuth", "auth")
    /\ remote' = IF Invalid(e) THEN remote ELSE [remote EXCEPT ![e] = inbox[e][1].from]
    /\ TransitionReading(e)
    /\ UNCHANGED <<fired, cancel, broken, faults, sessions>>

\* readAck
ReadAck(e) ==
    /\ Received(e, "readAck", "ack")
    /\ TransitionReading(e)
    /\ UNCHANGED <<fired, cancel, remote, broken, faults, sessions>>

\* Mutant: the first of the two reads of hello cancels the timer, as the second does.
ReadHeaderUntimed(e) ==
    /\ Received(e, "readHeader", "header")
    /\ Consume(e)
    /\ armed' = [armed EXCEPT ![e] = FALSE]
    /\ op' = [op EXCEPT ![e] = IF Invalid(e) THEN "none" ELSE "readFrame"]
    /\ open' = [open EXCEPT ![e] = @ /\ ~Invalid(e)]
    /\ UNCHANGED <<next, fired, cancel, remote, broken, faults, sessions>>

\* The header of hello is read: its frame is next, under the same timer.
ReadHeader(e) ==
    /\ Received(e, "readHeader", "header")
    /\ Consume(e)
    /\ IF Invalid(e) THEN Fail(e)
                     ELSE op' = [op EXCEPT ![e] = "readFrame"] /\ UNCHANGED <<next, armed, open>>
    /\ UNCHANGED <<fired, cancel, remote, broken, faults, sessions>>

\* Host::startPeerSession: m_sessions has a session with the same id that is
\* connected.
Connected(h, id) == sessions[h][id] # NoSession /\ open[sessions[h][id]]

StartSession(e) ==
    /\ op' = [op EXCEPT ![e] = "session"]
    /\ sessions' = [sessions EXCEPT ![Me(e)][remote[e]] = e]
    /\ UNCHANGED open

\* A duplicate, a remote with an incompatible version and one for which there
\* is no slot are disconnected; after an exception transition fails.
Refuse(e) == Close(e) /\ UNCHANGED sessions

\* hello is read, with the timer cancelled; startPeerSession may throw, when
\* hello is not what it expects.
ReadFrame(e) ==
    /\ Received(e, "readFrame", "frame")
    /\ Consume(e)
    /\ armed' = [armed EXCEPT ![e] = FALSE]
    /\ \/ Refuse(e)
       \/ ~Invalid(e) /\ ~Connected(Me(e), remote[e]) /\ StartSession(e)
    /\ UNCHANGED <<next, fired, cancel, remote, broken, faults>>

\* The session reads until there is nothing more to come, and is dropped then.
SessionEnds(e) ==
    /\ op[e] = "session" /\ Lost(e)
    /\ Refuse(e)
    /\ UNCHANGED <<next, timers, cancel, remote, wires>>

-----------------------------------------------------------------------------
\* cancel
Cancel(e) == /\ cancel' = [cancel EXCEPT ![e] = TRUE]
             /\ open' = [open EXCEPT ![e] = FALSE]

\* The timer expires, and its handler is run later.
Expire(e) ==
    /\ armed[e]
    /\ armed' = [armed EXCEPT ![e] = FALSE]
    /\ fired' = [fired EXCEPT ![e] = TRUE]
    /\ UNCHANGED <<next, op, cancel, open, remote, wires, sessions>>

Timeout(e) ==
    /\ fired[e]
    /\ fired' = [fired EXCEPT ![e] = FALSE]
    /\ Cancel(e)
    /\ UNCHANGED <<next, op, armed, remote, wires, sessions>>

\* The host stops: Host::doneWorking cancels the handshakes that there are.
HostStops(e) ==
    /\ Shaking(e) /\ ~cancel[e]
    /\ Cancel(e)
    /\ UNCHANGED <<next, op, timers, remote, wires, sessions>>

\* The network
Break(c) ==
    /\ faults < MaxFaults /\ c \notin broken
    /\ op[<<c, "from">>] # "new"
    /\ broken' = broken \cup {c}
    /\ faults' = faults + 1
    /\ UNCHANGED <<next, op, timers, cancel, open, remote, inbox, sessions>>

Damage(e) ==
    /\ faults < MaxFaults /\ inbox[e] # <<>> /\ inbox[e][1].what # "junk"
    /\ inbox' = [inbox EXCEPT ![e][1] = [what |-> "junk"]]
    /\ faults' = faults + 1
    /\ UNCHANGED <<next, op, timers, cancel, open, remote, broken, sessions>>

Handler(e) == \/ WriteDone(e) \/ OperationFails(e)
              \/ ReadAuth(e) \/ ReadAck(e) \/ ReadHeader(e) \/ ReadFrame(e)
              \/ SessionEnds(e)

Next == \/ \E e \in End : Start(e) \/ Handler(e)
        \/ \E e \in Slow \X Sides : Expire(e) \/ Timeout(e) \/ HostStops(e) \/ Damage(e)
        \/ \E c \in Slow : Break(c)

Spec == Init /\ [][Next]_vars

\* The io_service runs timers and the handlers of what has failed.  Nothing is
\* assumed of what is sent.
Fairness == WF_vars(\E e \in Slow \X Sides : Expire(e) \/ Timeout(e) \/ OperationFails(e))

FairSpec == Spec /\ Fairness

-----------------------------------------------------------------------------
\* No operation of a handshake is waited for without a timer, from the first
\* one to the last read of hello, unless the socket is closed already.
EveryWaitIsTimed == \A e \in End : Shaking(e) /\ open[e] => armed[e] \/ fired[e]

\* A session is with the host that the connection leads to, under the id that
\* this host has: one that answers for another id gets no session.
RemoteIsTheHost == \A e \in End : op[e] = "session" => remote[e] = Them(e)

\* m_sessions knows every session whose socket is open: however two hosts that
\* dial each other interleave, none has a second one.
SessionsAreKnown ==
    \A e \in End : op[e] = "session" /\ open[e] => sessions[Me(e)][remote[e]] = e

\* A handshake that was begun ends, in a session or with its socket closed,
\* even if nothing that the other end sends arrives.
HandshakesEnd ==
    []<>(\A e \in Slow \X Sides : op[e] \in {"new", "session"} \/ (op[e] = "none" /\ ~open[e]))
=============================================================================
