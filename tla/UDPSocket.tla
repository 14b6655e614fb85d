----------------------------- MODULE UDPSocket -----------------------------
(***************************************************************************)
(* The socket of node discovery (UDP.h): a queue of datagrams to send, of  *)
(* which the first is being sent, a loop that receives, and disconnect.    *)
(*                                                                         *)
(* send and disconnect are called by several threads; the handlers of the  *)
(* socket's operations run on one, the network thread.  What is done under *)
(* x_sendQ is one step, and so is each access to m_started, m_closed,      *)
(* m_socketError and the socket.  connect is called once, by the           *)
(* constructor of the NodeTable that owns the socket, and it has returned. *)
(* Asserts are compiled out, as in a release build.                        *)
(***************************************************************************)
EXTENDS Integers, SequencesExt

CONSTANTS Caller,      \* those that call send and disconnect
          Network,     \* the network thread
          MaxDatagrams \* bound: datagrams that are handed to send

ASSUME UDPConstants == Network \notin Caller /\ MaxDatagrams \in Nat

VARIABLES started,  \* m_started
          closed,   \* m_closed
          isOpen,   \* m_socket is open
          error,    \* m_socketError is set
          sendQ,    \* m_sendQ
          writes,   \* datagrams whose async_send_to, or its handler, is under way
          reads,    \* number of async_receive_from under way
          at,       \* where each thread is
          calls,    \* number of datagrams handed to send
          accepted, \* those for which send returned true, or will
          left,     \* those that have been taken off m_sendQ
          notified  \* calls of onDisconnected

flags == <<started, closed, isOpen, error>>
queue == <<sendQ, writes, calls, accepted, left>>
vars == <<flags, queue, reads, at, notified>>

Threads == Caller \cup {Network}

\* After connect.
Init == /\ started = TRUE /\ closed = FALSE /\ isOpen = TRUE /\ error = FALSE
        /\ sendQ = <<>> /\ writes = {} /\ reads = 1
        /\ at = [t \in Threads |-> "idle"]
        /\ calls = 0 /\ accepted = <<>> /\ left = <<>>
        /\ notified = 0

Goto(t, place) == at' = [at EXCEPT ![t] = place]

-----------------------------------------------------------------------------
\* send, the check of m_closed; the handler of what is received may call it.
Send(t) ==
    /\ at[t] = "idle" /\ calls < MaxDatagrams
    /\ ~closed
    /\ calls' = calls + 1
    /\ Goto(t, "push")
    /\ UNCHANGED <<flags, sendQ, writes, accepted, left, reads, notified>>

\* doWrite, of a queue: an operation on a socket that is closed fails.
Begun(q) == IF closed \/ q = <<>> THEN {} ELSE {Head(q)}

\* The rest of send.
Push(t) ==
    /\ at[t] = "push"
    /\ LET datagram == Len(accepted) + 1
           q == Append(sendQ, datagram)
       IN  /\ sendQ' = q
           /\ accepted' = Append(accepted, datagram)
           /\ writes' = IF Len(q) = 1 THEN writes \cup Begun(q) ELSE writes
    /\ Goto(t, "idle")
    /\ UNCHANGED <<flags, calls, left, reads, notified>>

\* The handler of async_send_to, whether the datagram was sent or not: there is
\* no second attempt.
WriteDone ==
    /\ at[Network] = "idle" /\ writes # {}
    /\ Goto(Network, IF closed THEN "check" ELSE "pop")
    /\ writes' = IF closed THEN {} ELSE writes
    /\ UNCHANGED <<flags, sendQ, calls, accepted, left, reads, notified>>

\* Mutant: the next datagram waits for the next send.
PopOnly ==
    /\ at[Network] = "pop"
    /\ sendQ' = Tail(sendQ)
    /\ left' = Append(left, Head(sendQ))
    /\ writes' = {}
    /\ Goto(Network, "idle")
    /\ UNCHANGED <<flags, calls, accepted, reads, notified>>

Pop ==
    /\ at[Network] = "pop"
    /\ sendQ' = Tail(sendQ)
    /\ left' = Append(left, Head(sendQ))
    /\ writes' = Begun(Tail(sendQ))
    /\ Goto(Network, "idle")
    /\ UNCHANGED <<flags, calls, accepted, reads, notified>>

\* The handler of async_receive_from, with a datagram or an error.
ReadDone ==
    /\ at[Network] = "idle" /\ reads > 0
    /\ reads' = reads - 1
    /\ Goto(Network, IF closed THEN "check" ELSE "received")
    /\ UNCHANGED <<flags, queue, notified>>

\* doRead, after onReceived.
Read ==
    /\ at[Network] = "received"
    /\ reads' = IF closed THEN reads ELSE reads + 1
    /\ Goto(Network, "idle")
    /\ UNCHANGED <<flags, queue, notified>>

-----------------------------------------------------------------------------
(* disconnectWithError *)

Disconnect(t) ==
    /\ t # Network /\ at[t] = "idle"
    /\ Goto(t, "check")
    /\ UNCHANGED <<flags, queue, reads, notified>>

\* Has it been shut down?
Check(t) ==
    /\ at[t] = "check"
    /\ Goto(t, IF ~started /\ closed /\ ~isOpen THEN "idle" ELSE "error")
    /\ UNCHANGED <<flags, queue, reads, notified>>

\* Under x_socketError; a handler may have been called without an error.
SetError(t) ==
    /\ at[t] = "error"
    /\ Goto(t, IF error THEN "idle" ELSE "stop")
    /\ error' \in IF t = Network THEN {error, TRUE} ELSE {TRUE}
    /\ UNCHANGED <<started, closed, isOpen, queue, reads, notified>>

\* compare_exchange_strong
Stop(t) ==
    /\ at[t] = "stop"
    /\ started' = FALSE
    /\ Goto(t, IF started THEN "close" ELSE "idle")
    /\ UNCHANGED <<closed, isOpen, error, queue, reads, notified>>

\* Mutant: m_closed is not set, the handlers go on.
SetClosedNot(t) ==
    /\ at[t] = "close"
    /\ Goto(t, "shut")
    /\ UNCHANGED <<flags, queue, reads, notified>>

SetClosed(t) ==
    /\ at[t] = "close"
    /\ closed' = TRUE
    /\ Goto(t, "shut")
    /\ UNCHANGED <<started, isOpen, error, queue, reads, notified>>

\* The socket is closed, and the host is told, as the socket was connected.
Shut(t) ==
    /\ at[t] = "shut"
    /\ isOpen' = FALSE
    /\ Goto(t, "notify")
    /\ UNCHANGED <<started, closed, error, queue, reads, notified>>

Notify(t) ==
    /\ at[t] = "notify"
    /\ notified' = notified + 1
    /\ Goto(t, "idle")
    /\ UNCHANGED <<flags, queue, reads>>

Disconnecting(t) == \/ Check(t) \/ SetError(t) \/ Stop(t)
                    \/ SetClosed(t) \/ Shut(t) \/ Notify(t)

Next == \/ \E t \in Threads : Send(t) \/ Push(t) \/ Disconnect(t) \/ Disconnecting(t)
        \/ WriteDone \/ Pop \/ ReadDone \/ Read

Spec == Init /\ [][Next]_vars

\* Threads run, and what the socket was asked to do ends when it is closed; a
\* datagram may never come.
Fairness == /\ \A t \in Threads : WF_vars(Push(t) \/ Disconnecting(t))
            /\ WF_vars(WriteDone \/ Pop \/ Read)
            /\ WF_vars(ReadDone /\ ~isOpen)

FairSpec == Spec /\ Fairness

-----------------------------------------------------------------------------
\* Only the first datagram of the queue is being sent, which async_send_to reads
\* where it is in the queue; it is being sent as long as the socket is not
\* closed, so that none waits for a later send; and none is skipped.
SendsFirst == /\ left \o sendQ = accepted
              /\ writes # {} => sendQ # <<>> /\ writes = {Head(sendQ)}
              /\ ~closed /\ sendQ # <<>> => writes # {}

\* Once a thread disconnects, whichever others do so and whatever is under way,
\* the socket is closed, its loops end, and the host is told, once.
DisconnectEnds ==
    \A t \in Caller : at[t] = "check" ~>
        [](~isOpen /\ reads = 0 /\ writes = {} /\ notified = 1)
=============================================================================
