------------------------------ MODULE Session ------------------------------
(***************************************************************************)
(* A session with one peer (Session.{h,cpp}): the queue of packets to      *)
(* write, the chain of asynchronous writes, the chain of reads, and the    *)
(* ways the session is dropped.                                            *)
(*                                                                         *)
(* Threads: "io", the network thread, which runs completion handlers and   *)
(* Host's timers one at a time, and the callers, which send packets for a  *)
(* capability (Capability::sealAndSend) or call Session::disconnect.  A    *)
(* thread is the list of what it still has to do, op[t]; a step of this    *)
(* module does the first item: one critical section of x_writeQueue, one   *)
(* use of the socket, or one look at or change of m_dropped.               *)
(*                                                                         *)
(* Left out: what packets say, ratings and reputation, ping times, and the *)
(* third case of checkRead, which no completion of async_read reaches.  A  *)
(* frame written in part is one that is not written.                       *)
(***************************************************************************)
EXTENDS Naturals, Sequences, FiniteSets

CONSTANTS Caller,  \* threads other than the network thread
          MaxMsgs  \* bound: nothing but a disconnect starts a send after so many
                   \* packets, and not even that once the session was dropped

ASSUME SessionConstants == "io" \notin Caller /\ MaxMsgs \in Nat

VARIABLES open,     \* the socket is open
          reset,    \* the other end has reset the connection
          dropped,  \* m_dropped
          reason,   \* m_peer->m_lastDisconnect
          accepted, \* the kinds of the packets queued so far (history)
          queue,    \* m_writeQueue: number of the packet, place in the seal order
          seals,    \* frames sealed by m_io: the state of its cipher and MAC
          writing,  \* the asynchronous write, see below
          wire,     \* the frames written to the socket
          reading,  \* the asynchronous read
          op        \* what each thread has to do

vars == <<open, reset, dropped, reason, accepted, queue, seals, writing, wire, reading, op>>

Thread == Caller \cup {"io"}
Kind == {"data", "disconnect"}
Reason == {"TCPError", "BadProtocol", "DisconnectRequested", "local"}
Frame == [msg : Nat \ {0}, seal : Nat]

\* No write is under way; the socket has not taken the frame yet, or it has and
\* the handler is due; the handler got an error, which leaves the frame queued.
Writing == {"none", "unsent", "sent", "failed"}
\* The read is for a header or a frame, and has its bytes (due) or not.
Reading == {"none"} \X {FALSE} \cup {"header", "frame"} \X BOOLEAN

Task == [do : {"send", "push"}, kind : Kind]
        \cup [do : {"drop", "close", "mark"}, why : Reason]
        \cup [do : {"write", "start", "set", "read"}]

Send(k)    == [do |-> "send", kind |-> k]
Drop(r)    == [do |-> "drop", why |-> r]
Do(d)      == [do |-> d]
Disconnect == <<Send("disconnect"), Drop("local")>>

At(t, d) == op[t] # <<>> /\ Head(op[t]).do = d

\* Thread t replaces its first task by the list `tasks`.
Then(t, tasks) == op' = [op EXCEPT ![t] = tasks \o Tail(@)]

\* The handlers hold the session through shared pointers: it is destroyed when
\* none is outstanding and no thread is in a call.
NoHandlers == reading[1] = "none" /\ writing \in {"none", "failed"} /\ op["io"] = <<>>
Ended == NoHandlers /\ \A t \in Caller : op[t] = <<>>
-----------------------------------------------------------------------------
\* Host::startPeerSession starts the session, or refuses the peer.
Init == /\ open = TRUE
        /\ reset = FALSE
        /\ dropped = FALSE
        /\ reason = "none"
        /\ accepted = <<>>
        /\ queue = <<>>
        /\ seals = 0
        /\ writing = "none"
        /\ wire = <<>>
        /\ reading = <<"none", FALSE>>
        /\ \E tasks \in {<<Send("data"), Do("read")>>, Disconnect} :
             op = [t \in Thread |-> IF t = "io" THEN tasks ELSE <<>>]
-----------------------------------------------------------------------------
(* Sending.                                                                *)

\* send looks at the socket, without a lock, ...
CheckOpen(t) ==
    /\ At(t, "send")
    /\ Then(t, IF open THEN <<[Head(op[t]) EXCEPT !.do = "push"]>> ELSE <<>>)
    /\ UNCHANGED <<open, reset, dropped, reason, accepted, queue, seals, writing, wire, reading>>

\* Mutant: any sender writes.
AlwaysWrites(size) == size >= 1

StartsWriting(size) == size = 1

\* ... queues the packet, and starts the chain of writes if it is the only one.
Push(t) ==
    /\ At(t, "push")
    /\ accepted' = Append(accepted, Head(op[t]).kind)
    /\ queue' = Append(queue, [msg |-> Len(accepted) + 1, seal |-> 0])
    /\ Then(t, IF StartsWriting(Len(queue) + 1) THEN <<Do("write")>> ELSE <<>>)
    /\ UNCHANGED <<open, reset, dropped, reason, seals, writing, wire, reading>>

\* write seals the front packet in place, under the lock, ...
Seal(t) ==
    /\ At(t, "write")
    /\ seals' = seals + 1
    /\ queue' = [queue EXCEPT ![1].seal = seals + 1]
    /\ Then(t, <<Do("start")>>)
    /\ UNCHANGED <<open, reset, dropped, reason, accepted, writing, wire, reading>>

\* ... and starts an asynchronous write from the queue's front.  The socket may
\* take the frame at once.
StartWrite(t) ==
    /\ At(t, "start")
    /\ \/ writing' = "unsent" /\ UNCHANGED wire
       \/ open /\ ~reset /\ writing' = "sent" /\ wire' = Append(wire, Head(queue))
    /\ Then(t, <<>>)
    /\ UNCHANGED <<open, reset, dropped, reason, accepted, queue, seals, reading>>

Transmit ==
    /\ writing = "unsent"
    /\ open /\ ~reset
    /\ writing' = "sent"
    /\ wire' = Append(wire, Head(queue))
    /\ UNCHANGED <<open, reset, dropped, reason, accepted, queue, seals, reading, op>>

\* Mutant: the packet stays in the queue.
WriteDoneKept ==
    /\ op["io"] = <<>>
    /\ writing = "sent"
    /\ writing' = "none"
    /\ op' = [op EXCEPT !["io"] = <<Do("write")>>]
    /\ UNCHANGED <<open, reset, dropped, reason, accepted, queue, seals, wire, reading>>

\* The handler of a complete write pops the packet under the lock and goes on
\* with the next; the session may have been dropped meanwhile.
WriteDone ==
    /\ op["io"] = <<>>
    /\ writing = "sent"
    /\ writing' = "none"
    /\ queue' = Tail(queue)
    /\ op' = [op EXCEPT !["io"] = IF Len(queue) = 1 THEN <<>> ELSE <<Do("write")>>]
    /\ UNCHANGED <<open, reset, dropped, reason, accepted, seals, wire, reading>>

\* Mutant: the handler goes on writing after an error.
WriteFailsRetried ==
    /\ op["io"] = <<>>
    /\ writing = "unsent"
    /\ writing' = "none"
    /\ op' = [op EXCEPT !["io"] = <<Drop("TCPError"), Do("start")>>]
    /\ UNCHANGED <<open, reset, dropped, reason, accepted, queue, seals, wire, reading>>

\* The handler of a failed write (socket closed, or connection broken) drops
\* the session and leaves the packet in the queue, so no write starts any more.
WriteFails ==
    /\ op["io"] = <<>>
    /\ writing = "unsent"
    /\ writing' = "failed"
    /\ op' = [op EXCEPT !["io"] = <<Drop("TCPError")>>]
    /\ UNCHANGED <<open, reset, dropped, reason, accepted, queue, seals, wire, reading>>
-----------------------------------------------------------------------------
(* Dropping: close the socket, tell the Peer, set m_dropped.  Nothing      *)
(* keeps two threads from doing this together.                             *)

\* A reset ends the connection; the socket stays open, and bytes that arrived
\* before can still be read.
ConnectionResets ==
    /\ open /\ ~reset
    /\ reset' = TRUE
    /\ UNCHANGED <<open, dropped, reason, accepted, queue, seals, writing, wire, reading, op>>

CheckDropped(t) ==
    /\ At(t, "drop")
    /\ Then(t, IF dropped THEN <<>> ELSE <<[Head(op[t]) EXCEPT !.do = "close"]>>)
    /\ UNCHANGED <<open, reset, dropped, reason, accepted, queue, seals, writing, wire, reading>>

\* Mutant: a write that is under way keeps the socket open.
CloseUnlessWriting(t) ==
    /\ At(t, "close")
    /\ open' = (open /\ writing = "unsent")
    /\ Then(t, <<[Head(op[t]) EXCEPT !.do = "mark"]>>)
    /\ UNCHANGED <<reset, dropped, reason, accepted, queue, seals, writing, wire, reading>>

\* The line logged before shutdown and close asks for the remote endpoint, which
\* throws when the connection was reset: then neither is done, and drop goes on.
\* The kernel may know of the reset before a handler does, so either may happen.
Close(t) ==
    /\ At(t, "close")
    /\ open' \in IF reset THEN {FALSE, open} ELSE {FALSE}
    /\ Then(t, <<[Head(op[t]) EXCEPT !.do = "mark"]>>)
    /\ UNCHANGED <<reset, dropped, reason, accepted, queue, seals, writing, wire, reading>>

Mark(t) ==
    /\ At(t, "mark")
    /\ reason' = Head(op[t]).why
    /\ Then(t, <<Do("set")>>)
    /\ UNCHANGED <<open, reset, dropped, accepted, queue, seals, writing, wire, reading>>

SetDropped(t) ==
    /\ At(t, "set")
    /\ dropped' = TRUE
    /\ Then(t, <<>>)
    /\ UNCHANGED <<open, reset, reason, accepted, queue, seals, writing, wire, reading>>
-----------------------------------------------------------------------------
(* Reading.                                                                *)

\* doRead
StartRead(t) ==
    /\ At(t, "read")
    /\ reading' = IF dropped THEN reading ELSE <<"header", FALSE>>
    /\ Then(t, <<>>)
    /\ UNCHANGED <<open, reset, dropped, reason, accepted, queue, seals, writing, wire>>

Arrive ==
    /\ reading[1] # "none"
    /\ open
    /\ reading' = <<reading[1], TRUE>>
    /\ UNCHANGED <<open, reset, dropped, reason, accepted, queue, seals, writing, wire, op>>

\* A header that is authentic starts the read of the frame.
HeaderRead ==
    /\ op["io"] = <<>>
    /\ reading = <<"header", TRUE>>
    /\ \/ reading' = <<"frame", FALSE>> /\ UNCHANGED op
       \/ /\ reading' = <<"none", FALSE>>
          /\ op' = [op EXCEPT !["io"] = <<Drop("BadProtocol")>>]
    /\ UNCHANGED <<open, reset, dropped, reason, accepted, queue, seals, writing, wire>>

\* What a frame leads to: a packet without or with (Ping) a reply, a disconnect
\* packet, a packet whose interpretation throws, one that is malformed so that
\* checkPacket says so or so that it throws, which ends the handler, and a frame
\* that is not authentic.
Outcome == {<<Do("read")>>,
            <<Drop("DisconnectRequested"), Do("read")>>,
            <<Send("disconnect"), Drop("BadProtocol"), Do("read")>>,
            <<Send("disconnect"), Drop("BadProtocol")>>,
            <<>>,
            <<Drop("BadProtocol")>>}
           \cup (IF Len(accepted) < MaxMsgs THEN {<<Send("data"), Do("read")>>} ELSE {})

FrameRead ==
    /\ op["io"] = <<>>
    /\ reading = <<"frame", TRUE>>
    /\ reading' = <<"none", FALSE>>
    /\ \E tasks \in Outcome : op' = [op EXCEPT !["io"] = tasks]
    /\ UNCHANGED <<open, reset, dropped, reason, accepted, queue, seals, writing, wire>>

\* checkRead finds an error: socket closed, connection broken, end of stream.
ReadFails ==
    /\ op["io"] = <<>>
    /\ reading \in {"header", "frame"} \X {FALSE}
    /\ reading' = <<"none", FALSE>>
    /\ op' = [op EXCEPT !["io"] = <<Drop("TCPError")>>]
    /\ UNCHANGED <<open, reset, dropped, reason, accepted, queue, seals, writing, wire>>
-----------------------------------------------------------------------------
(* Calls: Host's keep-alive ping; Host::doneWorking; a capability's packet *)
(* or disconnect from another thread.                                      *)

Call(t, tasks) ==
    /\ ~ Ended
    /\ op[t] = <<>>
    /\ op' = [op EXCEPT ![t] = tasks]
    /\ UNCHANGED <<open, reset, dropped, reason, accepted, queue, seals, writing, wire, reading>>

SendPacket(t)   == Len(accepted) < MaxMsgs /\ Call(t, <<Send("data")>>)

\* A session that was dropped with its socket left open gets disconnected again
\* and again (doneWorking goes by isConnected), queueing a packet each time: not
\* beyond the bound.
MayDisconnect   == dropped /\ open => Len(accepted) < MaxMsgs

Quit            == open /\ MayDisconnect /\ Call("io", Disconnect)
UserDisconnect(t) == t \in Caller /\ MayDisconnect /\ Call(t, Disconnect)

\* ~Session closes the socket.
Destroy ==
    /\ Ended
    /\ open
    /\ open' = FALSE
    /\ UNCHANGED <<reset, dropped, reason, accepted, queue, seals, writing, wire, reading, op>>
-----------------------------------------------------------------------------
Step(t) == \/ CheckOpen(t) \/ Push(t) \/ Seal(t) \/ StartWrite(t)
           \/ CheckDropped(t) \/ Close(t) \/ Mark(t) \/ SetDropped(t)
           \/ StartRead(t)

Handler == WriteDone \/ WriteFails \/ HeaderRead \/ FrameRead \/ ReadFails

Next == \/ \E t \in Thread : Step(t) \/ SendPacket(t) \/ UserDisconnect(t)
        \/ Quit \/ Handler \/ Transmit \/ Arrive \/ ConnectionResets \/ Destroy

Spec == Init /\ [][Next]_vars

\* A thread inside a call gets on with it.  The io_service runs the handlers
\* that are due in the order they became due, so none waits for ever: strong
\* fairness, as timers and other handlers run in between.  A write or read on
\* a closed socket or a reset connection fails, the read once it has had what
\* arrived before; on a connection that stands either may wait for ever.
Fairness == /\ \A t \in Thread : WF_vars(Step(t))
            /\ SF_vars((~ open \/ reset) /\ WriteFails)
            /\ SF_vars((~ open \/ reset) /\ ReadFails)
            /\ SF_vars(WriteDone)
            /\ SF_vars(HeaderRead)
            /\ SF_vars(FrameRead)

FairSpec == Spec /\ Fairness
-----------------------------------------------------------------------------
TypeOK == /\ open \in BOOLEAN
          /\ reset \in BOOLEAN
          /\ dropped \in BOOLEAN
          /\ reason \in Reason \cup {"none"}
          /\ accepted \in Seq(Kind)
          /\ queue \in Seq(Frame)
          /\ seals \in Nat
          /\ writing \in Writing
          /\ wire \in Seq(Frame)
          /\ reading \in Reading
          /\ op \in [Thread -> Seq(Task)]
-----------------------------------------------------------------------------
(* What holds.                                                             *)

\* A thread between queueing a packet, or popping one, and async_write.
ToWrite(t) == At(t, "write") \/ At(t, "start")

\* The queue's mutex is released between the size check, the sealing and
\* async_write, yet exactly one party is responsible for the front packet as
\* long as there is one: a thread about to write, the asynchronous write, or
\* the failed write, whose packet stays in the queue to keep senders off.  Two
\* would interleave frames; none would leave packets in the queue.
OneWriter ==
    /\ \A t, u \in Thread : ToWrite(t) /\ ToWrite(u) => t = u
    /\ (\E t \in Thread : ToWrite(t)) => writing = "none"
    /\ queue # <<>> <=> (\E t \in Thread : ToWrite(t)) \/ writing # "none"

\* The frames reach the wire in the order in which send accepted the packets,
\* each once and sealed in that order, whichever threads write them.
Channel == INSTANCE PacketChannel WITH offered <- accepted, delivered <- wire, up <- open
OrderedWire == Channel!Spec

\* There is one chain of reads, which share one buffer: while a read is
\* outstanding, no other is about to be started.
OneReader ==
    Cardinality({i \in DOMAIN op["io"] : op["io"][i].do = "read"})
      + (IF reading[1] = "none" THEN 0 ELSE 1) <= 1

\* Whoever sees m_dropped set finds the reason recorded and the socket closed,
\* with two threads dropping the session at once, too, unless the connection was
\* reset: only then may drop have left the socket open.
DroppedMeansClosed == dropped => reason # "none" /\ (~ open \/ reset)

\* Once dropped, a session "waits for the reads & writes to fail before the
\* shared_ptr goes" (Session.h:126): all handlers end, also those that a sender
\* starts who had found the socket open just before.
DroppedEnds == dropped ~> NoHandlers
-----------------------------------------------------------------------------
(* What the source says and the code does not do.                          *)

\* Host.cpp:213: "poll so that peers send out disconnect packets": when all is
\* done, no disconnect packet is left in the queue that was not even sealed and
\* handed to the socket.
DisconnectSent ==
    Ended => \A i \in DOMAIN queue :
               accepted[queue[i].msg] = "disconnect" => queue[i].seal # 0

\* Session.h:112: checkPacket "returns true iff the _msg forms a valid message",
\* and the handler disconnects if it does not: the chain of reads never just
\* stops.  As long as m_dropped is unset, a read is outstanding, or the network
\* thread is about to start one or to drop the session.
ReaderAlive ==
    dropped \/ reading[1] # "none"
    \/ \E i \in DOMAIN op["io"] : op["io"][i].do \in {"read", "drop", "close", "mark", "set"}

\* Host.cpp:199: "disconnect peers", and :213, "poll so that peers send out
\* disconnect packets": what is disconnected, and so dropped, is closed.
DroppedIsClosed == dropped => ~ open
=============================================================================
