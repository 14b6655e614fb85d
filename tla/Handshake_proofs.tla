-------------------------- MODULE Handshake_proofs --------------------------
(***************************************************************************)
(* Proofs about Handshake for any hosts and connections, and about         *)
(* FrameCoder for any frames.                                              *)
(***************************************************************************)
EXTENDS Handshake, FrameCoder, TLAPS

States == {"New", "AckAuth", "WriteHello", "ReadHello", "StartSession"}
Ops == {"new", "none", "session"} \cup Writes \cup Reads
Ids == Host \cup Stale \cup {Nobody}

TypeOK == /\ next \in [End -> States]
          /\ op \in [End -> Ops]
          /\ armed \in [End -> BOOLEAN] /\ fired \in [End -> BOOLEAN]
          /\ cancel \in [End -> BOOLEAN] /\ open \in [End -> BOOLEAN]
          /\ remote \in [End -> Ids]
          /\ sessions \in [Host -> [Host \cup Stale -> End \cup {NoSession}]]

\* The state that m_nextState has while an operation is under way.
Follows(e) ==
    /\ op[e] = "new" => next[e] = "New"
    /\ op[e] \in {"writeAuth", "readAuth"} => next[e] = "AckAuth"
    /\ op[e] \in {"writeAck", "readAck"} => next[e] = "WriteHello"
    /\ op[e] = "writeHello" => next[e] = "ReadHello"
    /\ op[e] \in {"readHeader", "readFrame", "session"} => next[e] = "StartSession"
    /\ op[e] \in {"writeAuth", "readAck"} => Originated(e)
    /\ op[e] \in {"readAuth", "writeAck"} => ~Originated(e)

Late == {"writeHello", "readHeader", "readFrame", "session"}

\* Who has got an ack knows that the remote is the one expected, and so does who
\* has read an auth, of both ends.
Known(e) ==
    /\ Originated(e) /\ op[e] \in Late => remote[e] = Them(e)
    /\ ~Originated(e) /\ op[e] \in Late \cup {"writeAck"} =>
          remote[e] = Them(e) /\ remote[Other(e)] = Me(e)

\* What may be on its way to an end: an auth is what the other end wrote, and an
\* ack comes only if that end could decrypt it.
Possible(e) ==
    { [what |-> "junk"], [what |-> "header"], [what |-> "frame"] }
      \cup (IF Originated(e)
              THEN IF remote[e] = Them(e) THEN { [what |-> "ack"] } ELSE {}
              ELSE { [what |-> "auth", to |-> remote[Other(e)], from |-> Them(e)] })

Timed(e) == Shaking(e) /\ open[e] => armed[e] \/ fired[e]

EndOK(e) == Timed(e) /\ Follows(e) /\ Known(e) /\ inbox[e] \in Seq(Possible(e))

\* The inductive invariant.
IInv == TypeOK /\ (\A e \in End : EndOK(e)) /\ SessionsAreKnown
-----------------------------------------------------------------------------
(* The two ends of a connection *)

LEMMA Ends ==
    ASSUME NEW e \in End
    PROVE  /\ Other(e) \in End /\ Other(e) # e /\ Other(Other(e)) = e
           /\ Originated(Other(e)) <=> ~Originated(e)
           /\ Them(e) = Me(Other(e)) /\ Them(Other(e)) = Me(e)
           /\ Me(e) \in Host /\ Them(e) \in Host
           /\ e # NoSession
  <1>1. PICK c \in Dial, s \in Sides : e = <<c, s>>
    BY DEF End
  <1>2. CASE s = "from"
    <2>1. Other(e) = <<c, "to">> /\ Originated(e)
      BY <1>1, <1>2 DEF Other, Originated
    <2>2. Other(Other(e)) = e /\ ~Originated(Other(e))
      BY <1>1, <1>2, <2>1 DEF Other, Originated
    <2>3. Me(e) = c.from /\ Me(Other(e)) = c.to
      BY <1>1, <1>2, <2>1 DEF Me
    <2> QED
      BY <1>1, <1>2, <2>1, <2>2, <2>3, HandshakeConstants DEF Them, End, Sides, NoSession
  <1>3. CASE s = "to"
    <2>1. Other(e) = <<c, "from">> /\ ~Originated(e)
      BY <1>1, <1>3 DEF Other, Originated
    <2>2. Other(Other(e)) = e /\ Originated(Other(e))
      BY <1>1, <1>3, <2>1 DEF Other, Originated
    <2>3. Me(e) = c.to /\ Me(Other(e)) = c.from
      BY <1>1, <1>3, <2>1 DEF Me
    <2> QED
      BY <1>1, <1>3, <2>1, <2>2, <2>3, HandshakeConstants DEF Them, End, Sides, NoSession
  <1> QED
    BY <1>1, <1>2, <1>3 DEF Sides

LEMMA InitInv == Init => IInv
  <1> SUFFICES ASSUME Init PROVE IInv
    OBVIOUS
  <1>1. PICK id \in [Dial -> Host \cup Stale] :
           remote = [e \in End |-> IF Originated(e) THEN id[e[1]] ELSE Nobody]
    BY DEF Init
  <1>2. \A e \in End : e[1] \in Dial
    BY DEF End
  <1>3. remote \in [End -> Ids]
    BY <1>1, <1>2 DEF Ids
  <1>4. TypeOK
    BY <1>3 DEF Init, TypeOK, States, Ops
  <1>5. ASSUME NEW e \in End PROVE EndOK(e)
    BY DEF Init, EndOK, Timed, Shaking, Writes, Reads, Follows, Known, Late
  <1> QED
    BY <1>4, <1>5 DEF IInv, SessionsAreKnown, Init
-----------------------------------------------------------------------------
(* What a step at one end leaves to the others *)

\* The end that dialled never changes the id it expects, and nothing else
\* enters into what may be on its way.
LEMMA SamePossible ==
    ASSUME \A f \in End : Originated(f) => remote'[f] = remote[f],
           NEW e \in End
    PROVE  Possible(e)' = Possible(e)
  BY Ends DEF Possible

\* A step of e, with the sessions that there are.
LEMMA LocalInv ==
    ASSUME IInv, TypeOK', NEW e \in End, EndOK(e)',
           sessions' = sessions,
           Originated(e) => remote'[e] = remote[e],
           op'[e] = "session" /\ open'[e] => op[e] = "session" /\ open[e] /\ remote'[e] = remote[e],
           \A f \in End \ {e} :
              /\ op'[f] = op[f] /\ next'[f] = next[f] /\ open'[f] = open[f]
              /\ armed'[f] = armed[f] /\ fired'[f] = fired[f] /\ remote'[f] = remote[f]
              /\ inbox'[f] \in Seq(Possible(f))
    PROVE  IInv'
  <1>1. \A f \in End : Originated(f) => remote'[f] = remote[f]
    OBVIOUS
  <1>2. ASSUME NEW f \in End PROVE EndOK(f)'
    <2>1. CASE f = e
      BY <2>1
    <2>2. CASE f # e
      <3>1. Possible(f)' = Possible(f)
        BY <1>1, SamePossible
      <3>2. EndOK(f)
        BY DEF IInv
      <3>3. Known(f)'
        BY <1>1, <2>2, <3>2, Ends DEF EndOK, Known
      <3>4. Timed(f)' /\ Follows(f)'
        BY <2>2, <3>2 DEF EndOK, Timed, Shaking, Follows
      <3> QED
        BY <2>2, <3>1, <3>3, <3>4 DEF EndOK
    <2> QED
      BY <2>1, <2>2
  <1>3. ASSUME NEW f \in End, op'[f] = "session", open'[f]
        PROVE  sessions'[Me(f)][remote'[f]] = f
    <2>1. op[f] = "session" /\ open[f] /\ remote'[f] = remote[f]
      BY <1>3
    <2> QED
      BY <2>1 DEF IInv, SessionsAreKnown
  <1> QED
    BY <1>2, <1>3 DEF IInv, SessionsAreKnown
LEMMA SentPossible ==
    ASSUME IInv, NEW e \in End, NEW rest \in Seq(Possible(e)), NEW write \in Writes \cup Reads,
           write = "writeAuth" => Originated(e),
           write = "writeAck" => ~Originated(e) /\ remote[Other(e)] = Me(e)
    PROVE  /\ Sent(e, rest, write)[e] = rest
           /\ \A f \in End : Sent(e, rest, write)[f] \in Seq(Possible(f))
  <1> DEFINE o == Other(e)
  <1>1. Written(e, write) \in Seq(Possible(o))
    <2>1. CASE write = "writeAuth"
      <3>1. [what |-> "auth", to |-> remote[e], from |-> Me(e)] \in Possible(o)
        BY <2>1, Ends DEF Possible
      <3> QED
        BY <2>1, <3>1 DEF Written
    <2>2. CASE write = "writeAck"
      <3>1. [what |-> "ack"] \in Possible(o)
        BY <2>2, Ends DEF Possible
      <3> QED
        BY <2>2, <3>1 DEF Written
    <2>3. CASE write = "writeHello"
      <3>1. [what |-> "header"] \in Possible(o) /\ [what |-> "frame"] \in Possible(o)
        BY DEF Possible
      <3> QED
        BY <2>3, <3>1 DEF Written
    <2>4. CASE write \notin Writes
      BY <2>4 DEF Written, Writes
    <2> QED
      BY <2>1, <2>2, <2>3, <2>4 DEF Writes
  <1>2. ASSUME NEW f \in End
        PROVE  Sent(e, rest, write)[f] = IF f = e THEN rest
                  ELSE IF f = o /\ (open[f] \/ op[f] = "new") /\ e[1] \notin broken
                    THEN inbox[f] \o Written(e, write) ELSE inbox[f]
    <2>1. o # e
      BY Ends
    <2>2. CASE f = e
      BY <2>1, <2>2 DEF Sent
    <2>3. CASE f = o /\ (open[f] \/ op[f] = "new") /\ e[1] \notin broken
      BY <2>1, <2>3 DEF Sent
    <2>4. CASE f # e /\ ~(f = o /\ (open[f] \/ op[f] = "new") /\ e[1] \notin broken)
      BY <2>4 DEF Sent
    <2> QED
      BY <2>2, <2>3, <2>4
  <1>3. ASSUME NEW f \in End PROVE inbox[f] \in Seq(Possible(f))
    BY DEF IInv, EndOK
  <1>4. inbox[o] \o Written(e, write) \in Seq(Possible(o))
    BY <1>1, <1>3, Ends
  <1> QED
    BY <1>2, <1>3, <1>4

\* e fails: nothing is under way, and its socket is closed.
LEMMA FailInv ==
    ASSUME IInv, NEW e \in End, Close(e), UNCHANGED <<next, fired, cancel, sessions>>,
           armed' \in [End -> BOOLEAN], \A f \in End \ {e} : armed'[f] = armed[f],
           remote' \in [End -> Ids], \A f \in End \ {e} : remote'[f] = remote[f],
           Originated(e) => remote'[e] = remote[e],
           \A f \in End : inbox'[f] \in Seq(Possible(f))
    PROVE  IInv'
  <1>1. TypeOK'
    BY DEF IInv, TypeOK, Close, Ops
  <1>2. op'[e] = "none" /\ open'[e] = FALSE
    BY DEF Close, IInv, TypeOK
  <1>3. Possible(e)' = Possible(e)
    BY SamePossible, Ends
  <1>4. EndOK(e)'
    BY <1>2, <1>3 DEF EndOK, Timed, Follows, Known, Late
  <1>5. \A f \in End \ {e} : op'[f] = op[f] /\ open'[f] = open[f]
    BY DEF Close, IInv, TypeOK
  <1> QED
    BY <1>1, <1>2, <1>4, <1>5, LocalInv

\* e begins the operation that follows.
LEMMA BeginInv ==
    ASSUME IInv, NEW e \in End, NEW rest \in Seq(Possible(e)),
           next[e] # "StartSession", op[e] # "session",
           UNCHANGED <<fired, cancel, sessions>>,
           open' = open \/ open' = [open EXCEPT ![e] = TRUE],
           remote' \in [End -> Ids], \A f \in End \ {e} : remote'[f] = remote[f],
           Originated(e) => remote'[e] = remote[e],
           Originated(e) /\ next[e] = "WriteHello" => remote[e] = Them(e),
           ~Originated(e) /\ next[e] # "New" => remote'[e] = Them(e) /\ remote[Other(e)] = Me(e),
           next[e] = "ReadHello" => remote[e] = Them(e),
           armed' = [armed EXCEPT ![e] = TRUE],
           next' = [next EXCEPT ![e] = Following(e)[1]],
           op' = [op EXCEPT ![e] = Following(e)[2]],
           inbox' = Sent(e, rest, Following(e)[2])
    PROVE  IInv'
  <1> DEFINE n == Following(e)[1]
             o == Following(e)[2]
  <1>1. next[e] \in {"New", "AckAuth", "WriteHello", "ReadHello"}
    BY DEF IInv, TypeOK, States
  <1>2. /\ next[e] = "New" => n = "AckAuth" /\ o = IF Originated(e) THEN "writeAuth" ELSE "readAuth"
        /\ next[e] = "AckAuth" => n = "WriteHello" /\ o = IF Originated(e) THEN "readAck" ELSE "writeAck"
        /\ next[e] = "WriteHello" => n = "ReadHello" /\ o = "writeHello"
        /\ next[e] = "ReadHello" => n = "StartSession" /\ o = "readHeader"
    BY DEF Following
  <1>3. n \in States /\ o \in Writes \cup Reads
    BY <1>1, <1>2 DEF States, Writes, Reads
  <1> HIDE DEF n, o
  <1>4. /\ next'[e] = n /\ op'[e] = o /\ armed'[e]
        /\ \A f \in End \ {e} : /\ next'[f] = next[f] /\ op'[f] = op[f]
                                /\ armed'[f] = armed[f] /\ open'[f] = open[f]
    BY DEF n, o, IInv, TypeOK
  <1>5. TypeOK'
    BY <1>3 DEF n, o, IInv, TypeOK, Ops
  <1>6. o = "writeAuth" => Originated(e)
    BY <1>1, <1>2
  <1>7. o = "writeAck" => ~Originated(e) /\ remote[Other(e)] = Me(e)
    BY <1>1, <1>2
  <1>8. inbox'[e] = rest /\ \A f \in End : inbox'[f] \in Seq(Possible(f))
    <2>1. inbox' = Sent(e, rest, o)
      BY DEF o
    <2> QED
      BY <1>3, <1>6, <1>7, <2>1, SentPossible
  <1>9. Possible(e)' = Possible(e)
    BY SamePossible, Ends
  <1>10. remote'[Other(e)] = remote[Other(e)]
    BY Ends
  <1>11. Follows(e)' /\ Timed(e)'
    BY <1>1, <1>2, <1>4 DEF Follows, Timed
  <1>12. Known(e)'
    BY <1>1, <1>2, <1>4, <1>10 DEF Known, Late
  <1>13. EndOK(e)'
    BY <1>8, <1>9, <1>11, <1>12 DEF EndOK
  <1>14. op'[e] # "session"
    BY <1>3, <1>4 DEF Writes, Reads
  <1> QED
    BY <1>4, <1>5, <1>8, <1>13, <1>14, LocalInv
LEMMA TransitionInv ==
    ASSUME IInv, NEW e \in End, NEW rest \in Seq(Possible(e)), Transition(e, rest),
           next[e] # "StartSession", op[e] # "session",
           UNCHANGED <<fired, cancel, sessions>>,
           remote' \in [End -> Ids], \A f \in End \ {e} : remote'[f] = remote[f],
           Originated(e) => remote'[e] = remote[e],
           Originated(e) /\ next[e] = "WriteHello" => remote[e] = Them(e),
           ~Originated(e) /\ next[e] # "New" => remote'[e] = Them(e) /\ remote[Other(e)] = Me(e),
           next[e] = "ReadHello" => remote[e] = Them(e)
    PROVE  IInv'
  <1>1. CASE cancel[e]
    <2>1. Fail(e) /\ inbox' = [inbox EXCEPT ![e] = rest]
      BY <1>1 DEF Transition
    <2>2. \A f \in End : inbox'[f] \in Seq(Possible(f))
      BY <2>1 DEF IInv, EndOK
    <2>3. armed' \in [End -> BOOLEAN] /\ \A f \in End \ {e} : armed'[f] = armed[f]
      BY <2>1 DEF Fail, IInv, TypeOK
    <2> QED
      BY <2>1, <2>2, <2>3, FailInv DEF Fail
  <1>2. CASE ~cancel[e]
    BY <1>2, BeginInv DEF Transition
  <1> QED
    BY <1>1, <1>2

LEMMA Inboxes == ASSUME IInv, NEW e \in End PROVE inbox[e] \in Seq(Possible(e))
  BY DEF IInv, EndOK

\* A message is taken off an inbox.
LEMMA Consumed ==
    ASSUME IInv, NEW e \in End, inbox[e] # <<>>
    PROVE  /\ inbox[e][1] \in Possible(e)
           /\ Rest(e) \in Seq(Possible(e))
           /\ Consume(e) => \A f \in End : inbox'[f] \in Seq(Possible(f))
  <1>1. inbox[e] \in Seq(Possible(e))
    BY Inboxes
  <1>2. inbox[e][1] \in Possible(e) /\ Rest(e) \in Seq(Possible(e))
    BY <1>1 DEF Rest
  <1>3. ASSUME Consume(e), NEW f \in End PROVE inbox'[f] \in Seq(Possible(f))
    BY <1>2, <1>3, Inboxes DEF Consume
  <1> QED
    BY <1>2, <1>3
-----------------------------------------------------------------------------
(* One lemma for each action *)

LEMMA StartInv == ASSUME IInv, NEW e \in End, Start(e) PROVE IInv'
  <1>1. op[e] = "new" /\ next[e] = "New"
    BY DEF Start, IInv, EndOK, Follows
  <1>2. remote' = remote /\ remote \in [End -> Ids]
    BY DEF Start, IInv, TypeOK
  <1> QED
    BY <1>1, <1>2, Inboxes, BeginInv DEF Start

LEMMA WriteDoneInv == ASSUME IInv, NEW e \in End, WriteDone(e) PROVE IInv'
  <1>1. op[e] \in Writes /\ EndOK(e) /\ remote' = remote /\ remote \in [End -> Ids]
    BY DEF WriteDone, IInv, TypeOK
  <1>2. /\ next[e] # "StartSession" /\ op[e] # "session"
        /\ Originated(e) /\ next[e] = "WriteHello" => remote[e] = Them(e)
        /\ ~Originated(e) /\ next[e] # "New" => remote[e] = Them(e) /\ remote[Other(e)] = Me(e)
        /\ next[e] = "ReadHello" => remote[e] = Them(e)
    BY <1>1 DEF EndOK, Follows, Known, Late, Writes
  <1> QED
    BY <1>1, <1>2, Inboxes, TransitionInv DEF WriteDone

LEMMA OperationFailsInv == ASSUME IInv, NEW e \in End, OperationFails(e) PROVE IInv'
  <1>1. remote' = remote /\ remote \in [End -> Ids] /\ inbox' = inbox
    BY DEF OperationFails, wires, IInv, TypeOK
  <1>2. armed' \in [End -> BOOLEAN] /\ \A f \in End \ {e} : armed'[f] = armed[f]
    BY DEF OperationFails, Fail, IInv, TypeOK
  <1> QED
    BY <1>1, <1>2, Inboxes, FailInv DEF OperationFails, Fail

LEMMA ReadAuthInv == ASSUME IInv, NEW e \in End, ReadAuth(e) PROVE IInv'
  <1> DEFINE m == inbox[e][1]
  <1>1. /\ op[e] = "readAuth" /\ inbox[e] # <<>> /\ m.what \in {"auth", "junk"}
        /\ next[e] = "AckAuth" /\ ~Originated(e)
    BY DEF ReadAuth, Received, IInv, EndOK, Follows
  <1>2. m \in Possible(e) /\ Rest(e) \in Seq(Possible(e))
    BY <1>1, Consumed
  <1>3. CASE Invalid(e)
    <2>1. Fail(e) /\ Consume(e) /\ remote' = remote /\ remote \in [End -> Ids]
      BY <1>3 DEF ReadAuth, TransitionReading, IInv, TypeOK
    <2>2. armed' \in [End -> BOOLEAN] /\ \A f \in End \ {e} : armed'[f] = armed[f]
      BY <2>1 DEF Fail, IInv, TypeOK
    <2> QED
      BY <1>1, <2>1, <2>2, Consumed, FailInv DEF ReadAuth, Fail
  <1>4. CASE ~Invalid(e)
    <2>1. m.what = "auth" /\ m.to = Me(e)
      BY <1>1, <1>4 DEF Invalid
    <2>2. m = [what |-> "auth", to |-> remote[Other(e)], from |-> Them(e)]
      BY <1>1, <1>2, <2>1 DEF Possible
    <2>3. m.from = Them(e) /\ remote[Other(e)] = Me(e) /\ Them(e) \in Host
      BY <2>1, <2>2, Ends
    <2>4. remote' = [remote EXCEPT ![e] = m.from]
      BY <1>4 DEF ReadAuth
    <2>5. /\ remote'[e] = Them(e) /\ remote' \in [End -> Ids]
          /\ \A f \in End \ {e} : remote'[f] = remote[f]
      BY <2>3, <2>4 DEF IInv, TypeOK, Ids
    <2> QED
      BY <1>1, <1>2, <1>4, <2>3, <2>5, TransitionInv DEF ReadAuth, TransitionReading
  <1> QED
    BY <1>3, <1>4

LEMMA ReadAckInv == ASSUME IInv, NEW e \in End, ReadAck(e) PROVE IInv'
  <1> DEFINE m == inbox[e][1]
  <1>1. /\ op[e] = "readAck" /\ inbox[e] # <<>> /\ m.what \in {"ack", "junk"}
        /\ next[e] = "WriteHello" /\ Originated(e)
    BY DEF ReadAck, Received, IInv, EndOK, Follows
  <1>2. m \in Possible(e) /\ Rest(e) \in Seq(Possible(e))
    BY <1>1, Consumed
  <1>3. remote' = remote /\ remote \in [End -> Ids]
    BY DEF ReadAck, IInv, TypeOK
  <1>4. CASE Invalid(e)
    <2>1. Fail(e) /\ Consume(e)
      BY <1>4 DEF ReadAck, TransitionReading
    <2>2. armed' \in [End -> BOOLEAN] /\ \A f \in End \ {e} : armed'[f] = armed[f]
      BY <2>1 DEF Fail, IInv, TypeOK
    <2> QED
      BY <1>1, <1>3, <2>1, <2>2, Consumed, FailInv DEF ReadAck, Fail
  <1>5. CASE ~Invalid(e)
    <2>1. m.what = "ack"
      BY <1>1, <1>5 DEF Invalid
    <2>2. remote[e] = Them(e)
      BY <1>1, <1>2, <2>1 DEF Possible
    <2> QED
      BY <1>1, <1>2, <1>3, <1>5, <2>2, TransitionInv DEF ReadAck, TransitionReading
  <1> QED
    BY <1>4, <1>5
LEMMA ReadHeaderInv == ASSUME IInv, NEW e \in End, ReadHeader(e) PROVE IInv'
  <1>1. op[e] = "readHeader" /\ inbox[e] # <<>> /\ Consume(e)
    BY DEF ReadHeader, Received
  <1>2. remote' = remote /\ remote \in [End -> Ids] /\ UNCHANGED <<next, fired, cancel, sessions>>
    BY DEF ReadHeader, Fail, IInv, TypeOK
  <1>3. CASE Invalid(e)
    <2>1. Fail(e)
      BY <1>3 DEF ReadHeader
    <2>2. armed' \in [End -> BOOLEAN] /\ \A f \in End \ {e} : armed'[f] = armed[f]
      BY <2>1 DEF Fail, IInv, TypeOK
    <2> QED
      BY <1>1, <1>2, <2>1, <2>2, Consumed, FailInv DEF Fail
  <1>4. CASE ~Invalid(e)
    <2>1. op' = [op EXCEPT ![e] = "readFrame"] /\ UNCHANGED <<armed, open>>
      BY <1>4 DEF ReadHeader
    <2>2. op'[e] = "readFrame" /\ \A f \in End \ {e} : op'[f] = op[f]
      BY <2>1 DEF IInv, TypeOK
    <2>3. TypeOK'
      BY <1>2, <2>1 DEF IInv, TypeOK, Ops, Reads
    <2>4. Possible(e)' = Possible(e) /\ \A f \in End : inbox'[f] \in Seq(Possible(f))
      BY <1>1, <1>2, Consumed, SamePossible
    <2>5. EndOK(e)
      BY DEF IInv
    <2>6. Timed(e)' /\ Follows(e)' /\ Known(e)'
      BY <1>1, <1>2, <2>1, <2>2, <2>5, Ends
      DEF EndOK, Timed, Shaking, Reads, Writes, Follows, Known, Late
    <2> QED
      BY <1>2, <2>1, <2>2, <2>3, <2>4, <2>6, LocalInv DEF EndOK
  <1> QED
    BY <1>3, <1>4

\* The session that e starts is the only one that its host has with the remote.
LEMMA StartSessionInv ==
    ASSUME IInv, NEW e \in End, op[e] = "readFrame",
           ~Connected(Me(e), remote[e]), StartSession(e),
           UNCHANGED <<next, fired, cancel, remote>>,
           armed' = [armed EXCEPT ![e] = FALSE],
           \A f \in End : inbox'[f] \in Seq(Possible(f))
    PROVE  IInv'
  <1>1. remote[e] \in Host /\ Me(e) \in Host
    BY Ends DEF IInv, EndOK, Known, Late
  <1>2. /\ op'[e] = "session" /\ armed' \in [End -> BOOLEAN]
        /\ \A f \in End \ {e} : op'[f] = op[f] /\ armed'[f] = armed[f]
    BY DEF StartSession, IInv, TypeOK
  <1>3. TypeOK'
    BY <1>1, <1>2 DEF StartSession, IInv, TypeOK, Ops
  <1>4. ASSUME NEW f \in End PROVE EndOK(f)'
    <2>1. Possible(f)' = Possible(f) /\ EndOK(f)
      BY SamePossible DEF IInv
    <2>2. Timed(f)'
      BY <1>2, <2>1 DEF StartSession, EndOK, Timed, Shaking, Writes, Reads
    <2>3. Follows(f)'
      BY <1>2, <2>1 DEF EndOK, Follows
    <2>4. Known(f)'
      BY <1>2, <2>1, Ends DEF EndOK, Known, Late
    <2> QED
      BY <2>1, <2>2, <2>3, <2>4 DEF EndOK
  <1>5. ASSUME NEW f \in End, op'[f] = "session", open'[f]
        PROVE  sessions'[Me(f)][remote'[f]] = f
    <2>1. CASE f = e
      BY <1>1, <2>1 DEF StartSession, IInv, TypeOK
    <2>2. CASE f # e
      <3>1. op[f] = "session" /\ open[f] /\ sessions[Me(f)][remote[f]] = f
        BY <1>2, <1>5, <2>2 DEF StartSession, IInv, SessionsAreKnown
      <3>2. ~(Me(f) = Me(e) /\ remote[f] = remote[e])
        BY <3>1, Ends DEF Connected
      <3>3. Me(f) \in Host
        BY Ends
      <3> QED
        BY <1>1, <3>1, <3>2, <3>3 DEF StartSession, IInv, TypeOK
    <2> QED
      BY <2>1, <2>2
  <1> QED
    BY <1>3, <1>4, <1>5 DEF IInv, SessionsAreKnown

LEMMA ReadFrameInv == ASSUME IInv, NEW e \in End, ReadFrame(e) PROVE IInv'
  <1>1. op[e] = "readFrame" /\ \A f \in End : inbox'[f] \in Seq(Possible(f))
    BY Consumed DEF ReadFrame, Received
  <1>2. /\ armed' = [armed EXCEPT ![e] = FALSE]
        /\ UNCHANGED <<next, fired, cancel, remote>> /\ remote \in [End -> Ids]
    BY DEF ReadFrame, IInv, TypeOK
  <1>3. CASE Refuse(e)
    <2>1. armed' \in [End -> BOOLEAN] /\ \A f \in End \ {e} : armed'[f] = armed[f]
      BY <1>2 DEF IInv, TypeOK
    <2> QED
      BY <1>1, <1>2, <1>3, <2>1, FailInv DEF Refuse
  <1>4. CASE ~Connected(Me(e), remote[e]) /\ StartSession(e)
    BY <1>1, <1>2, <1>4, StartSessionInv
  <1> QED
    BY <1>3, <1>4 DEF ReadFrame

LEMMA SessionEndsInv == ASSUME IInv, NEW e \in End, SessionEnds(e) PROVE IInv'
  <1>1. /\ Close(e) /\ UNCHANGED <<next, armed, fired, cancel, remote, inbox, sessions>>
        /\ armed \in [End -> BOOLEAN] /\ remote \in [End -> Ids]
    BY DEF SessionEnds, Refuse, timers, wires, IInv, TypeOK
  <1> QED
    BY <1>1, Inboxes, FailInv
\* Steps of a timer, of cancel and of the network leave the operations alone.
LEMMA QuietInv ==
    ASSUME IInv, NEW e \in End,
           UNCHANGED <<next, op, remote, sessions>>,
           armed' \in [End -> BOOLEAN], fired' \in [End -> BOOLEAN],
           cancel' \in [End -> BOOLEAN], open' \in [End -> BOOLEAN],
           open'[e] => open[e], Timed(e)',
           \A f \in End \ {e} : open'[f] = open[f] /\ armed'[f] = armed[f] /\ fired'[f] = fired[f],
           \A f \in End : inbox'[f] \in Seq(Possible(f))
    PROVE  IInv'
  <1>1. TypeOK'
    BY DEF IInv, TypeOK
  <1>2. Possible(e)' = Possible(e) /\ EndOK(e)
    BY SamePossible DEF IInv
  <1>3. Follows(e)' /\ Known(e)'
    BY <1>2 DEF EndOK, Follows, Known
  <1> QED
    BY <1>1, <1>2, <1>3, LocalInv DEF EndOK

LEMMA ExpireInv == ASSUME IInv, NEW e \in End, Expire(e) PROVE IInv'
  <1>1. /\ armed' = [armed EXCEPT ![e] = FALSE] /\ fired' = [fired EXCEPT ![e] = TRUE]
        /\ UNCHANGED <<next, op, cancel, open, remote, inbox, sessions>>
    BY DEF Expire, wires
  <1>2. /\ armed' \in [End -> BOOLEAN] /\ fired' \in [End -> BOOLEAN] /\ fired'[e]
        /\ cancel \in [End -> BOOLEAN] /\ open \in [End -> BOOLEAN]
        /\ \A f \in End \ {e} : armed'[f] = armed[f] /\ fired'[f] = fired[f]
    BY <1>1 DEF IInv, TypeOK
  <1> QED
    BY <1>1, <1>2, Inboxes, QuietInv DEF Timed

LEMMA CancelInv ==
    ASSUME IInv, NEW e \in End, Cancel(e),
           fired' = [fired EXCEPT ![e] = FALSE] \/ fired' = fired,
           UNCHANGED <<next, op, armed, remote, inbox, sessions>>
    PROVE  IInv'
  <1>1. /\ cancel' \in [End -> BOOLEAN] /\ open' \in [End -> BOOLEAN] /\ open'[e] = FALSE
        /\ armed \in [End -> BOOLEAN] /\ fired' \in [End -> BOOLEAN]
        /\ \A f \in End \ {e} : open'[f] = open[f] /\ fired'[f] = fired[f]
    BY DEF Cancel, IInv, TypeOK
  <1> QED
    BY <1>1, Inboxes, QuietInv DEF Timed

LEMMA BreakInv == ASSUME IInv, NEW c \in Dial, Break(c) PROVE IInv'
  <1>1. <<c, "from">> \in End /\ UNCHANGED <<next, op, armed, fired, cancel, open, remote, inbox, sessions>>
    BY DEF Break, timers, End, Sides
  <1>2. Timed(<<c, "from">>) /\ TypeOK
    BY <1>1 DEF IInv, EndOK
  <1> QED
    BY <1>1, <1>2, Inboxes, QuietInv DEF TypeOK, Timed, Shaking

LEMMA DamageInv == ASSUME IInv, NEW e \in End, Damage(e) PROVE IInv'
  <1>1. /\ UNCHANGED <<next, op, armed, fired, cancel, open, remote, sessions>>
        /\ inbox[e] # <<>> /\ inbox' = [inbox EXCEPT ![e][1] = [what |-> "junk"]]
    BY DEF Damage, timers
  <1>2. ASSUME NEW f \in End PROVE inbox'[f] \in Seq(Possible(f))
    <2>1. inbox[f] \in Seq(Possible(f)) /\ [what |-> "junk"] \in Possible(f)
      BY Inboxes DEF Possible
    <2>2. CASE f = e
      BY <1>1, <2>1, <2>2
    <2>3. CASE f # e
      BY <1>1, <2>1, <2>3
    <2> QED
      BY <2>2, <2>3
  <1>3. Timed(e)'
    BY <1>1 DEF IInv, EndOK, Timed, Shaking
  <1> QED
    BY <1>1, <1>2, <1>3, QuietInv DEF IInv, TypeOK
-----------------------------------------------------------------------------
LEMMA NextInv == IInv /\ [Next]_vars => IInv'
  <1> SUFFICES ASSUME IInv, [Next]_vars PROVE IInv'
    OBVIOUS
  <1>1. ASSUME NEW e \in End, Start(e) PROVE IInv'
    BY <1>1, StartInv
  <1>2. ASSUME NEW e \in End, Handler(e) PROVE IInv'
    BY <1>2, WriteDoneInv, OperationFailsInv, ReadAuthInv, ReadAckInv, ReadHeaderInv,
       ReadFrameInv, SessionEndsInv DEF Handler
  <1>3. ASSUME NEW e \in Slow \X Sides, Expire(e) \/ Timeout(e) \/ HostStops(e) \/ Damage(e)
        PROVE  IInv'
    <2>1. e \in End
      BY HandshakeConstants DEF End
    <2>2. CASE Timeout(e)
      BY <2>1, <2>2, CancelInv DEF Timeout, wires
    <2>3. CASE HostStops(e)
      BY <2>1, <2>3, CancelInv DEF HostStops, timers, wires
    <2> QED
      BY <1>3, <2>1, <2>2, <2>3, ExpireInv, DamageInv
  <1>4. ASSUME NEW c \in Slow, Break(c) PROVE IInv'
    BY <1>4, BreakInv, HandshakeConstants
  <1>5. CASE UNCHANGED vars
    <2>1. UNCHANGED <<next, op, armed, fired, cancel, open, remote, inbox, sessions>>
      BY <1>5 DEF vars, timers, wires
    <2> QED
      BY <2>1 DEF IInv, TypeOK, EndOK, Timed, Shaking, Follows, Known, Possible, SessionsAreKnown
  <1> QED
    BY <1>1, <1>2, <1>3, <1>4, <1>5 DEF Next

\* The invariant of the handshakes on all connections: what an end waits for is
\* what transition has begun, what is on its way is what the other end wrote,
\* and the remote is checked before hello is exchanged.
THEOREM Invariance == Spec => []IInv
  <1> QED
    BY InitInv, NextInv, PTL DEF Spec

\* EveryWaitIsTimed: transition and readAuth to readHello leave no operation
\* without an idle timer, whatever is lost, damaged or cancelled.
THEOREM WaitsAreTimed == Spec => []EveryWaitIsTimed
  <1>1. IInv => EveryWaitIsTimed
    BY DEF IInv, EndOK, Timed, EveryWaitIsTimed
  <1> QED
    BY <1>1, Invariance, PTL

\* RemoteIsTheHost: writeAuth encrypts to the id that was dialled, so that a
\* session is with the host that has it.
THEOREM SessionsAreWithTheHost == Spec => []RemoteIsTheHost
  <1>1. IInv => RemoteIsTheHost
    BY DEF IInv, EndOK, Known, Late, RemoteIsTheHost
  <1> QED
    BY <1>1, Invariance, PTL

\* SessionsAreKnown: Host::startPeerSession refuses a duplicate of a session
\* that is connected, so that m_sessions never forgets one.
THEOREM NoSessionForgotten == Spec => []SessionsAreKnown
  <1>1. IInv => SessionsAreKnown
    BY DEF IInv
  <1> QED
    BY <1>1, Invariance, PTL
-----------------------------------------------------------------------------
(* FrameCoder.  The MAC of an end is the list of all it was updated with, so *)
(* one that is right is that of the end that wrote, at some time: what       *)
(* arrives with it was written by that end right after what was read before. *)

Key == AESSecret("initiator")

Frame == [list : Lists, payload : [number : Nat, size : Sizes]]
Plain == [length : Nat, list : Lists] \cup [number : Nat, size : Sizes] \cup {Garbage}
Cipher == [key : {Key}, at : Nat, plain : Plain, size : Nat]
Update == {"header", "frame"} \X Cipher
MACs(e) == [key : {MACSecret(e)}, seed : {EgressSeed(e)}, updates : Seq(Update)]

Agrees(s, t) == Len(s) <= Len(t) /\ \A i \in 1 .. Len(s) : s[i] = t[i]

\* What may be on its way from an end whose MAC has seen these updates: whatever
\* happened to it, its MAC is one that the end had, or none.
Underway(e, updates) == {unit \in [cipher : Cipher, mac : MACs(e)] : Agrees(unit.mac.updates, updates)}

CoderTypes ==
    /\ DOMAIN egress = Side /\ DOMAIN ingress = Side /\ DOMAIN stream = Side
    /\ DOMAIN accepted = Side
    /\ \A e \in Side : /\ egress[e] \in MACs(e) /\ ingress[e] \in MACs(Peer(e))
                           /\ stream[e] \in Seq(Underway(Peer(e), egress[Peer(e)].updates))
    /\ enc \in [Side -> Nat] /\ dec \in [Side -> Nat]
    /\ reading \in [Side -> {"header", "frame", "stopped"}]
    /\ header \in [Side -> Plain \cup {<<>>}]
    /\ framesSent \in [Side -> Seq(Frame)]

\* Where in the key stream the blocks end that the first j updates are about.
Place(updates, j) == IF j = 0 THEN 0 ELSE updates[j][2].at + updates[j][2].size

HeadOf(frame) == [length |-> frame.payload.size % Field, list |-> frame.list]

\* The MAC has seen the header and the frame of each frame sent.
Chain(updates, frames, at) ==
    /\ Len(updates) = 2 * Len(frames)
    /\ \A k \in 1 .. Len(frames) :
          LET head == updates[2 * k - 1]
              frame == updates[2 * k]
          IN  /\ head[1] = "header" /\ head[2].plain = HeadOf(frames[k]) /\ head[2].size = 1
              /\ frame[1] = "frame" /\ frame[2].plain = frames[k].payload
              /\ frame[2].size = Blocks(frames[k].payload.size)
    /\ \A j \in 1 .. Len(updates) : updates[j][2].at = Place(updates, j - 1)
    /\ at = Place(updates, Len(updates))

\* What an end has read is what the MAC of the other has seen, so far.
HasRead(mine, theirs, state, at, head, n) ==
    state # "stopped" =>
       /\ Agrees(mine, theirs)
       /\ at = Place(theirs, Len(mine))
       /\ state = "header" => Len(mine) = 2 * n
       /\ state = "frame" => Len(mine) = 2 * n + 1 /\ head = theirs[Len(mine)][2].plain

Accepts(list, frames) ==
    /\ DOMAIN list = 1 .. Len(list) /\ Len(list) \in Nat
    /\ Len(list) <= Len(frames)
    /\ \A i \in 1 .. Len(list) : list[i] = AsRead(frames[i])

HasReadOf(e, theirs) == HasRead(ingress[e].updates, theirs, reading[e], dec[e], header[e], Len(accepted[e]))

CoderInv == 
    /\ CoderTypes 
    /\ \A e \in Side : /\ Chain(egress[e].updates, framesSent[e], enc[e])
                           /\ HasReadOf(e, egress[Peer(e)].updates)
                           /\ Accepts(accepted[e], framesSent[Peer(e)])

\* As long as nothing happens on the way, what is on its way is what the MAC of
\* the other end has seen since.
Undisturbed(units, mine, theirs) ==
    /\ Len(units) + Len(mine) = Len(theirs)
    /\ \A i \in 1 .. Len(units) : /\ Len(units[i].mac.updates) = Len(mine) + i
                                  /\ units[i].cipher = theirs[Len(mine) + i][2]

Calm == coderFaults = 0 => \A e \in Side : /\ reading[e] # "stopped"
                                              /\ Undisturbed(stream[e], ingress[e].updates, egress[Peer(e)].updates)
-----------------------------------------------------------------------------
LEMMA CoderEnds == \A e \in Side : Peer(e) \in Side /\ Peer(e) # e /\ Peer(Peer(e)) = e
                                     /\ \A d \in Side : d = e \/ d = Peer(e)
  BY DEF Side, Peer

\* Both ends derive the same secrets, and each begins the MAC of what it reads
\* as the other begins that of what it writes (RLPXFrameCoder::setup).
LEMMA SameSecrets == ASSUME NEW e \in Side
                     PROVE  /\ AESSecret(e) = Key /\ MACSecret(e) = MACSecret(Peer(e))
                            /\ IngressSeed(e) = EgressSeed(Peer(e))
  <1> DEFINE i == "initiator"  r == "recipient"
  <1>1. Peer(i) = r /\ Peer(r) = i /\ e \in {i, r} /\ i # r
    BY DEF Side, Peer
  <1>2. EphemeralShared(i) = EphemeralShared(r)
    BY <1>1 DEF EphemeralShared
  <1>3. NonceMaterial(i) = NonceMaterial(r)
    BY <1>1 DEF NonceMaterial
  <1>4. SharedSecret(i) = SharedSecret(r)
    BY <1>2, <1>3 DEF SharedSecret
  <1>5. AESSecret(i) = AESSecret(r)
    BY <1>2, <1>4 DEF AESSecret
  <1>6. MACSecret(i) = MACSecret(r)
    BY <1>2, <1>5 DEF MACSecret
  <1>7. ASSUME NEW x, NEW y, NEW z PROVE Xor(Xor(Xor(x, y), y), z) = Xor(x, z)
    BY DEF Xor
  <1>8. IngressSeed(i) = EgressSeed(r) /\ IngressSeed(r) = EgressSeed(i)
    BY <1>1, <1>6, <1>7 DEF IngressSeed, EgressSeed, AuthOrAck
  <1> QED  BY <1>1, <1>5, <1>6, <1>8 DEF Key

LEMMA Longer == ASSUME NEW S, NEW s \in Seq(S), NEW t \in Seq(S), NEW u \in Seq(S), Agrees(s, t), Agrees(t, u)
                PROVE  Agrees(s, u)
  BY DEF Agrees

LEMMA Appended == ASSUME NEW S, NEW s \in Seq(S), NEW x \in S
                  PROVE  /\ Append(s, x) \in Seq(S) /\ Len(Append(s, x)) = Len(s) + 1
                         /\ (\A i \in 1 .. Len(s) : Append(s, x)[i] = s[i]) /\ Append(s, x)[Len(s) + 1] = x
                         /\ Agrees(s, Append(s, x))
  BY DEF Agrees

LEMMA HasReadLonger ==
    ASSUME NEW mine \in Seq(Update), NEW theirs \in Seq(Update), NEW longer \in Seq(Update), Agrees(theirs, longer),
           NEW state, NEW at, NEW head, NEW n \in Nat, HasRead(mine, theirs, state, at, head, n)
    PROVE  HasRead(mine, longer, state, at, head, n)
  <1> SUFFICES ASSUME state # "stopped"
               PROVE  HasRead(mine, longer, state, at, head, n)
    BY DEF HasRead
  <1>1. Agrees(mine, theirs) /\ Agrees(mine, longer) /\ at = Place(theirs, Len(mine)) /\ Len(mine) \in Nat
    BY Longer DEF HasRead
  <1>2. Len(mine) > 0 => theirs[Len(mine)] = longer[Len(mine)]
    BY <1>1 DEF Agrees
  <1>3. Place(theirs, Len(mine)) = Place(longer, Len(mine))
    BY <1>1, <1>2 DEF Place
  <1>4. state = "header" => Len(mine) = 2 * n
    BY DEF HasRead
  <1>5. state = "frame" => Len(mine) = 2 * n + 1 /\ head = longer[Len(mine)][2].plain
    <2>1. CASE Len(mine) > 0
      BY <2>1, <1>2 DEF HasRead
    <2>2. CASE Len(mine) = 0
      BY <2>2 DEF HasRead
    <2> QED  BY <1>1, <2>1, <2>2
  <1> QED  BY <1>1, <1>3, <1>4, <1>5 DEF HasRead

LEMMA BlocksAreNat == ASSUME NEW size \in Nat PROVE Blocks(size) \in Nat
  BY DEF Blocks

\* What a writer adds to a MAC are its last two places.
LEMMA LastTwo ==
    ASSUME NEW n \in Nat, NEW j \in 1 .. (n + 2)
    PROVE  j \in 1 .. n \/ j = n + 1 \/ j = n + 2
  OBVIOUS

\* What writeFrame does to the MAC of an end.
LEMMA ChainLonger ==
    ASSUME NEW u \in Seq(Update), NEW frames \in Seq(Frame), NEW at \in Nat, Chain(u, frames, at),
           NEW frame \in Frame, NEW head \in Cipher, NEW body \in Cipher, Sizes \subseteq Nat,
           head.at = at, head.plain = HeadOf(frame), head.size = 1,
           body.at = at + 1, body.plain = frame.payload, body.size = Blocks(frame.payload.size)
    PROVE  Chain(Append(Append(u, <<"header", head>>), <<"frame", body>>), Append(frames, frame),
                 at + 1 + Blocks(frame.payload.size))
  <1> DEFINE v == Append(u, <<"header", head>>)  w == Append(v, <<"frame", body>>)  longer == Append(frames, frame)
  <1>1. <<"header", head>> \in Update /\ <<"frame", body>> \in Update
    BY DEF Update
  <1>2. v \in Seq(Update) /\ w \in Seq(Update) /\ longer \in Seq(Frame)
    BY <1>1
  <1>3. Len(w) = Len(u) + 2 /\ Len(longer) = Len(frames) + 1 /\ Len(u) = 2 * Len(frames) /\ Len(frames) \in Nat
    <2>1. Len(u) \in Nat /\ Len(frames) \in Nat
      OBVIOUS
    <2>2. Len(v) = Len(u) + 1 /\ Len(w) = Len(v) + 1 /\ Len(longer) = Len(frames) + 1
      BY <1>1, <1>2
    <2>3. Len(u) = 2 * Len(frames)
      BY DEF Chain
    <2> QED  BY <2>1, <2>2, <2>3
  <1>4. /\ \A j \in 1 .. Len(u) : w[j] = u[j]
        /\ w[Len(u) + 1] = <<"header", head>> /\ w[Len(u) + 2] = <<"frame", body>>
    BY <1>1, <1>2
  <1>5. (\A k \in 1 .. Len(frames) : longer[k] = frames[k]) /\ longer[Len(frames) + 1] = frame
    BY <1>2
  <1> HIDE DEF w, v, longer
  <1>6. ASSUME NEW j \in 0 .. Len(u) PROVE Place(w, j) = Place(u, j)
    BY <1>4 DEF Place
  <1>7. Place(w, Len(u) + 1) = at + 1 /\ Place(w, Len(u) + 2) = at + 1 + Blocks(frame.payload.size)
    BY <1>3, <1>4 DEF Place
  <1>8. ASSUME NEW j \in 1 .. Len(w) PROVE w[j][2].at = Place(w, j - 1)
    <2>1. CASE j \in 1 .. Len(u)
      <3>1. u[j][2].at = Place(u, j - 1)
        BY <2>1 DEF Chain
      <3>2. j - 1 \in 0 .. Len(u)
        BY <1>3, <2>1
      <3> QED  BY <2>1, <3>1, <3>2, <1>4, <1>6
    <2>2. CASE j = Len(u) + 1
      <3>1. j - 1 = Len(u) /\ Len(u) \in 0 .. Len(u)
        BY <2>2, <1>3
      <3>2. Place(w, j - 1) = at
        BY <3>1, <1>6 DEF Chain
      <3> QED  BY <2>2, <3>2, <1>4
    <2>3. CASE j = Len(u) + 2
      <3>1. j - 1 = Len(u) + 1
        BY <2>3, <1>3
      <3> QED  BY <2>3, <3>1, <1>4, <1>7
    <2>4. Len(u) \in Nat /\ j \in 1 .. (Len(u) + 2)
      BY <1>3
    <2>5. j \in 1 .. Len(u) \/ j = Len(u) + 1 \/ j = Len(u) + 2
      BY <2>4, LastTwo
    <2> QED  BY <2>1, <2>2, <2>3, <2>5
  <1>9. ASSUME NEW k \in 1 .. Len(longer)
        PROVE  /\ w[2 * k - 1][1] = "header" /\ w[2 * k - 1][2].plain = HeadOf(longer[k]) /\ w[2 * k - 1][2].size = 1
               /\ w[2 * k][1] = "frame" /\ w[2 * k][2].plain = longer[k].payload
               /\ w[2 * k][2].size = Blocks(longer[k].payload.size)
    <2>1. CASE k \in 1 .. Len(frames)
      <3>1. 2 * k - 1 \in 1 .. Len(u) /\ 2 * k \in 1 .. Len(u)
        BY <2>1, <1>3
      <3>2. w[2 * k - 1] = u[2 * k - 1] /\ w[2 * k] = u[2 * k] /\ longer[k] = frames[k]
        BY <2>1, <3>1, <1>4, <1>5
      <3> QED  BY <2>1, <3>2 DEF Chain
    <2>2. CASE k = Len(frames) + 1
      <3>1. 2 * k - 1 = Len(u) + 1 /\ 2 * k = Len(u) + 2
        BY <2>2, <1>3
      <3>2. w[2 * k - 1] = <<"header", head>> /\ w[2 * k] = <<"frame", body>> /\ longer[k] = frame
        BY <2>2, <3>1, <1>4, <1>5
      <3> QED  BY <3>2
    <2> QED  BY <1>3, <2>1, <2>2
  <1>10. Chain(w, longer, at + 1 + Blocks(frame.payload.size))
    BY <1>3, <1>7, <1>8, <1>9 DEF Chain
  <1> QED  BY <1>10 DEF w, v, longer
-----------------------------------------------------------------------------
\* A length that was written modulo Field is not the frame's: the blocks differ.
LEMMA WholeSize ==
    ASSUME NEW size \in Nat, NEW field \in Nat, field >= 16,
           Blocks(size % field) = Blocks(size)
    PROVE  size % field = size
  <1>1. CASE size < field
    BY <1>1
  <1>2. CASE size >= field
    <2>1. size % field \in Nat /\ size % field < field
      OBVIOUS
    <2>2. (size % field) + field <= size
      BY <1>2, SMTT(20)
    <2>3. size >= (size % field) + 16
      BY <2>1, <2>2
    <2> QED  BY <2>1, <2>3 DEF Blocks
  <1> QED  BY <1>1, <1>2

LEMMA Fits == ASSUME NEW size \in Nat, NEW field \in Nat, size < field PROVE size % field = size
  OBVIOUS

\* Which frame a unit is of, by what the MAC has seen before it.
LEMMA FrameOf ==
    ASSUME NEW m \in Nat, NEW l \in Nat, NEW k \in Nat, NEW n \in Nat, m + 1 <= l, l = 2 * k
    PROVE  /\ m = 2 * n => n + 1 \in 1 .. k /\ 2 * (n + 1) - 1 = m + 1
           /\ m = 2 * n + 1 => n + 1 \in 1 .. k /\ 2 * (n + 1) = m + 1 /\ 2 * (n + 1) - 1 = m
  OBVIOUS

LEMMA HeaderIsNext ==
    ASSUME NEW mine \in Seq(Update), NEW theirs \in Seq(Update), NEW frames \in Seq(Frame), NEW at, Chain(theirs, frames, at),
           NEW place \in Nat, NEW head, NEW n \in Nat, HasRead(mine, theirs, "header", place, head, n),
           NEW cipher \in Cipher, Agrees(Append(mine, <<"header", cipher>>), theirs)
    PROVE  /\ cipher.at = place
           /\ \E k \in 1 .. Len(frames) : cipher.plain = HeadOf(frames[k])
           /\ HasRead(Append(mine, <<"header", cipher>>), theirs, "frame", place + 1, cipher.plain, n)
  <1> DEFINE more == Append(mine, <<"header", cipher>>)
  <1>1. <<"header", cipher>> \in Update
    BY DEF Update
  <1>2. Len(mine) \in Nat /\ Len(theirs) \in Nat /\ Len(frames) \in Nat
    OBVIOUS
  <1>3. Len(mine) = 2 * n /\ place = Place(theirs, Len(mine))
    BY DEF HasRead
  <1>4. Len(more) = Len(mine) + 1 /\ more[Len(mine) + 1] = <<"header", cipher>>
    BY <1>1
  <1> HIDE DEF more
  <1>5. theirs[Len(mine) + 1] = <<"header", cipher>> /\ Len(mine) + 1 <= Len(theirs)
    BY <1>2, <1>4 DEF more, Agrees
  <1>6. Len(mine) + 1 \in 1 .. Len(theirs) /\ (Len(mine) + 1) - 1 = Len(mine)
    BY <1>2, <1>5
  <1>7. cipher.at = place
    BY <1>3, <1>5, <1>6 DEF Chain
  <1>8. Len(theirs) = 2 * Len(frames)
    BY DEF Chain
  <1>9. n + 1 \in 1 .. Len(frames) /\ 2 * (n + 1) - 1 = Len(mine) + 1
    BY <1>2, <1>3, <1>5, <1>8, FrameOf
  <1>10. cipher.plain = HeadOf(frames[n + 1]) /\ cipher.size = 1
    BY <1>5, <1>9 DEF Chain
  <1>11. Place(theirs, Len(more)) = place + 1
    BY <1>2, <1>4, <1>5, <1>7, <1>10 DEF Place
  <1>12. HasRead(more, theirs, "frame", place + 1, cipher.plain, n)
    BY <1>3, <1>4, <1>5, <1>11 DEF HasRead, more
  <1> QED  BY <1>7, <1>9, <1>10, <1>12 DEF more

LEMMA FrameIsNext ==
    ASSUME NEW mine \in Seq(Update), NEW theirs \in Seq(Update), NEW frames \in Seq(Frame), NEW at, Chain(theirs, frames, at),
           NEW place \in Nat, NEW head, NEW n \in Nat, HasRead(mine, theirs, "frame", place, head, n),
           NEW cipher \in Cipher, Agrees(Append(mine, <<"frame", cipher>>), theirs)
    PROVE  /\ cipher.at = place /\ n + 1 \in 1 .. Len(frames)
           /\ head = HeadOf(frames[n + 1]) /\ cipher.plain = frames[n + 1].payload
           /\ cipher.size = Blocks(frames[n + 1].payload.size)
           /\ HasRead(Append(mine, <<"frame", cipher>>), theirs, "header", place + cipher.size, head, n + 1)
  <1> DEFINE more == Append(mine, <<"frame", cipher>>)
  <1>1. <<"frame", cipher>> \in Update
    BY DEF Update
  <1>2. Len(mine) \in Nat /\ Len(theirs) \in Nat /\ Len(frames) \in Nat
    OBVIOUS
  <1>3. Len(mine) = 2 * n + 1 /\ place = Place(theirs, Len(mine)) /\ head = theirs[Len(mine)][2].plain
    BY DEF HasRead
  <1>4. Len(more) = Len(mine) + 1 /\ more[Len(mine) + 1] = <<"frame", cipher>>
    BY <1>1
  <1> HIDE DEF more
  <1>5. theirs[Len(mine) + 1] = <<"frame", cipher>> /\ Len(mine) + 1 <= Len(theirs)
    BY <1>2, <1>4 DEF more, Agrees
  <1>6. Len(mine) + 1 \in 1 .. Len(theirs) /\ (Len(mine) + 1) - 1 = Len(mine)
    BY <1>2, <1>5
  <1>7. cipher.at = place
    BY <1>3, <1>5, <1>6 DEF Chain
  <1>8. Len(theirs) = 2 * Len(frames)
    BY DEF Chain
  <1>9. n + 1 \in 1 .. Len(frames) /\ 2 * (n + 1) = Len(mine) + 1 /\ 2 * (n + 1) - 1 = Len(mine)
    BY <1>2, <1>3, <1>5, <1>8, FrameOf
  <1>10. /\ cipher.plain = frames[n + 1].payload /\ cipher.size = Blocks(frames[n + 1].payload.size)
         /\ head = HeadOf(frames[n + 1])
    BY <1>3, <1>5, <1>9 DEF Chain
  <1>11. Place(theirs, Len(more)) = place + cipher.size
    BY <1>2, <1>4, <1>5, <1>7 DEF Place
  <1>12. Len(more) = 2 * (n + 1)
    BY <1>4, <1>9
  <1>13. HasRead(more, theirs, "header", place + cipher.size, head, n + 1)
    BY <1>11, <1>12 DEF HasRead, more
  <1> QED  BY <1>7, <1>9, <1>10, <1>13 DEF more

LEMMA WrittenInfo ==
    ASSUME FrameCoderConstants, NEW frame \in Frame, Blocks(HeadOf(frame).length) = Blocks(frame.payload.size)
    PROVE  AsRead(frame) = [info |-> Info(HeadOf(frame)), payload |-> frame.payload]
  <1>1. frame.payload.size \in Nat /\ Field \in Nat /\ Field >= 16
    BY DEF FrameCoderConstants, Frame
  <1>2. frame.payload.size % Field = frame.payload.size
    BY <1>1, WholeSize DEF HeadOf
  <1> QED  BY <1>2 DEF AsRead, HeadOf
-----------------------------------------------------------------------------
With(mac, updates) == [key |-> mac.key, seed |-> mac.seed, updates |-> updates]

LEMMA UpdatedIs ==
    ASSUME NEW e, NEW mac \in MACs(e), NEW as \in {"header", "frame"}, NEW cipher \in Cipher
    PROVE  /\ Updated(mac, as, cipher) = With(mac, Append(mac.updates, <<as, cipher>>))
           /\ With(mac, Append(mac.updates, <<as, cipher>>)) \in MACs(e)
           /\ With(mac, Append(mac.updates, <<as, cipher>>)).updates = Append(mac.updates, <<as, cipher>>)
  <1>1. <<as, cipher>> \in Update /\ mac.updates \in Seq(Update)
    BY DEF Update, MACs
  <1>2. Append(mac.updates, <<as, cipher>>) \in Seq(Update)
    BY <1>1
  <1> DEFINE more == Append(mac.updates, <<as, cipher>>)
  <1>3. Updated(mac, as, cipher) = [mac EXCEPT !.updates = more]
    BY DEF Updated
  <1> HIDE DEF more
  <1>4. [mac EXCEPT !.updates = more] = With(mac, more)
    BY DEF With, MACs
  <1>5. mac.key \in {MACSecret(e)} /\ mac.seed \in {EgressSeed(e)}
    BY DEF MACs
  <1>6. With(mac, more) \in MACs(e) /\ With(mac, more).updates = more
    BY <1>2, <1>5 DEF With, MACs, more
  <1> QED  BY <1>3, <1>4, <1>6 DEF more

LEMMA AcceptsLonger ==
    ASSUME NEW list, NEW frames \in Seq(Frame), NEW frame \in Frame, Accepts(list, frames)
    PROVE  Accepts(list, Append(frames, frame))
  <1>1. Len(Append(frames, frame)) = Len(frames) + 1 /\ Len(list) \in Nat /\ Len(frames) \in Nat
    BY DEF Accepts
  <1>2. \A i \in 1 .. Len(list) : Append(frames, frame)[i] = frames[i]
    BY DEF Accepts
  <1> QED  BY <1>1, <1>2 DEF Accepts

LEMMA UnderwayLonger ==
    ASSUME NEW e, NEW s \in Seq(Update), NEW t \in Seq(Update), Agrees(s, t)
    PROVE  Underway(e, s) \subseteq Underway(e, t)
  BY Longer DEF Underway, MACs

LEMMA SeqLarger == ASSUME NEW S, NEW T, S \subseteq T, NEW s \in Seq(S) PROVE s \in Seq(T)
  OBVIOUS

\* A step of an end that reads, or of the network on the way to it.
LEMMA ReadStep ==
    ASSUME CoderInv, NEW e \in Side, NEW f \in Side, f = Peer(e),
           egress' = egress, enc' = enc, framesSent' = framesSent,
           DOMAIN ingress' = Side, DOMAIN stream' = Side, DOMAIN accepted' = Side,
           dec' \in [Side -> Nat], reading' \in [Side -> {"header", "frame", "stopped"}],
           header' \in [Side -> Plain \cup {<<>>}],
           ingress'[e] \in MACs(f), stream'[e] \in Seq(Underway(f, egress[f].updates)),
           HasRead(ingress'[e].updates, egress[f].updates, reading'[e], dec'[e], header'[e], Len(accepted'[e])),
           Accepts(accepted'[e], framesSent[f]),
           ingress'[f] = ingress[f] /\ stream'[f] = stream[f] /\ accepted'[f] = accepted[f],
           dec'[f] = dec[f] /\ reading'[f] = reading[f] /\ header'[f] = header[f]
    PROVE  CoderInv'
  <1>1. CoderTypes /\ Peer(f) = e /\ \A d \in Side : d = e \/ d = f
    BY CoderEnds DEF CoderInv
  <1>2. CoderTypes'
    BY <1>1 DEF CoderTypes
  <1>3. ASSUME NEW d \in Side
        PROVE  /\ Chain(egress'[d].updates, framesSent'[d], enc'[d])
               /\ HasRead(ingress'[d].updates, egress'[Peer(d)].updates, reading'[d], dec'[d], header'[d], Len(accepted'[d]))
               /\ Accepts(accepted'[d], framesSent'[Peer(d)])
    BY <1>1 DEF CoderInv, HasReadOf
  <1> QED  BY <1>2, <1>3 DEF CoderInv, HasReadOf

LEMMA InboxUnits ==
    ASSUME CoderInv, NEW e \in Side, NEW f \in Side, f = Peer(e)
    PROVE  /\ egress[f] \in MACs(f) /\ ingress[e] \in MACs(f)
           /\ egress[f].updates \in Seq(Update) /\ ingress[e].updates \in Seq(Update)
           /\ stream[e] \in Seq(Underway(f, egress[f].updates))
           /\ dec[e] \in Nat /\ framesSent[f] \in Seq(Frame) /\ Len(accepted[e]) \in Nat
           /\ Chain(egress[f].updates, framesSent[f], enc[f]) /\ Accepts(accepted[e], framesSent[f])
           /\ HasRead(ingress[e].updates, egress[f].updates, reading[e], dec[e], header[e], Len(accepted[e]))
  <1>1. \A d \in Side : \A mac \in MACs(d) : mac.updates \in Seq(Update)
    BY DEF MACs
  <1>2. egress[f] \in MACs(f) /\ ingress[e] \in MACs(f) /\ stream[e] \in Seq(Underway(f, egress[f].updates))
    BY DEF CoderInv, CoderTypes
  <1>3. dec[e] \in Nat /\ framesSent[f] \in Seq(Frame)
    BY DEF CoderInv, CoderTypes
  <1>4. Chain(egress[f].updates, framesSent[f], enc[f]) /\ Accepts(accepted[e], framesSent[f])
    BY DEF CoderInv
  <1>5. HasRead(ingress[e].updates, egress[f].updates, reading[e], dec[e], header[e], Len(accepted[e]))
    BY DEF CoderInv, HasReadOf
  <1>6. Len(accepted[e]) \in Nat
    BY <1>4 DEF Accepts
  <1> QED  BY <1>1, <1>2, <1>3, <1>4, <1>5, <1>6

LEMMA HeaderInv == ASSUME CoderInv, NEW e \in Side, AuthAndDecryptHeader(e) PROVE CoderInv'
  <1>1. PICK f \in Side : f = Peer(e) /\ f # e
    BY CoderEnds
  <1>2. PICK mac \in MACs(f) : mac = ingress[e]
    BY <1>1, InboxUnits
  <1>3. PICK theirs \in Seq(Update) : theirs = egress[f].updates
    BY <1>1, InboxUnits
  <1>4. PICK unit \in Underway(f, theirs) : unit = Head(stream[e]) /\ Tail(stream[e]) \in Seq(Underway(f, theirs))
    <2>1. PICK units \in Seq(Underway(f, theirs)) : units = stream[e]
      BY <1>1, <1>3, InboxUnits
    <2>2. units # <<>>
      BY <2>1 DEF AuthAndDecryptHeader
    <2>3. Head(units) \in Underway(f, theirs) /\ Tail(units) \in Seq(Underway(f, theirs))
      BY <2>2
    <2> QED  BY <2>1, <2>3
  <1>5. PICK cipher \in Cipher : cipher = unit.cipher
    BY DEF Underway
  <1> DEFINE more == Append(mac.updates, <<"header", cipher>>)
  <1>6. /\ Updated(ingress[e], "header", unit.cipher) = With(mac, more)
        /\ With(mac, more) \in MACs(f) /\ With(mac, more).updates = more
    BY <1>2, <1>5, UpdatedIs
  <1>7. /\ ingress' = [ingress EXCEPT ![e] = With(mac, more)] /\ stream' = [stream EXCEPT ![e] = Tail(stream[e])]
        /\ egress' = egress /\ enc' = enc /\ framesSent' = framesSent /\ accepted' = accepted /\ reading[e] = "header"
    BY <1>2, <1>4, <1>6 DEF AuthAndDecryptHeader
  <1> HIDE DEF more
  <1>8. /\ DOMAIN ingress' = Side /\ DOMAIN stream' = Side /\ DOMAIN accepted' = Side
        /\ ingress'[e] = With(mac, more) /\ stream'[e] = Tail(stream[e])
        /\ ingress'[f] = ingress[f] /\ stream'[f] = stream[f] /\ accepted'[f] = accepted[f] /\ accepted'[e] = accepted[e]
    BY <1>1, <1>7 DEF CoderInv, CoderTypes
  <1>9. ingress'[e].updates = more /\ ingress'[e] \in MACs(f) /\ stream'[e] \in Seq(Underway(f, egress[f].updates))
    BY <1>3, <1>4, <1>6, <1>8
  <1>10. Accepts(accepted'[e], framesSent[f])
    BY <1>1, <1>8, InboxUnits
  <1>11. /\ dec \in [Side -> Nat] /\ reading \in [Side -> {"header", "frame", "stopped"}]
         /\ header \in [Side -> Plain \cup {<<>>}]
    BY DEF CoderInv, CoderTypes
  <1>12. CASE Authentic(e, unit, "header")
    <2>1. unit.mac.updates = more
      BY <1>2, <1>5, <1>6, <1>12 DEF Authentic
    <2>2. Agrees(more, theirs)
      BY <2>1 DEF Underway
    <2>3. PICK place \in Nat, n \in Nat : place = dec[e] /\ n = Len(accepted[e])
      BY <1>1, InboxUnits
    <2>4. Chain(theirs, framesSent[f], enc[f]) /\ HasRead(mac.updates, theirs, "header", place, header[e], n)
      BY <1>1, <1>2, <1>3, <1>7, <2>3, InboxUnits
    <2>5. cipher.at = place /\ HasRead(more, theirs, "frame", place + 1, cipher.plain, n)
      BY <1>1, <2>2, <2>4, InboxUnits, HeaderIsNext DEF more, MACs
    <2>6. cipher.key = AESSecret(e) /\ cipher.plain \in Plain
      BY SameSecrets DEF Cipher
    <2>7. Decrypted(e, unit.cipher) = cipher.plain
      BY <1>5, <2>3, <2>5, <2>6 DEF Decrypted
    <2>8. header' = [header EXCEPT ![e] = cipher.plain] /\ dec' = [dec EXCEPT ![e] = place + 1]
      BY <1>4, <1>12, <2>3, <2>7 DEF AuthAndDecryptHeader
    <2>9. PICK state \in {"frame", "stopped"} : reading' = [reading EXCEPT ![e] = state]
      BY <1>4, <1>12 DEF AuthAndDecryptHeader
    <2>10. /\ header'[e] = cipher.plain /\ dec'[e] = place + 1 /\ reading'[e] = state
           /\ header'[f] = header[f] /\ dec'[f] = dec[f] /\ reading'[f] = reading[f]
           /\ header' \in [Side -> Plain \cup {<<>>}] /\ dec' \in [Side -> Nat]
           /\ reading' \in [Side -> {"header", "frame", "stopped"}]
      BY <1>1, <1>11, <2>6, <2>8, <2>9
    <2>11. HasRead(more, theirs, state, place + 1, cipher.plain, n)
      BY <2>5 DEF HasRead
    <2>12. HasRead(ingress'[e].updates, egress[f].updates, reading'[e], dec'[e], header'[e], Len(accepted'[e]))
      BY <1>3, <1>8, <1>9, <2>3, <2>10, <2>11
    <2> QED  BY <1>1, <1>7, <1>8, <1>9, <1>10, <2>10, <2>12, ReadStep
  <1>13. CASE ~Authentic(e, unit, "header")
    <2>1. reading' = [reading EXCEPT ![e] = "stopped"] /\ header' = header /\ dec' = dec
      BY <1>4, <1>13 DEF AuthAndDecryptHeader
    <2>2. /\ reading'[e] = "stopped" /\ reading'[f] = reading[f]
          /\ reading' \in [Side -> {"header", "frame", "stopped"}]
      BY <1>1, <1>11, <2>1
    <2>3. HasRead(ingress'[e].updates, egress[f].updates, reading'[e], dec'[e], header'[e], Len(accepted'[e]))
      BY <2>2 DEF HasRead
    <2> QED  BY <1>1, <1>7, <1>8, <1>9, <1>10, <1>11, <2>1, <2>2, <2>3, ReadStep
  <1> QED  BY <1>12, <1>13

LEMMA FrameInv == ASSUME CoderInv, FrameCoderConstants, NEW e \in Side, AuthAndDecryptFrame(e) PROVE CoderInv'
  <1>1. PICK f \in Side : f = Peer(e) /\ f # e
    BY CoderEnds
  <1>2. PICK mac \in MACs(f) : mac = ingress[e]
    BY <1>1, InboxUnits
  <1>3. PICK theirs \in Seq(Update) : theirs = egress[f].updates
    BY <1>1, InboxUnits
  <1>4. PICK unit \in Underway(f, theirs) : unit = Head(stream[e]) /\ Tail(stream[e]) \in Seq(Underway(f, theirs))
    <2>1. PICK units \in Seq(Underway(f, theirs)) : units = stream[e]
      BY <1>1, <1>3, InboxUnits
    <2>2. units # <<>>
      BY <2>1 DEF AuthAndDecryptFrame
    <2>3. Head(units) \in Underway(f, theirs) /\ Tail(units) \in Seq(Underway(f, theirs))
      BY <2>2
    <2> QED  BY <2>1, <2>3
  <1>5. PICK cipher \in Cipher : cipher = unit.cipher
    BY DEF Underway
  <1> DEFINE more == Append(mac.updates, <<"frame", cipher>>)
  <1>6. /\ Updated(ingress[e], "frame", unit.cipher) = With(mac, more)
        /\ With(mac, more) \in MACs(f) /\ With(mac, more).updates = more
    BY <1>2, <1>5, UpdatedIs
  <1>7. /\ ingress' = [ingress EXCEPT ![e] = With(mac, more)] /\ stream' = [stream EXCEPT ![e] = Tail(stream[e])]
        /\ egress' = egress /\ enc' = enc /\ framesSent' = framesSent /\ header' = header /\ reading[e] = "frame"
    BY <1>2, <1>4, <1>6 DEF AuthAndDecryptFrame
  <1> HIDE DEF more
  <1>8. /\ DOMAIN ingress' = Side /\ DOMAIN stream' = Side
        /\ ingress'[e] = With(mac, more) /\ stream'[e] = Tail(stream[e])
        /\ ingress'[f] = ingress[f] /\ stream'[f] = stream[f] /\ header'[f] = header[f] /\ header'[e] = header[e]
    BY <1>1, <1>7 DEF CoderInv, CoderTypes
  <1>9. ingress'[e].updates = more /\ ingress'[e] \in MACs(f) /\ stream'[e] \in Seq(Underway(f, egress[f].updates))
    BY <1>3, <1>4, <1>6, <1>8
  <1>10. PICK frames \in Seq(Frame) : frames = framesSent[f] /\ Accepts(accepted[e], frames)
    BY <1>1, InboxUnits
  <1>11. /\ dec \in [Side -> Nat] /\ reading \in [Side -> {"header", "frame", "stopped"}]
         /\ header \in [Side -> Plain \cup {<<>>}] /\ DOMAIN accepted = Side
    BY DEF CoderInv, CoderTypes
  <1> DEFINE accept == Authentic(e, unit, "frame") /\ Blocks(header[e].length) = unit.cipher.size
  <1>12. CASE accept
    <2>1. unit.mac.updates = more
      BY <1>2, <1>5, <1>6, <1>12 DEF Authentic
    <2>2. Agrees(more, theirs)
      BY <2>1 DEF Underway
    <2>3. PICK place \in Nat, n \in Nat : place = dec[e] /\ n = Len(accepted[e])
      BY <1>1, InboxUnits
    <2>4. PICK head : head = header[e]
      OBVIOUS
    <2>5. Chain(theirs, frames, enc[f]) /\ HasRead(mac.updates, theirs, "frame", place, head, n)
      BY <1>1, <1>2, <1>3, <1>7, <1>10, <2>3, <2>4, InboxUnits
    <2>6. /\ cipher.at = place /\ n + 1 \in 1 .. Len(frames)
          /\ head = HeadOf(frames[n + 1]) /\ cipher.plain = frames[n + 1].payload
          /\ cipher.size = Blocks(frames[n + 1].payload.size)
          /\ HasRead(more, theirs, "header", place + cipher.size, head, n + 1)
      BY <2>2, <2>5, FrameIsNext DEF more, MACs
    <2>7. cipher.key = AESSecret(e) /\ cipher.size \in Nat
      BY SameSecrets DEF Cipher
    <2>8. Decrypted(e, unit.cipher) = cipher.plain
      BY <1>5, <2>3, <2>6, <2>7 DEF Decrypted
    <2>9. frames[n + 1] \in Frame
      BY <2>6
    <2>10. AsRead(frames[n + 1]) = [info |-> Info(head), payload |-> cipher.plain]
      BY <1>5, <1>12, <2>4, <2>6, <2>9, WrittenInfo
    <2> DEFINE item == [info |-> Info(head), payload |-> cipher.plain]
    <2>11. /\ accepted' = [accepted EXCEPT ![e] = Append(accepted[e], item)]
           /\ dec' = [dec EXCEPT ![e] = place + cipher.size] /\ reading' = [reading EXCEPT ![e] = "header"]
      BY <1>4, <1>5, <1>12, <2>3, <2>4, <2>8 DEF AuthAndDecryptFrame
    <2> HIDE DEF item
    <2>12. /\ accepted'[e] = Append(accepted[e], item) /\ DOMAIN accepted' = Side
           /\ dec'[e] = place + cipher.size /\ reading'[e] = "header"
           /\ accepted'[f] = accepted[f] /\ dec'[f] = dec[f] /\ reading'[f] = reading[f]
           /\ header' \in [Side -> Plain \cup {<<>>}] /\ dec' \in [Side -> Nat]
           /\ reading' \in [Side -> {"header", "frame", "stopped"}]
      BY <1>1, <1>7, <1>11, <2>7, <2>11
    <2>13. PICK list : list = accepted[e] /\ Accepts(list, frames) /\ Len(list) = n
      BY <1>10, <2>3
    <2>14. Accepts(Append(list, item), frames) /\ Len(Append(list, item)) = n + 1
      <3>1. DOMAIN list = 1 .. n
        BY <2>13 DEF Accepts
      <3> DEFINE longer == Append(list, item)
      <3>2. longer = [i \in 1 .. n + 1 |-> IF i = n + 1 THEN item ELSE list[i]]
        BY <2>13
      <3>3. DOMAIN longer = 1 .. n + 1 /\ longer[n + 1] = item /\ \A i \in 1 .. n : longer[i] = list[i]
        BY <3>2
      <3> HIDE DEF longer
      <3>4. Len(longer) = n + 1
        BY <3>3
      <3>5. Len(frames) \in Nat /\ n + 1 <= Len(frames)
        BY <2>6
      <3>6. \A i \in 1 .. n + 1 : longer[i] = AsRead(frames[i])
        BY <2>10, <2>13, <3>3 DEF Accepts, item
      <3>7. Accepts(longer, frames)
        BY <3>3, <3>4, <3>5, <3>6 DEF Accepts
      <3> QED  BY <3>4, <3>7 DEF longer
    <2>15. HasRead(ingress'[e].updates, egress[f].updates, reading'[e], dec'[e], header'[e], Len(accepted'[e]))
      BY <1>3, <1>8, <1>9, <2>4, <2>6, <2>12, <2>13, <2>14
    <2>16. Accepts(accepted'[e], framesSent[f])
      BY <1>10, <2>12, <2>13, <2>14
    <2> QED  BY <1>1, <1>7, <1>8, <1>9, <2>12, <2>15, <2>16, ReadStep
  <1>13. CASE ~accept
    <2>1. reading' = [reading EXCEPT ![e] = "stopped"] /\ accepted' = accepted /\ dec' = dec
      BY <1>4, <1>13 DEF AuthAndDecryptFrame
    <2>2. /\ reading'[e] = "stopped" /\ reading'[f] = reading[f] /\ DOMAIN accepted' = Side
          /\ reading' \in [Side -> {"header", "frame", "stopped"}]
      BY <1>1, <1>11, <2>1
    <2>3. HasRead(ingress'[e].updates, egress[f].updates, reading'[e], dec'[e], header'[e], Len(accepted'[e]))
      BY <2>2 DEF HasRead
    <2>4. Accepts(accepted'[e], framesSent[f]) /\ accepted'[f] = accepted[f]
      BY <1>10, <2>1
    <2>5. header' \in [Side -> Plain \cup {<<>>}] /\ dec' \in [Side -> Nat] /\ dec'[f] = dec[f]
      BY <1>7, <1>11, <2>1
    <2> QED  BY <1>1, <1>7, <1>8, <1>9, <2>2, <2>3, <2>4, <2>5, ReadStep
  <1> QED  BY <1>12, <1>13

\* Whatever the network does to a unit, the MAC is one the sender had, or none.
LEMMA DamagedUnderway ==
    ASSUME NEW f, NEW theirs \in Seq(Update), NEW unit \in Underway(f, theirs), NEW damaged \in Damaged(unit)
    PROVE  damaged \in Underway(f, theirs)
  <1>1. PICK cipher \in Cipher, mac \in MACs(f) : unit = [cipher |-> cipher, mac |-> mac] /\ Agrees(mac.updates, theirs)
    BY DEF Underway
  <1>2. CASE damaged = [unit EXCEPT !.cipher.plain = Garbage]
    <2> DEFINE garbled == [key |-> cipher.key, at |-> cipher.at, plain |-> Garbage, size |-> cipher.size]
    <2>1. garbled \in Cipher
      BY DEF Cipher, Plain
    <2>2. [cipher EXCEPT !.plain = Garbage] = garbled
      BY DEF Cipher
    <2>3. damaged = [cipher |-> garbled, mac |-> mac]
      BY <1>1, <1>2, <2>2
    <2> HIDE DEF garbled
    <2> QED  BY <1>1, <2>1, <2>3 DEF Underway
  <1>3. CASE damaged = [unit EXCEPT !.mac.updates = <<>>]
    <2>1. [mac EXCEPT !.updates = <<>>] = With(mac, <<>>)
      BY DEF With, MACs
    <2>2. damaged = [cipher |-> cipher, mac |-> With(mac, <<>>)]
      BY <1>1, <1>3, <2>1
    <2>3. With(mac, <<>>) \in MACs(f) /\ With(mac, <<>>).updates = <<>>
      BY DEF With, MACs
    <2>4. Agrees(<<>>, theirs)
      BY DEF Agrees
    <2> QED  BY <2>2, <2>3, <2>4 DEF Underway
  <1> QED  BY <1>2, <1>3 DEF Damaged

LEMMA Rearranged ==
    ASSUME NEW S, NEW s \in Seq(S), NEW i \in DOMAIN s
    PROVE  /\ RemoveAt(s, i) \in Seq(S) /\ InsertAt(s, i, s[i]) \in Seq(S)
           /\ \A x \in S : [s EXCEPT ![i] = x] \in Seq(S)
           /\ i > 1 => i - 1 \in DOMAIN s /\ [s EXCEPT ![i] = s[i - 1], ![i - 1] = s[i]] \in Seq(S)
  <1>1. i \in 1 .. Len(s) /\ Len(s) \in Nat
    OBVIOUS
  <1>2. \A j \in 1 .. Len(s) + 1, k \in 0 .. Len(s) : SubSeq(s, j, k) \in Seq(S)
    OBVIOUS
  <1>3. SubSeq(s, 1, i - 1) \in Seq(S) /\ SubSeq(s, i + 1, Len(s)) \in Seq(S) /\ SubSeq(s, i, Len(s)) \in Seq(S)
    BY <1>1, <1>2
  <1>4. s[i] \in S /\ <<s[i]>> \in Seq(S)
    BY <1>1
  <1>5. RemoveAt(s, i) \in Seq(S)
    BY <1>3 DEF RemoveAt
  <1>6. InsertAt(s, i, s[i]) \in Seq(S)
    BY <1>3, <1>4 DEF InsertAt
  <1>7. \A x \in S : [s EXCEPT ![i] = x] \in Seq(S)
    OBVIOUS
  <1>8. ASSUME i > 1 PROVE i - 1 \in DOMAIN s /\ [s EXCEPT ![i] = s[i - 1], ![i - 1] = s[i]] \in Seq(S)
    <2>1. i - 1 \in 1 .. Len(s)
      BY <1>1, <1>8
    <2>2. s[i - 1] \in S
      BY <2>1
    <2> DEFINE t == [s EXCEPT ![i] = s[i - 1]]
    <2>3. t \in Seq(S) /\ DOMAIN t = DOMAIN s
      BY <1>7, <2>2
    <2> HIDE DEF t
    <2>4. [t EXCEPT ![i - 1] = s[i]] \in Seq(S)
      BY <1>4, <2>1, <2>3
    <2> QED  BY <2>1, <2>4 DEF t
  <1> QED  BY <1>5, <1>6, <1>7, <1>8

LEMMA FaultInv == ASSUME CoderInv, NEW e \in Side, Fault(e) PROVE CoderInv'
  <1>1. PICK f \in Side : f = Peer(e) /\ f # e
    BY CoderEnds
  <1>9. PICK theirs \in Seq(Update) : theirs = egress[f].updates
    BY <1>1, InboxUnits
  <1>2. PICK units \in Seq(Underway(f, theirs)) : units = stream[e]
    BY <1>1, <1>9, InboxUnits
  <1>3. DOMAIN stream = Side
    BY DEF CoderInv, CoderTypes
  <1>4. PICK units2 \in Seq(Underway(f, theirs)) : stream' = [stream EXCEPT ![e] = units2]
    <2>1. PICK i \in DOMAIN units :
             \/ \E unit \in Damaged(units[i]) : stream' = [stream EXCEPT ![e][i] = unit]
             \/ stream' = [stream EXCEPT ![e] = RemoveAt(@, i)]
             \/ stream' = [stream EXCEPT ![e] = InsertAt(@, i, @[i])]
             \/ i > 1 /\ stream' = [stream EXCEPT ![e][i] = stream[e][i - 1], ![e][i - 1] = stream[e][i]]
      BY <1>2 DEF Fault
    <2>2. units[i] \in Underway(f, theirs)
      OBVIOUS
    <2>3. CASE \E unit \in Damaged(units[i]) : stream' = [stream EXCEPT ![e][i] = unit]
      <3>1. PICK unit \in Damaged(units[i]) : stream' = [stream EXCEPT ![e][i] = unit]
        BY <2>3
      <3>2. [units EXCEPT ![i] = unit] \in Seq(Underway(f, theirs))
        BY <2>2, <3>1, DamagedUnderway, Rearranged
      <3>3. stream' = [stream EXCEPT ![e] = [units EXCEPT ![i] = unit]]
        BY <1>2, <3>1
      <3> QED  BY <3>2, <3>3
    <2>4. CASE stream' = [stream EXCEPT ![e] = RemoveAt(@, i)]
      BY <1>2, <2>4, Rearranged
    <2>5. CASE stream' = [stream EXCEPT ![e] = InsertAt(@, i, @[i])]
      BY <1>2, <2>5, Rearranged
    <2>6. CASE i > 1 /\ stream' = [stream EXCEPT ![e][i] = stream[e][i - 1], ![e][i - 1] = stream[e][i]]
      <3>1. stream' = [stream EXCEPT ![e] = [units EXCEPT ![i] = units[i - 1], ![i - 1] = units[i]]]
        BY <1>2, <1>3, <2>6
      <3> QED  BY <2>6, <3>1, Rearranged
    <2> QED  BY <2>1, <2>3, <2>4, <2>5, <2>6
  <1>5. /\ egress' = egress /\ enc' = enc /\ framesSent' = framesSent /\ ingress' = ingress /\ dec' = dec
        /\ reading' = reading /\ header' = header /\ accepted' = accepted
    BY DEF Fault
  <1>6. /\ DOMAIN stream' = Side /\ stream'[e] \in Seq(Underway(f, egress[f].updates)) /\ stream'[f] = stream[f]
    BY <1>1, <1>9, <1>2, <1>3, <1>4
  <1>7. /\ dec' \in [Side -> Nat] /\ reading' \in [Side -> {"header", "frame", "stopped"}]
        /\ header' \in [Side -> Plain \cup {<<>>}] /\ DOMAIN ingress' = Side /\ DOMAIN accepted' = Side
    BY <1>5 DEF CoderInv, CoderTypes
  <1>8. /\ ingress'[e] \in MACs(f) /\ Accepts(accepted'[e], framesSent[f])
        /\ HasRead(ingress'[e].updates, egress[f].updates, reading'[e], dec'[e], header'[e], Len(accepted'[e]))
    BY <1>1, <1>5, InboxUnits
  <1> QED  BY <1>1, <1>5, <1>6, <1>7, <1>8, ReadStep

LEMMA WriteInv ==
    ASSUME CoderInv, FrameCoderConstants, NEW e \in Side, NEW list \in Lists, NEW size \in Sizes,
           WriteFrame(e, list, size)
    PROVE  CoderInv'
  <1>1. PICK f \in Side : f = Peer(e) /\ f # e /\ e = Peer(f)
    BY CoderEnds
  <1>2. PICK mac \in MACs(e), at \in Nat, frames \in Seq(Frame) : mac = egress[e] /\ at = enc[e] /\ frames = framesSent[e]
    BY DEF CoderInv, CoderTypes
  <1>3. PICK units \in Seq(Underway(e, mac.updates)) : units = stream[f]
    BY <1>1, <1>2, InboxUnits
  <1> DEFINE payload == [number |-> Len(frames), size |-> size]
             frame == [list |-> list, payload |-> payload]
             head == Encrypted(e, at, [length |-> size % Field, list |-> list], 1)
             body == Encrypted(e, at + 1, payload, Blocks(size))
             most == Append(mac.updates, <<"header", head>>)
             more == Append(most, <<"frame", body>>)
             unit1 == [cipher |-> head, mac |-> With(mac, most)]
             unit2 == [cipher |-> body, mac |-> With(mac, more)]
  <1>4. size \in Nat /\ size % Field \in Nat /\ Blocks(size) \in Nat /\ Len(frames) \in Nat /\ Sizes \subseteq Nat
    <2>1. Sizes \subseteq Nat /\ Field \in Nat /\ Field >= 16 /\ Len(frames) \in Nat
      BY DEF FrameCoderConstants
    <2>2. size \in Nat
      BY <2>1
    <2>3. size % Field \in Nat
      BY <2>1, <2>2
    <2> QED  BY <2>1, <2>2, <2>3, BlocksAreNat
  <1>5. payload \in [number : Nat, size : Sizes] /\ frame \in Frame /\ frame.payload.size = size
    BY <1>4 DEF Frame
  <1>6. [length |-> size % Field, list |-> list] = HeadOf(frame) /\ HeadOf(frame) \in Plain /\ payload \in Plain
    BY <1>4, <1>5 DEF HeadOf, Plain
  <1>7. head \in Cipher /\ body \in Cipher
    BY <1>4, <1>6, SameSecrets DEF Encrypted, Cipher
  <1>8. /\ head.at = at /\ head.plain = HeadOf(frame) /\ head.size = 1
        /\ body.at = at + 1 /\ body.plain = frame.payload /\ body.size = Blocks(frame.payload.size)
    BY <1>5, <1>6 DEF Encrypted
  <1>9. /\ Updated(egress[e], "header", head) = With(mac, most)
        /\ With(mac, most) \in MACs(e) /\ With(mac, most).updates = most
    BY <1>2, <1>7, UpdatedIs
  <1>10. /\ Updated(With(mac, most), "frame", body) = With(With(mac, most), more)
         /\ With(With(mac, most), more) \in MACs(e)
    <2>1. PICK mac2 \in MACs(e) : mac2 = With(mac, most) /\ mac2.updates = most
      BY <1>9
    <2> HIDE DEF most, body
    <2>2. /\ Updated(mac2, "frame", body) = With(mac2, Append(mac2.updates, <<"frame", body>>))
          /\ With(mac2, Append(mac2.updates, <<"frame", body>>)) \in MACs(e)
      BY <1>7, UpdatedIs
    <2> QED  BY <2>1, <2>2
  <1>11. With(With(mac, most), more) = With(mac, more) /\ With(mac, more).updates = more
    BY DEF With
  <1>12. /\ egress' = [egress EXCEPT ![e] = With(mac, more)]
         /\ framesSent' = [framesSent EXCEPT ![e] = Append(frames, frame)]
         /\ stream' = [stream EXCEPT ![f] = units \o <<unit1, unit2>>]
         /\ enc' = [enc EXCEPT ![e] = at + 1 + Blocks(size)]
         /\ ingress' = ingress /\ dec' = dec /\ reading' = reading /\ header' = header /\ accepted' = accepted
    BY <1>1, <1>2, <1>3, <1>9, <1>10, <1>11 DEF WriteFrame
  <1>13. mac.updates \in Seq(Update) /\ most \in Seq(Update) /\ more \in Seq(Update)
    BY <1>9, <1>10, <1>11 DEF MACs
  <1>14. Agrees(mac.updates, more) /\ Agrees(most, more)
    <2>1. <<"header", head>> \in Update /\ <<"frame", body>> \in Update
      BY <1>7 DEF Update
    <2>2. Agrees(mac.updates, most) /\ Agrees(most, more)
      BY <1>13, <2>1, Appended
    <2> QED  BY <1>13, <2>2, Longer
  <1>15. Chain(more, Append(frames, frame), at + 1 + Blocks(size))
    <2>1. Chain(mac.updates, frames, at)
      BY <1>2 DEF CoderInv
    <2> QED  BY <1>4, <1>5, <1>7, <1>8, <1>13, <2>1, ChainLonger
  <1> HIDE DEF payload, frame, head, body
  <1>16. units \o <<unit1, unit2>> \in Seq(Underway(e, more))
    <2>1. Agrees(more, more)
      BY DEF Agrees
    <2>2. unit1 \in Underway(e, more) /\ unit2 \in Underway(e, more)
      BY <1>7, <1>9, <1>10, <1>11, <1>14, <2>1 DEF Underway
    <2>3. units \in Seq(Underway(e, more))
      <3>1. Underway(e, mac.updates) \subseteq Underway(e, more)
        BY <1>13, <1>14, UnderwayLonger
      <3> QED  BY <3>1, SeqLarger
    <2> HIDE DEF unit1, unit2
    <2> QED  BY <2>2, <2>3
  <1>17. With(mac, more) \in MACs(e) /\ Append(frames, frame) \in Seq(Frame) /\ at + 1 + Blocks(size) \in Nat
    BY <1>4, <1>5, <1>10, <1>11
  <1> HIDE DEF more, most, unit1, unit2
  <1>18. /\ egress'[e] = With(mac, more) /\ egress'[f] = egress[f] /\ DOMAIN egress' = Side
         /\ framesSent'[e] = Append(frames, frame) /\ framesSent'[f] = framesSent[f]
         /\ stream'[f] = units \o <<unit1, unit2>> /\ stream'[e] = stream[e] /\ DOMAIN stream' = Side
         /\ enc'[e] = at + 1 + Blocks(size) /\ enc'[f] = enc[f]
    BY <1>1, <1>12 DEF CoderInv, CoderTypes
  <1>19. CoderTypes'
    <2>1. CoderTypes /\ \A d \in Side : d = e \/ d = f
      BY <1>1, CoderEnds DEF CoderInv
    <2>2. framesSent' \in [Side -> Seq(Frame)] /\ enc' \in [Side -> Nat]
      BY <1>12, <1>17, <2>1 DEF CoderTypes
    <2>3. /\ stream'[f] \in Seq(Underway(Peer(f), egress'[Peer(f)].updates))
          /\ stream'[e] \in Seq(Underway(Peer(e), egress'[Peer(e)].updates))
      BY <1>1, <1>11, <1>16, <1>18, <2>1 DEF CoderTypes
    <2> QED  BY <1>1, <1>12, <1>17, <1>18, <2>1, <2>2, <2>3 DEF CoderTypes
  <1>20. /\ Chain(egress'[e].updates, framesSent'[e], enc'[e])
         /\ HasRead(ingress'[e].updates, egress'[f].updates, reading'[e], dec'[e], header'[e], Len(accepted'[e]))
         /\ Accepts(accepted'[e], framesSent'[f])
    BY <1>1, <1>11, <1>12, <1>15, <1>18, InboxUnits
  <1>21. /\ Chain(egress'[f].updates, framesSent'[f], enc'[f])
         /\ HasRead(ingress'[f].updates, egress'[e].updates, reading'[f], dec'[f], header'[f], Len(accepted'[f]))
         /\ Accepts(accepted'[f], framesSent'[e])
    <2>1. Chain(egress'[f].updates, framesSent'[f], enc'[f])
      BY <1>1, <1>18 DEF CoderInv
    <2>2. HasRead(ingress[f].updates, mac.updates, reading[f], dec[f], header[f], Len(accepted[f]))
      BY <1>1, <1>2, InboxUnits
    <2>3. HasRead(ingress[f].updates, more, reading[f], dec[f], header[f], Len(accepted[f]))
      BY <1>1, <1>13, <1>14, <2>2, InboxUnits, HasReadLonger
    <2>4. Accepts(accepted[f], frames)
      BY <1>1, <1>2, InboxUnits
    <2>5. Accepts(accepted[f], Append(frames, frame))
      BY <1>5, <2>4, AcceptsLonger DEF frame, payload
    <2> QED  BY <1>11, <1>12, <1>18, <2>1, <2>3, <2>5
  <1> QED  BY <1>1, <1>19, <1>20, <1>21, CoderEnds DEF CoderInv, HasReadOf

LEMMA CoderInitInv == ASSUME FrameCoderConstants, CoderInit PROVE CoderInv
  <1>1. ASSUME NEW e \in Side
        PROVE  /\ egress[e] \in MACs(e) /\ ingress[e] \in MACs(Peer(e))
               /\ egress[e].updates = <<>> /\ ingress[e].updates = <<>>
    <2>1. <<>> \in Seq(Update)
      OBVIOUS
    <2>2. egress[e] = [key |-> MACSecret(e), seed |-> EgressSeed(e), updates |-> <<>>]
      BY <1>1 DEF CoderInit, MAC
    <2>3. ingress[e] = [key |-> MACSecret(e), seed |-> IngressSeed(e), updates |-> <<>>]
      BY <1>1 DEF CoderInit, MAC
    <2> QED  BY <2>1, <2>2, <2>3, SameSecrets DEF MACs
  <1>2. CoderTypes
    BY <1>1, CoderEnds DEF CoderInit, CoderTypes
  <1>3. ASSUME NEW e \in Side
        PROVE  /\ Chain(egress[e].updates, framesSent[e], enc[e])
               /\ HasReadOf(e, egress[Peer(e)].updates) /\ Accepts(accepted[e], framesSent[Peer(e)])
    <2>1. /\ egress[e].updates = <<>> /\ ingress[e].updates = <<>> /\ egress[Peer(e)].updates = <<>>
          /\ framesSent[e] = <<>> /\ framesSent[Peer(e)] = <<>> /\ accepted[e] = <<>>
          /\ enc[e] = 0 /\ dec[e] = 0 /\ reading[e] = "header"
      BY <1>1, CoderEnds DEF CoderInit
    <2>2. Chain(<<>>, <<>>, 0)
      BY DEF Chain, Place
    <2>3. HasRead(<<>>, <<>>, "header", 0, header[e], 0)
      BY DEF HasRead, Agrees, Place
    <2>4. Accepts(<<>>, <<>>)
      BY DEF Accepts
    <2> QED  BY <2>1, <2>2, <2>3, <2>4 DEF HasReadOf
  <1> QED  BY <1>2, <1>3 DEF CoderInv

LEMMA CoderNextInv == ASSUME FrameCoderConstants, CoderInv, [CoderNext]_coderVars PROVE CoderInv'
  <1>1. ASSUME NEW e \in Side, NEW list \in Lists, NEW size \in Sizes, WriteFrame(e, list, size) PROVE CoderInv'
    BY <1>1, WriteInv
  <1>2. ASSUME NEW e \in Side, AuthAndDecryptHeader(e) \/ AuthAndDecryptFrame(e) \/ Fault(e) PROVE CoderInv'
    BY <1>2, HeaderInv, FrameInv, FaultInv
  <1>3. CASE UNCHANGED coderVars
    <2>1. /\ egress' = egress /\ ingress' = ingress /\ enc' = enc /\ dec' = dec /\ stream' = stream /\ reading' = reading
          /\ header' = header /\ framesSent' = framesSent /\ accepted' = accepted
      BY <1>3 DEF coderVars
    <2> QED  BY <2>1 DEF CoderInv, CoderTypes, HasReadOf
  <1> QED  BY <1>1, <1>2, <1>3 DEF CoderNext

\* What an end accepts is what the other has written, from the first frame on and
\* without a gap, whatever is damaged, lost, repeated or exchanged on the way
\* (RLPXFrameCoder::authAndDecryptHeader, authAndDecryptFrame).
THEOREM AlwaysAcceptedIsWritten ==
    ASSUME FrameCoderConstants PROVE CoderSpec => []AcceptedIsWritten
  <1>1. CoderInv => AcceptedIsWritten
    <2> SUFFICES ASSUME CoderInv, NEW e \in Side
                 PROVE  IsPrefix(accepted[e], [i \in DOMAIN framesSent[Peer(e)] |->
                                                       AsRead(framesSent[Peer(e)][i])])
      BY DEF AcceptedIsWritten
    <2>1. PICK frames \in Seq(Frame) : frames = framesSent[Peer(e)] /\ Accepts(accepted[e], frames)
      BY CoderEnds, InboxUnits
    <2>2. PICK list : list = accepted[e]
      OBVIOUS
    <2> DEFINE written == [i \in DOMAIN frames |-> AsRead(frames[i])]
    <2>3. Len(frames) \in Nat /\ DOMAIN frames = 1 .. Len(frames)
      OBVIOUS
    <2>4. Len(written) = Len(frames)
      BY <2>3
    <2>5. Len(list) <= Len(frames) /\ Len(list) \in Nat /\ \A i \in 1 .. Len(list) : list[i] = written[i]
      BY <2>1, <2>2, <2>3 DEF Accepts
    <2> HIDE DEF written
    <2>6. SubSeq(list, 1, Len(list)) = SubSeq(written, 1, Len(list))
      BY <2>5
    <2>7. IsPrefix(list, written)
      BY <2>4, <2>5, <2>6 DEF IsPrefix
    <2> QED  BY <2>1, <2>2, <2>7 DEF written
  <1> QED  BY <1>1, CoderInitInv, CoderNextInv, PTL DEF CoderSpec
-----------------------------------------------------------------------------
CalmInv == CoderInv /\ coderFaults \in Nat /\ Calm

LEMMA SameSeq == ASSUME NEW S, NEW s \in Seq(S), NEW t \in Seq(S), NEW u \in Seq(S),
                        Agrees(s, u), Agrees(t, u), Len(s) = Len(t)
                 PROVE  s = t
  BY DEF Agrees

\* What arrives as it was sent has the MAC that is expected.
LEMMA Expected ==
    ASSUME NEW f, NEW mac \in MACs(f), NEW theirs \in Seq(Update), NEW unit \in Underway(f, theirs),
           Agrees(mac.updates, theirs), Len(unit.mac.updates) = Len(mac.updates) + 1,
           NEW cipher \in Cipher, NEW as \in {"header", "frame"}, theirs[Len(mac.updates) + 1] = <<as, cipher>>
    PROVE  unit.mac = With(mac, Append(mac.updates, <<as, cipher>>)) /\ Agrees(Append(mac.updates, <<as, cipher>>), theirs)
  <1> DEFINE more == Append(mac.updates, <<as, cipher>>)
  <1>1. <<as, cipher>> \in Update /\ mac.updates \in Seq(Update)
    BY DEF Update, MACs
  <1>2. more \in Seq(Update) /\ Len(more) = Len(mac.updates) + 1 /\ more[Len(mac.updates) + 1] = <<as, cipher>>
        /\ \A i \in 1 .. Len(mac.updates) : more[i] = mac.updates[i]
    <2>1. PICK u \in Seq(Update), x \in Update : u = mac.updates /\ x = <<as, cipher>>
      BY <1>1
    <2>2. /\ Append(u, x) \in Seq(Update) /\ Len(Append(u, x)) = Len(u) + 1
          /\ (\A i \in 1 .. Len(u) : Append(u, x)[i] = u[i]) /\ Append(u, x)[Len(u) + 1] = x
      BY Appended
    <2> QED  BY <2>1, <2>2
  <1> HIDE DEF more
  <1>3. unit.mac \in MACs(f) /\ unit.mac.updates \in Seq(Update) /\ Agrees(unit.mac.updates, theirs)
    BY DEF Underway, MACs
  <1>4. Agrees(more, theirs)
    <2>1. Len(mac.updates) \in Nat /\ Len(more) = Len(mac.updates) + 1 /\ Len(unit.mac.updates) <= Len(theirs)
      BY <1>1, <1>2, <1>3 DEF Agrees
    <2>2. Len(more) <= Len(theirs)
      BY <2>1
    <2>3. ASSUME NEW i \in 1 .. Len(more) PROVE more[i] = theirs[i]
      <3>1. i \in 1 .. Len(mac.updates) \/ i = Len(mac.updates) + 1
        BY <2>1
      <3> QED  BY <1>2, <3>1 DEF Agrees
    <2> QED  BY <2>2, <2>3 DEF Agrees
  <1>5. unit.mac.updates = more
    BY <1>2, <1>3, <1>4, SameSeq
  <1>6. unit.mac = With(mac, more)
    BY <1>3, <1>5 DEF MACs, With
  <1> QED  BY <1>4, <1>6 DEF more

LEMMA RestUndisturbed ==
    ASSUME NEW S, NEW units \in Seq(S), units # <<>>, NEW mine \in Seq(Update), NEW theirs, NEW x \in Update,
           Undisturbed(units, mine, theirs)
    PROVE  Undisturbed(Tail(units), Append(mine, x), theirs)
  <1>1. Len(Append(mine, x)) = Len(mine) + 1 /\ Len(mine) \in Nat /\ Len(units) \in Nat /\ Len(units) > 0
    OBVIOUS
  <1>2. Len(Tail(units)) = Len(units) - 1 /\ \A i \in 1 .. Len(units) - 1 : Tail(units)[i] = units[i + 1]
    BY <1>1
  <1>3. \A i \in 1 .. Len(units) - 1 : i + 1 \in 1 .. Len(units) /\ (Len(mine) + 1) + i = Len(mine) + (i + 1)
    BY <1>1
  <1> QED  BY <1>1, <1>2, <1>3 DEF Undisturbed

LEMMA MoreUndisturbed ==
    ASSUME NEW S, NEW units \in Seq(S), NEW mine \in Seq(Update), NEW u \in Seq(Update),
           NEW head \in Update, NEW body \in Update, NEW a \in S, NEW b \in S, Undisturbed(units, mine, u),
           Len(a.mac.updates) = Len(u) + 1, a.cipher = head[2],
           Len(b.mac.updates) = Len(u) + 2, b.cipher = body[2]
    PROVE  Undisturbed(units \o <<a, b>>, mine, Append(Append(u, head), body))
  <1> DEFINE w == Append(Append(u, head), body)  all == units \o <<a, b>>
  <1>1. Len(mine) \in Nat /\ Len(units) \in Nat /\ Len(u) \in Nat /\ Len(units) + Len(mine) = Len(u)
    BY DEF Undisturbed
  <1>2. /\ Len(w) = Len(u) + 2 /\ w[Len(u) + 1] = head /\ w[Len(u) + 2] = body
        /\ \A j \in 1 .. Len(u) : w[j] = u[j]
    OBVIOUS
  <1>3. /\ Len(all) = Len(units) + 2 /\ all[Len(units) + 1] = a /\ all[Len(units) + 2] = b
        /\ \A i \in 1 .. Len(units) : all[i] = units[i]
    OBVIOUS
  <1> HIDE DEF w, all
  <1>4. Len(all) = Len(units) + 2 /\ Len(all) + Len(mine) = Len(w)
    <2>1. Len(all) = Len(units) + 2
      BY <1>3
    <2>2. Len(w) = Len(u) + 2
      BY <1>2
    <2> QED  BY <1>1, <2>1, <2>2
  <1>5. ASSUME NEW i \in 1 .. Len(all)
        PROVE  Len(all[i].mac.updates) = Len(mine) + i /\ all[i].cipher = w[Len(mine) + i][2]
    <2>1. CASE i \in 1 .. Len(units)
      <3>1. Len(mine) + i \in 1 .. Len(u)
        BY <1>1, <2>1
      <3> QED  BY <1>2, <1>3, <2>1, <3>1 DEF Undisturbed
    <2>2. CASE i = Len(units) + 1
      <3>1. Len(mine) + i = Len(u) + 1
        BY <1>1, <2>2
      <3> QED  BY <1>2, <1>3, <2>2, <3>1
    <2>3. CASE i = Len(units) + 2
      <3>1. Len(mine) + i = Len(u) + 2
        BY <1>1, <2>3
      <3> QED  BY <1>2, <1>3, <2>3, <3>1
    <2>4. i \in 1 .. Len(units) \/ i = Len(units) + 1 \/ i = Len(units) + 2
      BY <1>1, <1>4
    <2> QED  BY <2>1, <2>2, <2>3, <2>4
  <1> QED  BY <1>4, <1>5 DEF Undisturbed, w, all

LEMMA HeaderCalm ==
    ASSUME CalmInv, coderFaults = 0, NEW e \in Side, AuthAndDecryptHeader(e)
    PROVE  Calm'
  <1>1. PICK f \in Side : f = Peer(e) /\ f # e /\ e = Peer(f) /\ \A d \in Side : d = e \/ d = f
    BY CoderEnds
  <1> USE DEF CalmInv
  <1>2. PICK mac \in MACs(f), theirs \in Seq(Update), frames \in Seq(Frame), n \in Nat :
           mac = ingress[e] /\ theirs = egress[f].updates /\ frames = framesSent[f] /\ n = Len(accepted[e])
    BY <1>1, InboxUnits
  <1>3. PICK units \in Seq(Underway(f, theirs)) : units = stream[e] /\ units # <<>>
    BY <1>1, <1>2, InboxUnits DEF AuthAndDecryptHeader
  <1>4. PICK unit \in Underway(f, theirs) : unit = units[1] /\ unit = Head(units)
    BY <1>3
  <1>5. PICK place \in Nat, head \in {header[e]} : place = dec[e] /\ head = header[e]
    BY <1>1, InboxUnits
  <1>6. mac.updates \in Seq(Update) /\ Len(mac.updates) \in Nat
    BY DEF MACs
  <1>7. /\ Undisturbed(units, mac.updates, theirs) /\ Undisturbed(stream[f], ingress[f].updates, egress[e].updates)
        /\ reading[f] # "stopped" /\ reading[e] = "header"
    BY <1>1, <1>2, <1>3 DEF Calm, AuthAndDecryptHeader
  <1>8. Chain(theirs, frames, enc[f]) /\ HasRead(mac.updates, theirs, "header", place, head, n)
    BY <1>1, <1>2, <1>5, <1>7, InboxUnits
  <1>9. Agrees(mac.updates, theirs) /\ Len(mac.updates) = 2 * n /\ Len(theirs) = 2 * Len(frames) /\ Len(frames) \in Nat
    BY <1>8 DEF HasRead, Chain
  <1>10. Len(unit.mac.updates) = Len(mac.updates) + 1 /\ unit.cipher = theirs[Len(mac.updates) + 1][2]
         /\ Len(units) > 0 /\ Len(units) \in Nat /\ Len(units) + Len(mac.updates) = Len(theirs)
    <2>1. Len(units) > 0 /\ Len(units) \in Nat /\ 1 \in 1 .. Len(units)
      BY <1>3
    <2> QED  BY <1>4, <1>7, <2>1 DEF Undisturbed
  <1>11. n + 1 \in 1 .. Len(frames) /\ 2 * (n + 1) - 1 = Len(mac.updates) + 1 /\ Len(mac.updates) + 1 \in 1 .. Len(theirs)
    BY <1>6, <1>9, <1>10
  <1>12. theirs[Len(mac.updates) + 1][1] = "header"
    BY <1>8, <1>11 DEF Chain
  <1>13. PICK cipher \in Cipher : cipher = unit.cipher
    BY DEF Underway
  <1>14. theirs[Len(mac.updates) + 1] = <<"header", cipher>>
    BY <1>10, <1>11, <1>12, <1>13 DEF Update
  <1> DEFINE more == Append(mac.updates, <<"header", cipher>>)
  <1>15. unit.mac = With(mac, more) /\ Agrees(more, theirs)
    BY <1>9, <1>10, <1>14, Expected
  <1>16. Updated(ingress[e], "header", unit.cipher) = With(mac, more) /\ With(mac, more).updates = more
    BY <1>2, <1>13, UpdatedIs
  <1>17. Authentic(e, unit, "header")
    BY <1>15, <1>16 DEF Authentic
  <1>18. cipher.at = place /\ \E k \in 1 .. Len(frames) : cipher.plain = HeadOf(frames[k])
    BY <1>6, <1>8, <1>15, HeaderIsNext
  <1>19. cipher.plain # Garbage
    <2>1. \A x, y, z : [length |-> x, list |-> y] # [what |-> z]
      OBVIOUS
    <2> QED  BY <1>18, <2>1 DEF HeadOf, Garbage
  <1>20. Decrypted(e, unit.cipher) = cipher.plain
    BY <1>5, <1>13, <1>18, SameSecrets DEF Decrypted, Cipher
  <1>21. /\ ingress' = [ingress EXCEPT ![e] = With(mac, more)] /\ stream' = [stream EXCEPT ![e] = Tail(units)]
         /\ egress' = egress /\ header' = [header EXCEPT ![e] = cipher.plain]
         /\ reading' = [reading EXCEPT ![e] = IF header'[e] = Garbage THEN "stopped" ELSE "frame"]
    BY <1>2, <1>3, <1>4, <1>16, <1>17, <1>20 DEF AuthAndDecryptHeader
  <1>22. /\ ingress'[e].updates = more /\ ingress'[f] = ingress[f] /\ stream'[e] = Tail(units) /\ stream'[f] = stream[f]
         /\ reading'[e] = "frame" /\ reading'[f] = reading[f]
    BY <1>1, <1>16, <1>19, <1>21 DEF CoderInv, CoderTypes
  <1>23. Undisturbed(Tail(units), more, theirs)
    <2>1. <<"header", cipher>> \in Update
      BY DEF Update
    <2> QED  BY <1>3, <1>6, <1>7, <2>1, RestUndisturbed
  <1> HIDE DEF more
  <1> QED  BY <1>1, <1>2, <1>7, <1>21, <1>22, <1>23 DEF Calm

LEMMA FrameCalm ==
    ASSUME CalmInv, FrameCoderConstants, \A s \in Sizes : s < Field, coderFaults = 0,
           NEW e \in Side, AuthAndDecryptFrame(e)
    PROVE  Calm'
  <1>1. PICK f \in Side : f = Peer(e) /\ f # e /\ e = Peer(f) /\ \A d \in Side : d = e \/ d = f
    BY CoderEnds
  <1> USE DEF CalmInv
  <1>2. PICK mac \in MACs(f), theirs \in Seq(Update), frames \in Seq(Frame), n \in Nat :
           mac = ingress[e] /\ theirs = egress[f].updates /\ frames = framesSent[f] /\ n = Len(accepted[e])
    BY <1>1, InboxUnits
  <1>3. PICK units \in Seq(Underway(f, theirs)) : units = stream[e] /\ units # <<>>
    BY <1>1, <1>2, InboxUnits DEF AuthAndDecryptFrame
  <1>4. PICK unit \in Underway(f, theirs) : unit = units[1] /\ unit = Head(units)
    BY <1>3
  <1>5. PICK place \in Nat, head \in {header[e]} : place = dec[e] /\ head = header[e]
    BY <1>1, InboxUnits
  <1>6. mac.updates \in Seq(Update) /\ Len(mac.updates) \in Nat
    BY DEF MACs
  <1>7. /\ Undisturbed(units, mac.updates, theirs) /\ Undisturbed(stream[f], ingress[f].updates, egress[e].updates)
        /\ reading[f] # "stopped" /\ reading[e] = "frame"
    BY <1>1, <1>2, <1>3 DEF Calm, AuthAndDecryptFrame
  <1>8. Chain(theirs, frames, enc[f]) /\ HasRead(mac.updates, theirs, "frame", place, head, n)
    BY <1>1, <1>2, <1>5, <1>7, InboxUnits
  <1>9. Agrees(mac.updates, theirs) /\ Len(mac.updates) = 2 * n + 1 /\ Len(theirs) = 2 * Len(frames) /\ Len(frames) \in Nat
    BY <1>8 DEF HasRead, Chain
  <1>10. Len(unit.mac.updates) = Len(mac.updates) + 1 /\ unit.cipher = theirs[Len(mac.updates) + 1][2]
         /\ Len(units) > 0 /\ Len(units) \in Nat /\ Len(units) + Len(mac.updates) = Len(theirs)
    <2>1. Len(units) > 0 /\ Len(units) \in Nat /\ 1 \in 1 .. Len(units)
      BY <1>3
    <2> QED  BY <1>4, <1>7, <2>1 DEF Undisturbed
  <1>11. n + 1 \in 1 .. Len(frames) /\ 2 * (n + 1) = Len(mac.updates) + 1 /\ Len(mac.updates) + 1 \in 1 .. Len(theirs)
    <2>1. Len(theirs) \in Nat /\ Len(mac.updates) + 1 <= Len(theirs)
      BY <1>6, <1>10
    <2>2. Len(mac.updates) = 2 * n + 1 /\ Len(theirs) = 2 * Len(frames) /\ Len(frames) \in Nat
      BY <1>9
    <2>3. 2 * n + 2 <= 2 * Len(frames)
      BY <2>1, <2>2
    <2> QED  BY <2>1, <2>2, <2>3
  <1>12. theirs[Len(mac.updates) + 1][1] = "frame"
    BY <1>8, <1>11 DEF Chain
  <1>13. PICK cipher \in Cipher : cipher = unit.cipher
    BY DEF Underway
  <1>14. theirs[Len(mac.updates) + 1] = <<"frame", cipher>>
    BY <1>10, <1>11, <1>12, <1>13 DEF Update
  <1> DEFINE more == Append(mac.updates, <<"frame", cipher>>)
  <1>15. unit.mac = With(mac, more) /\ Agrees(more, theirs)
    BY <1>9, <1>10, <1>14, Expected
  <1>16. Updated(ingress[e], "frame", unit.cipher) = With(mac, more) /\ With(mac, more).updates = more
    BY <1>2, <1>13, UpdatedIs
  <1>17. Authentic(e, unit, "frame")
    BY <1>15, <1>16 DEF Authentic
  <1>18. head = HeadOf(frames[n + 1]) /\ cipher.size = Blocks(frames[n + 1].payload.size)
    BY <1>6, <1>8, <1>15, FrameIsNext
  <1>19. Blocks(header[e].length) = unit.cipher.size
    <2>1. frames[n + 1] \in Frame
      BY <1>11
    <2>2. frames[n + 1].payload.size \in Sizes /\ Sizes \subseteq Nat /\ Field \in Nat
      BY <2>1 DEF Frame, FrameCoderConstants
    <2>4. PICK size \in Sizes : size = frames[n + 1].payload.size
      BY <2>2
    <2>5. size \in Nat /\ size < Field
      BY <2>2, <2>4
    <2>6. size % Field = size
      BY <2>2, <2>5, Fits
    <2> QED  BY <1>5, <1>13, <1>18, <2>4, <2>6 DEF HeadOf
  <1>20. /\ ingress' = [ingress EXCEPT ![e] = With(mac, more)] /\ stream' = [stream EXCEPT ![e] = Tail(units)]
         /\ egress' = egress /\ reading' = [reading EXCEPT ![e] = "header"]
    BY <1>2, <1>3, <1>4, <1>16, <1>17, <1>19 DEF AuthAndDecryptFrame
  <1>21. /\ ingress'[e].updates = more /\ ingress'[f] = ingress[f] /\ stream'[e] = Tail(units) /\ stream'[f] = stream[f]
         /\ reading'[e] = "header" /\ reading'[f] = reading[f]
    BY <1>1, <1>16, <1>20 DEF CoderInv, CoderTypes
  <1>22. Undisturbed(Tail(units), more, theirs)
    <2>1. <<"frame", cipher>> \in Update
      BY DEF Update
    <2> QED  BY <1>3, <1>6, <1>7, <2>1, RestUndisturbed
  <1> HIDE DEF more
  <1> QED  BY <1>1, <1>2, <1>7, <1>20, <1>21, <1>22 DEF Calm

LEMMA WriteCalm ==
    ASSUME CalmInv, FrameCoderConstants, coderFaults = 0, NEW e \in Side, NEW list \in Lists, NEW size \in Sizes,
           WriteFrame(e, list, size)
    PROVE  Calm'
  <1>1. PICK f \in Side : f = Peer(e) /\ f # e /\ e = Peer(f) /\ \A d \in Side : d = e \/ d = f
    BY CoderEnds
  <1> USE DEF CalmInv
  <1>2. PICK mac, at, n : mac \in MACs(e) /\ at \in Nat /\ mac = egress[e] /\ at = enc[e] /\ n = Len(framesSent[e])
    BY DEF CoderInv, CoderTypes
  <1>3. PICK units \in Seq(Underway(e, mac.updates)), mine \in Seq(Update) : units = stream[f] /\ mine = ingress[f].updates
    BY <1>1, <1>2, InboxUnits
  <1> DEFINE payload == [number |-> n, size |-> size]
             head == Encrypted(e, at, [length |-> size % Field, list |-> list], 1)
             body == Encrypted(e, at + 1, payload, Blocks(size))
             most == Append(mac.updates, <<"header", head>>)
             more == Append(most, <<"frame", body>>)
             unit1 == [cipher |-> head, mac |-> With(mac, most)]
             unit2 == [cipher |-> body, mac |-> With(mac, more)]
  <1>4. size \in Nat /\ size % Field \in Nat /\ Blocks(size) \in Nat /\ n \in Nat
    <2>1. Sizes \subseteq Nat /\ Field \in Nat /\ Field >= 16 /\ n \in Nat
      BY <1>2 DEF FrameCoderConstants, CoderInv, CoderTypes
    <2>2. size \in Nat
      BY <2>1
    <2>3. size % Field \in Nat
      BY <2>1, <2>2
    <2> QED  BY <2>1, <2>2, <2>3, BlocksAreNat
  <1>5. head \in Cipher /\ body \in Cipher
    <2>1. [length |-> size % Field, list |-> list] \in Plain /\ payload \in Plain
      BY <1>4 DEF Plain
    <2> QED  BY <1>2, <1>4, <2>1, SameSecrets DEF Encrypted, Cipher
  <1> HIDE DEF head, body
  <1>6. Updated(mac, "header", head) = With(mac, most) /\ With(mac, most) \in MACs(e) /\ With(mac, most).updates = most
    BY <1>2, <1>5, UpdatedIs
  <1>7. Updated(With(mac, most), "frame", body) = With(With(mac, most), more) /\ With(With(mac, most), more) \in MACs(e)
    <2>1. PICK mac2 \in MACs(e) : mac2 = With(mac, most) /\ mac2.updates = most
      BY <1>6
    <2> HIDE DEF most
    <2>2. /\ Updated(mac2, "frame", body) = With(mac2, Append(mac2.updates, <<"frame", body>>))
          /\ With(mac2, Append(mac2.updates, <<"frame", body>>)) \in MACs(e)
      BY <1>5, UpdatedIs
    <2> QED  BY <2>1, <2>2
  <1>8. With(With(mac, most), more) = With(mac, more) /\ With(mac, more).updates = more
    BY DEF With
  <1>9. /\ egress' = [egress EXCEPT ![e] = With(mac, more)]
        /\ stream' = [stream EXCEPT ![f] = units \o <<unit1, unit2>>]
        /\ ingress' = ingress /\ reading' = reading
    BY <1>1, <1>2, <1>3, <1>6, <1>7, <1>8 DEF WriteFrame, head, body
  <1>10. /\ Undisturbed(units, mine, mac.updates) /\ Undisturbed(stream[e], ingress[e].updates, egress[f].updates)
         /\ reading[e] # "stopped" /\ reading[f] # "stopped"
    BY <1>1, <1>2, <1>3 DEF Calm
  <1>11. Undisturbed(units \o <<unit1, unit2>>, mine, more)
    <2> DEFINE Units == [cipher : Cipher, mac : MACs(e)]  h == <<"header", head>>  b == <<"frame", body>>
    <2>1. PICK u \in Seq(Update) : u = mac.updates
      BY <1>2 DEF MACs
    <2>2. h \in Update /\ b \in Update /\ h[2] = head /\ b[2] = body
      BY <1>5 DEF Update
    <2>3. unit1 \in Units /\ unit2 \in Units
      BY <1>5, <1>6, <1>7, <1>8
    <2>4. units \in Seq(Units)
      <3>1. Underway(e, mac.updates) \subseteq Units
        BY DEF Underway
      <3> HIDE DEF Units
      <3> QED  BY <3>1, SeqLarger
    <2>5. most \in Seq(Update) /\ Len(most) = Len(u) + 1 /\ Len(more) = Len(u) + 2
      BY <2>1, <2>2
    <2>6. /\ unit1.cipher = h[2] /\ Len(unit1.mac.updates) = Len(u) + 1
          /\ unit2.cipher = b[2] /\ Len(unit2.mac.updates) = Len(u) + 2
      BY <1>6, <1>8, <2>2, <2>5
    <2>7. most = Append(u, h) /\ more = Append(Append(u, h), b)
      BY <2>1
    <2> HIDE DEF unit1, unit2, Units, h, b, most, more
    <2>8. Undisturbed(units, mine, u)
      BY <1>10, <2>1
    <2> QED  BY <2>2, <2>3, <2>4, <2>6, <2>7, <2>8, MoreUndisturbed
  <1> HIDE DEF more, most, unit1, unit2
  <1>12. /\ egress'[e].updates = more /\ egress'[f] = egress[f]
         /\ stream'[f] = units \o <<unit1, unit2>> /\ stream'[e] = stream[e]
    BY <1>1, <1>8, <1>9 DEF CoderInv, CoderTypes
  <1>13. Undisturbed(stream'[f], ingress'[f].updates, egress'[e].updates)
    BY <1>3, <1>9, <1>11, <1>12
  <1>14. Undisturbed(stream'[e], ingress'[e].updates, egress'[f].updates)
    BY <1>9, <1>10, <1>12
  <1> QED  BY <1>1, <1>9, <1>10, <1>13, <1>14 DEF Calm

LEMMA CalmNext ==
    ASSUME CalmInv, FrameCoderConstants, \A s \in Sizes : s < Field, [CoderNext]_coderVars
    PROVE  CalmInv'
  <1>1. CoderInv'
    BY CoderNextInv DEF CalmInv
  <1>2. coderFaults' \in Nat /\ (coderFaults' = 0 => coderFaults = 0)
    <2>1. coderFaults' \in {coderFaults, coderFaults + 1}
      <3>1. CASE UNCHANGED coderVars
        BY <3>1 DEF coderVars
      <3>2. ASSUME NEW e \in Side, NEW list \in Lists, NEW size \in Sizes, WriteFrame(e, list, size)
            PROVE  coderFaults' = coderFaults
        BY <3>2 DEF WriteFrame
      <3>3. ASSUME NEW e \in Side, AuthAndDecryptHeader(e) \/ AuthAndDecryptFrame(e)
            PROVE  coderFaults' = coderFaults
        <4>1. AuthAndDecryptHeader(e) => coderFaults' = coderFaults
          BY DEF AuthAndDecryptHeader
        <4>2. AuthAndDecryptFrame(e) => coderFaults' = coderFaults
          BY DEF AuthAndDecryptFrame
        <4> QED  BY <3>3, <4>1, <4>2
      <3>4. ASSUME NEW e \in Side, Fault(e)
            PROVE  coderFaults' = coderFaults + 1
        BY <3>4 DEF Fault
      <3> QED  BY <3>1, <3>2, <3>3, <3>4 DEF CoderNext
    <2> QED  BY <2>1 DEF CalmInv
  <1>3. ASSUME coderFaults' = 0 PROVE Calm'
    <2>1. coderFaults = 0
      BY <1>2, <1>3
    <2>2. ASSUME NEW e \in Side, NEW list \in Lists, NEW size \in Sizes, WriteFrame(e, list, size) PROVE Calm'
      BY <2>1, <2>2, WriteCalm
    <2>3. ASSUME NEW e \in Side, AuthAndDecryptHeader(e) \/ AuthAndDecryptFrame(e) PROVE Calm'
      BY <2>1, <2>3, HeaderCalm, FrameCalm
    <2>4. ASSUME NEW e \in Side, Fault(e) PROVE Calm'
      BY <1>3, <2>1, <2>4 DEF Fault
    <2>5. CASE UNCHANGED coderVars
      BY <2>5 DEF coderVars, CalmInv, Calm
    <2> QED  BY <2>2, <2>3, <2>4, <2>5 DEF CoderNext
  <1>4. Calm'
    BY <1>3 DEF Calm
  <1> QED  BY <1>1, <1>2, <1>4 DEF CalmInv

\* Both ends derive the same secrets and count the same blocks: as long as nothing
\* happens on the way, an end accepts all that it receives, provided that sizes fit
\* into the three bytes of the header; and what it accepts is what was written
\* (RLPXFrameCoder::setup, updateMAC, authAndDecryptHeader, authAndDecryptFrame).
THEOREM AlwaysAcceptsWhatIsWritten ==
    ASSUME FrameCoderConstants, \A s \in Sizes : s < Field
    PROVE  CoderSpec => []AcceptsWhatIsWritten
  <1>1. CoderInit => CalmInv
    <2> SUFFICES ASSUME CoderInit PROVE CalmInv
      OBVIOUS
    <2>1. CoderInv /\ coderFaults = 0
      BY CoderInitInv DEF CoderInit
    <2>2. ASSUME NEW e \in Side
          PROVE  reading[e] # "stopped" /\ Undisturbed(stream[e], ingress[e].updates, egress[Peer(e)].updates)
      <3>1. /\ stream[e] = <<>> /\ reading[e] = "header"
            /\ ingress[e].updates = <<>> /\ egress[Peer(e)].updates = <<>>
        BY CoderEnds DEF CoderInit, MAC
      <3>2. Undisturbed(<<>>, <<>>, <<>>)
        BY DEF Undisturbed
      <3> QED  BY <3>1, <3>2
    <2> QED  BY <2>1, <2>2 DEF CalmInv, Calm
  <1>2. CalmInv => AcceptsAll
    BY DEF CalmInv, Calm, AcceptsAll
  <1>3. CalmInv /\ [CoderNext]_coderVars => CalmInv'
    BY CalmNext
  <1>4. AcceptedIsWritten /\ AcceptsAll => AcceptsWhatIsWritten
    BY DEF AcceptsWhatIsWritten
  <1> QED  BY <1>1, <1>2, <1>3, <1>4, AlwaysAcceptedIsWritten, PTL DEF CoderSpec
=============================================================================
