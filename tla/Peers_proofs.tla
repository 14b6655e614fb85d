---------------------------- MODULE Peers_proofs ----------------------------
(***************************************************************************)
(* Proofs about Peers: for any number of nodes and slots, the sessions of  *)
(* a Host are bounded and one per node, and the peers that were required   *)
(* stay required, although run, the handlers of dials and the callers of   *)
(* requirePeer all change m_peers.  And what Host remembers of nodes       *)
(* (Reputation), for any number of threads, sessions and subprotocols.     *)
(***************************************************************************)
EXTENDS Peers, Reputation, FiniteSetTheorems, SequenceTheorems, TLAPS

\* The sets that Host counts the elements of.
LEMMA NodesCounted ==
    ASSUME NEW S, S \subseteq Node
    PROVE  IsFiniteSet(S) /\ Cardinality(S) \in Nat
  BY PeersConstants, FS_Subset, FS_CardinalityType

LEMMA FunctionIsSeq ==
    ASSUME NEW T, NEW k \in Nat, NEW f \in [1..k -> T]
    PROVE  f \in Seq(T)
  BY SeqDef

LEMMA Counts ==
    ASSUME TypeOK
    PROVE  /\ PeerCount \in Nat
           /\ PendingCount \in Nat
           /\ Cardinality(lost) \in Nat
           /\ IngressSlots \in Nat
           /\ Ideal \in Nat
           /\ OpenSlots \in Int \/ run.at # "required"
  <1>1. PeerCount \in Nat
    BY NodesCounted DEF PeerCount
  <1>2. PendingCount \in Nat
    BY NodesCounted DEF TypeOK, PendingCount
  <1>3. Cardinality(lost) \in Nat
    BY NodesCounted DEF TypeOK
  <1>4. Ideal \in Nat /\ prefs.stretch \in Nat
    BY PeersConstants DEF TypeOK
  <1>5. run.at = "required" => run.reqConn \in Nat
    BY DEF TypeOK, Rounds
  <1> QED  BY <1>1, <1>2, <1>3, <1>4, <1>5 DEF IngressSlots, OpenSlots
-----------------------------------------------------------------------------
(* Types *)

LEMMA InitTypes == Init => TypeOK
  <1> SUFFICES ASSUME Init PROVE TypeOK
    OBVIOUS
  <1> USE PeersConstants DEF Init
  <1>1. run \in Rounds
    BY DEF Idle, Rounds
  <1>2. session \in [Node -> {"none", "open", "closed"}] /\ events \in [Node -> {"none", "added", "dropped"}]
    BY DEF NoEvents
  <1> QED  BY <1>1, <1>2 DEF TypeOK

\* What connect does to the sets of dials.
LEMMA ConnectTypes ==
    ASSUME TypeOK, NEW wanted \in BOOLEAN, NEW n \in Node, Connect(wanted, n)
    PROVE  pending' \subseteq Node /\ dialing' \subseteq Node /\ stale' \subseteq Node
  BY DEF TypeOK, Connect

\* A round of run, whose sequences of peers are of nodes.
LEMMA RunTypes == TypeOK /\ Run => TypeOK'
  <1> SUFFICES ASSUME TypeOK, Run PROVE TypeOK'
    OBVIOUS
  <1> USE DEF known, conns, table, dials
  <1>1. CASE RunStarts
    BY <1>1 DEF RunStarts, TypeOK, Rounds, NoEvents
  <1>2. ASSUME NEW n \in Node, NodeAdded(n) PROVE TypeOK'
    <2>1. pending' \subseteq Node /\ dialing' \subseteq Node /\ stale' \subseteq Node
      BY <1>2, ConnectTypes DEF NodeAdded, Connect, TypeOK
    <2>2. run' \in Rounds
      BY <1>2 DEF NodeAdded, TypeOK, Rounds
    <2> QED  BY <1>2, <2>1, <2>2 DEF NodeAdded, TypeOK
  <1>3. ASSUME NEW n \in Node, NodeDropped(n) PROVE TypeOK'
    <2>1. run' \in Rounds
      BY <1>3 DEF NodeDropped, TypeOK, Rounds
    <2> QED  BY <1>3, <2>1 DEF NodeDropped, TypeOK
  <1>4. ASSUME NEW due \in SUBSET Node, Collect(due) PROVE TypeOK'
    <2> DEFINE S == {n \in endpoint \cap due : ~HaveSession(n) /\ (prefs.pin => n \in required)}
               R == {n \in required : HaveSession(n)}
    <2>1. PICK order \in SetToSeqs(S) :
             run' = [at |-> "required", todo |-> order, left |-> order, reqConn |-> Cardinality(R)]
      BY <1>4 DEF Collect
    <2>2. S \subseteq Node /\ R \subseteq Node
      BY DEF TypeOK
    <2>3. Cardinality(S) \in Nat /\ Cardinality(R) \in Nat
      BY <2>2, NodesCounted
    <2>4. order \in [1..Cardinality(S) -> S]
      BY DEF SetToSeqs
    <2>5. order \in Seq(Node)
      <3>1. order \in [1..Cardinality(S) -> Node]
        BY <2>2, <2>4
      <3> QED  BY <2>3, <3>1, FunctionIsSeq
    <2>6. run' \in Rounds
      BY <2>1, <2>3, <2>5 DEF Rounds
    <2> QED  BY <1>4, <2>6 DEF Collect, TypeOK
  <1>5. CASE ConnectRequired
    <2>1. run \in [at : {"required"}, todo : Seq(Node), left : Seq(Node), reqConn : Nat]
      BY <1>5 DEF ConnectRequired, TypeOK, Rounds
    <2>2. Head(run.left) \in Node /\ Tail(run.left) \in Seq(Node)
      BY <1>5, <2>1 DEF ConnectRequired
    <2>3. run' \in Rounds
      <3> DEFINE k == IF Head(run.left) \in required THEN run.reqConn + 1 ELSE run.reqConn
      <3>1. k \in Nat
        BY <2>1
      <3>2. run' = [at |-> "required", todo |-> run.todo, left |-> Tail(run.left), reqConn |-> k]
        BY <1>5, <2>1 DEF ConnectRequired
      <3> QED  BY <2>1, <2>2, <3>1, <3>2 DEF Rounds
    <2>4. pending' \subseteq Node /\ dialing' \subseteq Node /\ stale' \subseteq Node
      BY <1>5, <2>2, ConnectTypes DEF ConnectRequired, Connect, TypeOK
    <2> QED  BY <1>5, <2>3, <2>4 DEF ConnectRequired, TypeOK
  <1>6. CASE CountSlots
    <2>1. run \in [at : {"required"}, todo : Seq(Node), left : Seq(Node), reqConn : Nat]
      BY <1>6 DEF CountSlots, TypeOK, Rounds
    <2>2. OpenSlots \in Int
      BY <2>1, Counts
    <2>3. run' \in Rounds
      BY <1>6, <2>1, <2>2 DEF CountSlots, Rounds, Idle
    <2> QED  BY <1>6, <2>3 DEF CountSlots, TypeOK
  <1>7. CASE ConnectOptional
    <2>1. run \in [at : {"optional"}, left : Seq(Node), openSlots : Int]
      BY <1>7 DEF ConnectOptional, TypeOK, Rounds
    <2>2. CASE run.left = <<>>
      BY <1>7, <2>2 DEF ConnectOptional, TypeOK, Rounds, Idle
    <2>3. CASE run.left # <<>>
      <3>1. Head(run.left) \in Node /\ Tail(run.left) \in Seq(Node)
        BY <2>1, <2>3
      <3>2. run' \in Rounds
        <4> DEFINE k == IF Head(run.left) \in required THEN run.openSlots ELSE run.openSlots - 1
        <4>1. k \in Int
          BY <2>1
        <4>2. run' = [at |-> "optional", left |-> Tail(run.left), openSlots |-> k]
          BY <1>7, <2>1, <2>3 DEF ConnectOptional
        <4> QED  BY <3>1, <4>1, <4>2 DEF Rounds
      <3>3. pending' \subseteq Node /\ dialing' \subseteq Node /\ stale' \subseteq Node
        BY <1>7, <2>3, <3>1, ConnectTypes DEF ConnectOptional, Connect, TypeOK
      <3> QED  BY <1>7, <2>3, <3>2, <3>3 DEF ConnectOptional, TypeOK
    <2> QED  BY <2>2, <2>3
  <1> QED  BY <1>1, <1>2, <1>3, <1>4, <1>5, <1>6, <1>7 DEF Run

LEMMA NextTypes == TypeOK /\ [Next]_vars => TypeOK'
  <1> SUFFICES ASSUME TypeOK, [Next]_vars PROVE TypeOK'
    OBVIOUS
  <1> USE DEF known, conns, table, dials
  <1>1. CASE Run
    BY <1>1, RunTypes
  <1>2. CASE Accept
    BY <1>2 DEF Accept, TypeOK
  <1>3. ASSUME NEW h \in Node \cup {None}, ShakeFails(h) PROVE TypeOK'
    BY <1>3 DEF ShakeFails, TypeOK
  <1>4. ASSUME NEW h \in Node \cup {None}, NEW n \in Node, NEW old \in BOOLEAN, StartPeerSession(h, n, old)
        PROVE  TypeOK'
    BY <1>4 DEF StartPeerSession, TypeOK
  <1>5. ASSUME NEW n \in Node, NEW ok \in BOOLEAN, DialEnds(n, ok) PROVE TypeOK'
    BY <1>5 DEF DialEnds, PendingAfter, TypeOK
  <1>6. ASSUME NEW n \in Node, NEW e \in {"added", "dropped"}, TableChanges(n, e) PROVE TypeOK'
    BY <1>6 DEF TableChanges, TypeOK
  <1>7. ASSUME NEW n \in Node, SessionCloses(n) \/ SessionGone(n) PROVE TypeOK'
    BY <1>7 DEF SessionCloses, SessionGone, TypeOK
  <1>8. ASSUME NEW n \in Requirable, RequirePeer(n) PROVE TypeOK'
    BY <1>8, PeersConstants DEF RequirePeer, TypeOK
  <1>9. CASE UNCHANGED vars
    BY <1>9 DEF vars, TypeOK
  <1> QED  BY <1>1, <1>2, <1>3, <1>4, <1>5, <1>6, <1>7, <1>8, <1>9 DEF Next

\* The sets of nodes, the sessions and the rounds of `run` have their types: the
\* peers that a round has still to go through are nodes.
THEOREM TypesCorrect == Spec => []TypeOK
  BY InitTypes, NextTypes, PTL DEF Spec
-----------------------------------------------------------------------------
(* Sessions and required peers.  Only startPeerSession opens sessions, and  *)
(* it counts the slots and looks for a session of the node in one step;     *)
(* only onNodeTableEvent takes peers out of m_peers, and it spares those    *)
(* that are required.                                                       *)

LEMMA InitSound == Init => SessionsSound
  <1> SUFFICES ASSUME Init PROVE SessionsSound
    OBVIOUS
  <1>1. TypeOK
    BY InitTypes
  <1>2. {n \in Node : Connected(n)} = {}
    BY DEF Init, Connected
  <1>3. PeerCount = 0 /\ Cardinality(lost) = 0
    BY <1>2, FS_EmptySet DEF PeerCount, Init
  <1> QED
    BY <1>1, <1>3, Counts DEF SessionsSound, SessionsBounded, NoSessionLost, RequiredKept, Init

\* The sessions, as long as none is opened.
LEMMA FewerSessions ==
    ASSUME TypeOK, SessionsSound,
           UNCHANGED <<lost, prefs>>,
           {n \in Node : Connected(n)}' \subseteq {n \in Node : Connected(n)}
    PROVE  (SessionsBounded /\ NoSessionLost)'
  <1> DEFINE S == {n \in Node : Connected(n)}
  <1>1. IsFiniteSet(S) /\ Cardinality(S) \in Nat
    BY NodesCounted
  <1>2. Cardinality(S') <= Cardinality(S) /\ Cardinality(S') \in Nat
    BY <1>1, FS_Subset, FS_CardinalityType
  <1>3. PeerCount = Cardinality(S) /\ PeerCount' = Cardinality(S')
    BY DEF PeerCount
  <1>4. PeerCount + Cardinality(lost) <= IngressSlots
    BY DEF SessionsSound, SessionsBounded
  <1>5. lost' = lost /\ IngressSlots' = IngressSlots /\ lost = {}
    BY DEF IngressSlots, SessionsSound, NoSessionLost
  <1> HIDE DEF S
  <1> QED
    BY <1>1, <1>2, <1>3, <1>4, <1>5, Counts DEF SessionsBounded, NoSessionLost

LEMMA SessionOpened ==
    ASSUME TypeOK, SessionsSound, NEW n \in Node,
           ~Connected(n), SlotsAvailable(IngressSlots),
           session' = [session EXCEPT ![n] = "open"],
           UNCHANGED <<lost, prefs>>
    PROVE  (SessionsBounded /\ NoSessionLost)'
  <1> DEFINE S == {m \in Node : Connected(m)}
  <1>1. IsFiniteSet(S)
    BY NodesCounted
  <1>2. S' = S \cup {n} /\ n \notin S
    BY DEF Connected, TypeOK
  <1>3. Cardinality(S') = Cardinality(S) + 1
    BY <1>1, <1>2, FS_AddElement
  <1>4. PeerCount = Cardinality(S) /\ PeerCount' = Cardinality(S')
    BY DEF PeerCount
  <1>5. lost' = {} /\ IngressSlots' = IngressSlots /\ Cardinality({}) = 0
    BY FS_EmptySet DEF IngressSlots, SessionsSound, NoSessionLost
  <1>6. PeerCount + PendingCount < IngressSlots
    BY DEF SlotsAvailable
  <1> HIDE DEF S
  <1>7. PeerCount \in Nat /\ PendingCount \in Nat /\ IngressSlots \in Nat
    BY Counts
  <1>8. PeerCount' + Cardinality(lost') <= IngressSlots'
    BY <1>3, <1>4, <1>5, <1>6, <1>7
  <1> QED
    BY <1>5, <1>8 DEF SessionsBounded, NoSessionLost

LEMMA NextSessions == TypeOK /\ SessionsSound /\ [Next]_vars => (SessionsBounded /\ NoSessionLost)'
  <1> SUFFICES ASSUME TypeOK, SessionsSound, [Next]_vars PROVE (SessionsBounded /\ NoSessionLost)'
    OBVIOUS
  <1> USE DEF known, dials, conns, table
  <1>1. CASE UNCHANGED <<session, lost, prefs>>
    <2>1. {n \in Node : Connected(n)}' = {n \in Node : Connected(n)}
      BY <1>1 DEF Connected
    <2> QED  BY <1>1, <2>1, FewerSessions
  <1>2. ASSUME NEW h \in Node \cup {None}, NEW n \in Node, NEW old \in BOOLEAN, StartPeerSession(h, n, old)
        PROVE  (SessionsBounded /\ NoSessionLost)'
    <2>1. CASE old \/ AlreadyConnected(n) \/ ~SlotsAvailable(IngressSlots)
      BY <1>1, <1>2, <2>1 DEF StartPeerSession
    <2>2. CASE ~(old \/ AlreadyConnected(n) \/ ~SlotsAvailable(IngressSlots))
      <3>1. ~Connected(n) /\ SlotsAvailable(IngressSlots)
        BY <2>2 DEF AlreadyConnected
      <3>2. session' = [session EXCEPT ![n] = "open"] /\ UNCHANGED <<lost, prefs>>
        BY <1>2, <2>2, <3>1 DEF StartPeerSession
      <3> QED  BY <3>1, <3>2, SessionOpened
    <2> QED  BY <2>1, <2>2
  <1>3. ASSUME NEW n \in Node, SessionCloses(n) \/ SessionGone(n)
        PROVE  (SessionsBounded /\ NoSessionLost)'
    <2>1. UNCHANGED <<lost, prefs>>
      BY <1>3 DEF SessionCloses, SessionGone
    <2>2. {m \in Node : Connected(m)}' \subseteq {m \in Node : Connected(m)}
      BY <1>3 DEF SessionCloses, SessionGone, Connected, TypeOK
    <2> QED  BY <2>1, <2>2, FewerSessions
  <1>4. CASE Run
    BY <1>1, <1>4 DEF Run, RunStarts, NodeAdded, NodeDropped, Collect, ConnectRequired, CountSlots, ConnectOptional
  <1>5. CASE Accept
    BY <1>1, <1>5 DEF Accept
  <1>6. ASSUME NEW h, ShakeFails(h) PROVE (SessionsBounded /\ NoSessionLost)'
    BY <1>1, <1>6 DEF ShakeFails
  <1>7. ASSUME NEW n, NEW ok, DialEnds(n, ok) PROVE (SessionsBounded /\ NoSessionLost)'
    BY <1>1, <1>7 DEF DialEnds
  <1>8. ASSUME NEW n, NEW e, TableChanges(n, e) PROVE (SessionsBounded /\ NoSessionLost)'
    BY <1>1, <1>8 DEF TableChanges
  <1>9. ASSUME NEW n, RequirePeer(n) PROVE (SessionsBounded /\ NoSessionLost)'
    BY <1>1, <1>9 DEF RequirePeer
  <1>10. CASE UNCHANGED vars
    BY <1>1, <1>10 DEF vars
  <1> QED  BY <1>2, <1>3, <1>4, <1>5, <1>6, <1>7, <1>8, <1>9, <1>10 DEF Next

LEMMA NextRequired == RequiredKept /\ [Next]_vars => RequiredKept'
  <1> SUFFICES ASSUME RequiredKept, [Next]_vars PROVE RequiredKept'
    OBVIOUS
  <1> USE DEF RequiredKept, known, table
  <1>1. CASE Run
    <2>1. ASSUME NEW n \in Node, NodeDropped(n) PROVE RequiredKept'
      BY <2>1 DEF NodeDropped, Forgets
    <2>2. ASSUME NEW n \in Node, NodeAdded(n) PROVE RequiredKept'
      BY <2>2 DEF NodeAdded
    <2> QED
      BY <1>1, <2>1, <2>2 DEF Run, RunStarts, Collect, ConnectRequired, CountSlots, ConnectOptional
  <1>2. ASSUME NEW h, NEW n, NEW old, StartPeerSession(h, n, old) PROVE RequiredKept'
    BY <1>2 DEF StartPeerSession
  <1>3. ASSUME NEW n, RequirePeer(n) PROVE RequiredKept'
    BY <1>3 DEF RequirePeer
  <1>4. CASE UNCHANGED <<known, asked>>
    BY <1>4
  <1>5. CASE Accept
    BY <1>4, <1>5 DEF Accept
  <1>6. ASSUME NEW h, ShakeFails(h) PROVE RequiredKept'
    BY <1>4, <1>6 DEF ShakeFails
  <1>7. ASSUME NEW n, NEW ok, DialEnds(n, ok) PROVE RequiredKept'
    BY <1>4, <1>7 DEF DialEnds
  <1>8. ASSUME NEW n, NEW e, TableChanges(n, e) PROVE RequiredKept'
    BY <1>4, <1>8 DEF TableChanges
  <1>9. ASSUME NEW n, SessionCloses(n) \/ SessionGone(n) PROVE RequiredKept'
    BY <1>4, <1>9 DEF SessionCloses, SessionGone
  <1>10. CASE UNCHANGED vars
    BY <1>4, <1>10 DEF vars
  <1> QED  BY <1>1, <1>2, <1>3, <1>5, <1>6, <1>7, <1>8, <1>9, <1>10 DEF Next

\* The open sessions stay within the slots, although slots are counted when a
\* dial begins and when one is accepted, long before the session; none replaces
\* an open one; and a peer that was required once is never forgotten
\* (Host::startPeerSession, Host::onNodeTableEvent).
THEOREM SessionsAreSound == Spec => []SessionsSound
  <1>1. Init => TypeOK /\ SessionsSound
    BY InitTypes, InitSound
  <1>2. TypeOK /\ SessionsSound /\ [Next]_vars => (TypeOK /\ SessionsSound)'
    BY NextTypes, NextSessions, NextRequired DEF SessionsSound
  <1> QED  BY <1>1, <1>2, PTL DEF Spec
-----------------------------------------------------------------------------
(* Reputation.  A question is answered in two reads, under one lock after   *)
(* the other, and calls of noteRude come between: the invariant says what   *)
(* the first read has found, and what the second is still to find.          *)

WholeOf(topic) == <<topic[1], Whole>>
Topics(topic) == {topic, WholeOf(topic)}

LEMMA Pairs == ASSUME NEW S, NEW T, NEW p \in S \X T PROVE p = <<p[1], p[2]>>
  OBVIOUS

LEMMA Truth == ASSUME NEW x, NEW S PROVE \E found \in BOOLEAN : found = (x \in S)
  <1>1. CASE x \in S
    <2>1. TRUE = (x \in S)
      BY <1>1
    <2> QED  BY <2>1
  <1>2. CASE x \notin S
    <2>1. FALSE = (x \in S)
      BY <1>2
    <2> QED  BY <2>1
  <1> QED  BY <1>1, <1>2

Ops == {"none", "rude?", "note", "data?", "store", "release", "whole?", "release data",
        "write", "write data", "answer", "data"}

CallsOK == /\ calls \in [Thread -> [op : Ops, on : Topic \cup {<<>>}, ret : BOOLEAN]]
           /\ noted \in [Thread -> SUBSET nodes]
           /\ \A t \in Thread : calls[t].op # "none" => calls[t].on \in Topic
           /\ \A topic \in nodes : topic[1] \in knownSessions

\* What was read of the topic, and, in the end, of the node as a whole.
ReadSoFar(t) == LET on == calls[t].on IN
    /\ calls[t].op = "whole?" => /\ on \in noted[t] => calls[t].ret
                                 /\ calls[t].ret => on \in nodes
    /\ calls[t].op \in {"release", "answer"} => /\ Topics(on) \cap noted[t] # {} => calls[t].ret
                                                /\ calls[t].ret => Topics(on) \cap nodes # {}

RudeInv == CallsOK /\ \A t \in Thread : ReadSoFar(t)

LEMMA RudeInit == ReputationInit => RudeInv
  BY DEF ReputationInit, NoCall, RudeInv, CallsOK, ReadSoFar, Ops

\* A step of one thread, which may note something and goes on with its own call.
LEMMA RudeStep ==
    ASSUME RudeInv, NEW t \in Thread,
           NEW call \in [op : Ops, on : Topic \cup {<<>>}, ret : BOOLEAN], NEW before \in SUBSET nodes,
           calls' = [calls EXCEPT ![t] = call], noted' = [noted EXCEPT ![t] = before],
           nodes \subseteq nodes', knownSessions \subseteq knownSessions',
           \A topic \in nodes' : topic[1] \in knownSessions',
           call.op # "none" => call.on \in Topic,
           ReadSoFar(t)'
    PROVE  RudeInv'
  <1>1. calls'[t] = call /\ \A u \in Thread : u # t => calls'[u] = calls[u] /\ noted'[u] = noted[u]
    BY DEF RudeInv, CallsOK
  <1>2. CallsOK'
    <2>1. noted' \in [Thread -> SUBSET nodes']
      BY DEF RudeInv, CallsOK
    <2> QED  BY <1>1, <2>1 DEF RudeInv, CallsOK
  <1>3. ASSUME NEW u \in Thread, u # t PROVE ReadSoFar(u)'
    BY <1>1, <1>3 DEF RudeInv, ReadSoFar, Topics, WholeOf
  <1> QED  BY <1>2, <1>3 DEF RudeInv

LEMMA RudeNext == RudeInv /\ [ReputationNext]_reputationVars => RudeInv'
  <1> SUFFICES ASSUME RudeInv, [ReputationNext]_reputationVars PROVE RudeInv'
    OBVIOUS
  <1>1. ASSUME NEW t \in Thread, NEW op \in {"rude?", "note", "data?", "store"}, NEW topic \in Topic,
               Call(t, op, topic)
        PROVE  RudeInv'
    <2> DEFINE call == [op |-> op, on |-> topic, ret |-> FALSE]
    <2>1. /\ calls' = [calls EXCEPT ![t] = call] /\ noted' = [noted EXCEPT ![t] = nodes]
          /\ nodes' = nodes /\ knownSessions' = knownSessions
      BY <1>1 DEF Call
    <2>2. call \in [op : Ops, on : Topic \cup {<<>>}, ret : BOOLEAN]
      BY DEF Ops
    <2>3. calls'[t] = call
      BY <2>1 DEF RudeInv, CallsOK
    <2>4. ReadSoFar(t)'
      BY <2>3 DEF ReadSoFar
    <2> QED  BY <2>1, <2>2, <2>4, RudeStep DEF RudeInv, CallsOK
  <1>2. ASSUME NEW t \in Thread, RunCall(t) PROVE RudeInv'
    <2>1. PICK c \in [op : Ops, on : Topic \cup {<<>>}, ret : BOOLEAN] : c = calls[t]
      BY DEF RudeInv, CallsOK
    <2>2. PICK b \in SUBSET nodes : b = noted[t]
      BY DEF RudeInv, CallsOK
    <2>3. noted = [noted EXCEPT ![t] = b]
      BY <2>2 DEF RudeInv, CallsOK
    <2>4. ReadSoFar(t) /\ (c.op # "none" => c.on \in Topic)
      BY <2>1 DEF RudeInv, CallsOK
    <2>5. \A topic \in nodes : topic[1] \in knownSessions
      BY DEF RudeInv, CallsOK
    \* The thread goes on to op, with the answer ret, and nothing is noted.
    <2>6. ASSUME NEW op \in Ops, NEW ret \in BOOLEAN, Goes(t, op, ret), c.op # "none",
                 nodes' = nodes, knownSessions' = knownSessions, noted' = noted,
                 op = "whole?" => (c.on \in b => ret) /\ (ret => c.on \in nodes),
                 op \in {"release", "answer"} => (Topics(c.on) \cap b # {} => ret) /\ (ret => Topics(c.on) \cap nodes # {})
          PROVE  RudeInv'
      <3> DEFINE call == [op |-> op, on |-> c.on, ret |-> ret]
      <3>1. calls' = [calls EXCEPT ![t] = call]
        <4>1. [c EXCEPT !.op = op] = [op |-> op, on |-> c.on, ret |-> c.ret]
          OBVIOUS
        <4>2. [[op |-> op, on |-> c.on, ret |-> c.ret] EXCEPT !.ret = ret] = call
          OBVIOUS
        <4>3. [c EXCEPT !.op = op, !.ret = ret] = call
          BY <4>1, <4>2
        <4> QED  BY <2>1, <2>6, <4>3 DEF Goes, RudeInv, CallsOK
      <3>2. calls'[t] = call /\ call \in [op : Ops, on : Topic \cup {<<>>}, ret : BOOLEAN]
        BY <3>1 DEF RudeInv, CallsOK
      <3>3. ReadSoFar(t)'
        BY <2>2, <2>6, <3>2 DEF ReadSoFar
      <3>4. noted' = [noted EXCEPT ![t] = b] /\ nodes \subseteq nodes' /\ knownSessions \subseteq knownSessions'
        BY <2>3, <2>6
      <3>5. \A topic \in nodes' : topic[1] \in knownSessions'
        BY <2>5, <2>6
      <3>6. call.op # "none" => call.on \in Topic
        BY <2>4, <2>6
      <3> HIDE DEF call
      <3> QED  BY <3>1, <3>2, <3>3, <3>4, <3>5, <3>6, RudeStep
    \* The call returns; the thread may have noted something.
    <2>7. ASSUME Done(t), nodes \subseteq nodes', knownSessions \subseteq knownSessions',
                 \A topic \in nodes' : topic[1] \in knownSessions'
          PROVE  RudeInv'
      <3> DEFINE call == [op |-> "none", on |-> <<>>, ret |-> FALSE]
      <3>1. calls' = [calls EXCEPT ![t] = call] /\ noted' = [noted EXCEPT ![t] = {}]
        BY <2>7 DEF Done, NoCall
      <3>2. calls'[t] = call /\ call \in [op : Ops, on : Topic \cup {<<>>}, ret : BOOLEAN]
        BY <3>1 DEF RudeInv, CallsOK, Ops
      <3>3. ReadSoFar(t)'
        BY <3>2 DEF ReadSoFar
      <3>4. call.op # "none" => call.on \in Topic
        OBVIOUS
      <3> HIDE DEF call
      <3>5. {} \in SUBSET nodes
        OBVIOUS
      <3> QED  BY <2>7, <3>1, <3>2, <3>3, <3>4, <3>5, RudeStep
    <2> USE DEF Ops, Op
    <2>8. CASE Read(t)
      <3> DEFINE last == c.on[2] = Whole \/ c.on[1] \notin knownSessions
      <3>1. /\ c.op = "rude?" /\ nodes' = nodes /\ knownSessions' = knownSessions /\ noted' = noted
            /\ Goes(t, IF last THEN "release" ELSE "whole?", c.on \in nodes)
        BY <2>1, <2>8 DEF Read, ReadLock
      <3>2. c.on \in Topic
        BY <2>4, <3>1
      <3>3. c.on[2] = Whole => Topics(c.on) = {c.on}
        <4>1. c.on = <<c.on[1], c.on[2]>>
          BY <3>2, Pairs DEF Topic
        <4> QED  BY <4>1 DEF Topics, WholeOf
      <3>4. c.on[1] \notin knownSessions => Topics(c.on) \cap nodes = {}
        <4>1. WholeOf(c.on)[1] = c.on[1]
          BY DEF WholeOf
        <4> QED  BY <2>5, <4>1 DEF Topics
      <3>5. c.on \in Topics(c.on)
        BY DEF Topics
      <3>6. c.on \in b => c.on \in nodes
        BY <2>2
      <3>7. CASE last
        <4>1. Topics(c.on) \cap b # {} => c.on \in nodes
          BY <2>2, <3>3, <3>4, <3>7
        <4>2. Goes(t, "release", c.on \in nodes)
          BY <3>1, <3>7
        <4> HIDE DEF last
        <4>3. PICK found \in BOOLEAN : found = (c.on \in nodes)
          <5>1. PICK x : x = c.on
            OBVIOUS
          <5>2. PICK f \in BOOLEAN : f = (x \in nodes)
            BY Truth
          <5>3. f = (c.on \in nodes)
            BY <5>1, <5>2
          <5> QED  BY <5>3
        <4>4. Goes(t, "release", found) /\ c.op # "none"
          BY <3>1, <4>2, <4>3
        <4>5. (Topics(c.on) \cap b # {} => found) /\ (found => Topics(c.on) \cap nodes # {})
          BY <3>5, <4>1, <4>3
        <4> QED  BY <2>6, <3>1, <4>4, <4>5
      <3>8. CASE ~last
        <4>1. Goes(t, "whole?", c.on \in nodes)
          BY <3>1, <3>8
        <4> HIDE DEF last
        <4>2. PICK found \in BOOLEAN : found = (c.on \in nodes)
          <5>1. PICK x : x = c.on
            OBVIOUS
          <5>2. PICK f \in BOOLEAN : f = (x \in nodes)
            BY Truth
          <5>3. f = (c.on \in nodes)
            BY <5>1, <5>2
          <5> QED  BY <5>3
        <4>3. Goes(t, "whole?", found) /\ c.op # "none"
          BY <3>1, <4>1, <4>2
        <4> QED  BY <2>6, <3>1, <3>6, <4>2, <4>3
      <3> QED  BY <3>7, <3>8
    <2>9. CASE ReadData(t)
      <3>1. /\ c.op = "data?" /\ nodes' = nodes /\ knownSessions' = knownSessions /\ noted' = noted
            /\ Goes(t, "release data", c.on[1] \in knownSessions /\ c.on \in stored)
        BY <2>1, <2>9 DEF ReadData, ReadLock
      <3> QED  BY <2>6, <3>1
    <2>10. CASE ReadWhole(t)
      <3>1. c.op = "whole?" /\ nodes' = nodes /\ knownSessions' = knownSessions /\ noted' = noted
        BY <2>1, <2>10 DEF ReadWhole, ReadLock
      <3>2. (c.on \in b => c.ret) /\ (c.ret => c.on \in nodes) /\ c.ret \in BOOLEAN
        BY <2>1, <2>2, <2>4, <3>1 DEF ReadSoFar
      <3>3. CASE c.ret
        <4>1. Goes(t, "release", TRUE) /\ Topics(c.on) \cap nodes # {}
          BY <2>1, <2>10, <3>2, <3>3 DEF ReadWhole, Topics
        <4> QED  BY <2>6, <3>1, <4>1
      <3>4. CASE ~c.ret
        <4>1. Goes(t, "release", WholeOf(c.on) \in nodes)
          BY <2>1, <2>10, <3>4 DEF ReadWhole, WholeOf
        <4>2. Topics(c.on) \cap b # {} => WholeOf(c.on) \in nodes
          BY <2>2, <3>2, <3>4 DEF Topics
        <4>3. WholeOf(c.on) \in nodes => Topics(c.on) \cap nodes # {}
          BY DEF Topics
        <4>4. PICK found \in BOOLEAN : found = (WholeOf(c.on) \in nodes)
          <5>1. PICK x : x = WholeOf(c.on)
            OBVIOUS
          <5>2. PICK f \in BOOLEAN : f = (x \in nodes)
            BY Truth
          <5>3. f = (WholeOf(c.on) \in nodes)
            BY <5>1, <5>2
          <5> QED  BY <5>3
        <4>5. Goes(t, "release", found)
          BY <4>1, <4>4
        <4> QED  BY <2>6, <3>1, <4>2, <4>3, <4>4, <4>5
      <3> QED  BY <3>3, <3>4
    <2>11. CASE Release(t)
      <3>1. /\ c.op \in {"release", "release data"} /\ nodes' = nodes /\ knownSessions' = knownSessions /\ noted' = noted
            /\ Goes(t, IF c.op = "release" THEN "answer" ELSE "data", c.ret)
        BY <2>1, <2>11 DEF Release
      <3>2. c.op = "release" => (Topics(c.on) \cap b # {} => c.ret) /\ (c.ret => Topics(c.on) \cap nodes # {})
        BY <2>1, <2>2, <2>4 DEF ReadSoFar
      <3> QED  BY <2>6, <3>1, <3>2
    <2>12. CASE WaitToWrite(t)
      <3>1. /\ c.op \in {"note", "store"} /\ nodes' = nodes /\ knownSessions' = knownSessions /\ noted' = noted
            /\ Goes(t, IF c.op = "note" THEN "write" ELSE "write data", FALSE)
        BY <2>1, <2>12 DEF WaitToWrite
      <3> QED  BY <2>6, <3>1
    <2>13. CASE Write(t) \/ WriteData(t)
      <3>1. /\ Done(t) /\ nodes \subseteq nodes'
            /\ nodes' \subseteq nodes \cup {c.on} /\ knownSessions' = knownSessions \cup {c.on[1]}
        BY <2>1, <2>13 DEF Write, WriteData
      <3> QED  BY <2>5, <2>7, <3>1
    <2>14. CASE Return(t)
      BY <2>5, <2>7, <2>14 DEF Return
    <2> QED
      BY <1>2, <2>8, <2>9, <2>10, <2>11, <2>12, <2>13, <2>14 DEF RunCall
  <1>3. CASE UNCHANGED reputationVars
    BY <1>3 DEF reputationVars, RudeInv, CallsOK, ReadSoFar, Topics, WholeOf
  <1> QED  BY <1>1, <1>2, <1>3 DEF ReputationNext

\* isRude says of a subprotocol, or a node as a whole, what was noted before it was
\* asked, and nothing that was never noted, whatever other threads note between its
\* two reads (ReputationManager::noteRude, isRude).
THEOREM RudenessIsRemembered == ReputationSpec => []RudeIsRemembered
  <1>1. RudeInv => RudeIsRemembered
    BY DEF RudeInv, ReadSoFar, Topics, WholeOf, RudeIsRemembered, Op
  <1> QED  BY <1>1, RudeInit, RudeNext, PTL DEF ReputationSpec
=============================================================================
