-------------------------------- MODULE Peers --------------------------------
(***************************************************************************)
(* Whom a Host knows, dials and talks to (Host.cpp, Peer.cpp): m_peers,    *)
(* m_pendingPeerConns, m_sessions and the scheduler `run`.                 *)
(*                                                                         *)
(* The network thread executes run and the handlers of connections, one    *)
(* after the other: `run` is a sequence of steps here, as other threads    *)
(* call requirePeer and drop sessions meanwhile.  A handshake is its       *)
(* outcome (see Handshake), a session is open, closed or gone (see         *)
(* Session), and the node table is what it lists and the last event of     *)
(* each node (see NodeTable); it never forgets a node.                     *)
(*                                                                         *)
(* A Peer object is named by its node as long as m_peers has it.  One that *)
(* m_peers has dropped matters while it is dialled: it is stale then.      *)
(***************************************************************************)
EXTENDS Integers, SequencesExt

CONSTANTS Node,       \* ids of other nodes
          Ideal,      \* m_idealPeerCount
          Prefs,      \* the preferences that are tried
          Requirable, \* nodes that a caller requires
          None        \* the node of an incoming handshake

ASSUME PeersConstants == /\ IsFiniteSet(Node) /\ Requirable \subseteq Node
                         /\ Ideal \in Nat
                         /\ Prefs \subseteq [pin : BOOLEAN, stretch : Nat]

VARIABLES peers,     \* m_peers
          required,  \* those of type Required
          endpoint,  \* those whose endpoint is known
          pending,   \* those in m_pendingPeerConns
          dialing,   \* those with an async_connect under way
          stale,     \* nodes with such a connect for an object not in m_peers
          shaking,   \* nodes, or None, with handshakes; bound: one with each
          session,   \* m_sessions: the state of the session it has for a node
          lost,      \* nodes with an open session that m_sessions has not
          listed,    \* nodes in the node table
          events,    \* the last event of each node in the table's queue
          asked,     \* nodes that a caller or the restored network required
          prefs,     \* m_netPrefs.pin and m_stretchPeers
          run        \* where run is, with its local variables

known == <<peers, required, endpoint>>
dials == <<pending, dialing, stale>>
conns == <<shaking, session, lost>>
table == <<listed, events>>
vars == <<known, dials, conns, table, asked, prefs, run>>

Idle == [at |-> "idle"]
NoEvents == [n \in Node |-> "none"]

\* havePeerSession: the object is there, open or not.
HaveSession(n) == session[n] # "none"

\* isConnected, peerCount
Connected(n) == session[n] = "open"
PeerCount == Cardinality({n \in Node : Connected(n)})
PendingCount == Cardinality(pending) + Cardinality(stale)

\* peerSlots
EgressSlots == Ideal
IngressSlots == Ideal * prefs.stretch

\* peerSlotsAvailable
SlotsAvailable(slots) == PeerCount + PendingCount < slots

\* Mutant: the handler of a failed dial leaves it pending.
PendingUntilShake(n, ok) == IF ok THEN pending \ {n} ELSE pending

\* What connect's handler leaves in m_pendingPeerConns.
PendingAfter(n, ok) == pending \ {n}

Forgets(n) == n \in peers \ required

\* Mutant: no session is in the way.
NeverConnected(n) == FALSE

\* startPeerSession finds a connected session of the node.
AlreadyConnected(n) == Connected(n)

\* restoreNetwork: the peers that were saved, some of them as required.
Init == /\ peers \in SUBSET Node
        /\ required \in SUBSET (peers \cap Requirable)
        /\ endpoint = peers /\ listed = peers /\ asked = required
        /\ pending = {} /\ dialing = {} /\ stale = {}
        /\ shaking = {} /\ lost = {}
        /\ session = [n \in Node |-> "none"]
        /\ events = NoEvents
        /\ prefs \in Prefs
        /\ run = Idle
-----------------------------------------------------------------------------
(* connect, when the caller wants it; the network thread calls it. *)

Connects(n) == ~HaveSession(n) /\ (n \in listed \/ n \in required) /\ n \notin pending

Connect(wanted, n) ==
    /\ pending' = IF wanted /\ Connects(n) THEN pending \cup {n} ELSE pending
    /\ dialing' = IF wanted /\ Connects(n) THEN dialing \cup {n} ELSE dialing
    /\ UNCHANGED stale
-----------------------------------------------------------------------------
(* run *)

\* processEvents takes the queue over.
RunStarts == /\ run = Idle
             /\ run' = [at |-> "events", todo |-> events]
             /\ events' = NoEvents
             /\ UNCHANGED <<known, dials, conns, listed, asked, prefs>>

\* onNodeTableEvent
NodeAdded(n) ==
    /\ run.at = "events" /\ run.todo[n] = "added"
    /\ peers' = peers \cup {n}
    /\ endpoint' = endpoint \cup {n}
    /\ Connect(SlotsAvailable(EgressSlots), n)
    /\ run' = [run EXCEPT !.todo[n] = "none"]
    /\ UNCHANGED <<required, conns, table, asked, prefs>>

\* Bound: the stale connects of one node count as one.
NodeDropped(n) ==
    /\ run.at = "events" /\ run.todo[n] = "dropped"
    /\ IF Forgets(n)
       THEN /\ peers' = peers \ {n}
            /\ required' = required \ {n}
            /\ endpoint' = endpoint \ {n}
            /\ pending' = pending \ {n}
            /\ dialing' = dialing \ {n}
            /\ stale' = stale \cup (dialing \cap {n})
       ELSE UNCHANGED <<known, dials>>
    /\ run' = [run EXCEPT !.todo[n] = "none"]
    /\ UNCHANGED <<conns, table, asked, prefs>>

\* toConnect, of peers whose fallback time is over, in the order of the hash
\* table, and reqConn.
Collect(due) ==
    /\ run.at = "events" /\ run.todo = NoEvents
    /\ \E order \in SetToSeqs({n \in endpoint \cap due : ~HaveSession(n) /\ (prefs.pin => n \in required)}) :
          run' = [at |-> "required", todo |-> order, left |-> order,
                  reqConn |-> Cardinality({n \in required : HaveSession(n)})]
    /\ UNCHANGED <<known, dials, conns, table, asked, prefs>>

ConnectRequired ==
    /\ run.at = "required" /\ run.left # <<>>
    /\ LET n == Head(run.left)
       IN /\ Connect(n \in required /\ run.reqConn < Ideal, n)
          /\ run' = [run EXCEPT !.left = Tail(@), !.reqConn = IF n \in required THEN @ + 1 ELSE @]
    /\ UNCHANGED <<known, conns, table, asked, prefs>>

OpenSlots == Ideal - PeerCount - PendingCount + run.reqConn

CountSlots ==
    /\ run.at = "required" /\ run.left = <<>>
    /\ run' = IF prefs.pin \/ OpenSlots <= 0 THEN Idle
              ELSE [at |-> "optional", left |-> run.todo, openSlots |-> OpenSlots]
    /\ UNCHANGED <<known, dials, conns, table, asked, prefs>>

\* openSlots goes below zero, and what is below zero counts as true.
ConnectOptional ==
    /\ run.at = "optional"
    /\ LET n == Head(run.left)
           left == Tail(run.left)
       IN IF run.left = <<>> THEN run' = Idle /\ UNCHANGED dials
          ELSE /\ Connect(n \notin required /\ run.openSlots # 0, n)
               /\ run' = [run EXCEPT !.left = left, !.openSlots = IF n \in required THEN @ ELSE @ - 1]
    /\ UNCHANGED <<known, conns, table, asked, prefs>>

Run == \/ RunStarts \/ ConnectRequired \/ CountSlots \/ ConnectOptional
       \/ \E due \in SUBSET Node : Collect(due)
       \/ \E n \in Node : NodeAdded(n) \/ NodeDropped(n)
-----------------------------------------------------------------------------
(* Handlers of connections, in the network thread *)

\* connect's handler; the dial is of the object that m_peers has, or stale.
DialEnds(n, ok) ==
    /\ run = Idle
    /\ ok => n \notin shaking
    /\ \/ /\ n \in dialing
          /\ dialing' = dialing \ {n}
          /\ pending' = PendingAfter(n, ok)
          /\ UNCHANGED stale
       \/ /\ n \in stale
          /\ stale' = stale \ {n}
          /\ UNCHANGED <<pending, dialing>>
    /\ shaking' = IF ok THEN shaking \cup {n} ELSE shaking
    /\ UNCHANGED <<known, session, lost, table, asked, prefs, run>>

\* runAcceptor
Accept == /\ run = Idle /\ None \notin shaking
          /\ PeerCount <= IngressSlots
          /\ shaking' = shaking \cup {None}
          /\ UNCHANGED <<known, dials, session, lost, table, asked, prefs, run>>

ShakeFails(h) == /\ run = Idle /\ h \in shaking
                 /\ shaking' = shaking \ {h}
                 /\ UNCHANGED <<known, dials, session, lost, table, asked, prefs, run>>

\* startPeerSession, of a handshake with h that turned out to be n.  A session
\* that is refused is never registered, but its peer stays known.
StartPeerSession(h, n, oldProtocol) ==
    /\ run = Idle /\ h \in shaking \cap {n, None}
    /\ shaking' = shaking \ {h}
    /\ peers' = peers \cup {n}
    /\ endpoint' = IF n \in listed \ peers THEN endpoint \cup {n} ELSE endpoint
    /\ IF oldProtocol \/ AlreadyConnected(n) \/ ~SlotsAvailable(IngressSlots)
       THEN UNCHANGED <<session, lost>>
       ELSE /\ session' = [session EXCEPT ![n] = "open"]
            /\ lost' = IF Connected(n) THEN lost \cup {n} ELSE lost
    /\ UNCHANGED <<required, dials, table, asked, prefs, run>>
-----------------------------------------------------------------------------
(* Other threads *)

SessionCloses(n) == /\ session[n] = "open"
                    /\ session' = [session EXCEPT ![n] = "closed"]
                    /\ UNCHANGED <<known, dials, shaking, lost, table, asked, prefs, run>>

\* The last handler of a closed session is gone, and its weak pointer expires.
SessionGone(n) == /\ session[n] = "closed"
                  /\ session' = [session EXCEPT ![n] = "none"]
                  /\ UNCHANGED <<known, dials, shaking, lost, table, asked, prefs, run>>

RequirePeer(n) == /\ peers' = peers \cup {n}
                  /\ required' = required \cup {n}
                  /\ endpoint' = endpoint \cup {n}
                  /\ asked' = asked \cup {n}
                  /\ listed' = listed \cup {n}
                  /\ UNCHANGED <<dials, conns, events, prefs, run>>

\* The node table, as addNode and discovery change it.
TableChanges(n, e) == /\ e = "dropped" => n \in listed
                      /\ listed' = listed \cup {n}
                      /\ events' = [events EXCEPT ![n] = e]
                      /\ UNCHANGED <<known, dials, conns, asked, prefs, run>>

Next == \/ Run
        \/ Accept
        \/ \E h \in Node \cup {None} : \/ ShakeFails(h)
                                        \/ \E n \in Node, old \in BOOLEAN : StartPeerSession(h, n, old)
        \/ \E n \in Node : \/ \E ok \in BOOLEAN : DialEnds(n, ok)
                           \/ \E e \in {"added", "dropped"} : TableChanges(n, e)
                           \/ SessionCloses(n) \/ SessionGone(n)
        \/ \E n \in Requirable : RequirePeer(n)

Spec == Init /\ [][Next]_vars

\* The timer runs `run` again and again, the io_service gets round to every
\* handler, dials end, closed sessions go, and fallback times pass.
Fairness == /\ WF_vars(Run)
            /\ \A n \in Node : /\ SF_vars(\E ok \in BOOLEAN : DialEnds(n, ok))
                               /\ SF_vars(\E due \in SUBSET Node : n \in due /\ Collect(due))
                               /\ WF_vars(SessionGone(n))

FairSpec == Spec /\ Fairness
-----------------------------------------------------------------------------
\* run's local variables.
Rounds == [at : {"idle"}]
          \cup [at : {"events"}, todo : [Node -> {"none", "added", "dropped"}]]
          \cup [at : {"required"}, todo : Seq(Node), left : Seq(Node), reqConn : Nat]
          \cup [at : {"optional"}, left : Seq(Node), openSlots : Int]

TypeOK == /\ peers \subseteq Node /\ required \subseteq Node /\ endpoint \subseteq Node
          /\ pending \subseteq Node /\ dialing \subseteq Node /\ stale \subseteq Node
          /\ shaking \subseteq Node \cup {None}
          /\ session \in [Node -> {"none", "open", "closed"}]
          /\ lost \subseteq Node /\ listed \subseteq Node /\ asked \subseteq Node
          /\ events \in [Node -> {"none", "added", "dropped"}]
          /\ prefs \in Prefs
          /\ run \in Rounds

\* The open sessions, registered or not, are never more than the stretched
\* ideal, although Accept and connect count the slots long before the session.
SessionsBounded == PeerCount + Cardinality(lost) <= IngressSlots

\* No open session is replaced in m_sessions: there is one per node, and
\* doneWorking and keepAlivePeers reach them all.
NoSessionLost == lost = {}

\* Whatever the node table drops, a peer that was required stays one.
RequiredKept == asked \subseteq peers \cap required

\* startPeerSession bounds the sessions and replaces none in m_sessions, whatever
\* was dialled and accepted meanwhile, and no event of the node table makes the
\* host forget a required peer.
SessionsSound == SessionsBounded /\ NoSessionLost /\ RequiredKept

\* A required peer has a session or is dialled, again and again, if there are
\* no more required peers than ideal ones.
RequiredRetried ==
    Cardinality(Requirable) <= Ideal =>
        \A n \in Requirable : [](n \in asked => <>(HaveSession(n) \/ n \in dialing))

\* The dials to peers that nobody requires are not more than what Host.h:322
\* calls the ideal number of peers to be connected to.
DialsWithinIdeal == Cardinality(dialing \ required) <= Ideal
=============================================================================
