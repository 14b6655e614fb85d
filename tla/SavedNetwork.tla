---------------------------- MODULE SavedNetwork ----------------------------
(***************************************************************************)
(* What a Host remembers of its peers, and what of it outlives the process *)
(* (saveNetwork, restoreNetwork, networkAlias): the records of m_peers,    *)
(* which dials, sessions and ratings change, the nodes that the node table *)
(* lists, and the host's own key.                                          *)
(*                                                                         *)
(* Time is in days.  An item of the file is the sequence of its fields; a  *)
(* field is unsigned, of a width of which Modulus is the number of values. *)
(***************************************************************************)
EXTENDS Integers, SequencesExt

CONSTANTS Others,    \* ids of other nodes
          Self,      \* the id that this host's key stands for
          Endpoints, \* [address, udp, tcp], addresses being strings
          Public,    \* addresses that isPublicAddress holds of
          V4,        \* addresses that are IPv4
          Reasons,   \* reasons of a disconnect that occur
          Ratings,   \* what a session is rated by
          Bound,     \* bound: the absolute value of ratings
          MaxFailed, \* bound: failed attempts
          Modulus,
          MaxDays,   \* bound: days
          Start,     \* the day it is, the epoch being day 0
          MaxKeys    \* bound: keys that are made

Endpoint == [address : {e.address : e \in Endpoints} \cup {"unspecified"}, udp : Nat, tcp : Nat]

\* Ratings fit into the int that a field of the file stands for.
SavedNetworkConstants ==
    /\ Self \notin Others
    /\ Endpoints \subseteq Endpoint /\ Ratings \subseteq Int
    /\ {Bound, Modulus, Start} \subseteq Nat /\ 2 * Bound < Modulus

VARIABLES alias,    \* m_alias: a number, as keys are made one after the other
          made,     \* how many there are
          peers,    \* m_peers: the records of ids
          table,    \* endpoints of the nodes that the node table lists
          pinged,   \* nodes that the node table is to list when they answer
          sessions, \* ids with a session
          now

networkVars == <<alias, made, peers, table, pinged, sessions, now>>

None == [n \in {} |-> 0]
Unspecified == [address |-> "unspecified", udp |-> 0, tcp |-> 0]
NewPeer(endpoint, required) ==
    [endpoint |-> endpoint, required |-> required, connected |-> 0, attempted |-> 0,
     failed |-> 0, reason |-> "NoDisconnect", score |-> 0, rating |-> 0]

Put(f, n, x) == [m \in DOMAIN f \cup {n} |-> IF m = n THEN x ELSE f[m]]
Without(f, n) == [m \in DOMAIN f \ {n} |-> f[m]]

\* operator bool and isAllowed of an endpoint
Valid(e) == e.address # "unspecified" /\ e.udp > 0 /\ e.tcp > 0
Allowed(e) == e.address \in Public

-----------------------------------------------------------------------------
(* saveNetwork *)

Unsigned(i) == i % Modulus
\* Mutant: a rating is read as the file has it.
SignedNot(u) == u

Signed(u) == IF 2 * u >= Modulus THEN u - Modulus ELSE u

\* Connected within two days, with its ports, and public unless it is required.
Saves(n) == LET p == peers[n]
            IN  /\ p.endpoint.address \in V4 /\ now - p.connected < 2 /\ Valid(p.endpoint)
                /\ n # Self /\ (p.required \/ Allowed(p.endpoint))

PeerItem(n) ==
    LET p == peers[n]
    IN  <<p.endpoint.address, p.endpoint.udp, p.endpoint.tcp, n, p.required, p.connected,
          p.attempted, p.failed, p.reason, Unsigned(p.score), Unsigned(p.rating)>>

NodeItem(n) == <<table[n].address, table[n].udp, table[n].tcp, n>>

\* Peer::operator<, of peers that are offline: m_session is never set.
Before(m, n) == IF peers[m].attempted = peers[n].attempted
                THEN peers[m].failed < peers[n].failed
                ELSE peers[m].attempted < peers[n].attempted

Sorted(s) == \A i, j \in DOMAIN s : i < j => ~Before(s[j], s[i])

Saved == {n \in DOMAIN peers : Saves(n)}

ItemsOf(order, nodes) ==
    [i \in DOMAIN order |-> PeerItem(order[i])] \o [i \in DOMAIN nodes |-> NodeItem(nodes[i])]

\* Files that saveNetwork may make, of this version.
Files == {<<alias, ItemsOf(order, nodes)>> : order \in {s \in SetToSeqs(Saved) : Sorted(s)},
                                             nodes \in SetToSeqs(DOMAIN table)}
NoFile == <<>>

-----------------------------------------------------------------------------
(* restoreNetwork *)

EndpointOf(i) == [address |-> i[1], udp |-> i[2], tcp |-> i[3]]

\* A peer, from the fields that come after those of its node.
PeerOf(i) ==
    [endpoint |-> EndpointOf(i), required |-> i[5], connected |-> i[6], attempted |-> i[7],
     failed |-> i[8], reason |-> i[9], score |-> Signed(i[10]), rating |-> Signed(i[11])]

\* One item: r has the peers, the nodes that are known and those to be pinged.
RestoredItem(r, i) ==
    LET e == EndpointOf(i)
        known == [r EXCEPT !.peers = Put(r.peers, i[4], PeerOf(i)), !.table = Put(r.table, i[4], e)]
    IN  CASE e.address \in V4 /\ Len(i) = 4 /\ Allowed(e) /\ i[4] \notin DOMAIN r.table \cup {Self} ->
               [r EXCEPT !.pinged = @ \cup {i[4]}]
          [] e.address \in V4 /\ Len(i) # 4 /\ (Allowed(e) \/ i[5]) -> known
          [] OTHER -> r

\* The loop over the items, by the number of those that it has read; m_peers is
\* empty before.
Restoring(items) ==
    LET r[i \in 0 .. Len(items)] ==
          IF i = 0 THEN [peers |-> None, table |-> None, pinged |-> {}]
          ELSE RestoredItem(r[i - 1], items[i])
    IN  r

Restored(items) == Restoring(items)[Len(items)]

\* networkAlias: without a file the host gets a new key.
NetworkAlias(file) == IF file = NoFile THEN made + 1 ELSE file[1]

\* A process starts with a file or without, with a node table of its own and no
\* session.
StartWith(file) ==
    /\ alias' = NetworkAlias(file) /\ made' = IF file = NoFile THEN made + 1 ELSE made
    /\ LET r == Restored(IF file = NoFile THEN <<>> ELSE file[2])
       IN  peers' = r.peers /\ table' = r.table /\ pinged' = r.pinged
    /\ sessions' = {}
    /\ UNCHANGED now

\* The network is saved, the process ends, and another one starts.
StartAgain == \E file \in Files : StartWith(file)

StartAnew == made < MaxKeys /\ StartWith(NoFile)

-----------------------------------------------------------------------------
(* What changes the records *)

Change(n, p) == peers' = [peers EXCEPT ![n] = p]

\* connect and its handler; a session follows a dial that succeeds.
Dial(n, ok) ==
    /\ n \in DOMAIN peers \ sessions /\ peers[n].failed < MaxFailed /\ Valid(peers[n].endpoint)
    /\ n \in DOMAIN table \/ peers[n].required
    /\ Change(n, [peers[n] EXCEPT !.attempted = now, !.failed = @ + 1,
                                  !.reason = IF ok THEN @ ELSE "TCPError"])
    /\ UNCHANGED <<alias, made, table, pinged, sessions, now>>

\* Session's constructor
Constructed(p) == [p EXCEPT !.reason = "NoDisconnect"]

\* startPeerSession: connected anew, as no peer is ever online, from the address
\* that the connection comes from.
SessionStarts(n, address) ==
    /\ n \notin sessions
    /\ LET known == CASE n \in DOMAIN peers -> peers[n]
                      [] n \in DOMAIN table -> NewPeer(table[n], FALSE)
                      [] OTHER -> NewPeer(Unspecified, FALSE)
       IN  peers' = Put(peers, n, [Constructed(known) EXCEPT !.connected = now, !.endpoint.address = address])
    /\ sessions' = sessions \cup {n}
    /\ UNCHANGED <<alias, made, table, pinged, now>>

\* addRating
AddRating(n, r) ==
    /\ n \in sessions \cap DOMAIN peers
    /\ peers[n].score + r \in -Bound .. Bound /\ peers[n].rating + r \in -Bound .. Bound
    /\ Change(n, [peers[n] EXCEPT !.score = @ + r, !.rating = @ + r,
                                  !.failed = IF r >= 0 THEN 0 ELSE @])
    /\ UNCHANGED <<alias, made, table, pinged, sessions, now>>

Halved(i) == IF i >= 0 THEN i \div 2 ELSE -((-i) \div 2)

\* drop, and the destructor: the peer was connected when it was dialled last.
SessionEnds(n, reason) ==
    /\ n \in sessions
    /\ sessions' = sessions \ {n}
    /\ IF n \in DOMAIN peers
         THEN LET bad == reason = "BadProtocol"
              IN  Change(n, [peers[n] EXCEPT !.reason = reason, !.connected = peers[n].attempted,
                                             !.score = IF bad THEN Halved(@) ELSE @,
                                             !.rating = IF bad THEN Halved(@) ELSE @])
         ELSE UNCHANGED peers
    /\ UNCHANGED <<alias, made, table, pinged, now>>

\* requirePeer, of a node with an id
RequirePeer(n, e) ==
    /\ peers' = Put(peers, n, IF n \in DOMAIN peers
                                THEN [peers[n] EXCEPT !.endpoint = e, !.required = TRUE]
                                ELSE NewPeer(e, TRUE))
    /\ table' = Put(table, n, IF n \in DOMAIN table THEN table[n] ELSE e)
    /\ UNCHANGED <<alias, made, pinged, sessions, now>>

\* onNodeTableEvent: a node that has answered, or one that is dropped.
NodeAdded(n, e) ==
    /\ n \notin DOMAIN table
    /\ table' = Put(table, n, e) /\ pinged' = pinged \ {n}
    /\ peers' = Put(peers, n, IF n \in DOMAIN peers THEN [peers[n] EXCEPT !.endpoint = e]
                                                    ELSE NewPeer(e, FALSE))
    /\ UNCHANGED <<alias, made, sessions, now>>

NodeDropped(n) ==
    /\ n \in DOMAIN table
    /\ table' = Without(table, n)
    /\ peers' = IF n \in DOMAIN peers /\ ~peers[n].required THEN Without(peers, n) ELSE peers
    /\ UNCHANGED <<alias, made, pinged, sessions, now>>

Tick == /\ now < MaxDays /\ now' = now + 1
        /\ UNCHANGED <<alias, made, peers, table, pinged, sessions>>

-----------------------------------------------------------------------------
NetworkInit == alias = 1 /\ made = 1 /\ peers = None /\ table = None /\ pinged = {} /\ sessions = {} /\ now = Start

NetworkNext ==
    \/ \E n \in Others : \/ \E ok \in BOOLEAN : Dial(n, ok)
                         \/ \E e \in Endpoints : SessionStarts(n, e.address)
                         \/ \E r \in Ratings : AddRating(n, r)
                         \/ \E reason \in Reasons : SessionEnds(n, reason)
                         \/ \E e \in Endpoints : RequirePeer(n, e) \/ NodeAdded(n, e)
                         \/ NodeDropped(n)
    \/ StartAgain \/ StartAnew \/ Tick

NetworkSpec == NetworkInit /\ [][NetworkNext]_networkVars

-----------------------------------------------------------------------------
\* A process that starts with what another one saved has that one's key and the
\* peers that were saved, each with its endpoint, type, times, failures and
\* ratings as they were, however low, and none beside them; every public node
\* that the table listed is known to the new table or pinged (saveNetwork,
\* restoreNetwork, networkAlias: a file tells fields apart by their places only).
RestoredIsSaved ==
    [][StartAgain => /\ alias' = alias
                     /\ DOMAIN peers' = Saved
                     /\ \A n \in DOMAIN peers' : peers'[n] = peers[n]
                     /\ \A n \in DOMAIN table :
                            Allowed(table[n]) /\ table[n].address \in V4 =>
                                n \in DOMAIN table' \cup pinged']_networkVars
=============================================================================
