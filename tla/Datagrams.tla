------------------------------ MODULE Datagrams ------------------------------
(***************************************************************************)
(* What node tables send each other (RLPXDatagramFace, and PingNode, Pong, *)
(* FindNode and Neighbours of NodeTable): how datagrams are put together,  *)
(* signed, checked and taken apart, and what a node learns from them about *)
(* the endpoints of others and its own.  Hashes and signatures are terms.  *)
(*                                                                         *)
(* Buckets, evictions and discovery are in NodeTable and Discovery; here a *)
(* node is pending, or active when its Pong has come.  A datagram may come *)
(* at any time, again and again, never, or damaged.                        *)
(***************************************************************************)
EXTENDS Integers, SequencesExt

CONSTANTS Node,     \* nodes, which stand for their ids
          Version,  \* c_protocolVersion of each; those that run this code have Current
          Current,
          Seen,     \* address and port that each one's datagrams come from
          Local,    \* the endpoint that each was started with
          Public,   \* addresses that isPublicAddress holds of
          Valid,    \* how long a request is valid: 60 s
          ReqTimeout,
          MaxDatagramSize,
          Told,     \* bound: <<n, m>> when n may be told of m, or run other code and ping it
          MaxTime, MaxSent, MaxDamaged \* bounds

VARIABLES net,     \* datagrams that were sent
          own,     \* m_node.endpoint
          entries, \* m_nodes: endpoints by id
          active,  \* those that are not pending
          asked,   \* m_findNodeTimeout: <<id, time>>
          now, damaged

tableVars == <<net, own, entries, active, asked, now, damaged>>

Stranger == "an id that is nobody's"
Unspecified == [address |-> "unspecified", udp |-> 0, tcp |-> 0]
IsEndpoint(e) == e.address # "unspecified" /\ e.udp > 0 /\ e.tcp > 0
EndpointOf(n) == [address |-> Seen[n].address, udp |-> Seen[n].udp, tcp |-> Local[n].tcp]
Modern == {n \in Node : Version[n] = Current}

\* Endpoints have a port, nodes that run this code are told of such, and a
\* datagram has room for a neighbour.
DatagramConstants ==
    /\ IsFiniteSet(Node) /\ DOMAIN Local = Node
    /\ \A n \in Node : Local[n] = [address |-> Local[n].address, udp |-> Local[n].udp, tcp |-> Local[n].tcp]
    /\ \A n \in Node : Seen[n] = [address |-> Seen[n].address, udp |-> Seen[n].udp] /\ Seen[n].udp # 0
    /\ \A t \in Told : t[1] \in Modern => t[2] \in Modern
    /\ Current # 3 /\ MaxDatagramSize \in Nat /\ MaxDatagramSize >= 199

-----------------------------------------------------------------------------
(* sign *)

Sha3(x) == <<"sha3", x>>
NoHash == <<"none">>

\* The node's signature of type and items, and the hash before all.
Signed(n, type, items) ==
    LET rlpx == <<type, items>>
        sig == [by |-> n, of |-> Sha3(rlpx)]
    IN  [hash |-> Sha3(<<sig, rlpx>>), sig |-> sig, rlpx |-> rlpx]

Sent(n, e, type, items) == {[from |-> n, to |-> [address |-> e.address, udp |-> e.udp], data |-> Signed(n, type, items)]}

\* streamRLP of each type
PingItems(version, source, destination, ts) == <<version, source, destination, ts>>
PongItems(destination, echo, ts) == <<destination, echo, ts>>
CompatPongItems(echo, ts) == <<echo, ts>>
FindNodeItems(target, ts) == <<target, ts>>

Ping(n, e) == Sent(n, e, "ping", PingItems(Version[n], own[n], e, now + Valid))
Pong(n, e, ping) == Sent(n, e, "pong", PongItems(e, Sha3(ping), now + Valid))
CompatPong(n, e, ping) == Sent(n, e, "pong", CompatPongItems(Sha3(ping), now + Valid))
FindNode(n, e, target) == Sent(n, e, "find", FindNodeItems(target, now + Valid))

\* Neighbours come in as many datagrams as nlimit makes of them.
Limit == (MaxDatagramSize - 109) \div 90

Parts(nearest) ==
    LET n == Len(nearest)
    IN  [i \in 1 .. (n + Limit - 1) \div Limit |->
            SubSeq(nearest, (i - 1) * Limit + 1, Min({n, i * Limit}))]

\* Items of a neighbour: its endpoint's, then its id.
Neighbour(n, m) == LET e == entries[n][m] IN <<e.address, e.udp, e.tcp, m>>
Neighbours(n, e, nearest) ==
    LET parts == Parts(nearest)
    IN  UNION {Sent(n, e, "neighbours", <<[j \in DOMAIN parts[i] |-> Neighbour(n, parts[i][j])], now + Valid>>) :
                  i \in DOMAIN parts}

-----------------------------------------------------------------------------
(* onReceived *)

\* Mutant: the hash is not compared.
IntactUnchecked(data) == TRUE
Intact(data) == data.hash = Sha3(<<data.sig, data.rlpx>>)

\* recover: a signature of something else gives an id of nobody.
Recovered(data) == IF data.sig.of = Sha3(data.rlpx) THEN data.sig.by ELSE Stranger

\* fromBytesConstRef: what cannot be interpreted leaves a datagram of zeros; of
\* a PingNode of another version, nothing but the version is read.
PingIn(items) ==
    IF Len(items) = 4 /\ items[1] = Current
      THEN [version |-> Current, source |-> items[2], destination |-> items[3], ts |-> items[4]]
      ELSE [version |-> IF items = <<>> THEN 0 ELSE items[1],
            source |-> Unspecified, destination |-> Unspecified, ts |-> 0]
PongIn(items) == IF Len(items) = 3 THEN [destination |-> items[1], echo |-> items[2], ts |-> items[3]]
                 ELSE [destination |-> Unspecified, echo |-> NoHash, ts |-> 0]
FindNodeIn(items) == IF Len(items) = 2 THEN [target |-> items[1], ts |-> items[2]] ELSE [target |-> Stranger, ts |-> 0]
NeighboursIn(items) ==
    IF Len(items) = 2
      THEN {[id |-> i[4], endpoint |-> [address |-> i[1], udp |-> i[2], tcp |-> i[3]]] : i \in ToSet(items[1])}
      ELSE {}

Set(f, n, x) == [f EXCEPT ![n] = x]
New(n, m) == m \notin DOMAIN entries[n]
With(f, m, e) == [k \in DOMAIN f \cup {m} |-> IF k = m THEN e ELSE f[k]]

\* addNode, of a node with an id: a new one is pending and is pinged.
Added(n, m, e) == IF New(n, m) /\ IsEndpoint(e) THEN Set(entries, n, With(entries[n], m, e)) ELSE entries
PingsFor(n, m, e) == IF New(n, m) /\ IsEndpoint(e) THEN Ping(n, e) ELSE {}

OnPing(n, id, from, items) ==
    LET in == PingIn(items)
        source == [address |-> from.address, udp |-> from.udp, tcp |-> in.source.tcp]
    IN  /\ IF in.version = 3 THEN net' = net \cup CompatPong(n, in.source, items) /\ UNCHANGED entries
           ELSE /\ in.version >= Current /\ now <= in.ts
                /\ entries' = Added(n, id, source)
                /\ net' = net \cup PingsFor(n, id, source) \cup Pong(n, source, items)
        /\ UNCHANGED <<own, active, asked>>

\* A Pong of a node that is known; of others, see NodeTable.
OnPong(n, id, items) ==
    LET to == PongIn(items).destination
        learns == (~IsEndpoint(own[n]) \/ own[n].address \notin Public) /\ to.address \in Public
    IN  /\ ~New(n, id)
        /\ active' = [active EXCEPT ![n] = @ \cup {id}]
        /\ own' = [own EXCEPT ![n].udp = to.udp, ![n].address = IF learns THEN to.address ELSE @]
        /\ UNCHANGED <<net, entries, asked>>

\* Nodes that are active answer with some order of those that are near.
OnFindNode(n, from, items) ==
    /\ now <= FindNodeIn(items).ts
    /\ \E nearest \in SetToSeqs({m \in active[n] : entries[n][m].address \in Public}) :
          net' = net \cup Neighbours(n, from, nearest)
    /\ UNCHANGED <<own, entries, active, asked>>

\* Those asked too long ago are removed, unless they were asked again since.
OnNeighbours(n, id, items) ==
    LET expected == \E t \in asked[n] : t[1] = id /\ now - t[2] < ReqTimeout
        new == {x \in NeighboursIn(items) : New(n, x.id) /\ IsEndpoint(x.endpoint)}
    IN  /\ asked' = [asked EXCEPT ![n] = {t \in @ : t[1] = id => now - t[2] < ReqTimeout}]
        /\ IF expected
             THEN /\ entries' = Set(entries, n, [m \in DOMAIN entries[n] \cup {x.id : x \in new} |->
                                   IF New(n, m) THEN (CHOOSE x \in new : x.id = m).endpoint ELSE entries[n][m]])
                  /\ net' = net \cup UNION {Ping(n, x.endpoint) : x \in new}
             ELSE UNCHANGED <<entries, net>>
        /\ UNCHANGED <<own, active>>

Receive(n, d) ==
    LET data == d.data
        id == Recovered(data)
        type == data.rlpx[1]
        items == data.rlpx[2]
    IN  /\ n \in Modern /\ d.to = Seen[n] /\ Intact(data)
        /\ CASE type = "ping"       -> OnPing(n, id, Seen[d.from], items)
             [] type = "pong"       -> OnPong(n, id, items)
             [] type = "find"       -> OnFindNode(n, Seen[d.from], items)
             [] type = "neighbours" -> OnNeighbours(n, id, items)
        /\ UNCHANGED <<now, damaged>>

-----------------------------------------------------------------------------
\* addNode, as Host calls it for a node that it was told of.
AddNode(n, m) ==
    /\ n \in Modern /\ <<n, m>> \in Told /\ New(n, m)
    /\ entries' = Added(n, m, EndpointOf(m))
    /\ net' = net \cup PingsFor(n, m, EndpointOf(m))
    /\ UNCHANGED <<own, active, asked, now, damaged>>

\* A node that runs other code pings.
OldPing(n, m) ==
    /\ n \notin Modern /\ <<n, m>> \in Told
    /\ net' = net \cup Ping(n, EndpointOf(m))
    /\ UNCHANGED <<own, entries, active, asked, now, damaged>>

\* doDiscover asks an active node.
Ask(n, m, target) ==
    /\ m \in active[n] /\ m \in Node
    /\ net' = net \cup FindNode(n, entries[n][m], target)
    /\ asked' = [asked EXCEPT ![n] = @ \cup {<<m, now>>}]
    /\ UNCHANGED <<own, entries, active, now, damaged>>

\* A part of a datagram gets lost on the way: hash, signature, or items.
Damage(d) ==
    /\ damaged < MaxDamaged /\ damaged' = damaged + 1
    /\ \E data \in {[d.data EXCEPT !.hash = NoHash], [d.data EXCEPT !.sig.of = NoHash],
                    [d.data EXCEPT !.rlpx = <<@[1], <<>>>>]} : net' = net \cup {[d EXCEPT !.data = data]}
    /\ UNCHANGED <<own, entries, active, asked, now>>

Tick == /\ now < MaxTime /\ now' = now + 1
        /\ UNCHANGED <<net, own, entries, active, asked, damaged>>

TableInit == /\ net = {} /\ own = Local /\ now = 1 /\ damaged = 0
             /\ entries = [n \in Node |-> [m \in {} |-> Unspecified]]
             /\ active = [n \in Node |-> {}] /\ asked = [n \in Node |-> {}]

TableNext == \/ /\ \/ \E n, m \in Node : AddNode(n, m) \/ OldPing(n, m) \/ Ask(n, m, n)
                   \/ \E n \in Node, d \in net : Receive(n, d)
                   \/ \E d \in net : Damage(d)
                /\ Cardinality(net') <= MaxSent
             \/ Tick

TableSpec == TableInit /\ [][TableNext]_tableVars

-----------------------------------------------------------------------------
\* Whatever datagrams were damaged, delayed and repeated, a node table has
\* entries of nodes only, each with the endpoint where that node can be reached,
\* and what a node thinks its own endpoint is, it was started with or is seen at
\* (streamRLP, interpretRLP, and the updates in NodeTable::onReceived).
EndpointsAreTrue ==
    \A n \in Modern :
       /\ \A m \in DOMAIN entries[n] : m \in Modern /\ entries[n][m] = EndpointOf(m)
       /\ own[n].udp \in {Local[n].udp, Seen[n].udp}
       /\ own[n].address \in {Local[n].address, Seen[n].address}
=============================================================================
