--------------------------- MODULE Network_proofs ---------------------------
(***************************************************************************)
(* Proofs about what hosts tell each other, and find out: the datagrams of *)
(* node tables (Datagrams) and the lookups that send them (Discovery), the *)
(* endpoints that hosts tell (Endpoints), the capabilities that two hosts  *)
(* agree on (Capabilities), and the socket that datagrams are sent by      *)
(* (UDPSocket).  They share no state.                                      *)
(***************************************************************************)
EXTENDS Datagrams, Discovery, Endpoints, Capabilities, UDPSocket, FiniteSetTheorems, WellFoundedInduction, TLAPS

-----------------------------------------------------------------------------
(* Induction over the natural numbers, as the search for a smallest number *)
(* at which something is wrong.                                            *)

LEMMA LeastNumber ==
    ASSUME NEW T \in SUBSET Nat, T # {}
    PROVE  \E n \in T : \A m \in T : n <= m
  <1>1. PICK n \in T : \A m \in T : ~(<<m, n>> \in OpToRel(<, Nat))
    BY NatLessThanWellFounded, WFMin
  <1>2. \A m \in T : ~(m < n)
    BY <1>1 DEF OpToRel
  <1> QED  BY <1>2

\* A set of numbers that is not empty has a largest, if it has a bound.
LEMMA LargestNumber ==
    ASSUME NEW S \in SUBSET Nat, S # {}, NEW b \in Nat, \A y \in S : y <= b
    PROVE  Max(S) \in S /\ \A y \in S : y <= Max(S)
  <1> DEFINE T == {k \in Nat : \A y \in S : y <= k}
  <1>1. T \in SUBSET Nat /\ b \in T
    OBVIOUS
  <1>2. PICK k \in T : \A m \in T : k <= m
    <2> HIDE DEF T
    <2> QED  BY <1>1, LeastNumber
  <1>3. k \in S
    <2> SUFFICES ASSUME k \notin S PROVE FALSE
      OBVIOUS
    <2>1. \A y \in S : y < k
      BY <1>2
    <2>2. k - 1 \in Nat
      <3>1. PICK y \in S : y < k
        BY <2>1
      <3> QED  BY <1>2, <3>1
    <2>3. k - 1 \in T
      BY <1>2, <2>1, <2>2
    <2> QED  BY <1>2, <2>3
  <1>4. \E x \in S : \A y \in S : x >= y
    BY <1>2, <1>3
  <1>5. Max(S) \in S /\ \A y \in S : Max(S) >= y
    BY <1>4 DEF Max
  <1> QED  BY <1>5

-----------------------------------------------------------------------------
(* Datagrams.  A hash is of what was signed, so a datagram whose hash is     *)
(* right is as it was sent, by the node it says.                             *)

\* What nodes send to an address: they know their own TCP port, a Pong tells the
\* address that it is sent to, and neighbours have the endpoints they are seen at.
Genuine(n, to, type, items) ==
    \/ /\ type = "ping"
       /\ \E source, destination, ts : /\ items = <<Version[n], source, destination, ts>>
                                       /\ n \in Modern => source.tcp = Local[n].tcp
    \/ /\ type = "pong"
       /\ \/ \E e, echo, ts : items = <<e, echo, ts>> /\ to = [address |-> e.address, udp |-> e.udp]
          \/ to.udp = 0
    \/ type = "find"
    \/ /\ type = "neighbours"
       /\ \E list, ts : /\ items = <<list, ts>>
                        /\ \A i \in ToSet(list) :
                              /\ i[4] \in Modern
                              /\ [address |-> i[1], udp |-> i[2], tcp |-> i[3]] = EndpointOf(i[4])

Hashed(n, to, hash) == \/ hash = NoHash
                       \/ \E type, items : Genuine(n, to, type, items) /\ hash = Signed(n, type, items).hash

WasSent(d) ==
    \E n \in Node : \E to, hash, by, of, rlpx :
       /\ d = [from |-> n, to |-> to, data |-> [hash |-> hash, sig |-> [by |-> by, of |-> of], rlpx |-> rlpx]]
       /\ Hashed(n, to, hash)

OwnOK(n, e) ==
    /\ e = [address |-> e.address, udp |-> e.udp, tcp |-> Local[n].tcp]
    /\ n \in Modern => /\ e.udp \in {Local[n].udp, Seen[n].udp}
                       /\ e.address \in {Local[n].address, Seen[n].address}

EntriesOK(es) == \A m \in DOMAIN es : m \in Modern /\ es[m] = EndpointOf(m)

TableInv == /\ \A d \in net : WasSent(d)
            /\ DOMAIN own = Node /\ DOMAIN entries = Node /\ DOMAIN active = Node
            /\ \A n \in Node : OwnOK(n, own[n]) /\ EntriesOK(entries[n]) /\ active[n] \subseteq DOMAIN entries[n]
            /\ now \in Nat /\ now >= 1
-----------------------------------------------------------------------------
\* A datagram whose hash is right is as it was signed (NodeTable::onReceived,
\* RLPXDatagramFace::decodePacket).
LEMMA IntactIsGenuine ==
    ASSUME NEW d, WasSent(d), Intact(d.data)
    PROVE  /\ d.from \in Node /\ Recovered(d.data) = d.from
           /\ Genuine(d.from, d.to, d.data.rlpx[1], d.data.rlpx[2])
  <1>1. PICK n \in Node : \E to, hash, by, of, rlpx :
           /\ d = [from |-> n, to |-> to, data |-> [hash |-> hash, sig |-> [by |-> by, of |-> of], rlpx |-> rlpx]]
           /\ Hashed(n, to, hash)
    BY DEF WasSent
  <1>2. PICK to, hash, by, of, rlpx :
           /\ d = [from |-> n, to |-> to, data |-> [hash |-> hash, sig |-> [by |-> by, of |-> of], rlpx |-> rlpx]]
           /\ Hashed(n, to, hash)
    BY <1>1
  <1> DEFINE sig == [by |-> by, of |-> of]
  <1>3. d.from = n /\ d.to = to /\ d.data.hash = hash /\ d.data.sig = sig /\ d.data.rlpx = rlpx
    BY <1>2
  <1> HIDE DEF sig
  <1>4. hash = <<"sha3", <<sig, rlpx>>>>
    BY <1>3 DEF Intact, Sha3
  <1>5. hash # NoHash
    BY <1>4 DEF NoHash
  <1>6. PICK type, items : Genuine(n, to, type, items) /\ hash = Signed(n, type, items).hash
    BY <1>2, <1>5 DEF Hashed
  <1> DEFINE s == [by |-> n, of |-> Sha3(<<type, items>>)]
  <1>7. hash = <<"sha3", <<s, <<type, items>>>>>>
    BY <1>6 DEF Signed, Sha3
  <1>8. s.by = n /\ s.of = Sha3(<<type, items>>)
    OBVIOUS
  <1> HIDE DEF s
  <1>9. sig = s /\ rlpx = <<type, items>>
    BY <1>4, <1>7
  <1>10. rlpx[1] = type /\ rlpx[2] = items
    BY <1>9
  <1>11. Recovered(d.data) = n
    BY <1>3, <1>8, <1>9 DEF Recovered
  <1> QED  BY <1>3, <1>6, <1>10, <1>11

LEMMA SentWasSent ==
    ASSUME NEW n \in Node, NEW e, NEW type, NEW items, Genuine(n, [address |-> e.address, udp |-> e.udp], type, items),
           NEW d \in Sent(n, e, type, items)
    PROVE  WasSent(d)
  <1> DEFINE to == [address |-> e.address, udp |-> e.udp]  of == Sha3(<<type, items>>)
             hash == Sha3(<<[by |-> n, of |-> of], <<type, items>>>>)
  <1>1. d = [from |-> n, to |-> to, data |-> [hash |-> hash, sig |-> [by |-> n, of |-> of], rlpx |-> <<type, items>>]]
    BY DEF Sent, Signed
  <1>2. hash = Signed(n, type, items).hash
    BY DEF Signed
  <1>3. Hashed(n, to, hash)
    BY <1>2 DEF Hashed
  <1> HIDE DEF to, of, hash
  <1> QED  BY <1>1, <1>3 DEF WasSent

LEMMA DamageWasSent ==
    ASSUME NEW d, WasSent(d),
           NEW data \in {[d.data EXCEPT !.hash = NoHash], [d.data EXCEPT !.sig.of = NoHash],
                         [d.data EXCEPT !.rlpx = <<@[1], <<>>>>]}
    PROVE  WasSent([d EXCEPT !.data = data])
  <1>1. PICK n \in Node : \E to, hash, by, of, rlpx :
           /\ d = [from |-> n, to |-> to, data |-> [hash |-> hash, sig |-> [by |-> by, of |-> of], rlpx |-> rlpx]]
           /\ Hashed(n, to, hash)
    BY DEF WasSent
  <1>2. PICK to, hash, by, of, rlpx :
           /\ d = [from |-> n, to |-> to, data |-> [hash |-> hash, sig |-> [by |-> by, of |-> of], rlpx |-> rlpx]]
           /\ Hashed(n, to, hash)
    BY <1>1
  <1> DEFINE s == [by |-> by, of |-> of]
  <1>3. d.data = [hash |-> hash, sig |-> s, rlpx |-> rlpx]
    BY <1>2
  <1>4. [d EXCEPT !.data = data] = [from |-> n, to |-> to, data |-> data]
    BY <1>2
  <1>5. [s EXCEPT !.of = NoHash] = [by |-> by, of |-> NoHash]
    OBVIOUS
  <1>6. Hashed(n, to, NoHash)
    BY DEF Hashed
  <1> HIDE DEF s
  <1>7. \/ data = [hash |-> NoHash, sig |-> s, rlpx |-> rlpx]
        \/ data = [hash |-> hash, sig |-> [s EXCEPT !.of = NoHash], rlpx |-> rlpx]
        \/ data = [hash |-> hash, sig |-> s, rlpx |-> <<rlpx[1], <<>>>>]
    BY <1>3
  <1>8. \E h, o, x : data = [hash |-> h, sig |-> [by |-> by, of |-> o], rlpx |-> x] /\ Hashed(n, to, h)
    BY <1>2, <1>5, <1>6, <1>7 DEF s
  <1>9. PICK h, o, x : data = [hash |-> h, sig |-> [by |-> by, of |-> o], rlpx |-> x] /\ Hashed(n, to, h)
    BY <1>8
  <1> QED  BY <1>4, <1>9 DEF WasSent
-----------------------------------------------------------------------------
LEMMA PingWasSent == ASSUME TableInv, NEW n \in Node, NEW e, NEW d \in Ping(n, e) PROVE WasSent(d)
  <1> DEFINE items == <<Version[n], own[n], e, now + Valid>>
  <1>1. own[n].tcp = Local[n].tcp
    BY DEF TableInv, OwnOK
  <1>2. Genuine(n, [address |-> e.address, udp |-> e.udp], "ping", items)
    BY <1>1 DEF Genuine
  <1>3. d \in Sent(n, e, "ping", items)
    BY DEF Ping, PingItems
  <1> HIDE DEF items
  <1> QED  BY <1>2, <1>3, SentWasSent

LEMMA PongWasSent == ASSUME NEW n \in Node, NEW e, NEW ping, NEW d \in Pong(n, e, ping) PROVE WasSent(d)
  <1> DEFINE items == <<e, Sha3(ping), now + Valid>>
  <1>1. Genuine(n, [address |-> e.address, udp |-> e.udp], "pong", items)
    BY DEF Genuine
  <1>2. d \in Sent(n, e, "pong", items)
    BY DEF Pong, PongItems
  <1> HIDE DEF items
  <1> QED  BY <1>1, <1>2, SentWasSent

LEMMA CompatPongWasSent ==
    ASSUME NEW n \in Node, NEW ping, NEW d \in CompatPong(n, Unspecified, ping) PROVE WasSent(d)
  <1> DEFINE items == CompatPongItems(Sha3(ping), now + Valid)  e == Unspecified
  <1>1. [address |-> e.address, udp |-> e.udp].udp = 0
    BY DEF Unspecified
  <1>2. Genuine(n, [address |-> e.address, udp |-> e.udp], "pong", items)
    BY <1>1 DEF Genuine
  <1>3. d \in Sent(n, e, "pong", items)
    BY DEF CompatPong
  <1> HIDE DEF items, e
  <1> QED  BY <1>2, <1>3, SentWasSent

LEMMA FindNodeWasSent == ASSUME NEW n \in Node, NEW e, NEW target, NEW d \in FindNode(n, e, target) PROVE WasSent(d)
  <1>1. ASSUME NEW to, NEW items PROVE Genuine(n, to, "find", items)
    BY DEF Genuine
  <1> QED  BY <1>1, SentWasSent DEF FindNode

\* Neighbours are told of as they are in the table, however they are divided
\* among datagrams (NodeTable::onReceived, FindNodePacket).
LEMMA NeighboursWereSent ==
    ASSUME TableInv, DatagramConstants, NEW n \in Node, NEW e, NEW S, S \subseteq active[n],
           NEW nearest \in SetToSeqs(S), NEW d \in Neighbours(n, e, nearest)
    PROVE  WasSent(d)
  <1>1. S \subseteq Node /\ \A m \in S : m \in Modern /\ entries[n][m] = EndpointOf(m)
    BY DEF TableInv, EntriesOK, Modern
  <1>2. PICK c \in Nat : nearest \in [1 .. c -> S]
    <2>1. IsFiniteSet(Node)
      BY DEF DatagramConstants, IsFiniteSet, IsFiniteSet
    <2>2. Cardinality(S) \in Nat
      BY <1>1, <2>1, FS_Subset, FS_CardinalityType
    <2>3. nearest \in [1 .. Cardinality(S) -> S]
      <3>1. Cardinality(S) = Cardinality(S)
        BY DEF Cardinality, Cardinality
      <3> QED  BY <3>1 DEF SetToSeqs
    <2> QED  BY <2>2, <2>3
  <1>3. PICK i \in DOMAIN Parts(nearest) :
           d \in Sent(n, e, "neighbours",
                    <<[j \in DOMAIN Parts(nearest)[i] |-> Neighbour(n, Parts(nearest)[i][j])], now + Valid>>)
    BY DEF Neighbours
  <1> DEFINE lo == (i - 1) * Limit + 1  hi == Min({c, i * Limit})  part == SubSeq(nearest, lo, hi)
  <1>4. Len(nearest) = c /\ DOMAIN nearest = 1 .. c
    BY <1>2
  <1>5. i \in Int /\ i >= 1 /\ Parts(nearest)[i] = part
    <2>1. Parts(nearest) = [k \in 1 .. (c + Limit - 1) \div Limit |->
                                    SubSeq(nearest, (k - 1) * Limit + 1, Min({c, k * Limit}))]
      BY <1>4, Zenon DEF Parts
    <2>2. PICK q : q = (c + Limit - 1) \div Limit
      OBVIOUS
    <2>3. i \in 1 .. q
      BY <2>1, <2>2, Zenon
    <2>4. Parts(nearest)[i] = part
      BY <2>1, <2>2, <2>3, Zenon
    <2> QED  BY <2>3, <2>4
  <1>6. Limit \in Nat
    BY DEF Limit, DatagramConstants
  <1>7. lo \in Nat /\ lo >= 1 /\ hi \in Int /\ hi <= c
    <2>1. (i - 1) * Limit \in Nat /\ i * Limit \in Int
      BY <1>5, <1>6
    <2>2. PICK x \in Int : x = i * Limit
      BY <2>1
    <2>3. \E y \in {c, x} : \A z \in {c, x} : y <= z
      BY <1>2, <2>2
    <2>4. hi \in {c, x} /\ \A z \in {c, x} : hi <= z
      BY <2>2, <2>3 DEF Min
    <2> QED  BY <1>2, <2>1, <2>2, <2>4
  <1> HIDE DEF lo, hi
  <1>8. ASSUME NEW j \in DOMAIN part PROVE part[j] \in S
    <2>1. j \in 1 .. hi - lo + 1 /\ part[j] = nearest[lo + j - 1]
      BY <1>7
    <2>2. lo + j - 1 \in 1 .. c
      BY <1>2, <1>7, <2>1
    <2> QED  BY <1>2, <2>1, <2>2
  <1> HIDE DEF part
  <1> DEFINE list == [j \in DOMAIN part |-> Neighbour(n, part[j])]
  <1>9. ASSUME NEW x \in ToSet(list)
        PROVE  x[4] \in Modern /\ [address |-> x[1], udp |-> x[2], tcp |-> x[3]] = EndpointOf(x[4])
    <2>1. PICK j \in DOMAIN part : x = Neighbour(n, part[j])
      BY DEF ToSet
    <2>2. PICK m \in S : m = part[j] /\ m \in Modern /\ entries[n][m] = EndpointOf(m)
      BY <1>1, <1>8
    <2>3. x = <<EndpointOf(m).address, EndpointOf(m).udp, EndpointOf(m).tcp, m>>
      BY <2>1, <2>2 DEF Neighbour
    <2> QED  BY <2>2, <2>3 DEF EndpointOf
  <1> HIDE DEF list
  <1>10. Genuine(n, [address |-> e.address, udp |-> e.udp], "neighbours", <<list, now + Valid>>)
    BY <1>9 DEF Genuine
  <1>11. d \in Sent(n, e, "neighbours", <<list, now + Valid>>)
    BY <1>3, <1>5 DEF list
  <1> QED  BY <1>10, <1>11, SentWasSent

LEMMA AddedOK ==
    ASSUME TableInv, NEW n \in Node, NEW m \in Modern
    PROVE  LET added == Added(n, m, EndpointOf(m)) IN
           DOMAIN added = Node /\ \A k \in Node : EntriesOK(added[k]) /\ active[k] \subseteq DOMAIN added[k]
  <1> DEFINE e == EndpointOf(m)  more == With(entries[n], m, e)  added == Added(n, m, e)
  <1>1. DOMAIN entries = Node /\ \A k \in Node : EntriesOK(entries[k]) /\ active[k] \subseteq DOMAIN entries[k]
    BY DEF TableInv
  <1>2. DOMAIN more = DOMAIN entries[n] \cup {m} /\ \A k \in DOMAIN more : more[k] = IF k = m THEN e ELSE entries[n][k]
    BY DEF With
  <1> HIDE DEF more, e
  <1>3. EntriesOK(more) /\ active[n] \subseteq DOMAIN more
    BY <1>1, <1>2 DEF EntriesOK, e
  <1>4. added = entries \/ added = [entries EXCEPT ![n] = more]
    BY DEF Added, Set, more, e
  <1> HIDE DEF added
  <1>5. DOMAIN added = Node /\ \A k \in Node : EntriesOK(added[k]) /\ active[k] \subseteq DOMAIN added[k]
    BY <1>1, <1>3, <1>4
  <1> QED  BY <1>5 DEF added, e
-----------------------------------------------------------------------------
\* A step of one node, which sends what is as it should be.
LEMMA TableStep ==
    ASSUME TableInv, NEW n \in Node, net \subseteq net', \A d \in net' \ net : WasSent(d), now' = now,
           DOMAIN own' = Node /\ DOMAIN entries' = Node /\ DOMAIN active' = Node,
           OwnOK(n, own'[n]), \A m \in Node \ {n} : own'[m] = own[m],
           \A m \in Node : EntriesOK(entries'[m]) /\ active'[m] \subseteq DOMAIN entries'[m]
    PROVE  TableInv'
  <1>1. ASSUME NEW d \in net' PROVE WasSent(d)
    BY DEF TableInv
  <1>2. \A m \in Node : OwnOK(m, own'[m])
    BY DEF TableInv
  <1> QED  BY <1>1, <1>2 DEF TableInv

LEMMA PingOK ==
    ASSUME TableInv, DatagramConstants, NEW n \in Node, NEW d \in net, Intact(d.data),
           d.data.rlpx[1] = "ping", OnPing(n, Recovered(d.data), Seen[d.from], d.data.rlpx[2]), now' = now
    PROVE  TableInv'
  <1> DEFINE in == PingIn(d.data.rlpx[2])
             source == [address |-> Seen[d.from].address, udp |-> Seen[d.from].udp, tcp |-> in.source.tcp]
  <1>1. PICK from, items : /\ from \in Node /\ from = d.from /\ items = d.data.rlpx[2] /\ Recovered(d.data) = from
                            /\ Genuine(from, d.to, "ping", items)
    BY IntactIsGenuine DEF TableInv
  <1>2. own' = own /\ active' = active
    BY DEF OnPing
  <1>3. CASE in.version = 3
    <2>1. in.source = Unspecified
      <3>1. PICK whole \in BOOLEAN : whole = (Len(items) = 4 /\ items[1] = Current)
        OBVIOUS
      <3>2. Current # 3
        BY DEF DatagramConstants
      <3>3. ASSUME whole PROVE in.version = Current
        BY <1>1, <3>1, <3>3 DEF PingIn
      <3>4. ~whole
        BY <1>3, <3>2, <3>3
      <3> QED  BY <1>1, <3>1, <3>4 DEF PingIn
    <2>2. net' = net \cup CompatPong(n, Unspecified, items) /\ entries' = entries
      BY <1>1, <1>3, <2>1 DEF OnPing
    <2>3. \A x \in net' \ net : WasSent(x)
      BY <2>2, CompatPongWasSent
    <2> QED  BY <1>2, <2>2, <2>3, TableStep DEF TableInv
  <1>4. CASE in.version # 3
    <2>1. now <= in.ts /\ now >= 1
      BY <1>4 DEF OnPing, TableInv
    <2>2. items[1] = Current /\ in.source = items[2]
      <3>1. PICK whole \in BOOLEAN : whole = (Len(items) = 4 /\ items[1] = Current)
        OBVIOUS
      <3>2. ASSUME ~whole PROVE in.ts = 0
        BY <1>1, <3>1, <3>2 DEF PingIn
      <3>3. now \in Nat
        BY DEF TableInv
      <3>4. whole
        BY <2>1, <3>2, <3>3
      <3> QED  BY <1>1, <3>1, <3>4 DEF PingIn
    <2>3. from \in Modern /\ items[2].tcp = Local[from].tcp
      <3>1. PICK src, destination, ts : /\ items = <<Version[from], src, destination, ts>>
                                        /\ from \in Modern => src.tcp = Local[from].tcp
        BY <1>1 DEF Genuine
      <3>2. items[1] = Version[from] /\ items[2] = src
        BY <3>1
      <3> QED  BY <1>1, <2>2, <3>1, <3>2 DEF Modern
    <2>4. source = EndpointOf(from)
      BY <1>1, <2>2, <2>3 DEF EndpointOf
    <2>5. /\ entries' = Added(n, from, EndpointOf(from))
          /\ net' = net \cup PingsFor(n, from, EndpointOf(from)) \cup Pong(n, EndpointOf(from), items)
      BY <1>1, <1>4, <2>4 DEF OnPing
    <2>6. \A x \in net' \ net : WasSent(x)
      BY <2>5, PingWasSent, PongWasSent DEF PingsFor
    <2>7. DOMAIN entries' = Node /\ \A k \in Node : EntriesOK(entries'[k]) /\ active'[k] \subseteq DOMAIN entries'[k]
      BY <1>2, <2>3, <2>5, AddedOK
    <2> QED  BY <1>2, <2>5, <2>6, <2>7, TableStep DEF TableInv
  <1> QED  BY <1>3, <1>4

LEMMA PongOK ==
    ASSUME TableInv, DatagramConstants, NEW n \in Node, NEW d \in net, Intact(d.data), d.to = Seen[n],
           d.data.rlpx[1] = "pong", OnPong(n, Recovered(d.data), d.data.rlpx[2]), now' = now
    PROVE  TableInv'
  <1>1. PICK from, items : /\ from \in Node /\ from = d.from /\ items = d.data.rlpx[2] /\ Recovered(d.data) = from
                            /\ Genuine(from, Seen[n], "pong", items)
    BY IntactIsGenuine DEF TableInv
  <1>2. PICK to : to = PongIn(items).destination
    OBVIOUS
  <1>3. to.udp = Seen[n].udp /\ to.address = Seen[n].address
    <2>1. Seen[n].udp # 0
      BY DEF DatagramConstants
    <2>2. PICK e, echo, ts : items = <<e, echo, ts>> /\ Seen[n] = [address |-> e.address, udp |-> e.udp]
      BY <1>1, <2>1 DEF Genuine
    <2>3. to = e
      BY <1>2, <2>2 DEF PongIn
    <2>4. Seen[n].udp = e.udp /\ Seen[n].address = e.address
      BY <2>2
    <2> QED  BY <2>3, <2>4
  <1>4. PICK o : o = own[n] /\ OwnOK(n, o)
    BY DEF TableInv
  <1>5. PICK address \in {to.address, o.address} : own' = [own EXCEPT ![n].udp = to.udp, ![n].address = address]
    BY <1>1, <1>2, <1>4 DEF OnPong, TableInv
  <1> DEFINE new == [address |-> address, udp |-> to.udp, tcp |-> Local[n].tcp]
  <1>6. [[o EXCEPT !.udp = to.udp] EXCEPT !.address = address] = new
    <2>1. [o EXCEPT !.udp = to.udp] = [address |-> o.address, udp |-> to.udp, tcp |-> Local[n].tcp]
      BY <1>4 DEF OwnOK
    <2>2. [[address |-> o.address, udp |-> to.udp, tcp |-> Local[n].tcp] EXCEPT !.address = address] = new
      OBVIOUS
    <2>3. QED
      BY <2>1, <2>2, Zenon
  <1>7. own' = [own EXCEPT ![n] = new]
    <2>1. own' = [own EXCEPT ![n] = [[o EXCEPT !.udp = to.udp] EXCEPT !.address = address]]
      BY <1>4, <1>5 DEF TableInv
    <2> QED  BY <1>6, <2>1
  <1>8. OwnOK(n, new)
    BY <1>3, <1>4 DEF OwnOK
  <1> HIDE DEF new
  <1>9. DOMAIN own' = Node /\ own'[n] = new /\ \A m \in Node \ {n} : own'[m] = own[m]
    BY <1>7 DEF TableInv
  <1>10. net' = net /\ entries' = entries /\ active' = [active EXCEPT ![n] = @ \cup {from}] /\ from \in DOMAIN entries[n]
    BY <1>1 DEF OnPong, New
  <1>11. DOMAIN active' = Node /\ \A m \in Node : active'[m] \subseteq DOMAIN entries'[m]
    BY <1>10 DEF TableInv
  <1> QED  BY <1>8, <1>9, <1>10, <1>11, TableStep DEF TableInv

LEMMA FindNodeOK ==
    ASSUME TableInv, DatagramConstants, NEW n \in Node, NEW from, NEW items,
           OnFindNode(n, from, items), now' = now
    PROVE  TableInv'
  <1>1. own' = own /\ active' = active /\ entries' = entries
    BY DEF OnFindNode
  <1> DEFINE S == {m \in active[n] : entries[n][m].address \in Public}
  <1>2. PICK nearest \in SetToSeqs(S) : net' = net \cup Neighbours(n, from, nearest)
    BY DEF OnFindNode
  <1>3. S \subseteq active[n]
    OBVIOUS
  <1> HIDE DEF S
  <1>4. \A x \in net' \ net : WasSent(x)
    BY <1>2, <1>3, NeighboursWereSent
  <1> QED  BY <1>1, <1>2, <1>4, TableStep DEF TableInv

LEMMA NeighboursOK ==
    ASSUME TableInv, DatagramConstants, NEW n \in Node, NEW d \in net, Intact(d.data),
           d.data.rlpx[1] = "neighbours", OnNeighbours(n, Recovered(d.data), d.data.rlpx[2]), now' = now
    PROVE  TableInv'
  <1>1. PICK from, items : /\ from \in Node /\ from = d.from /\ items = d.data.rlpx[2] /\ Recovered(d.data) = from
                            /\ Genuine(from, d.to, "neighbours", items)
    BY IntactIsGenuine DEF TableInv
  <1>2. own' = own /\ active' = active
    BY DEF OnNeighbours
  <1> DEFINE new == {x \in NeighboursIn(items) : New(n, x.id) /\ IsEndpoint(x.endpoint)}
             all == [m \in DOMAIN entries[n] \cup {x.id : x \in new} |->
                        IF New(n, m) THEN (CHOOSE x \in new : x.id = m).endpoint ELSE entries[n][m]]
  <1>3. ASSUME NEW x \in new PROVE x.id \in Modern /\ x.endpoint = EndpointOf(x.id)
    <2>1. PICK list, ts : items = <<list, ts>> /\ \A i \in ToSet(list) :
                             /\ i[4] \in Modern
                             /\ [address |-> i[1], udp |-> i[2], tcp |-> i[3]] = EndpointOf(i[4])
      BY <1>1 DEF Genuine
    <2>2. items[1] = list /\ Len(items) = 2
      BY <2>1
    <2>3. PICK i \in ToSet(list) : x = [id |-> i[4], endpoint |-> [address |-> i[1], udp |-> i[2], tcp |-> i[3]]]
      BY <2>2 DEF NeighboursIn
    <2> QED  BY <2>1, <2>3
  <1>4. EntriesOK(all) /\ DOMAIN entries[n] \subseteq DOMAIN all
    <2>1. ASSUME NEW m \in DOMAIN all PROVE m \in Modern /\ all[m] = EndpointOf(m)
      <3>1. CASE m \in DOMAIN entries[n]
        <4>1. all[m] = entries[n][m]
          BY <3>1 DEF New
        <4> QED  BY <3>1, <4>1 DEF TableInv, EntriesOK
      <3>2. CASE m \notin DOMAIN entries[n]
        <4>1. \E x \in new : x.id = m
          BY <2>1, <3>2
        <4>2. PICK x : x = CHOOSE y \in new : y.id = m
          OBVIOUS
        <4>3. x \in new /\ x.id = m
          BY <4>1, <4>2
        <4>4. all[m] = x.endpoint
          BY <3>2, <4>2 DEF New
        <4> QED  BY <1>3, <4>3, <4>4
      <3> QED  BY <3>1, <3>2
    <2> QED  BY <2>1 DEF EntriesOK
  <1>5. CASE UNCHANGED <<entries, net>>
    BY <1>2, <1>5, TableStep DEF TableInv
  <1>6. CASE /\ entries' = Set(entries, n, all)
             /\ net' = net \cup UNION {Ping(n, x.endpoint) : x \in new}
    <2> HIDE DEF all, new
    <2>1. \A x \in net' \ net : WasSent(x)
      BY <1>6, PingWasSent
    <2>2. entries' = [entries EXCEPT ![n] = all]
      BY <1>6 DEF Set
    <2>3. DOMAIN entries' = Node /\ \A m \in Node : EntriesOK(entries'[m]) /\ active'[m] \subseteq DOMAIN entries'[m]
      BY <1>2, <1>4, <2>2 DEF TableInv
    <2> QED  BY <1>2, <1>6, <2>1, <2>3, TableStep DEF TableInv
  <1> QED  BY <1>1, <1>5, <1>6 DEF OnNeighbours

LEMMA ReceiveOK ==
    ASSUME TableInv, DatagramConstants, NEW n \in Node, NEW d \in net, Receive(n, d)
    PROVE  TableInv'
  <1>1. d.to = Seen[n] /\ Intact(d.data) /\ now' = now
    BY DEF Receive
  <1>2. PICK type : type = d.data.rlpx[1]
    OBVIOUS
  <1>3. type \in {"ping", "pong", "find", "neighbours"}
    <2>1. Genuine(d.from, d.to, type, d.data.rlpx[2])
      BY <1>1, <1>2, IntactIsGenuine DEF TableInv
    <2> QED  BY <2>1 DEF Genuine
  <1>4. CASE type = "ping"
    BY <1>1, <1>2, <1>4, PingOK DEF Receive
  <1>5. CASE type = "pong"
    BY <1>1, <1>2, <1>5, PongOK DEF Receive
  <1>6. CASE type = "find"
    BY <1>1, <1>2, <1>6, FindNodeOK DEF Receive
  <1>7. CASE type = "neighbours"
    BY <1>1, <1>2, <1>7, NeighboursOK DEF Receive
  <1> QED  BY <1>3, <1>4, <1>5, <1>6, <1>7

LEMMA TableNextInv == ASSUME DatagramConstants, TableInv, [TableNext]_tableVars PROVE TableInv'
  <1>1. ASSUME NEW n \in Node, NEW m \in Node, AddNode(n, m) PROVE TableInv'
    <2>1. m \in Modern
      <3>1. <<n, m>> \in Told /\ n \in Modern
        BY <1>1 DEF AddNode, Modern
      <3>2. \A t \in Told : t[1] \in Modern => t[2] \in Modern
        BY DEF DatagramConstants, Modern
      <3> QED  BY <3>1, <3>2
    <2>2. /\ entries' = Added(n, m, EndpointOf(m)) /\ net' = net \cup PingsFor(n, m, EndpointOf(m))
          /\ own' = own /\ active' = active /\ now' = now
      BY <1>1 DEF AddNode
    <2>3. \A x \in net' \ net : WasSent(x)
      BY <2>2, PingWasSent DEF PingsFor
    <2>4. DOMAIN entries' = Node /\ \A k \in Node : EntriesOK(entries'[k]) /\ active'[k] \subseteq DOMAIN entries'[k]
      BY <2>1, <2>2, AddedOK
    <2> QED  BY <2>2, <2>3, <2>4, TableStep DEF TableInv
  <1>2. ASSUME NEW n \in Node, NEW m \in Node, OldPing(n, m) \/ Ask(n, m, n) PROVE TableInv'
    <2>1. own' = own /\ entries' = entries /\ active' = active /\ now' = now /\ net \subseteq net'
      BY <1>2 DEF OldPing, Ask
    <2>2. \A x \in net' \ net : WasSent(x)
      BY <1>2, PingWasSent, FindNodeWasSent DEF OldPing, Ask
    <2> QED  BY <2>1, <2>2, TableStep DEF TableInv
  <1>3. ASSUME NEW n \in Node, NEW d \in net, Receive(n, d) PROVE TableInv'
    BY <1>3, ReceiveOK
  <1>4. ASSUME NEW d \in net, Damage(d) PROVE TableInv'
    <2>1. own' = own /\ entries' = entries /\ active' = active /\ now' = now
      BY <1>4 DEF Damage
    <2>2. WasSent(d)
      BY DEF TableInv
    <2>3. \A x \in net' : x \in net \/ WasSent(x)
      <3>1. PICK data \in {[d.data EXCEPT !.hash = NoHash], [d.data EXCEPT !.sig.of = NoHash],
                           [d.data EXCEPT !.rlpx = <<@[1], <<>>>>]} : net' = net \cup {[d EXCEPT !.data = data]}
        BY <1>4 DEF Damage
      <3>2. WasSent([d EXCEPT !.data = data])
        BY <2>2, <3>1, DamageWasSent
      <3> QED  BY <3>1, <3>2
    <2>4. \A x \in net' : WasSent(x)
      BY <2>3 DEF TableInv
    <2> QED  BY <2>1, <2>4 DEF TableInv
  <1>5. CASE Tick
    <2>1. net' = net /\ own' = own /\ entries' = entries /\ active' = active /\ now' = now + 1
      BY <1>5 DEF Tick
    <2> QED  BY <2>1 DEF TableInv
  <1>6. CASE UNCHANGED tableVars
    <2>1. net' = net /\ own' = own /\ entries' = entries /\ active' = active /\ now' = now
      BY <1>6 DEF tableVars
    <2> QED  BY <2>1 DEF TableInv
  <1> QED  BY <1>1, <1>2, <1>3, <1>4, <1>5, <1>6 DEF TableNext

\* A node table has entries of nodes only, each where that node can be reached,
\* and a node is seen at, or was started with, what it thinks its endpoint is,
\* whatever datagrams were damaged, delayed and repeated (RLPXDatagramFace's
\* streamRLP and interpretRLP, NodeTable::onReceived).
THEOREM AlwaysEndpointsAreTrue ==
    ASSUME DatagramConstants PROVE TableSpec => []EndpointsAreTrue
  <1>1. TableInit => TableInv
    <2> SUFFICES ASSUME TableInit PROVE TableInv
      OBVIOUS
    <2>1. \A n \in Node : OwnOK(n, Local[n])
      BY DEF OwnOK, DatagramConstants
    <2>2. \A n \in Node : own[n] = Local[n] /\ EntriesOK(entries[n]) /\ active[n] \subseteq DOMAIN entries[n]
      BY DEF TableInit, EntriesOK
    <2>3. \A d \in net : WasSent(d)
      BY DEF TableInit
    <2>4. DOMAIN own = Node /\ DOMAIN entries = Node /\ DOMAIN active = Node /\ now \in Nat /\ now >= 1
      BY DEF TableInit, DatagramConstants
    <2> QED  BY <2>1, <2>2, <2>3, <2>4 DEF TableInv
  <1>2. TableInv => EndpointsAreTrue
    BY DEF TableInv, OwnOK, EntriesOK, EndpointsAreTrue, Modern
  <1>3. TableInv /\ [TableNext]_tableVars => TableInv'
    BY TableNextInv
  <1> QED  BY <1>1, <1>2, <1>3, PTL DEF TableSpec

-----------------------------------------------------------------------------
(* Lookups: nearestNodeEntries, doDiscover and doDiscovery.                *)

LEMMA DistanceRange ==
    ASSUME DiscoveryConstants, NEW a, NEW b
    PROVE  distance(a, b) \in Nat /\ (distance(a, b) = 0 \/ distance(a, b) <= Bins)
  <1> DEFINE S == {0} \cup {i \in 1 .. Bits - 1 : a \div 2 ^ i # b \div 2 ^ i}
  <1>1. Bits \in Nat
    BY DEF DiscoveryConstants
  <1>2. S \in SUBSET Nat /\ S # {} /\ (\A y \in S : y <= Bits) /\ \A y \in S : y = 0 \/ y <= Bits - 1
    BY <1>1
  <1> HIDE DEF S
  <1>3. Max(S) \in S
    BY <1>1, <1>2, LargestNumber
  <1>4. distance(a, b) = Max(S)
    BY DEF distance, S
  <1> QED  BY <1>2, <1>3, <1>4 DEF Bins

\* nearestNodeEntries looks at the target's own bucket.
LEMMA OwnBucketVisited ==
    ASSUME DiscoveryConstants, NEW head \in Nat, head >= 2, head <= Bins
    PROVE  head - 1 \in Visited(head)
  <1>1. Bins \in Int
    BY DEF Bins, DiscoveryConstants
  <1>2. CASE head - 1 = Bins - 1
    BY <1>1, <1>2 DEF Visited
  <1>3. CASE head - 1 # Bins - 1
    BY <1>1, <1>3 DEF Visited
  <1> QED  BY <1>2, <1>3

LEMMA SearchSound == ASSUME DiscoveryConstants, table \subseteq Id PROVE OwnBucketFound
  <1> SUFFICES ASSUME NEW target \in Target, NEW r \in Nearest(target),
                      NEW n \in Bucket(distance(Me, target) - 1) \ (Denied \cup r),
                      distance(Me, target) >= 2
               PROVE  /\ Cardinality(r) = BucketSize
                      /\ \A o \in r : distance(target, o) <= distance(target, n)
    BY DEF OwnBucketFound
  <1> DEFINE head == distance(Me, target)
             found == (UNION {Bucket(i) : i \in Visited(head)}) \ Denied
             size == Least(BucketSize, Cardinality(found))
  <1>1. head - 1 \in Visited(head)
    BY DistanceRange, OwnBucketVisited
  <1>2. n \in found \ r
    <2>1. n \in Bucket(head - 1) /\ n \notin Denied /\ n \notin r
      OBVIOUS
    <2>2. n \in UNION {Bucket(i) : i \in Visited(head)}
      <3> HIDE DEF head
      <3> QED  BY <1>1, <2>1
    <2> QED  BY <2>1, <2>2
  <1>3. r \in kSubset(size, found) /\ \A m \in r, o \in found \ r : distance(target, m) <= distance(target, o)
    BY DEF Nearest
  <1> HIDE DEF found
  <1>4. r \subseteq found /\ Cardinality(r) = size
    BY <1>3 DEF kSubset
  <1>5. found \subseteq Id
    BY DEF found, Bucket
  <1>6. IsFiniteSet(found) /\ BucketSize \in Nat
    BY <1>5, FS_Subset DEF DiscoveryConstants
  <1>7. Cardinality(r) # Cardinality(found)
    BY <1>2, <1>4, <1>6, FS_Subset
  <1>8. size = BucketSize
    BY <1>4, <1>7 DEF Least
  <1> QED  BY <1>2, <1>3, <1>4, <1>8

\* There is one callback, and a round has tried whomever the lookup has asked.
Rounds == [at : {"round"}, target : Target, round : Nat, tried : SUBSET Id]

Tried(c) == c = Refresh \/ (c \in Rounds /\ \A n \in Id : asks[n] # 0 => n \in c.tried)

LookupInv ==
    /\ table \subseteq Id
    /\ asks \in [Id -> 0 .. 1]
    /\ \E c : lookups \subseteq {c} /\ Tried(c)

\* doDiscover goes on with one callback, and asks those it has not tried.
LEMMA DiscoverInv ==
    ASSUME DiscoveryConstants, NEW callback, table \subseteq Id, lookups \subseteq {callback},
           NEW target \in Target, NEW round \in Nat, NEW tried \in SUBSET Id,
           NEW before \in [Id -> 0 .. 1], \A n \in Id : before[n] # 0 => n \in tried,
           Discover(callback, target, round, tried, before)
    PROVE  asks' \in [Id -> 0 .. 1] /\ \E c : lookups' \subseteq {c} /\ Tried(c)'
  <1>1. CASE round = MaxSteps
    <2>1. lookups' = (lookups \ {callback}) \cup {Refresh} /\ asks' = before
      BY <1>1 DEF Discover, Replaced
    <2>2. lookups' \subseteq {Refresh}
      BY <2>1
    <2> QED  BY <2>1, <2>2 DEF Tried
  <1>2. CASE round # MaxSteps
    <2>1. PICK nearest \in Nearest(target) : \E ask \in Asked(nearest, tried, target) :
            /\ asks' = [n \in Id |-> before[n] + IF n \in ask THEN 1 ELSE 0]
            /\ Replaced(callback, IF ask = {} THEN {Refresh} ELSE {Round(target, round + 1, tried \cup ask)})
      BY <1>2 DEF Discover
    <2>2. PICK ask \in Asked(nearest, tried, target) :
            /\ asks' = [n \in Id |-> before[n] + IF n \in ask THEN 1 ELSE 0]
            /\ Replaced(callback, IF ask = {} THEN {Refresh} ELSE {Round(target, round + 1, tried \cup ask)})
      BY <2>1
    <2>3. nearest \subseteq Id
      <3>1. nearest \subseteq UNION {Bucket(i) : i \in Visited(distance(Me, target))}
        BY DEF Nearest, kSubset
      <3> QED  BY <3>1 DEF Bucket
    <2>4. ask \subseteq nearest \ tried
      BY DEF Asked, kSubset
    <2>5. asks' \in [Id -> 0 .. 1]
      BY <2>2, <2>4
    <2>6. \A n \in Id : asks'[n] # 0 => n \in tried \cup ask
      BY <2>2
    <2>7. CASE ask = {}
      <3>1. lookups' \subseteq {Refresh}
        BY <2>2, <2>7 DEF Replaced
      <3> QED  BY <2>5, <3>1 DEF Tried
    <2>8. CASE ask # {}
      <3> DEFINE c == Round(target, round + 1, tried \cup ask)
      <3>1. lookups' \subseteq {c}
        BY <2>2, <2>8 DEF Replaced
      <3>2. c \in Rounds /\ c.tried = tried \cup ask
        BY <2>3, <2>4 DEF Round, Rounds
      <3> HIDE DEF c
      <3>3. Tried(c)'
        BY <2>6, <3>2 DEF Tried
      <3> QED  BY <2>5, <3>1, <3>3
    <2> QED  BY <2>7, <2>8
  <1> QED  BY <1>1, <1>2

LEMMA RoundIsNotRefresh == ASSUME NEW c \in Rounds PROVE c # Refresh /\ c.at = "round" /\ Refresh.at # "round"
  BY DEF Rounds, Refresh

LEMMA LookupStep ==
    ASSUME DiscoveryConstants, LookupInv, DiscoveryNext PROVE LookupInv'
  <1>1. PICK c : lookups \subseteq {c} /\ Tried(c)
    BY DEF LookupInv
  <1>2. table \subseteq Id /\ asks \in [Id -> 0 .. 1]
    BY DEF LookupInv
  <1>3. NoAsks \in [Id -> 0 .. 1] /\ \A n \in Id : NoAsks[n] = 0
    BY DEF NoAsks
  <1>4. ASSUME NEW target \in Target, NewLookup(target) PROVE LookupInv'
    <2>1. lookups \subseteq {Refresh} /\ UNCHANGED table
      BY <1>1, <1>4 DEF NewLookup
    <2>2. CASE socketOpen
      <3>1. Discover(Refresh, target, 0, {}, NoAsks)
        BY <1>4, <2>2 DEF NewLookup
      <3> QED  BY <1>2, <1>3, <2>1, <3>1, DiscoverInv DEF LookupInv
    <2>3. CASE ~socketOpen
      <3>1. lookups' \subseteq {Refresh} /\ UNCHANGED asks
        BY <1>4, <2>1, <2>3 DEF NewLookup, Replaced
      <3> QED  BY <1>2, <2>1, <3>1 DEF LookupInv, Tried
    <2> QED  BY <2>2, <2>3
  <1>5. ASSUME NEW callback \in lookups, NextRound(callback) PROVE LookupInv'
    <2>1. callback = c /\ c \in Rounds /\ UNCHANGED table /\ \A n \in Id : asks[n] # 0 => n \in c.tried
      BY <1>1, <1>5, RoundIsNotRefresh DEF NextRound, Tried, Refresh
    <2>2. c.target \in Target /\ c.round \in Nat /\ c.tried \in SUBSET Id
      BY <2>1 DEF Rounds
    <2>3. CASE socketOpen
      <3>1. Discover(c, c.target, c.round, c.tried, asks)
        BY <1>5, <2>1, <2>3 DEF NextRound
      <3> QED  BY <1>1, <1>2, <2>1, <2>2, <3>1, DiscoverInv DEF LookupInv
    <2>4. CASE ~socketOpen
      <3>1. lookups' \subseteq {c} /\ UNCHANGED asks
        BY <1>1, <1>5, <2>4 DEF NextRound, Replaced
      <3> QED  BY <1>1, <1>2, <2>1, <3>1 DEF LookupInv, Tried
    <2> QED  BY <2>3, <2>4
  <1>6. ASSUME NEW n \in Id, AddEntry(n) PROVE LookupInv'
    BY <1>1, <1>2, <1>6 DEF AddEntry, LookupInv, Tried
  <1>7. ASSUME NEW n \in Id, DropEntry(n) PROVE LookupInv'
    <2> DEFINE Without(b) == IF b.at = "round" THEN [b EXCEPT !.tried = @ \ {n}] ELSE b
               d == Without(c)
    <2>1. lookups' = {Without(b) : b \in lookups} /\ table' = table \ {n} /\ asks' = [asks EXCEPT ![n] = 0]
      BY <1>7 DEF DropEntry
    <2>2. lookups' \subseteq {d}
      BY <1>1, <2>1
    <2>3. asks' \in [Id -> 0 .. 1] /\ asks'[n] = 0 /\ \A m \in Id : m # n => asks'[m] = asks[m]
      BY <1>2, <2>1
    <2>4. CASE c = Refresh
      <3>1. d = Refresh
        BY <2>4 DEF Refresh
      <3> QED  BY <1>2, <2>1, <2>2, <2>3, <3>1 DEF LookupInv, Tried
    <2>5. CASE c \in Rounds /\ \A m \in Id : asks[m] # 0 => m \in c.tried
      <3>1. d \in Rounds /\ d.tried = c.tried \ {n}
        BY <2>5 DEF Rounds
      <3> HIDE DEF d
      <3>2. Tried(d)'
        BY <2>3, <2>5, <3>1 DEF Tried
      <3> QED  BY <1>2, <2>1, <2>2, <2>3, <3>2 DEF LookupInv
    <2> QED  BY <1>1, <2>4, <2>5 DEF Tried
  <1>8. ASSUME Close PROVE LookupInv'
    BY <1>1, <1>2, <1>8 DEF Close, LookupInv, Tried
  <1>9. ASSUME NEW callback, LookupAborted(callback) PROVE LookupInv'
    <2>1. lookups' \subseteq {c} /\ UNCHANGED <<table, asks>>
      BY <1>1, <1>9 DEF LookupAborted, Replaced
    <2> QED  BY <1>1, <1>2, <2>1 DEF LookupInv, Tried
  <1> QED  BY <1>4, <1>5, <1>6, <1>7, <1>8, <1>9 DEF DiscoveryNext, Timers

THEOREM AlwaysLookupsSound == ASSUME DiscoveryConstants PROVE DiscoverySpec => []LookupsSound
  <1>1. DiscoveryInit => LookupInv
    <2> SUFFICES ASSUME DiscoveryInit PROVE LookupInv
      OBVIOUS
    <2>1. table = {} /\ lookups = {Refresh} /\ asks = NoAsks
      BY DEF DiscoveryInit
    <2> QED  BY <2>1 DEF LookupInv, Tried, NoAsks
  <1>2. LookupInv /\ [DiscoveryNext]_discoveryVars => LookupInv'
    <2>1. LookupInv /\ DiscoveryNext => LookupInv'
      BY LookupStep
    <2>2. LookupInv /\ UNCHANGED discoveryVars => LookupInv'
      BY DEF LookupInv, Tried, discoveryVars
    <2> QED  BY <2>1, <2>2
  <1>3. LookupInv => LookupsSound
    <2> SUFFICES ASSUME LookupInv PROVE LookupsSound
      OBVIOUS
    <2>1. SingleLookup
      <3>1. PICK c : lookups \subseteq {c}
        BY DEF LookupInv
      <3>2. IsFiniteSet({c}) /\ Cardinality({c}) = 1
        BY FS_Singleton
      <3>3. Cardinality(lookups) <= Cardinality({c})
        BY <3>1, <3>2, FS_Subset
      <3> QED  BY <3>2, <3>3 DEF SingleLookup
    <2>2. AskedOnce
      BY DEF LookupInv, AskedOnce
    <2>3. OwnBucketFound
      BY SearchSound DEF LookupInv
    <2> QED  BY <2>1, <2>2, <2>3 DEF LookupsSound
  <1> QED  BY <1>1, <1>2, <1>3, PTL DEF DiscoverySpec

-----------------------------------------------------------------------------
(* The endpoints that hosts tell: determinePublic behind a router.         *)

\* The router redirects to addresses that are not a machine's own name for
\* itself.
RouterOK ==
    /\ router = [e \in DOMAIN router |-> router[e]]
    /\ \A e \in DOMAIN router : ~isLocalHostAddress(router[e].address)

\* Each host has its own.
Own == /\ prefs = [n \in Machine |-> prefs[n]]
       /\ acceptor = [n \in Machine |-> acceptor[n]]
       /\ public = [n \in Machine |-> public[n]]

PublicInv == RouterOK /\ Own /\ PublicReaches

\* What the router may have after a request: what it had of all other addresses.
Keeps(redirs, a) ==
    /\ redirs = [e \in DOMAIN redirs |-> redirs[e]]
    /\ \A e \in DOMAIN router : router[e].address # a => e \in DOMAIN redirs /\ redirs[e] = router[e]
    /\ \A e \in DOMAIN redirs : redirs[e].address = a \/ (e \in DOMAIN router /\ redirs[e] = router[e])

LEMMA MappedKeeps ==
    ASSUME RouterOK, NEW a, NEW port, NEW ext, NEW t \in Mapped(router, ext, Endpoint(a, port))
    PROVE  Keeps(t, a) /\ ext \in DOMAIN t /\ t[ext] = Endpoint(a, port)
  <1> DEFINE to == Endpoint(a, port)
             u == [e \in DOMAIN router \cup {ext} |-> IF e = ext THEN to ELSE router[e]]
  <1>1. to.address = a
    BY DEF Endpoint
  <1>2. t = u /\ (ext \in DOMAIN router => router[ext].address = a)
    BY <1>1 DEF Mapped
  <1>3. DOMAIN t = DOMAIN router \cup {ext} /\ \A e \in DOMAIN t : t[e] = IF e = ext THEN to ELSE router[e]
    BY <1>2
  <1>4. t = [e \in DOMAIN t |-> t[e]]
    BY <1>2
  <1> HIDE DEF to, u
  <1> QED  BY <1>1, <1>2, <1>3, <1>4 DEF Keeps, to

LEMMA RedirectKeeps ==
    ASSUME RouterOK, ~Picks, NEW a, NEW port, NEW r \in addRedirect(Endpoint(a, port))
    PROVE  /\ Keeps(r.table, a)
           /\ r.port # 0 => r.port \in DOMAIN r.table /\ r.table[r.port] = Endpoint(a, port)
  <1> DEFINE to == Endpoint(a, port)
             same == {[table |-> t, port |-> to.port] : t \in Mapped(router, to.port, to)}
             other == UNION {{[table |-> t, port |-> ext] : t \in Mapped(router, ext, to)} : ext \in RandomPort}
             tables == UNION {Mapped(router, ext, to) : ext \in IF Picks THEN RandomPort ELSE {}}
             picked == UNION {{[table |-> Unmapped(t, found), port |-> found] : found \in DOMAIN t} : t \in tables}
  <1>1. CASE r \in same
    <2>1. PICK t \in Mapped(router, to.port, to) : r = [table |-> t, port |-> to.port]
      BY <1>1
    <2> QED  BY <2>1, MappedKeeps
  <1>2. CASE r \in other
    <2>1. PICK ext \in RandomPort : \E t \in Mapped(router, ext, to) : r = [table |-> t, port |-> ext]
      BY <1>2
    <2>2. PICK t \in Mapped(router, ext, to) : r = [table |-> t, port |-> ext]
      BY <2>1
    <2> QED  BY <2>2, MappedKeeps
  <1>3. CASE r = [table |-> router, port |-> 0]
    BY <1>3 DEF Keeps, RouterOK
  <1>4. tables = {}
    OBVIOUS
  <1>5. r \notin picked
    <2> HIDE DEF tables
    <2> QED  BY <1>4
  <1>6. addRedirect(to) = same \cup other \cup picked \cup {[table |-> router, port |-> 0]}
    BY Zenon DEF addRedirect
  <1> HIDE DEF to, same, other, picked
  <1>7. r \in addRedirect(to)
    BY DEF to
  <1> QED  BY <1>1, <1>2, <1>3, <1>5, <1>6, <1>7

LEMMA NATRecord ==
    ASSUME NEW S, NEW port, NEW r \in traverseNAT(S, port), NEW ep
    PROVE  /\ [r EXCEPT !.ep = ep].table = r.table
           /\ [r EXCEPT !.ep = ep].ep = ep
  BY DEF traverseNAT

LEMMA NATKeeps ==
    ASSUME RouterOK, ~Picks, NEW S, NEW port, NEW r \in traverseNAT(S, port)
    PROVE  \/ r.table = router /\ r.ep = Nowhere
           \/ \E a \in S : /\ isPrivateAddress(a) /\ Keeps(r.table, a)
                           /\ \/ r.ep = Nowhere
                              \/ /\ r.ep.address = External /\ r.ep.port \in DOMAIN r.table
                                 /\ r.table[r.ep.port] = Endpoint(a, port)
  <1> DEFINE private == {a \in S : Len(a) = 4 /\ isPrivateAddress(a)}
             tries == UNION {addRedirect(Endpoint(a, port)) : a \in private}
             Answer(q) == [table |-> q.table,
                         ep |-> IF q.port # 0 /\ External # AnyAddress /\ ~isPrivateAddress(External)
                                THEN Endpoint(External, q.port) ELSE Nowhere]
  <1>1. r \in {Answer(q) : q \in tries} \/ r = [table |-> router, ep |-> Nowhere]
    BY DEF traverseNAT
  <1>2. CASE r \in {Answer(q) : q \in tries}
    <2>1. PICK q \in tries : r = Answer(q)
      BY <1>2
    <2>2. PICK a \in private : q \in addRedirect(Endpoint(a, port))
      BY <2>1
    <2>3. /\ Keeps(q.table, a)
          /\ q.port # 0 => q.port \in DOMAIN q.table /\ q.table[q.port] = Endpoint(a, port)
      BY <2>2, RedirectKeeps
    <2>4. r.table = q.table /\ (r.ep = Nowhere \/ (q.port # 0 /\ r.ep = Endpoint(External, q.port)))
      BY <2>1
    <2>5. r.ep = Endpoint(External, q.port) => r.ep.address = External /\ r.ep.port = q.port
      BY DEF Endpoint
    <2> QED  BY <2>2, <2>3, <2>4, <2>5
  <1> QED  BY <1>1, <1>2

\* Where a redirection leads, and what determinePublic has told of a host.
Reaches(n, redirs, ep, listen, port) ==
    \E a \in Interface[n] :
       /\ \/ ep = Endpoint(a, port) /\ isPublicAddress(a)
          \/ /\ ep.address = External /\ ep.port \in DOMAIN redirs
             /\ redirs[ep.port] = Endpoint(a, port) /\ ~isLocalHostAddress(a)
       /\ listen \in {AnyAddress, a}

LEMMA DeterminedReaches ==
    ASSUME RouterOK, ~Picks, NEW n \in Machine, NEW pref \in Preferences(n), NEW port,
           NEW d \in Determined(n, pref, port)
    PROVE  /\ d.table = router \/ \E a \in Addresses(n) : Keeps(d.table, a)
           /\ /\ d.ep.address # AnyAddress
              /\ pref.public # AnyAddress => pref.listen = AnyAddress /\ pref.public \in Interface[n]
              => Reaches(n, d.table, d.ep, pref.listen, port)
  <1> DEFINE lset == pref.listen # AnyAddress
             pset == pref.public # AnyAddress
             S == IF lset THEN {pref.listen} ELSE Addresses(n)
             listenIsPublic == lset /\ isPublicAddress(pref.listen)
             publicIsHost == ~lset /\ pset /\ pref.public \in Addresses(n)
             behind == traverseNAT(S, port)
             T(r) == [r EXCEPT !.ep = IF pset THEN Endpoint(pref.public, @.port) ELSE @]
  <1>1. /\ pref.listen \in Addresses(n) \cup {AnyAddress}
        /\ pset => isPublicAddress(pref.public)
        /\ pref.traverseNAT \in BOOLEAN
    BY DEF Preferences
  <1>2. S \subseteq Addresses(n) /\ Addresses(n) \subseteq Interface[n] /\ \A a \in Addresses(n) : ~isLocalHostAddress(a)
    BY <1>1 DEF Addresses
  <1>3. pset /\ pref.public \in Interface[n] => pref.public \in Addresses(n)
    BY <1>1 DEF Addresses, isPublicAddress
  <1>4. Endpoint(pref.public, port).address = pref.public /\ Endpoint(pref.listen, port).address = pref.listen
    BY DEF Endpoint
  <1>5. CASE ~pref.traverseNAT
    <2>1. d = [table |-> router, ep |-> Endpoint(pref.public, port)]
      BY <1>5 DEF Determined
    <2> QED  BY <2>1, <1>1, <1>4 DEF Reaches
  <1>6. CASE pref.traverseNAT /\ listenIsPublic
    <2>1. d = [table |-> router, ep |-> Endpoint(pref.listen, port)]
      BY <1>6 DEF Determined
    <2> QED  BY <2>1, <1>1, <1>2, <1>6 DEF Reaches
  <1>7. CASE pref.traverseNAT /\ publicIsHost
    <2>1. d = [table |-> router, ep |-> Endpoint(pref.public, port)]
      BY <1>7 DEF Determined
    <2> QED  BY <2>1, <1>1, <1>2, <1>7 DEF Reaches
  <1>8. CASE pref.traverseNAT /\ ~listenIsPublic /\ ~publicIsHost
    <2>1. d \in {T(r) : r \in behind}
      BY <1>8 DEF Determined
    <2>2. PICK r \in behind : d = T(r)
      BY <2>1
    <2>3. \/ r.table = router /\ r.ep = Nowhere
          \/ \E a \in S : /\ isPrivateAddress(a) /\ Keeps(r.table, a)
                          /\ \/ r.ep = Nowhere
                             \/ /\ r.ep.address = External /\ r.ep.port \in DOMAIN r.table
                                /\ r.table[r.ep.port] = Endpoint(a, port)
      BY NATKeeps
    <2>4. d.table = r.table /\ (~pset => d.ep = r.ep)
      BY <2>2, NATRecord
    <2>5. Nowhere.address = AnyAddress
      BY DEF Nowhere, Endpoint
    <2>6. pset => ~(pref.listen = AnyAddress /\ pref.public \in Interface[n])
      BY <1>3, <1>8
    <2>7. d.table = router \/ \E a \in Addresses(n) : Keeps(d.table, a)
      BY <2>3, <2>4, <1>2
    <2>8. ASSUME ~pset, d.ep.address # AnyAddress PROVE Reaches(n, d.table, d.ep, pref.listen, port)
      <3>1. PICK a \in S : /\ d.ep.address = External /\ d.ep.port \in DOMAIN d.table
                           /\ d.table[d.ep.port] = Endpoint(a, port)
        BY <2>3, <2>4, <2>5, <2>8
      <3>2. pref.listen \in {AnyAddress, a}
        OBVIOUS
      <3> QED  BY <3>1, <3>2, <1>2 DEF Reaches
    <2> QED  BY <2>6, <2>7, <2>8
  <1> QED  BY <1>1, <1>5, <1>6, <1>7, <1>8

\* A host that runs is reached at what it tells, if that is an address of its own.
Reached(n) ==
    /\ acceptor[n] # <<>> /\ public[n].address # AnyAddress /\ ~Picks
    /\ prefs[n].public # AnyAddress => /\ prefs[n].listen = AnyAddress
                                      /\ prefs[n].public \in Interface[n]
    => \E a \in Interface[n] :
          /\ Arrives(public[n], n, Endpoint(a, acceptor[n][1].port))
          /\ acceptor[n][1].address \in {AnyAddress, a}

LEMMA OthersKeep ==
    ASSUME PublicInv, EndpointConstants, NEW m \in Machine, NEW a \in Addresses(m), NEW n \in Machine, n # m,
           RouterOK', Keeps(router', a), UNCHANGED <<prefs[n], acceptor[n], public[n]>>
    PROVE  Reached(n)'
  <1> SUFFICES ASSUME acceptor[n] # <<>>, public[n].address # AnyAddress, ~Picks,
                      prefs[n].public # AnyAddress => /\ prefs[n].listen = AnyAddress
                                                       /\ prefs[n].public \in Interface[n]
               PROVE  \E b \in Interface[n] :
                         /\ Arrives(public[n], n, Endpoint(b, acceptor[n][1].port))'
                         /\ acceptor[n][1].address \in {AnyAddress, b}
    BY DEF Reached
  <1>1. PICK b \in Interface[n] : /\ Arrives(public[n], n, Endpoint(b, acceptor[n][1].port))
                                  /\ acceptor[n][1].address \in {AnyAddress, b}
    BY DEF PublicInv, PublicReaches
  <1> DEFINE place == Endpoint(b, acceptor[n][1].port)
  <1>2. place.address = b
    BY DEF Endpoint
  <1>3. place' = place
    BY DEF Endpoint
  <1>4. CASE public[n] = place /\ isPublicAddress(place.address)
    BY <1>1, <1>2, <1>3, <1>4 DEF Arrives
  <1>5. CASE public[n].address = External /\ public[n].port \in DOMAIN router /\ router[public[n].port] = place
    <2>1. ~isLocalHostAddress(b)
      BY <1>2, <1>5 DEF PublicInv, RouterOK
    <2>2. b # a
      BY <2>1 DEF EndpointConstants, Addresses
    <2>3. public[n].port \in DOMAIN router' /\ router'[public[n].port] = place
      BY <1>2, <1>5, <2>2 DEF Keeps
    <2> QED  BY <1>1, <1>2, <1>3, <1>5, <2>3 DEF Arrives
  <1> QED  BY <1>1, <1>4, <1>5 DEF Arrives

LEMMA KeepsRouterOK ==
    ASSUME RouterOK, NEW a, ~isLocalHostAddress(a), Keeps(router', a)
    PROVE  RouterOK'
  BY DEF Keeps, RouterOK

LEMMA StartedWorkingInv ==
    ASSUME PublicInv, EndpointConstants, ~Picks, NEW m \in Machine, NEW pref \in Preferences(m), StartedWorking(m, pref)
    PROVE  PublicInv'
  <1>1. PICK ep \in Listened(pref) :
          /\ acceptor' = [acceptor EXCEPT ![m] = <<ep>>]
          /\ \E d \in Determined(m, pref, ep.port) :
                router' = d.table /\ public' = [public EXCEPT ![m] = d.ep]
    BY DEF StartedWorking
  <1>2. PICK d \in Determined(m, pref, ep.port) : router' = d.table /\ public' = [public EXCEPT ![m] = d.ep]
    BY <1>1
  <1>3. prefs' = [prefs EXCEPT ![m] = pref]
    BY DEF StartedWorking
  <1>4. ep.address = pref.listen
    BY DEF Listened, Endpoint
  <1>5. /\ d.table = router \/ \E a \in Addresses(m) : Keeps(d.table, a)
        /\ /\ d.ep.address # AnyAddress
           /\ pref.public # AnyAddress => pref.listen = AnyAddress /\ pref.public \in Interface[m]
           => Reaches(m, d.table, d.ep, pref.listen, ep.port)
    BY DeterminedReaches DEF PublicInv
  <1>6. Own'
    BY <1>1, <1>2, <1>3 DEF PublicInv, Own
  <1>7. /\ prefs'[m] = pref /\ acceptor'[m] = <<ep>> /\ public'[m] = d.ep
        /\ \A n \in Machine : n # m => UNCHANGED <<prefs[n], acceptor[n], public[n]>>
    BY <1>1, <1>2, <1>3 DEF PublicInv, Own
  <1>8. \A a \in Addresses(m) : ~isLocalHostAddress(a)
    BY DEF Addresses
  <1>9. RouterOK'
    <2>1. CASE d.table = router
      BY <2>1, <1>2 DEF PublicInv, RouterOK
    <2>2. CASE \E a \in Addresses(m) : Keeps(d.table, a)
      BY <2>2, <1>2, <1>8, KeepsRouterOK DEF PublicInv
    <2> QED  BY <2>1, <2>2, <1>5
  <1>10. ASSUME NEW n \in Machine, n # m PROVE Reached(n)'
    <2>1. CASE d.table = router
      <3>1. router' = router /\ UNCHANGED <<prefs[n], acceptor[n], public[n]>>
        BY <2>1, <1>2, <1>7, <1>10
      <3> QED  BY <3>1, <1>10 DEF PublicInv, PublicReaches, Reached, Arrives
    <2>2. CASE \E a \in Addresses(m) : Keeps(d.table, a)
      <3>1. PICK a \in Addresses(m) : Keeps(router', a)
        BY <2>2, <1>2
      <3> QED  BY <3>1, <1>7, <1>9, <1>10, OthersKeep
    <2> QED  BY <2>1, <2>2, <1>5
  <1>11. Reached(m)'
    <2> SUFFICES ASSUME d.ep.address # AnyAddress,
                        pref.public # AnyAddress => pref.listen = AnyAddress /\ pref.public \in Interface[m]
                 PROVE  \E a \in Interface[m] : /\ Arrives(d.ep, m, Endpoint(a, ep.port))'
                                                /\ ep.address \in {AnyAddress, a}
      BY <1>7 DEF Reached
    <2>1. Reaches(m, router', d.ep, pref.listen, ep.port)
      BY <1>2, <1>5
    <2>2. PICK a \in Interface[m] :
             /\ \/ d.ep = Endpoint(a, ep.port) /\ isPublicAddress(a)
                \/ /\ d.ep.address = External /\ d.ep.port \in DOMAIN router'
                   /\ router'[d.ep.port] = Endpoint(a, ep.port) /\ ~isLocalHostAddress(a)
             /\ pref.listen \in {AnyAddress, a}
      BY <2>1 DEF Reaches
    <2>3. Endpoint(a, ep.port).address = a
      BY DEF Endpoint
    <2> QED  BY <2>2, <2>3, <1>4 DEF Arrives
  <1>12. \A n \in Machine : Reached(n)'
    BY <1>10, <1>11
  <1> QED  BY <1>6, <1>9, <1>12 DEF PublicInv, PublicReaches, Reached

LEMMA DoneWorkingInv ==
    ASSUME PublicInv, NEW m \in Machine, DoneWorking(m)
    PROVE  PublicInv'
  <1>1. /\ acceptor' = [acceptor EXCEPT ![m] = <<>>]
        /\ router' = router /\ prefs' = prefs /\ public' = public
    BY DEF DoneWorking
  <1>2. \A n \in Machine : acceptor'[n] = <<>> \/ acceptor'[n] = acceptor[n]
    BY <1>1 DEF PublicInv, Own
  <1>3. RouterOK' /\ Own'
    BY <1>1 DEF PublicInv, RouterOK, Own
  <1>4. \A n \in Machine : Reached(n)'
    BY <1>1, <1>2 DEF PublicInv, PublicReaches, Reached, Arrives
  <1> QED  BY <1>3, <1>4 DEF PublicInv, PublicReaches, Reached

THEOREM AlwaysPublicReaches == ASSUME EndpointConstants PROVE EndpointsSpec => []PublicReaches
  <1>1. EndpointsInit => PublicInv \/ Picks
    BY DEF EndpointsInit, PublicInv, RouterOK, Own, PublicReaches
  <1>2. PublicInv /\ ~Picks /\ [EndpointsNext]_endpointVars => PublicInv'
    <2> SUFFICES ASSUME PublicInv, ~Picks, [EndpointsNext]_endpointVars PROVE PublicInv'
      OBVIOUS
    <2>1. ASSUME NEW m \in Machine, DoneWorking(m) PROVE PublicInv'
      BY <2>1, DoneWorkingInv
    <2>2. ASSUME NEW m \in Machine, NEW pref \in Preferences(m), StartedWorking(m, pref) PROVE PublicInv'
      BY <2>2, StartedWorkingInv
    <2>3. CASE UNCHANGED endpointVars
      BY <2>3 DEF endpointVars, PublicInv, RouterOK, Own, PublicReaches, Arrives
    <2> QED  BY <2>1, <2>2, <2>3 DEF EndpointsNext
  <1>3. CASE ~Picks
    <2>1. PublicInv => PublicReaches
      BY DEF PublicInv
    <2> QED  BY <1>1, <1>2, <1>3, <2>1, PTL DEF EndpointsSpec
  <1>4. CASE Picks
    <2>1. PublicReaches
      BY <1>4 DEF PublicReaches
    <2> QED  BY <2>1, PTL
  <1> QED  BY <1>3, <1>4

-----------------------------------------------------------------------------
(* Capabilities: the types of packets at the two ends of a session.        *)

\* A loop that adds up numbers has a result, of which the function is made.
SumsTo(f, n, b, s) ==
    /\ f \in [0 .. n -> Nat]
    /\ \A i \in 0 .. n : f[i] = IF i = 0 THEN b ELSE f[i - 1] + s[i]

LEMMA SumsExist ==
    ASSUME NEW n \in Nat, NEW b \in Nat, NEW s \in [1 .. n -> Nat]
    PROVE  \E f : SumsTo(f, n, b, s)
  <1> DEFINE T == {k \in 0 .. n : ~\E f : SumsTo(f, k, b, s)}
  <1> DEFINE Found(k) == \E f : SumsTo(f, k, b, s)
  <1>0. n \in 0 .. n /\ (n \notin T => Found(n))
    OBVIOUS
  <1>1. SUFFICES ASSUME T # {} PROVE FALSE
    BY <1>0
  <1>2. T \in SUBSET Nat
    OBVIOUS
  <1>3. PICK k \in T : \A m \in T : k <= m
    <2> HIDE DEF T
    <2> QED  BY <1>1, <1>2, LeastNumber
  <1>4. CASE k = 0
    <2> DEFINE g == [i \in 0 .. 0 |-> b]
    <2>1. SumsTo(g, 0, b, s)
      BY DEF SumsTo
    <2> QED  BY <2>1, <1>4
  <1>5. CASE k # 0
    <2>1. k - 1 \in 0 .. n /\ k - 1 \notin T /\ k \in 1 .. n
      BY <1>3, <1>5
    <2>2. PICK f : SumsTo(f, k - 1, b, s)
      BY <2>1
    <2> DEFINE g == [i \in 0 .. k |-> IF i = k THEN f[k - 1] + s[k] ELSE f[i]]
    <2>3. f \in [0 .. (k - 1) -> Nat] /\ f[k - 1] \in Nat /\ s[k] \in Nat
      BY <2>1, <2>2 DEF SumsTo
    <2>4. ASSUME NEW i \in 0 .. k PROVE g[i] \in Nat /\ g[i] = IF i = 0 THEN b ELSE g[i - 1] + s[i]
      <3>1. CASE i = k
        BY <3>1, <2>1, <2>3
      <3>2. CASE i # k
        <4>1. i \in 0 .. (k - 1) /\ g[i] = f[i] /\ (i # 0 => i - 1 \in 0 .. (k - 1) /\ g[i - 1] = f[i - 1])
          BY <3>2, <2>1
        <4> QED  BY <4>1, <2>2, <2>3 DEF SumsTo
      <3> QED  BY <3>1, <3>2
    <2>5. SumsTo(g, k, b, s)
      BY <2>4 DEF SumsTo
    <2> QED  BY <2>5
  <1> QED  BY <1>4, <1>5

LEMMA SumsGrow ==
    ASSUME NEW n \in Nat, NEW b \in Nat, NEW s \in [1 .. n -> Nat], NEW f, SumsTo(f, n, b, s),
           NEW i \in 0 .. n, NEW j \in i .. n
    PROVE  f[i] <= f[j]
  <1> DEFINE T == {k \in i .. n : ~(f[i] <= f[k])}
  <1>1. SUFFICES ASSUME T # {} PROVE FALSE
    OBVIOUS
  <1>2. T \in SUBSET Nat
    OBVIOUS
  <1>3. PICK k \in T : \A m \in T : k <= m
    <2> HIDE DEF T
    <2> QED  BY <1>1, <1>2, LeastNumber
  <1>4. k # i
    BY DEF SumsTo
  <1>5. k - 1 \in i .. n /\ k - 1 \notin T /\ k \in 1 .. n
    BY <1>3, <1>4
  <1>6. f[k] = f[k - 1] + s[k] /\ s[k] \in Nat /\ f[k - 1] \in Nat /\ f[i] \in Nat
    BY <1>5 DEF SumsTo
  <1>7. f[i] <= f[k - 1]
    BY <1>5
  <1> QED  BY <1>6, <1>7

-----------------------------------------------------------------------------
(* Offsets of packet types.                                                *)

Counts(common) == [i \in 1 .. Len(Caps) |-> IF Caps[i] \in common THEN Caps[i].count ELSE 0]

LEMMA CapsLength == CapabilityConstants => Len(Caps) \in Nat /\ DOMAIN Caps = 1 .. Len(Caps)
  BY DEF CapabilityConstants

LEMMA TypesSum ==
    ASSUME CapabilityConstants, NEW common
    PROVE  /\ Counts(common) \in [1 .. Len(Caps) -> Nat]
           /\ SumsTo(Types(common), Len(Caps), UserPacket, Counts(common))
  <1> DEFINE n == Len(Caps)
             s == Counts(common)
             Def(o) == [i \in 0 .. Len(Caps) |->
                          IF i = 0 THEN UserPacket
                          ELSE o[i - 1] + (IF Caps[i] \in common THEN Caps[i].count ELSE 0)]
  <1>1. s \in [1 .. n -> Nat] /\ \A i \in 1 .. n : s[i] = IF Caps[i] \in common THEN Caps[i].count ELSE 0
    BY CapsLength DEF Counts, CapabilityConstants
  <1>2. PICK f : SumsTo(f, n, UserPacket, s)
    <2> HIDE DEF s
    <2> QED  BY <1>1, SumsExist, CapsLength DEF UserPacket
  <1>3. f = Def(f)
    <2> HIDE DEF s
    <2>1. f \in [0 .. n -> Nat] /\ \A i \in 0 .. n : f[i] = IF i = 0 THEN UserPacket ELSE f[i - 1] + s[i]
      BY <1>2 DEF SumsTo
    <2>2. \A i \in 0 .. n : i # 0 => i \in 1 .. n
      BY CapsLength
    <2> QED  BY <1>1, <2>1, <2>2
  <1>4. Types(common) = CHOOSE o : o = Def(o)
    BY DEF Types
  <1> DEFINE o == Types(common)
  <1>5. o = Def(o)
    <2> HIDE DEF Def, o
    <2> QED  BY <1>3, <1>4 DEF o
  <1> HIDE DEF o
  <1>6. o = [i \in 0 .. n |-> o[i]] /\ \A i \in 0 .. n : o[i] = IF i = 0 THEN UserPacket ELSE o[i - 1] + s[i]
    <2>1. \A i \in 0 .. n : i # 0 => i \in 1 .. n
      BY CapsLength
    <2> HIDE DEF s
    <2> QED  BY <1>1, <1>5, <2>1
  <1> DEFINE T == {i \in 0 .. n : o[i] # f[i]}
  <1>7. T = {}
    <2>1. SUFFICES ASSUME T # {} PROVE FALSE
      OBVIOUS
    <2>2. T \in SUBSET Nat
      OBVIOUS
    <2>3. PICK k \in T : \A m \in T : k <= m
      <3> HIDE DEF T
      <3> QED  BY <2>1, <2>2, LeastNumber
    <2> HIDE DEF s, o
    <2>4. k # 0
      BY <1>2, <1>6 DEF SumsTo
    <2>5. k - 1 \in 0 .. n /\ k - 1 \notin T
      BY <2>3, <2>4
    <2> QED  BY <1>2, <1>6, <2>4, <2>5 DEF SumsTo
  <1>8. o = f
    <2> HIDE DEF s
    <2> QED  BY <1>2, <1>6, <1>7 DEF SumsTo
  <1> QED  BY <1>1, <1>2, <1>8 DEF o

Offset(common, c) == Types(common)[Place(c) - 1]

LEMMA PlaceOf ==
    ASSUME CapabilityConstants, NEW c \in Capability
    PROVE  Place(c) \in 1 .. Len(Caps) /\ Caps[Place(c)] = c /\ c.count \in Nat \ {0}
  <1>1. PICK i \in DOMAIN Caps : Caps[i] = c
    BY DEF Capability
  <1>2. Place(c) \in DOMAIN Caps /\ Caps[Place(c)] = c
    BY <1>1 DEF Place
  <1> QED  BY <1>2, CapsLength DEF CapabilityConstants

\* Each capability has its own range of types, above those of a session.
LEMMA OffsetRange ==
    ASSUME CapabilityConstants, NEW common, NEW c \in common \cap Capability
    PROVE  /\ Offset(common, c) \in Nat /\ Offset(common, c) >= UserPacket
           /\ Types(common)[Place(c)] = Offset(common, c) + c.count
           /\ Types(common)[Len(Caps)] \in Nat
           /\ Offset(common, c) + c.count <= Types(common)[Len(Caps)]
  <1> DEFINE n == Len(Caps)
             f == Types(common)
             s == Counts(common)
             p == Place(c)
  <1>1. s \in [1 .. n -> Nat] /\ SumsTo(f, n, UserPacket, s)
    BY TypesSum
  <1>2. p \in 1 .. n /\ Caps[p] = c /\ c.count \in Nat \ {0} /\ n \in Nat
    BY PlaceOf, CapsLength
  <1>3. s[p] = c.count
    BY <1>2 DEF Counts
  <1> HIDE DEF n, f, s, p
  <1>4. p - 1 \in 0 .. n /\ p \in 0 .. n /\ 0 \in 0 .. n /\ n \in 0 .. n /\ n \in p .. n /\ p - 1 \in 0 .. n
    BY <1>2
  <1>5. f[p - 1] \in Nat /\ f[p] = f[p - 1] + c.count /\ f[0] = UserPacket /\ f[n] \in Nat
    <2>1. \A i \in 0 .. n : f[i] \in Nat /\ f[i] = IF i = 0 THEN UserPacket ELSE f[i - 1] + s[i]
      BY <1>1 DEF SumsTo
    <2>2. p # 0
      BY <1>2
    <2> QED  BY <1>3, <1>4, <2>1, <2>2
  <1>6. f[p] <= f[n] /\ f[0] <= f[p - 1]
    BY <1>1, <1>2, <1>4, SumsGrow DEF UserPacket
  <1> QED  BY <1>5, <1>6 DEF Offset, n, f, s, p

LEMMA RangesApart ==
    ASSUME CapabilityConstants, NEW common, NEW c \in common \cap Capability, NEW d \in common \cap Capability, c # d
    PROVE  \/ Offset(common, c) + c.count <= Offset(common, d)
           \/ Offset(common, d) + d.count <= Offset(common, c)
  <1> DEFINE n == Len(Caps)
             f == Types(common)
             s == Counts(common)
  <1>1. s \in [1 .. n -> Nat] /\ SumsTo(f, n, UserPacket, s) /\ n \in Nat /\ UserPacket \in Nat
    BY TypesSum, CapsLength DEF UserPacket
  <1>2. /\ Place(c) \in 1 .. n /\ Caps[Place(c)] = c
        /\ Place(d) \in 1 .. n /\ Caps[Place(d)] = d
    BY PlaceOf
  <1>3. Place(c) # Place(d)
    BY <1>2
  <1>4. /\ f[Place(c)] = Offset(common, c) + c.count
        /\ f[Place(d)] = Offset(common, d) + d.count
    BY OffsetRange
  <1> HIDE DEF n, f, s
  <1>5. CASE Place(c) < Place(d)
    <2>1. Place(c) \in 0 .. n /\ Place(d) - 1 \in Place(c) .. n
      BY <1>1, <1>2, <1>5
    <2>2. f[Place(c)] <= f[Place(d) - 1]
      BY <1>1, <2>1, SumsGrow
    <2> QED  BY <1>4, <2>2 DEF Offset, f
  <1>6. CASE Place(d) < Place(c)
    <2>1. Place(d) \in 0 .. n /\ Place(c) - 1 \in Place(d) .. n
      BY <1>1, <1>2, <1>6
    <2>2. f[Place(d)] <= f[Place(c) - 1]
      BY <1>1, <2>1, SumsGrow
    <2> QED  BY <1>4, <2>2 DEF Offset, f
  <1> QED  BY <1>1, <1>2, <1>3, <1>5, <1>6

\* What two hosts have in common, and the packets of it.
Shared == {c \in Capability : \A h \in Host : c \in caps[h]}

SharedOffsets == [c \in Shared |-> Offset(Shared, c)]

Packet == {[cap |-> c, id |-> i, type |-> Offset(Shared, c) + i] : c \in Shared, i \in Nat}

Proper(p) == p \in Packet /\ p.id < p.cap.count

Agree == OneVersion /\ TypesFit

\* Where the hosts agree, every session has the same offsets, and what is under
\* way has a type in the range of its capability.
CapInv ==
    /\ caps \in [Host -> SUBSET Capability]
    /\ offs = [h \in Host |-> offs[h]]
    /\ Agree => /\ \A h \in joined : offs[h] = SharedOffsets
                /\ packets \in [Host -> Seq(Packet)]
                /\ \A h \in Host : \A i \in 1 .. Len(packets[h]) : Proper(packets[h][i])
                /\ ReachesItsCapability

LEMMA OneByte ==
    ASSUME NEW o \in Nat, NEW i \in Nat, NEW n \in Nat, NEW end \in Nat,
           UserPacket <= o, i < n, o + n <= end, end <= 128
    PROVE  /\ o + i \in UserPacket .. 127 /\ o + i \in 0 .. 127
           /\ ~(o + i > 127) /\ ~(o + i < UserPacket) /\ (o + i) % 256 = o + i
  BY DEF UserPacket

LEMMA SharedSame ==
    ASSUME UNCHANGED caps
    PROVE  /\ Shared' = Shared /\ Packet' = Packet /\ SharedOffsets' = SharedOffsets
           /\ Agree' = Agree /\ \A p : Proper(p)' = Proper(p)
  BY DEF Shared, Packet, SharedOffsets, Agree, Proper, OneVersion, TypesFit

LEMMA OtherHost ==
    ASSUME CapabilityConstants, NEW h \in Host
    PROVE  Other(h) \in Host /\ Host = {h, Other(h)}
  <1>1. PICK a \in Host, b \in Host : a # b /\ Host = {a, b}
    BY CapsLength DEF CapabilityConstants
  <1>2. \E o \in Host : o # h
    BY <1>1
  <1>3. Other(h) \in Host /\ Other(h) # h
    BY <1>2 DEF Other
  <1> QED  BY <1>1, <1>3

LEMMA StartSessionInv ==
    ASSUME CapabilityConstants, CapInv, NEW h \in Host, StartSession(h)
    PROVE  CapInv'
  <1>1. UNCHANGED <<caps, off, packets, got, sent>> /\ joined' = joined \cup {h}
        /\ offs' = [offs EXCEPT ![h] = Offsets(caps[h], caps[Other(h)])]
    BY DEF StartSession
  <1>2. Shared' = Shared /\ Packet' = Packet /\ SharedOffsets' = SharedOffsets /\ Agree' = Agree
        /\ \A p : Proper(p)' = Proper(p)
    BY <1>1, SharedSame
  <1>3. /\ offs' = [g \in Host |-> offs'[g]] /\ offs'[h] = Offsets(caps[h], caps[Other(h)])
        /\ \A g \in Host : g # h => offs'[g] = offs[g]
    BY <1>1 DEF CapInv
  <1>4. ASSUME Agree PROVE Offsets(caps[h], caps[Other(h)]) = SharedOffsets
    <2>1. Host = {h, Other(h)} /\ caps[h] \subseteq Capability /\ Highest(caps[Other(h)]) = caps[Other(h)]
      BY <1>4, OtherHost DEF CapInv, Agree, OneVersion
    <2>2. Highest(caps[Other(h)]) \cap caps[h] = Shared
      BY <2>1 DEF Shared
    <2> QED  BY <2>2 DEF Offsets, SharedOffsets, Offset
  <1>5. ASSUME Agree PROVE \A g \in joined' : offs'[g] = SharedOffsets
    <2> TAKE g \in joined'
    <2>1. CASE g = h
      BY <2>1, <1>3, <1>4, <1>5
    <2>2. CASE g # h
      BY <2>2, <1>1, <1>5 DEF CapInv
    <2> QED  BY <2>1, <2>2
  <1>6. ReachesItsCapability => ReachesItsCapability'
    BY <1>1 DEF ReachesItsCapability, OneVersion, TypesFit
  <1> QED  BY <1>1, <1>2, <1>3, <1>5, <1>6 DEF CapInv

LEMMA SealAndSendInv ==
    ASSUME CapabilityConstants, CapInv, NEW h \in Host, NEW c \in Capability, NEW id \in {0, c.count - 1}, SealAndSend(h, c, id)
    PROVE  CapInv'
  <1> DEFINE p == [cap |-> c, id |-> id, type |-> TypeByte(h, c, id)]
  <1>1. UNCHANGED <<caps, joined, offs, off, got>> /\ h \in joined /\ c \in DOMAIN offs[h]
        /\ packets' = [packets EXCEPT ![Other(h)] = Append(@, p)]
    BY DEF SealAndSend
  <1>2. Shared' = Shared /\ Packet' = Packet /\ SharedOffsets' = SharedOffsets /\ Agree' = Agree
        /\ \A q : Proper(q)' = Proper(q)
    BY <1>1, SharedSame
  <1>3. ReachesItsCapability => ReachesItsCapability'
    BY <1>1 DEF ReachesItsCapability, OneVersion, TypesFit
  <1>4. ASSUME Agree PROVE p \in Packet /\ Proper(p)
    <2>1. offs[h] = SharedOffsets
      BY <1>1, <1>4 DEF CapInv
    <2>2. c \in Shared /\ offs[h][c] = Offset(Shared, c) /\ Shared \subseteq Capability
      BY <1>1, <2>1 DEF SharedOffsets, Shared
    <2>3. c.count \in Nat \ {0} /\ id \in Nat /\ id < c.count
      BY PlaceOf
    <2>4. /\ Offset(Shared, c) \in Nat /\ Offset(Shared, c) >= UserPacket
          /\ Offset(Shared, c) + c.count <= Types(Shared)[Len(Caps)]
          /\ Types(Shared)[Len(Caps)] \in Nat
      BY <2>2, OffsetRange
    <2>5. Types(Shared)[Len(Caps)] <= 128
      BY <1>4 DEF Agree, TypesFit, Shared
    <2>6. TypeByte(h, c, id) = Offset(Shared, c) + id
      <3>1. (Offset(Shared, c) + id) % 256 = Offset(Shared, c) + id
        BY <2>3, <2>4, <2>5, OneByte
      <3> QED  BY <2>2, <3>1 DEF TypeByte
    <2> QED  BY <2>2, <2>3, <2>6 DEF Packet, Proper
  <1>5. ASSUME Agree
        PROVE  /\ packets' \in [Host -> Seq(Packet)]
               /\ \A g \in Host : \A i \in 1 .. Len(packets'[g]) : Proper(packets'[g][i])
    <2> DEFINE o == Other(h)
    <2>1. o \in Host /\ packets \in [Host -> Seq(Packet)] /\ p \in Packet
      BY <1>4, <1>5, OtherHost DEF CapInv
    <2> HIDE DEF p, o
    <2>2. packets'[o] = Append(packets[o], p) /\ \A g \in Host : g # o => packets'[g] = packets[g]
      BY <1>1, <2>1 DEF o
    <2>3. packets' \in [Host -> Seq(Packet)]
      BY <1>1, <2>1 DEF o
    <2>4. \A i \in 1 .. Len(packets'[o]) : Proper(packets'[o][i])
      <3>1. /\ Len(packets'[o]) = Len(packets[o]) + 1 /\ packets'[o][Len(packets[o]) + 1] = p
            /\ Len(packets[o]) \in Nat
            /\ \A i \in 1 .. Len(packets[o]) : packets'[o][i] = packets[o][i]
        BY <2>1, <2>2
      <3>2. \A i \in 1 .. Len(packets[o]) : Proper(packets[o][i])
        BY <1>5, <2>1 DEF CapInv
      <3>3. \A i \in 1 .. Len(packets'[o]) : i \in 1 .. Len(packets[o]) \/ i = Len(packets[o]) + 1
        BY <3>1
      <3> QED  BY <1>4, <1>5, <3>1, <3>2, <3>3
    <2>5. \A g \in Host : \A i \in 1 .. Len(packets[g]) : Proper(packets[g][i])
      BY <1>5 DEF CapInv
    <2> QED  BY <2>2, <2>3, <2>4, <2>5
  <1> HIDE DEF p
  <1> QED  BY <1>1, <1>2, <1>3, <1>5 DEF CapInv

LEMMA ReadPacketInv ==
    ASSUME CapabilityConstants, CapInv, NEW h \in Host, ReadPacket(h)
    PROVE  CapInv'
  <1>1. PICK p : p = Head(packets[h])
    OBVIOUS
  <1>2. /\ h \in joined /\ packets[h] # <<>> /\ UNCHANGED <<caps, off>>
        /\ got' = CASE p.type > 127        -> [p |-> p, as |-> "invalid"]
                    [] p.type < UserPacket -> [p |-> p, as |-> "session"]
                    [] p.type \in UserPacket .. 127 /\ Reader(h, p.type) = {} -> [p |-> p, as |-> "unknown"]
                    [] OTHER -> LET c == CHOOSE c \in Reader(h, p.type) : TRUE
                                IN  [p |-> p, as |-> IF c \in off[h] THEN "ignored" ELSE "read",
                                     cap |-> c, id |-> p.type - offs[h][c]]
        /\ packets' = IF p.type > 127 THEN [o \in Host |-> <<>>] ELSE [packets EXCEPT ![h] = Tail(@)]
        /\ joined' = IF p.type > 127 THEN {} ELSE joined
        /\ offs' = IF p.type > 127 THEN [o \in Host |-> <<>>] ELSE offs
    BY <1>1 DEF ReadPacket
  <1>3. Shared' = Shared /\ Packet' = Packet /\ SharedOffsets' = SharedOffsets /\ Agree' = Agree
        /\ \A q : Proper(q)' = Proper(q)
    BY <1>2, SharedSame
  <1>4. caps' \in [Host -> SUBSET Capability] /\ offs' = [g \in Host |-> offs'[g]]
    BY <1>2 DEF CapInv
  <1>5. CASE ~Agree
    BY <1>3, <1>4, <1>5 DEF CapInv
  <1>6. CASE Agree
    <2>1. packets \in [Host -> Seq(Packet)] /\ offs[h] = SharedOffsets
          /\ \A g \in Host : \A i \in 1 .. Len(packets[g]) : Proper(packets[g][i])
      BY <1>2, <1>6 DEF CapInv
    <2>2. /\ Len(packets[h]) \in Nat /\ Len(packets[h]) >= 1 /\ p = packets[h][1]
          /\ Tail(packets[h]) \in Seq(Packet) /\ Len(Tail(packets[h])) = Len(packets[h]) - 1
          /\ \A i \in 1 .. Len(packets[h]) - 1 : Tail(packets[h])[i] = packets[h][i + 1]
      BY <1>1, <1>2, <2>1
    <2>3. Proper(p)
      BY <2>1, <2>2
    <2>4. PICK c \in Shared, i \in Nat : p = [cap |-> c, id |-> i, type |-> Offset(Shared, c) + i]
      BY <2>3 DEF Proper, Packet
    <2>5. p.cap = c /\ p.id = i /\ p.type = Offset(Shared, c) + i /\ i < c.count /\ i \in Nat
          /\ c \in Shared \cap Capability
      BY <2>3, <2>4 DEF Proper, Shared
    <2>6. /\ Offset(Shared, c) \in Nat /\ Offset(Shared, c) >= UserPacket
          /\ Offset(Shared, c) + c.count <= Types(Shared)[Len(Caps)]
          /\ Types(Shared)[Len(Caps)] \in Nat /\ c.count \in Nat
      BY <2>5, OffsetRange, PlaceOf
    <2>7. Types(Shared)[Len(Caps)] <= 128
      BY <1>6 DEF Agree, TypesFit, Shared
    <2>8. p.type \in UserPacket .. 127 /\ ~(p.type > 127) /\ ~(p.type < UserPacket)
      <3>1. i \in Nat /\ i < c.count
        BY <2>5
      <3>2. /\ Offset(Shared, c) + i \in UserPacket .. 127
            /\ ~(Offset(Shared, c) + i > 127) /\ ~(Offset(Shared, c) + i < UserPacket)
        <4>1. PICK o \in Nat, n \in Nat, end \in Nat :
                 o = Offset(Shared, c) /\ n = c.count /\ end = Types(Shared)[Len(Caps)]
          BY <2>6
        <4>2. UserPacket <= o /\ i < n /\ o + n <= end /\ end <= 128
          BY <2>6, <2>7, <3>1, <4>1 DEF UserPacket
        <4>3. o + i \in UserPacket .. 127 /\ ~(o + i > 127) /\ ~(o + i < UserPacket)
          <5>1. i \in Nat /\ n \in Nat /\ end \in Nat /\ o \in Nat
            BY <3>1
          <5>2. UserPacket <= o + i /\ o + i <= 127
            BY <4>2, <5>1 DEF UserPacket
          <5> QED  BY <5>1, <5>2 DEF UserPacket
        <4> QED  BY <4>1, <4>3
      <3> QED  BY <2>5, <3>2
    <2>9. Reader(h, p.type) = {c}
      <3>1. DOMAIN offs[h] = Shared /\ \A d \in Shared : offs[h][d] = Offset(Shared, d)
        BY <2>1 DEF SharedOffsets
      <3>2. c \in Reader(h, p.type)
        BY <2>5, <2>6, <3>1 DEF Reader
      <3>3. ASSUME NEW d \in Reader(h, p.type), d # c PROVE FALSE
        <4>1. d \in Shared \cap Capability /\ p.type \in Offset(Shared, d) .. Offset(Shared, d) + d.count - 1
          BY <3>1, <3>3 DEF Reader, Shared
        <4>2. Offset(Shared, d) \in Nat /\ d.count \in Nat
          BY <4>1, OffsetRange, PlaceOf
        <4>3. \/ Offset(Shared, c) + c.count <= Offset(Shared, d)
              \/ Offset(Shared, d) + d.count <= Offset(Shared, c)
          BY <2>5, <3>3, <4>1, RangesApart
        <4> QED  BY <2>5, <2>6, <4>1, <4>2, <4>3
      <3> QED  BY <3>2, <3>3
    <2>10. (CHOOSE d \in Reader(h, p.type) : TRUE) = c
      BY <2>9
    <2>11. offs[h][c] = Offset(Shared, c)
      BY <2>1, <2>5 DEF SharedOffsets
    <2>12. got' = [p |-> p, as |-> IF c \in off[h] THEN "ignored" ELSE "read", cap |-> c, id |-> p.type - offs[h][c]]
      BY <1>2, <2>8, <2>9, <2>10
    <2>13. ReachesItsCapability'
      <3>1. got'.as \in {"read", "ignored"} /\ got'.cap = c /\ got'.p = p /\ got'.id = p.type - offs[h][c]
        BY <2>12
      <3>2. got'.id = i
        BY <2>5, <2>6, <2>11, <3>1
      <3> QED  BY <2>5, <3>1, <3>2 DEF ReachesItsCapability
    <2>14. joined' = joined /\ offs' = offs /\ packets' = [packets EXCEPT ![h] = Tail(@)]
      BY <1>2, <2>8
    <2>15. packets' \in [Host -> Seq(Packet)] /\ packets'[h] = Tail(packets[h])
           /\ \A g \in Host : g # h => packets'[g] = packets[g]
      BY <2>1, <2>2, <2>14
    <2>16. \A j \in 1 .. Len(packets'[h]) : Proper(packets'[h][j])
      <3> TAKE j \in 1 .. Len(packets'[h])
      <3>1. j \in 1 .. Len(packets[h]) - 1 /\ j + 1 \in 1 .. Len(packets[h])
        BY <2>2, <2>15
      <3>2. packets'[h][j] = packets[h][j + 1]
        BY <2>2, <2>15, <3>1
      <3> QED  BY <2>1, <3>1, <3>2
    <2>17. \A g \in Host : \A j \in 1 .. Len(packets'[g]) : Proper(packets'[g][j])
      BY <2>1, <2>15, <2>16
    <2>18. \A g \in joined : offs[g] = SharedOffsets
      BY <1>6 DEF CapInv
    <2> QED  BY <1>3, <1>4, <2>13, <2>14, <2>15, <2>17, <2>18 DEF CapInv
  <1> QED  BY <1>5, <1>6

THEOREM AlwaysReachesItsCapability == ASSUME CapabilityConstants PROVE CapSpec => []ReachesItsCapability
  <1>1. CapInit => CapInv
    <2> SUFFICES ASSUME CapInit PROVE CapInv
      OBVIOUS
    <2>1. caps \in [Host -> SUBSET Capability]
      BY DEF CapInit, CapabilityConstants
    <2>2. packets = [h \in Host |-> <<>>] /\ offs = [h \in Host |-> <<>>] /\ joined = {} /\ got = <<>>
      BY DEF CapInit
    <2>3. packets \in [Host -> Seq(Packet)] /\ \A h \in Host : Len(packets[h]) = 0
      BY <2>2
    <2>4. \A h \in Host : \A i \in 1 .. Len(packets[h]) : Proper(packets[h][i])
      BY <2>3
    <2> QED  BY <2>1, <2>2, <2>3, <2>4 DEF CapInv, ReachesItsCapability
  <1>2. CapInv /\ [CapNext]_capVars => CapInv'
    <2> SUFFICES ASSUME CapInv, [CapNext]_capVars PROVE CapInv'
      OBVIOUS
    <2>1. ASSUME NEW h \in Host, StartSession(h) PROVE CapInv'
      BY <2>1, StartSessionInv
    <2>2. ASSUME NEW h \in Host, ReadPacket(h) PROVE CapInv'
      BY <2>2, ReadPacketInv
    <2>3. ASSUME NEW h \in Host, NEW c \in Capability, NEW id \in {0, c.count - 1}, SealAndSend(h, c, id) PROVE CapInv'
      BY <2>3, SealAndSendInv
    <2>4. ASSUME NEW h \in Host, NEW c \in Capability, Disable(h, c) PROVE CapInv'
      <3>1. UNCHANGED <<caps, joined, offs, packets, got>>
        BY <2>4 DEF Disable
      <3> QED  BY <3>1, SharedSame DEF CapInv, ReachesItsCapability, OneVersion, TypesFit
    <2>5. CASE UNCHANGED capVars
      <3>1. UNCHANGED <<caps, joined, offs, packets, got>>
        BY <2>5 DEF capVars
      <3> QED  BY <3>1, SharedSame DEF CapInv, ReachesItsCapability, OneVersion, TypesFit
    <2> QED  BY <2>1, <2>2, <2>3, <2>4, <2>5 DEF CapNext
  <1>3. CapInv => ReachesItsCapability
    BY DEF CapInv, Agree, ReachesItsCapability
  <1> QED  BY <1>1, <1>2, <1>3, PTL DEF CapSpec
-----------------------------------------------------------------------------
(* UDPSocket, for any number of threads and datagrams *)

SocketTyped == /\ closed \in BOOLEAN
               /\ sendQ \in Seq(Nat) /\ left \in Seq(Nat) /\ accepted \in Seq(Nat)
               /\ at \in [Threads -> {"idle", "push", "pop", "received", "check", "error",
                                      "stop", "close", "shut", "notify"}]

\* The inductive invariant: between the handler of async_send_to and the taking
\* of its datagram off the queue, the datagram still counts as being sent.
SocketInv == /\ SocketTyped
             /\ SendsFirst
             /\ at[Network] = "pop" => writes # {}
-----------------------------------------------------------------------------
(* Queues of datagrams *)

LEMMA AppendToQueue ==
    ASSUME NEW s \in Seq(Nat), NEW t \in Seq(Nat), NEW d \in Nat
    PROVE  /\ Append(t, d) \in Seq(Nat) /\ Append(t, d) # <<>>
           /\ s \o Append(t, d) = Append(s \o t, d)
           /\ t # <<>> => Head(Append(t, d)) = Head(t)
           /\ Len(Append(t, d)) = 1 <=> t = <<>>
  <1>1. /\ Append(t, d) \in Seq(Nat) /\ Append(t, d) # <<>>
        /\ Len(Append(t, d)) = Len(t) + 1
    OBVIOUS
  <1>2. t # <<>> => Head(Append(t, d)) = Head(t)
    OBVIOUS
  <1>3. s \o Append(t, d) = Append(s \o t, d)
    OBVIOUS
  <1>4. Len(t) = 0 <=> t = <<>>
    OBVIOUS
  <1> QED
    BY <1>1, <1>2, <1>3, <1>4

LEMMA MoveHead ==
    ASSUME NEW s \in Seq(Nat), NEW t \in Seq(Nat), t # <<>>
    PROVE  /\ Tail(t) \in Seq(Nat) /\ Append(s, Head(t)) \in Seq(Nat)
           /\ Append(s, Head(t)) \o Tail(t) = s \o t
  <1>1. Head(t) \in Nat /\ Tail(t) \in Seq(Nat) /\ Append(s, Head(t)) \in Seq(Nat)
    OBVIOUS
  <1>2. Len(Append(s, Head(t)) \o Tail(t)) = Len(s \o t)
    BY <1>1
  <1>3. ASSUME NEW i \in 1 .. Len(s \o t)
        PROVE  (Append(s, Head(t)) \o Tail(t))[i] = (s \o t)[i]
    BY <1>1
  <1> DEFINE new == Append(s, Head(t)) \o Tail(t)
             old == s \o t
  <1>4. new \in Seq(Nat) /\ old \in Seq(Nat)
    BY <1>1
  <1> HIDE DEF new, old
  <1>5. new = old
    <2>1. Len(new) = Len(old) /\ \A i \in 1 .. Len(old) : new[i] = old[i]
      BY <1>2, <1>3 DEF new, old
    <2>2. new = [i \in 1 .. Len(new) |-> new[i]] /\ old = [i \in 1 .. Len(old) |-> old[i]]
      BY <1>4
    <2> QED
      BY <2>1, <2>2
  <1> QED
    BY <1>1, <1>5 DEF new, old
-----------------------------------------------------------------------------
LEMMA SocketInit == Init => SocketInv
  <1> SUFFICES ASSUME Init PROVE SocketInv
    OBVIOUS
  <1>1. Network \in Threads /\ <<>> \in Seq(Nat)
    BY DEF Threads
  <1>2. SocketTyped /\ at[Network] = "idle"
    BY <1>1 DEF Init, SocketTyped
  <1>3. <<>> \o <<>> = <<>>
    OBVIOUS
  <1> QED
    BY <1>2, <1>3 DEF Init, SocketInv, SendsFirst

\* What neither the queue nor the flags see.
LEMMA SocketOthers ==
    ASSUME SocketInv, UNCHANGED <<sendQ, writes, accepted, left, closed>>, SocketTyped',
           at'[Network] = "pop" => at[Network] = "pop"
    PROVE  SocketInv'
  BY DEF SocketInv, SendsFirst

LEMMA SocketNext == SocketInv /\ [Next]_vars => SocketInv'
  <1> SUFFICES ASSUME SocketInv, [Next]_vars PROVE SocketInv'
    OBVIOUS
  <1> USE DEF queue, flags, Goto
  <1> Network \in Threads
    BY DEF Threads
  <1>1. ASSUME NEW t \in Threads, Send(t) PROVE SocketInv'
    <2>1. SocketTyped'
      BY <1>1 DEF Send, SocketInv, SocketTyped
    <2> QED
      BY <1>1, <2>1, SocketOthers DEF Send, SocketInv, SocketTyped
  <1>2. ASSUME NEW t \in Threads, Push(t) PROVE SocketInv'
    <2> DEFINE d == Len(accepted) + 1
               q == Append(sendQ, d)
    <2>1. d \in Nat /\ sendQ \in Seq(Nat) /\ left \in Seq(Nat) /\ accepted \in Seq(Nat)
      BY DEF SocketInv, SocketTyped
    <2>2. /\ q \in Seq(Nat) /\ q # <<>>
          /\ left \o q = Append(left \o sendQ, d)
          /\ sendQ # <<>> => Head(q) = Head(sendQ)
          /\ Len(q) = 1 <=> sendQ = <<>>
      <3> HIDE DEF d
      <3> QED
        BY <2>1, AppendToQueue
    <2>3. /\ sendQ' = q /\ accepted' = Append(accepted, d) /\ UNCHANGED <<left, closed>>
          /\ writes' = IF Len(q) = 1 THEN writes \cup Begun(q) ELSE writes
      BY <1>2 DEF Push
    <2>4. SocketTyped'
      BY <1>2, <2>1, <2>2, <2>3, AppendToQueue DEF Push, SocketInv, SocketTyped
    <2>5. (left \o sendQ = accepted)'
      BY <2>2, <2>3 DEF SocketInv, SendsFirst
    <2>6. CASE sendQ = <<>>
      <3>1. writes = {} /\ writes' = Begun(q) /\ at'[Network] # "pop"
        BY <1>2, <2>2, <2>3, <2>6 DEF SocketInv, SendsFirst, Push, SocketTyped
      <3> QED
        BY <2>2, <2>3, <2>4, <2>5, <3>1 DEF SocketInv, SendsFirst, Begun
    <2>7. CASE sendQ # <<>>
      <3>1. writes' = writes /\ (at'[Network] = "pop" => at[Network] = "pop")
        BY <1>2, <2>2, <2>3, <2>7 DEF Push, SocketInv, SocketTyped
      <3> QED
        BY <2>2, <2>3, <2>4, <2>5, <2>7, <3>1 DEF SocketInv, SendsFirst
    <2> QED
      BY <2>6, <2>7
  <1>3. CASE WriteDone
    <2>1. SocketTyped'
      BY <1>3 DEF WriteDone, SocketInv, SocketTyped
    <2> QED
      BY <1>3, <2>1 DEF WriteDone, SocketInv, SendsFirst, SocketTyped
  <1>4. CASE Pop
    <2>1. sendQ # <<>> /\ sendQ \in Seq(Nat) /\ left \in Seq(Nat)
      BY <1>4 DEF Pop, SocketInv, SendsFirst, SocketTyped
    <2>2. /\ Tail(sendQ) \in Seq(Nat) /\ Append(left, Head(sendQ)) \in Seq(Nat)
          /\ Append(left, Head(sendQ)) \o Tail(sendQ) = left \o sendQ
      BY <2>1, MoveHead
    <2>3. SocketTyped' /\ at'[Network] = "idle"
      BY <1>4, <2>2 DEF Pop, SocketInv, SocketTyped
    <2>4. SendsFirst'
      BY <1>4, <2>2 DEF Pop, SocketInv, SendsFirst, Begun
    <2> QED
      BY <2>3, <2>4 DEF SocketInv
  <1>5. CASE ReadDone
    <2>1. SocketTyped'
      BY <1>5 DEF ReadDone, SocketInv, SocketTyped
    <2> QED
      BY <1>5, <2>1, SocketOthers DEF ReadDone, SocketInv, SocketTyped
  <1>6. CASE Read
    <2>1. SocketTyped'
      BY <1>6 DEF Read, SocketInv, SocketTyped
    <2> QED
      BY <1>6, <2>1, SocketOthers DEF Read, SocketInv, SocketTyped
  <1>7. ASSUME NEW t \in Threads, Disconnect(t) PROVE SocketInv'
    <2>1. SocketTyped'
      BY <1>7 DEF Disconnect, SocketInv, SocketTyped
    <2> QED
      BY <1>7, <2>1, SocketOthers DEF Disconnect, SocketInv, SocketTyped
  <1>8. ASSUME NEW t \in Threads, Check(t) \/ SetError(t) \/ Stop(t) \/ Shut(t) \/ Notify(t)
        PROVE  SocketInv'
    <2>1. SocketTyped'
      BY <1>8 DEF Check, SetError, Stop, Shut, Notify, SocketInv, SocketTyped
    <2>2. UNCHANGED <<sendQ, writes, accepted, left, closed>>
      BY <1>8 DEF Check, SetError, Stop, Shut, Notify
    <2>3. at'[Network] = "pop" => at[Network] = "pop"
      BY <1>8 DEF Check, SetError, Stop, Shut, Notify, SocketInv, SocketTyped
    <2> QED
      BY <2>1, <2>2, <2>3, SocketOthers
  <1>9. ASSUME NEW t \in Threads, SetClosed(t) PROVE SocketInv'
    <2>1. SocketTyped'
      BY <1>9 DEF SetClosed, SocketInv, SocketTyped
    <2>2. at'[Network] = "pop" => at[Network] = "pop"
      BY <1>9 DEF SetClosed, SocketInv, SocketTyped
    <2> QED
      BY <1>9, <2>1, <2>2 DEF SetClosed, SocketInv, SendsFirst
  <1>10. CASE UNCHANGED vars
    <2>1. UNCHANGED <<sendQ, writes, accepted, left, closed, at>>
      BY <1>10 DEF vars
    <2> QED
      BY <2>1 DEF SocketInv, SocketTyped, SendsFirst
  <1> QED
    BY <1>1, <1>2, <1>3, <1>4, <1>5, <1>6, <1>7, <1>8, <1>9, <1>10 DEF Next, Disconnecting

\* The inductive invariant of the queue and what is being sent holds in every
\* reachable state.
THEOREM SocketInvariance == Spec => []SocketInv
  BY SocketInit, SocketNext, PTL DEF Spec

\* UDPSocket::send and doWrite's handler never leave a datagram waiting on an
\* open socket, send two at a time, or skip one.
THEOREM AlwaysSendsFirst == Spec => []SendsFirst
  <1>1. SocketInv => SendsFirst
    BY DEF SocketInv
  <1> QED
    BY <1>1, SocketInvariance, PTL
=============================================================================
