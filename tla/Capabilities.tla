---------------------------- MODULE Capabilities ----------------------------
(***************************************************************************)
(* Which capability gets a packet: what Host::startPeerSession agrees on   *)
(* with the Hello of the other host, the offsets of packet types, and      *)
(* Session::readPacket (protocol version 4; hosts of version 5, for whom   *)
(* it looks at the frame's header instead, do not exist yet).              *)
(***************************************************************************)
EXTENDS Integers, Sequences

CONSTANTS Host,       \* two of them
          Caps,       \* all capabilities [name, version, count], in the order of a map
          Offer,      \* the sets of capabilities that hosts may register
          MaxPackets  \* bound: packets sent

UserPacket == 16

Capability == {Caps[i] : i \in DOMAIN Caps}

\* A capability has one type at least.
CapabilityConstants ==
    /\ \E a, b \in Host : a # b /\ Host = {a, b}
    /\ Caps \in Seq(Capability)
    /\ \A i \in DOMAIN Caps : Caps[i].count \in Nat \ {0} /\ \A j \in DOMAIN Caps : Caps[i] = Caps[j] => i = j
    /\ Offer \subseteq SUBSET Capability

VARIABLES caps,    \* Host::m_capabilities
          joined,  \* the hosts that have the other's Hello and a session
          offs,    \* Capability::m_idOffset, by host and capability of the session
          off,     \* the capabilities that a session has disabled
          packets, \* packets under way to a host, and what they are
          got,     \* what was delivered last, and as what
          sent     \* number of packets sent

capVars == <<caps, joined, offs, off, packets, got, sent>>

Other(h) == CHOOSE o \in Host : o # h

\* Of a Hello, the highest version for each name.
Highest(hello) == {c \in hello : \A o \in hello : o.name = c.name => o.version <= c.version}

\* How far the packet types go up to each of Caps, when those in common are
\* numbered one after the other.
Types(common) ==
    LET o[i \in 0 .. Len(Caps)] ==
          IF i = 0 THEN UserPacket ELSE o[i - 1] + (IF Caps[i] \in common THEN Caps[i].count ELSE 0)
    IN  o

Place(c) == CHOOSE i \in DOMAIN Caps : Caps[i] = c

\* Mutant: the offset counts what the other host offers and this one has not.
OffsetsOfAll(mine, hello) ==
    [c \in Highest(hello) \cap mine |-> Types(Highest(hello))[Place(c) - 1]]

\* The loop over the capabilities, in the order of the Hello.
Offsets(mine, hello) ==
    LET common == Highest(hello) \cap mine
    IN  [c \in common |-> Types(common)[Place(c) - 1]]

\* Capability::prep: one byte, without RLP.
TypeByte(h, c, id) == (offs[h][c] + id) % 256

CapInit == /\ caps \in [Host -> Offer]
           /\ joined = {}
           /\ offs = [h \in Host |-> <<>>]
           /\ off = [h \in Host |-> {}]
           /\ packets = [h \in Host |-> <<>>]
           /\ got = <<>> /\ sent = 0

StartSession(h) ==
    /\ h \notin joined
    /\ joined' = joined \cup {h}
    /\ offs' = [offs EXCEPT ![h] = Offsets(caps[h], caps[Other(h)])]
    /\ UNCHANGED <<caps, off, packets, got, sent>>

\* Capability::sealAndSend; the host may use a disabled capability all the same.
SealAndSend(h, c, id) ==
    /\ h \in joined /\ c \in DOMAIN offs[h] /\ id < c.count /\ sent < MaxPackets
    /\ packets' = [packets EXCEPT ![Other(h)] = Append(@, [cap |-> c, id |-> id, type |-> TypeByte(h, c, id)])]
    /\ sent' = sent + 1
    /\ UNCHANGED <<caps, joined, offs, off, got>>

\* The capability whose range has the type, in Session::readPacket.
Reader(h, type) == {c \in DOMAIN offs[h] : type \in offs[h][c] .. offs[h][c] + c.count - 1}

\* Session::doRead disconnects for a type above 127, and readPacket keeps what
\* is below UserPacket for the session itself.
ReadPacket(h) ==
    /\ h \in joined /\ packets[h] # <<>>
    /\ LET p == Head(packets[h])
       IN  /\ got' = CASE p.type > 127        -> [p |-> p, as |-> "invalid"]
                       [] p.type < UserPacket -> [p |-> p, as |-> "session"]
                       [] p.type \in UserPacket .. 127 /\ Reader(h, p.type) = {} -> [p |-> p, as |-> "unknown"]
                       [] OTHER -> LET c == CHOOSE c \in Reader(h, p.type) : TRUE
                                   IN  [p |-> p, as |-> IF c \in off[h] THEN "ignored" ELSE "read",
                                        cap |-> c, id |-> p.type - offs[h][c]]
           /\ packets' = IF p.type > 127 THEN [o \in Host |-> <<>>] ELSE [packets EXCEPT ![h] = Tail(@)]
           /\ joined' = IF p.type > 127 THEN {} ELSE joined
           /\ offs' = IF p.type > 127 THEN [o \in Host |-> <<>>] ELSE offs
           /\ sent' = IF p.type > 127 THEN MaxPackets ELSE sent
    /\ UNCHANGED <<caps, off>>

\* Capability::disable.
Disable(h, c) ==
    /\ c \in DOMAIN offs[h] \ off[h]
    /\ off' = [off EXCEPT ![h] = @ \cup {c}]
    /\ UNCHANGED <<caps, joined, offs, packets, got, sent>>

CapNext == \E h \in Host :
           \/ StartSession(h) \/ ReadPacket(h)
           \/ \E c \in Capability : \/ \E id \in {0, c.count - 1} : SealAndSend(h, c, id)
                                     \/ Disable(h, c)

CapSpec == CapInit /\ [][CapNext]_capVars

---------------------------------------------------------------------------
\* No host has two versions of one capability.
OneVersion == \A h \in Host : Highest(caps[h]) = caps[h]

\* The types of what the hosts have in common are bytes that RLP reads as
\* themselves.
TypesFit == Types({c \in Capability : \A h \in Host : c \in caps[h]})[Len(Caps)] <= 128

\* Each packet gets to the capability that sent it, under the type it was sent
\* as, though each host computes the offsets alone, from another order of
\* events and with other capabilities of its own.
ReachesItsCapability ==
    got # <<>> /\ OneVersion /\ TypesFit =>
       got.as \in {"read", "ignored"} /\ got.cap = got.p.cap /\ got.id = got.p.id
=============================================================================
