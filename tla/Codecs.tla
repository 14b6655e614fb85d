------------------------------- MODULE Codecs -------------------------------
(***************************************************************************)
(* How users name nodes: NodeSpec reads a text and enode writes it         *)
(* (libp2p/Common.cpp), and resolveHost makes an endpoint of a host and a  *)
(* port (libp2p/Network.cpp).  And bytes that grow one by one, converted   *)
(* by each of CommonData's functions and back, and names made of them.     *)
(***************************************************************************)
EXTENDS CommonData

CONSTANTS IdSize,      \* bytes of an id: 64
          Names,       \* host names that can be resolved, as characters
          DefaultPort, \* c_defaultIPPort
          Telling,     \* bytes that data is made of
          MaxData      \* bound: the length of data

Colon == 58
Dot == 46
At == 64
Enode == <<101, 110, 111, 100, 101, 58, 47, 47>>  \* "enode://"

NoId == [i \in 1 .. IdSize |-> 0]
Spec16(address, tcp, udp, id) ==
    [address |-> address, tcp |-> tcp % 65536, udp |-> udp % 65536, id |-> id]

Places(s, c) == {i \in 1 .. Len(s) : s[i] = c}
Before(s, i) == SubSeq(s, 1, i - 1)
After(s, i) == SubSeq(s, i + 1, Len(s))

\* stoi: the digits that a text begins with, Fails when there are none.
Fails == -1
Stoi(s) == LET digits == {i \in 0 .. Len(s) : AllDigits(SubSeq(s, 1, i))}
           IN  IF Max(digits) = 0 THEN Fails ELSE Value(SubSeq(s, 1, Max(digits)), 10)

\* The TCP port and the UDP port.
Ports(ports) ==
    LET dots == Places(ports, Dot)
    IN  IF dots = {} THEN <<Stoi(ports), Stoi(ports)>>
        ELSE <<Stoi(Before(ports, Min(dots))), Stoi(After(ports, Min(dots)))>>

\* NodeSpec's constructor: an id has a fixed length and ends with an @.  An
\* exception gives nothing.
NodeSpec(user) ==
    LET end == Len(Enode) + 2 * IdSize + 1
        named == Len(user) >= end /\ SubSeq(user, 1, Len(Enode)) = Enode
                 /\ Places(user, At) # {} /\ Min(Places(user, At)) = end
        id == IF named THEN FromHex(SubSeq(user, Len(Enode) + 1, end - 1)) ELSE NoId
        rest == IF named THEN After(user, end) ELSE user
        colons == Places(rest, Colon)
        ports == Ports(After(rest, Min(colons)))
    IN  CASE id = <<>> -> <<>>
          [] colons = {} -> <<Spec16(rest, 0, 0, id)>>
          [] Fails \in ToSet(ports) -> <<>>
          [] OTHER -> <<Spec16(Before(rest, Min(colons)), ports[1], ports[2], id)>>

\* NodeSpec::enode
EnodeOf(spec) ==
    LET host == spec.address
        both == spec.tcp # 0 /\ spec.udp # 0 /\ spec.tcp # spec.udp
        text == CASE both                         -> host \o <<Colon>> \o Decimal(spec.tcp) \o <<Dot>> \o Decimal(spec.udp)
                  [] ~both /\ spec.tcp # 0        -> host \o <<Colon>> \o Decimal(spec.tcp)
                  [] spec.tcp = 0 /\ spec.udp # 0 -> host \o <<Colon>> \o Decimal(spec.udp)
                  [] OTHER                        -> host
    IN  IF spec.id # NoId THEN Enode \o ToHex(spec.id) \o <<At>> \o text ELSE text

\* resolveHost: the endpoint is nowhere if the name cannot be resolved.
ResolveHost(text) ==
    LET colons == Places(text, Colon)
        name == IF colons = {} THEN text ELSE Before(text, Min(colons))
        given == IF colons = {} THEN Fails
                 ELSE LET rest == After(text, Min(colons)) IN
                      Stoi(IF Places(rest, Colon) = {} THEN rest ELSE Before(rest, Min(Places(rest, Colon))))
    IN  IF name \in Names THEN [address |-> name, port |-> IF given = Fails THEN DefaultPort ELSE given % 65536]
        ELSE [address |-> <<>>, port |-> 0]

\* NodeSpec::nodeIPEndpoint
NodeIPEndpoint(spec) ==
    [address |-> ResolveHost(spec.address).address, udp |-> spec.udp, tcp |-> spec.tcp]
-----------------------------------------------------------------------------
VARIABLE data

Init == data = <<>>

\* RLPStream, readers of files and the network append bytes to bytes.
Extend(b) == Len(data) < MaxData /\ data' = Append(data, b)

Next == \E b \in Telling : Extend(b)

Spec == Init /\ [][Next]_data

-----------------------------------------------------------------------------
UpperCase(s) == [i \in 1 .. Len(s) |-> IF s[i] >= 97 THEN s[i] - 32 ELSE s[i]]

HexGivesBack ==
    /\ FromHex(ToHex(data)) = data
    /\ FromHex(Prefix \o ToHex(data)) = data
    /\ FromHex(UpperCase(ToHex(data))) = data
    /\ FromHex(ToHexShort(data)) = data
    /\ JsToBytes(ToJS(data, 0)) = data
    /\ Unpadded(JsToBytes(ToJS(data, MaxData + 2))) = Unpadded(data)

\* A map of each byte to its first place, made of those of two parts of data.
CollectionsGiveBack ==
    LET places(s) == [b \in ToSet(s) |-> Min({i \in 1 .. Len(s) : s[i] = b})]
        all == Merged(places(SubSeq(data, 1, Len(data) \div 2)), places(data))
    IN  /\ all = places(data)
        /\ \A i \in 1 .. Cardinality(ToSet(data)) : all[KeysOf(all)[i]] = ValuesOf(all)[i]
        /\ \A b \in Telling : /\ TrimFront(PushFront(data, b), 1) = data
                              /\ CommonPrefix(data, Append(data, b)) = Len(data)

\* Text in a fixed number of bytes, the rest of which are zero; fromRaw gives
\* nothing if one of its characters cannot be printed.
TextGivesBack ==
    LET text == SelectSeq(data, LAMBDA b : b # 0)
        string32 == Filled(text, 32, 0)
        printable == \A i \in 1 .. Len(text) : text[i] \in 32 .. 127
    IN  UpToZero(string32) = text /\ FromRaw(string32) = IF printable THEN text ELSE <<>>

\* What bytes were turned into gives them back: as hexadecimal text with a prefix
\* or without and in letters of both cases (toHex, fromHex, toJS, jsToBytes), as
\* base 64, whatever the length (toBase64, fromBase64), as text of a fixed size
\* (fromRaw) and in collections.
NothingLost ==
    /\ HexGivesBack /\ TextGivesBack /\ CollectionsGiveBack
    /\ FromBase64(ToBase64(data)) = data

Number == FromBigEndian(data)
Sizes == 0 .. 3 \* of the numbers: those that fit into TLC's

\* A number is given back by each form it can take, compact or padded,
\* hexadecimal or decimal (toCompactBigEndian, bytesRequired, padded, unpadLeft,
\* toJS, jsToInt), and a type that is too small keeps its last bytes.
NumbersSurvive ==
    Len(data) \in Sizes =>
        /\ ToCompactBigEndian(Number, 0) = UnpadLeft(data)
        /\ FromBigEndian(ToCompactBigEndian(Number, 2)) = Number
        /\ BytesRequired[Number] = Len(UnpadLeft(data))
        /\ \A size \in Sizes :
               /\ FromBigEndian(ToBigEndian(Number, size)) = Number % Power256[size]
               /\ ToBigEndian(Number, size) = Padded(data, size)
               /\ JsToInt(ToJSNumber(Number), size) = Number % Power256[size]
        /\ JsToInt(Decimal(Number), 3) = Number
        /\ FromBigEndian(JsToBytes(Decimal(Number))) = Number

\* A spec made of data: its ports, and its id if there is enough for one.
Specified(name) ==
    LET from(first, last) == SubSeq(data, first, Min({last, Len(data)}))
    IN  Spec16(name, FromBigEndian(from(1, 2)), FromBigEndian(from(3, 4)),
               IF Len(data) >= IdSize THEN from(1, IdSize) ELSE NoId)

\* A node with both ports, or with neither, is named by a text that stands for
\* the same node, the id and the two ports in their places, and the port of an
\* address never gets into its name (NodeSpec, enode, nodeIPEndpoint).
NamesStand ==
    \A name \in Names :
       LET spec == Specified(name)
           read == NodeSpec(EnodeOf(spec))
       IN  (spec.tcp = 0) = (spec.udp = 0) =>
              /\ read = <<spec>>
              /\ NodeIPEndpoint(read[1]) = [address |-> name, udp |-> spec.udp, tcp |-> spec.tcp]
              /\ ResolveHost(name \o <<Colon>> \o Decimal(spec.tcp)).port = spec.tcp
=============================================================================
