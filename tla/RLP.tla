-------------------------------- MODULE RLP --------------------------------
(***************************************************************************)
(* The encoding of everything that is sent or stored (RLP.h, RLP.cpp): an  *)
(* RLPStream, to which items are appended, the RLP that reads it, with the *)
(* cache of its subscript, and the conversions of items.  Beside the bytes *)
(* the model keeps the items that they stand for: [data |-> bytes] or      *)
(* [list |-> items].                                                       *)
(*                                                                         *)
(* A byte is a number.  Sizes of 2^24 and more, which no input has, are    *)
(* not told apart.  Bad stands for any of the exceptions.                  *)
(***************************************************************************)
EXTENDS Integers, SequencesExt

CONSTANTS Datas,      \* byte strings that are appended
          Ints,       \* numbers that are appended
          Counts,     \* sizes of lists that are begun
          MaxAppends, \* bound: items appended, lists included
          Foreign,    \* byte strings that are read though no RLPStream wrote them
          Indices,    \* subscripts
          Widths      \* sizes of the types that items are converted to

CD == INSTANCE CommonData

Byte == 0 .. 255

ASSUME RLPConstants == /\ \A d \in Datas \cup Foreign : d \in Seq(Byte)
                       /\ Ints \cup Counts \cup Indices \subseteq Nat
                       /\ MaxAppends \in Nat

MaxLengthBytes == 8
DataImmLenStart == 128
ListStart == 192
DataImmLenCount == ListStart - DataImmLenStart - MaxLengthBytes
DataIndLenZero == DataImmLenStart + DataImmLenCount - 1
ListImmLenCount == 256 - ListStart - MaxLengthBytes
ListIndLenZero == ListStart + ListImmLenCount - 1

VARIABLES out,       \* m_out of the stream, and m_data of the RLP
          listStack, \* m_listStack: what is missing of a list, and where it starts
          appends,   \* number of appends
          top,       \* the items that are complete, of those that out stands for
          lists,     \* the lists that are not: their size and their items so far
          origin,    \* whether out was "written" by the stream or is "foreign"
          lastIndex, lastEnd, lastItem, \* the cache of the subscript
          result     \* what the subscript returned last

stream == <<out, listStack, appends, top, lists, origin>>
cache == <<lastIndex, lastEnd, lastItem>>
vars == <<stream, cache, result>>

None == [index |-> -1, item |-> <<>>]
Bad == [bad |-> TRUE]
BadBytes == <<-1>> \* in the place of the bytes of an item
NoIndex == 1000 \* (size_t)-1

Init == /\ out = <<>> /\ listStack = <<>> /\ appends = 0
        /\ top = <<>> /\ lists = <<>> /\ origin = "written"
        /\ lastIndex = NoIndex /\ lastEnd = 0 /\ lastItem = <<>>
        /\ result = None

-----------------------------------------------------------------------------
(* RLPStream *)

\* bytesRequired and pushInt: the shortest big-endian form.
BigEndian[n \in Nat] == IF n = 0 THEN <<>> ELSE Append(BigEndian[n \div 256], n % 256)

PushCount(n, base) == <<base + Len(BigEndian[n])>> \o BigEndian[n]

\* The header of a list with a payload of a size.
ListHeader(s) == IF s < ListImmLenCount THEN <<ListStart + s>> ELSE PushCount(s, ListIndLenZero)

DataHeader(s) == IF s < DataImmLenCount THEN <<DataImmLenStart + s>>
                                        ELSE PushCount(s, DataIndLenZero)

\* append of bytes
EncodedData(d) == IF Len(d) = 1 /\ d[1] < DataImmLenStart THEN d
                                                         ELSE DataHeader(Len(d)) \o d

\* append of a bigint
EncodedInt(n) == IF n = 0 THEN <<DataImmLenStart>>
                 ELSE IF n < DataImmLenStart THEN <<n>>
                 ELSE DataHeader(Len(BigEndian[n])) \o BigEndian[n]

\* noteAppended, of one item: lists that it completes get their headers.
RECURSIVE NoteAppended(_, _)
NoteAppended(bytes, stack) ==
    IF stack = <<>> THEN [out |-> bytes, stack |-> stack]
    ELSE LET missing == Last(stack).missing - 1
             p == Last(stack).begin
             s == Len(bytes) - p
         IN  IF missing # 0
               THEN [out |-> bytes, stack |-> Append(Front(stack), [missing |-> missing, begin |-> p])]
               ELSE NoteAppended(SubSeq(bytes, 1, p) \o ListHeader(s)
                                   \o SubSeq(bytes, p + 1, Len(bytes)),
                                 Front(stack))

\* The same of the items.
RECURSIVE Add(_, _, _)
Add(item, items, open) ==
    IF open = <<>> THEN [top |-> Append(items, item), lists |-> open]
    ELSE LET list == [size |-> Last(open).size, items |-> Append(Last(open).items, item)]
         IN  IF Len(list.items) < list.size
               THEN [top |-> items, lists |-> Append(Front(open), list)]
               ELSE Add([list |-> list.items], items, Front(open))

\* An encoded item is appended; a stream that is read is not written any more.
AppendItem(bytes, item) ==
    /\ appends < MaxAppends /\ origin = "written" /\ lastIndex = NoIndex
    /\ appends' = appends + 1
    /\ LET noted == NoteAppended(out \o bytes, listStack)
           added == Add(item, top, lists)
       IN  /\ out' = noted.out /\ listStack' = noted.stack
           /\ top' = added.top /\ lists' = added.lists
    /\ UNCHANGED <<origin, cache, result>>

AppendData(d) == AppendItem(EncodedData(d), [data |-> d])
AppendInt(n) == AppendItem(EncodedInt(n), [data |-> BigEndian[n]])
AppendEmptyList == AppendItem(ListHeader(0), [list |-> <<>>])

\* appendList of a number of items that are to follow
AppendList(n) ==
    /\ appends < MaxAppends /\ origin = "written" /\ lastIndex = NoIndex
    /\ appends' = appends + 1
    /\ listStack' = Append(listStack, [missing |-> n, begin |-> Len(out)])
    /\ lists' = Append(lists, [size |-> n, items |-> <<>>])
    /\ UNCHANGED <<out, top, origin, cache, result>>

-----------------------------------------------------------------------------
(* RLP *)

Number(bytes) == FoldLeft(LAMBDA n, b : n * 256 + b, 0, bytes)

\* length, of a header that says how many bytes its length has
IndirectLength(d, lengthSize) ==
    IF Len(d) <= lengthSize \/ d[2] = 0 \/ lengthSize > 3 THEN Bad
    ELSE LET n == Number(SubSeq(d, 2, 1 + lengthSize))
         IN  IF n < DataImmLenCount THEN Bad ELSE [n |-> n]

\* requireGood: a byte that stands for itself has no header.
Good(d) == d # <<>> /\ (d[1] = DataImmLenStart + 1 => Len(d) >= 2 /\ d[2] >= DataImmLenStart)

\* length
Length(d) ==
    IF ~Good(d) THEN Bad
    ELSE LET b == d[1]
         IN  CASE b < DataImmLenStart -> [n |-> 1]
               [] b \in DataImmLenStart .. DataIndLenZero -> [n |-> b - DataImmLenStart]
               [] b \in DataIndLenZero + 1 .. ListStart - 1 -> IndirectLength(d, b - DataIndLenZero)
               [] b \in ListStart .. ListIndLenZero -> [n |-> b - ListStart]
               [] OTHER -> IndirectLength(d, b - ListIndLenZero)

IsList(d) == d # <<>> /\ d[1] >= ListStart

\* payloadOffset, with lengthSize
PayloadOffset(d) ==
    CASE d[1] < DataImmLenStart -> 0
      [] d[1] \in DataIndLenZero + 1 .. ListStart - 1 -> 1 + d[1] - DataIndLenZero
      [] d[1] > ListIndLenZero -> 1 + d[1] - ListIndLenZero
      [] OTHER -> 1

\* sizeAsEncoded: actualSize, if there are as many bytes
SizeAsEncoded(d) ==
    IF d = <<>> THEN [n |-> 0]
    ELSE LET l == Length(d)
         IN  IF l = Bad \/ PayloadOffset(d) + l.n > Len(d) THEN Bad
                                                         ELSE [n |-> PayloadOffset(d) + l.n]

\* payload, of an item that is all there
Payload(d) == SubSeq(d, PayloadOffset(d) + 1, PayloadOffset(d) + Length(d).n)

\* The constructor, with VeryStrict: all the bytes are those of one item.
WellFormed(d) == d = <<>> \/ SizeAsEncoded(d) = [n |-> Len(d)]

\* Iteration over the bytes of several items.
RECURSIVE Items(_)
Items(bytes) ==
    IF bytes = <<>> THEN <<>>
    ELSE LET size == SizeAsEncoded(bytes)
         IN  IF size = Bad THEN <<BadBytes>>
             ELSE <<SubSeq(bytes, 1, size.n)>> \o Items(SubSeq(bytes, size.n + 1, Len(bytes)))

\* What the bytes of an item stand for: toBytes or toList, and so on.
RECURSIVE Decoded(_)
Decoded(d) ==
    IF d = BadBytes \/ d = <<>> \/ ~WellFormed(d) THEN Bad
    ELSE IF ~IsList(d) THEN [data |-> Payload(d)]
    ELSE LET items == Items(Payload(d))
             decoded == [i \in DOMAIN items |-> Decoded(items[i])]
         IN  IF \E i \in DOMAIN items : decoded[i] = Bad THEN Bad ELSE [list |-> decoded]

\* Bytes from elsewhere are to be read.
Receive(d) ==
    /\ appends = 0 /\ origin = "written" /\ lastIndex = NoIndex
    /\ out' = d /\ origin' = "foreign"
    /\ UNCHANGED <<listStack, appends, top, lists, cache, result>>

\* The loop of operator[]: it goes on from the item it had reached, and has
\* moved on when the size of the next one throws.
RECURSIVE Advance(_, _)
Advance(c, i) ==
    IF c.index >= i \/ c.item = <<>> THEN c
    ELSE LET rest == SubSeq(Payload(out), c.end + 1, Len(Payload(out)))
             size == SizeAsEncoded(rest)
         IN  IF size = Bad THEN [c EXCEPT !.item = rest, !.thrown = TRUE]
             ELSE Advance([c EXCEPT !.index = @ + 1, !.end = @ + size.n,
                                    !.item = SubSeq(rest, 1, size.n)], i)

FromFirst ==
    LET size == SizeAsEncoded(Payload(out))
    IN  IF size = Bad
          THEN [index |-> lastIndex, end |-> lastEnd, item |-> lastItem, thrown |-> TRUE]
          ELSE [index |-> 0, end |-> size.n, item |-> SubSeq(Payload(out), 1, size.n),
                thrown |-> FALSE]

\* operator[], of a list that a stream wrote.  One of which an item is not valid
\* is left out: it throws, and leaves the cache with the bytes from that item on.
Subscript(i) ==
    /\ listStack = <<>> /\ IsList(out) /\ WellFormed(out)
    /\ origin = "written"
    /\ LET from == IF i < lastIndex THEN FromFirst
                   ELSE [index |-> lastIndex, end |-> lastEnd, item |-> lastItem, thrown |-> FALSE]
           c == IF from.thrown THEN from ELSE Advance(from, i)
       IN  /\ lastIndex' = c.index /\ lastEnd' = c.end /\ lastItem' = c.item
           /\ result' = [index |-> i,
                         item |-> IF c.thrown \/ SizeAsEncoded(c.item) = Bad THEN BadBytes ELSE c.item]
    /\ UNCHANGED stream

-----------------------------------------------------------------------------
Next == \/ \E d \in Datas : AppendData(d)
        \/ \E n \in Ints : AppendInt(n)
        \/ AppendEmptyList
        \/ \E n \in Counts \ {0} : AppendList(n)
        \/ \E d \in Foreign : Receive(d)
        \/ \E i \in Indices : Subscript(i)

Spec == Init /\ [][Next]_vars

-----------------------------------------------------------------------------
\* What the stream has written reads as what was appended to it, in whatever
\* order lists were begun and completed.
WrittenIsRead ==
    origin = "written" /\ listStack = <<>> =>
        [i \in DOMAIN Items(out) |-> Decoded(Items(out)[i])] = top

\* An item has one encoding only: bytes that RLP reads are those that an
\* RLPStream writes of what they stand for.
RECURSIVE Encoded(_)
Encoded(item) ==
    IF "data" \in DOMAIN item THEN EncodedData(item.data)
    ELSE LET payload == FoldLeft(LAMBDA bytes, x : bytes \o Encoded(x), <<>>, item.list)
         IN  ListHeader(Len(payload)) \o payload

OneEncoding ==
    origin = "foreign" /\ Decoded(out) # Bad => Encoded(Decoded(out)) = out

\* The subscript returns the item there is, or nothing, whichever items were
\* asked for before: its cache is never stale.
SubscriptIsItem ==
    result # None =>
        LET items == Items(Payload(out))
            i == result.index
        IN  result.item = IF i < Len(items) THEN items[i + 1]
                          ELSE <<>>

-----------------------------------------------------------------------------
(* The conversions of items to and from numbers, hashes and collections.   *)
(* A number is its bytes, without zeros in front.                          *)

Flags == {"AllowNonCanon", "ThrowOnFail", "FailIfTooBig", "FailIfTooSmall"}
Strict == {"ThrowOnFail", "FailIfTooBig"}
VeryStrict == Flags \ {"AllowNonCanon"}
LaissezFaire == {"AllowNonCanon"}

IsData(d) == d # <<>> /\ d[1] < ListStart

\* isInt: data with no zero in front, and the byte zero is not a number.
IsInt(d) == /\ IsData(d) /\ Good(d)
            /\ d[1] = DataImmLenStart \/ d[PayloadOffset(d) + 1] # 0

Failed(flags, default) == IF "ThrowOnFail" \in flags THEN Bad ELSE [value |-> default]

LastOf(bytes, n) == IF Len(bytes) > n THEN SubSeq(bytes, Len(bytes) - n + 1, Len(bytes)) ELSE bytes
FirstOf(bytes, n) == IF Len(bytes) > n THEN SubSeq(bytes, 1, n) ELSE bytes

\* toInt: what does not fit into the type is cut off, if it is not a failure.
ToInt(d, size, flags) ==
    IF ~Good(d) THEN Bad
    ELSE IF ~IsInt(d) /\ ("AllowNonCanon" \notin flags \/ IsList(d)) THEN Failed(flags, <<>>)
    ELSE IF Len(Payload(d)) > size /\ "FailIfTooBig" \in flags THEN Failed(flags, <<>>)
    ELSE [value |-> CD!UnpadLeft(LastOf(Payload(d), size))]

\* toHash: to the right of zeros; the first bytes, if there are too many.
ToHash(d, size, flags) ==
    LET l == Len(Payload(d))
        fails == \/ ~IsData(d)
                 \/ l > size /\ "FailIfTooBig" \in flags
                 \/ l < size /\ "FailIfTooSmall" \in flags
    IN  IF ~Good(d) THEN Bad
        ELSE IF fails THEN Failed(flags, CD!Padded(<<>>, size))
        ELSE [value |-> CD!Padded(FirstOf(Payload(d), size), size)]

\* toBytes and toString
ToBytes(d) == [value |-> IF IsData(d) THEN Payload(d) ELSE <<>>]

\* toVector, toSet, toPair and toArray, of items converted to byte strings.
ToVector(d) ==
    LET items == IF IsList(d) THEN Items(Payload(d)) ELSE <<>>
    IN  [value |-> [i \in DOMAIN items |-> ToBytes(items[i]).value]]

ToSetOf(d) == [value |-> ToSet(ToVector(d).value)]

ToArray(d, n) ==
    IF ~IsList(d) \/ Len(Items(Payload(d))) # n THEN Bad ELSE ToVector(d)

ToPair(d) == ToArray(d, 2)

-----------------------------------------------------------------------------
(* RLPStream *)

\* append of a hash; compact leaves out the zeros in front.
EncodedHash(h, compact, allOrNothing) ==
    IF allOrNothing /\ \A i \in DOMAIN h : h[i] = 0 THEN EncodedData(<<>>)
    ELSE EncodedData(IF compact THEN CD!UnpadLeft(h) ELSE h)

\* appendVector, and append of sets, arrays and pairs, of byte strings.
EncodedVector(v) ==
    LET payload == FlattenSeq([i \in DOMAIN v |-> EncodedData(v[i])])
    IN  ListHeader(Len(payload)) \o payload

-----------------------------------------------------------------------------
\* The strings that have been appended, on their own or in a list.
Appended == UNION {IF "data" \in DOMAIN top[i] THEN {top[i].data}
                   ELSE {x.data : x \in {y \in ToSet(top[i].list) : "data" \in DOMAIN y}} :
                      i \in DOMAIN top}

IntsConvert(s) ==
    LET canonical == s = <<>> \/ s[1] # 0
        d == EncodedData(s)
    IN  /\ IsInt(d) = canonical
        /\ \A w \in Widths :
               /\ ToInt(d, w, Strict) = IF canonical /\ Len(s) <= w THEN [value |-> s] ELSE Bad
               /\ LastOf(s, w) = s => ToInt(d, w, LaissezFaire) = [value |-> CD!UnpadLeft(s)]

HashesConvert(s) ==
    LET compact == EncodedHash(s, TRUE, FALSE)
    IN  /\ ToHash(EncodedHash(s, FALSE, FALSE), Len(s), VeryStrict) = [value |-> s]
        /\ ToHash(compact, Len(s), Strict) = [value |-> s]
        /\ ToHash(EncodedHash(s, FALSE, TRUE), Len(s), Strict) = [value |-> s]
        /\ (ToHash(compact, Len(s), VeryStrict) = Bad) = (s # <<>> /\ s[1] = 0)
        /\ \A w \in Widths : ToHash(EncodedData(s), w, Strict) =
               IF Len(s) > w THEN Bad ELSE [value |-> CD!Padded(s, w)]

ListsConvert(item, d) ==
    LET strings == \A i \in DOMAIN item.list : "data" \in DOMAIN item.list[i]
        v == [i \in DOMAIN item.list |-> item.list[i].data]
    IN  /\ (ToPair(d) # Bad) = (Len(item.list) = 2)
        /\ ToHash(d, 1, Strict) = Bad /\ ToInt(d, 1, Strict) = Bad /\ ~IsInt(d)
        /\ strings => /\ EncodedVector(v) = d
                      /\ ToVector(d) = [value |-> v]
                      /\ ToSetOf(d) = [value |-> ToSet(v)]

\* What was appended is what the item converts to, as a number, a hash or a
\* collection of whatever width, or the conversion fails, as strictly as it was
\* asked to: nothing is cut off or made up unnoticed (toInt, toHash, toVector,
\* toSet, toPair against append).
AppendedIsConverted ==
    origin = "written" /\ listStack = <<>> =>
        /\ \A s \in Appended : IntsConvert(s) /\ HashesConvert(s)
        /\ \A i \in DOMAIN top :
               "list" \in DOMAIN top[i] => ListsConvert(top[i], Items(out)[i])
=============================================================================
