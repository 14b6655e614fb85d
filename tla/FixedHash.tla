----------------------------- MODULE FixedHash ------------------------------
(***************************************************************************)
(* FixedHash.h: hash is a FixedHash<Size>, on which the operators work,    *)
(* and bloom a FixedHash<BloomSize>, a Bloom filter that hashes are added  *)
(* to.  A hash is the sequence of its bytes, the highest first.            *)
(***************************************************************************)
EXTENDS Integers, SequencesExt, Bitwise

CONSTANTS Size,      \* N, bytes of a hash
          BloomSize, \* M, bytes of the filter: a power of two
          Parts,     \* P, the bits that a hash sets in the filter
          Samples,   \* hashes that are given
          MaxSteps   \* bound: operations on the objects

VARIABLES hash, bloom, added, steps

vars == <<hash, bloom, added, steps>>

CD == INSTANCE CommonData

Byte == 0 .. 255
Default(size) == [i \in 1 .. size |-> 0]

\* The constructor from bytes or from a hash of another size: what is missing
\* is zero, what is too much is cropped, or all is zero if the sizes differ.
Aligned(bytes, size, align) ==
    LET c == IF Len(bytes) < size THEN Len(bytes) ELSE size
    IN  [i \in 1 .. size |->
            CASE (align = "AlignRight" \/ Len(bytes) = size) /\ i > size - c ->
                     bytes[Len(bytes) - size + i]
              [] align = "AlignLeft" /\ i <= c -> bytes[i]
              [] OTHER -> 0]

\* The constructor from a string of digits; a wrong one throws.
FromHexThrows(s) == CD!FromHex(s) = <<>> /\ s \notin {<<>>, CD!Prefix}
FromString(s, size) == Aligned(CD!FromHex(s), size, "FailIfDifferent")

\* operator Arith and the constructor from a number
Arith(h) == CD!FromBigEndian(h)
FromArith(n, size) == CD!ToBigEndian(n, size)

Less(h, c) == \E i \in DOMAIN h : h[i] < c[i] /\ \A j \in 1 .. i - 1 : h[j] = c[j]

\* operator^, |, & and ~
Toggled(h, c) == [i \in DOMAIN h |-> h[i] ^^ c[i]]
United(h, c) == [i \in DOMAIN h |-> h[i] | c[i]]
Shared(h, c) == [i \in DOMAIN h |-> h[i] & c[i]]
Inverted(h) == [i \in DOMAIN h |-> 255 - h[i]]

\* operator++: a byte that becomes zero carries to the one before it.
Incremented(h) ==
    LET last == IF \A i \in DOMAIN h : h[i] = 255 THEN 0
                ELSE Max({i \in DOMAIN h : h[i] # 255})
    IN  [i \in DOMAIN h |-> CASE i < last -> h[i] [] i = last -> h[i] + 1 [] OTHER -> 0]

HashContains(h, c) == Shared(h, c) = c

BloomBits == BloomSize * 8
Log2[n \in Nat] == IF n <= 1 THEN 0 ELSE 1 + Log2[n \div 2]
BloomBytes == (Log2[BloomBits] + 7) \div 8

\* The bit that part i of a hash stands for.
BloomIndex(h, i) ==
    CD!FromBigEndian(SubSeq(h, (i - 1) * BloomBytes + 1, i * BloomBytes)) % BloomBits

\* bloomPart
BloomPart(h) ==
    [b \in 1 .. BloomSize |->
        FoldSet(LAMBDA x, n : 2 ^ x + n, 0,
                {x \in 0 .. 7 : \E i \in 1 .. Parts : BloomIndex(h, i) = 8 * (BloomSize - b) + x})]

ContainsBloom(b, h) == HashContains(b, BloomPart(h))

\* firstBitSet: the zeros in front
FirstBitSet(h) ==
    LET i == Min({j \in DOMAIN h : h[j] # 0})
    IN  IF h = Default(Len(h)) THEN 8 * Len(h)
        ELSE 8 * (i - 1) + 7 - Max({x \in 0 .. 7 : (h[i] \div 2 ^ x) % 2 = 1})

\* left160 and right160, of hashes of half the size
LeftHalf(h) == SubSeq(h, 1, Len(h) \div 2)
RightHalf(h) == SubSeq(h, Len(h) - (Len(h) \div 2) + 1, Len(h))

\* toUUID and fromUUID: dashes after 8, 12, 16 and 20 digits
Dash == 45
ToUUID(h) ==
    FoldLeft(LAMBDA s, i : InsertAt(s, i + 1, Dash), CD!ToHex(h), <<20, 16, 12, 8>>)
FromUUID(s) == LET digits == SelectSeq(s, LAMBDA c : c # Dash)
               IN  IF FromHexThrows(digits) THEN Default(16) ELSE FromString(digits, 16)

\* jsToFixed: the last digits, as many as the hash has; fewer are all lost.
JsToFixed(s, size) ==
    LET digits == CD!Unprefixed(s)
    IN  IF CD!Prefixed(s)
          THEN FromString(SubSeq(digits, (IF Len(digits) > 2 * size THEN Len(digits) - 2 * size
                                          ELSE 0) + 1, Len(digits)), size)
        ELSE IF CD!AllDigits(s) THEN FromArith(CD!Parsed(s), size) ELSE Default(size)

\* The binary operators of SecureFixedHash: |= and &= call operator^= too.
SecureXor(h, c) == Toggled(h, c)
SecureOr(h, c) == Toggled(h, c)
SecureAnd(h, c) == Toggled(h, c)

-----------------------------------------------------------------------------
Init == hash = Default(Size) /\ bloom = Default(BloomSize) /\ added = {} /\ steps = 0

Step == steps < MaxSteps /\ steps' = steps + 1

Assign(h) == Step /\ hash' = h /\ UNCHANGED <<bloom, added>>
Combine(h) == /\ Step
              /\ hash' \in {Toggled(hash, h), United(hash, h), Shared(hash, h)}
              /\ UNCHANGED <<bloom, added>>
Complement == Step /\ hash' = Inverted(hash) /\ UNCHANGED <<bloom, added>>
Increment == Step /\ hash' = Incremented(hash) /\ UNCHANGED <<bloom, added>>

\* shiftBloom
ShiftBloom == /\ Step
              /\ bloom' = United(bloom, BloomPart(hash))
              /\ added' = added \cup {hash}
              /\ UNCHANGED hash

Clear == Step /\ bloom' = Default(BloomSize) /\ added' = {} /\ UNCHANGED hash

Next == \/ \E h \in Samples : Assign(h) \/ Combine(h)
        \/ Complement \/ Increment \/ ShiftBloom \/ Clear

Spec == Init /\ [][Next]_vars

-----------------------------------------------------------------------------
\* The filter never denies a hash that shiftBloom has added, whichever others
\* were added before and after it (shiftBloom, bloomPart and containsBloom).
AddedIsContained == \A h \in added : ContainsBloom(bloom, h)

\* A hash is its number: the order, ++ and the first bit are those of numbers,
\* zeros that are put in front of it change nothing, and its text, as digits or
\* as a UUID, gives it back.
HashIsItsNumber ==
    /\ FromArith(Arith(hash), Size) = hash
    /\ \A h \in Samples : Less(hash, h) <=> Arith(hash) < Arith(h)
    /\ Arith(Incremented(hash)) = (Arith(hash) + 1) % CD!Power256[Size]
    /\ hash # Default(Size) =>
           2 ^ (8 * Size - 1 - FirstBitSet(hash)) <= Arith(hash)
             /\ Arith(hash) < 2 ^ (8 * Size - FirstBitSet(hash))
    /\ LET wide == Aligned(hash, Size + 2, "AlignRight")
       IN  Arith(wide) = Arith(hash) /\ Aligned(wide, Size, "AlignRight") = hash
    /\ Aligned(Aligned(hash, Size + 2, "AlignLeft"), Size, "AlignLeft") = hash
    /\ LeftHalf(hash \o hash) = hash /\ RightHalf(hash \o hash) = hash
    /\ JsToFixed(CD!ToJS(hash, 0), Size) = hash
    /\ JsToFixed(CD!ToJS(<<7>> \o hash, 0), Size) = hash
    /\ LET h128 == Aligned(hash, 16, "AlignRight") IN FromUUID(ToUUID(h128)) = h128

\* What FixedHash.h:273 says of SecureFixedHash, "The obvious binary operators":
\* after x |= c, x has the bits of c, and after x &= c only those.
ObviousOperators ==
    \A h \in Samples : /\ HashContains(SecureOr(hash, h), h)
                       /\ HashContains(h, SecureAnd(hash, h))
=============================================================================
