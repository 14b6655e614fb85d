----------------------------- MODULE CommonData -----------------------------
(***************************************************************************)
(* The conversions of bytes to text and numbers and back (CommonData.h and *)
(* .cpp, Base64.cpp, CommonJS.h and .cpp).  A character is its code: a     *)
(* string, as bytes are, is a sequence of numbers below 256.              *)
(***************************************************************************)
EXTENDS Integers, SequencesExt

Zero == 48 \* '0'
X == 120 \* 'x'
Quote == 34
Backslash == 92
Prefix == <<Zero, X>>

Digit == Zero .. Zero + 9
Upper == 65 .. 90
Lower == 97 .. 122

-----------------------------------------------------------------------------
(* Hexadecimal *)

\* asNibbles
Nibbles(bytes) ==
    [i \in 1 .. 2 * Len(bytes) |->
        IF i % 2 = 1 THEN bytes[(i + 1) \div 2] \div 16 ELSE bytes[i \div 2] % 16]

HexDigit(n) == IF n < 10 THEN Zero + n ELSE 87 + n

\* toHex, with _w = 2
ToHex(bytes) == [i \in 1 .. 2 * Len(bytes) |-> HexDigit(Nibbles(bytes)[i])]

\* toHex, with _w = 1: the first byte may have one digit.
ToHexShort(bytes) ==
    IF bytes # <<>> /\ bytes[1] < 16 THEN Tail(ToHex(bytes)) ELSE ToHex(bytes)

\* fromHex of a character
FromHexDigit(c) == CASE c \in Digit -> c - Zero
                     [] c \in 97 .. 102 -> c - 87
                     [] c \in 65 .. 70 -> c - 55
                     [] OTHER -> -1

\* fromHex, with DontThrow: nothing, if one of the characters is none.
FromHex(s) ==
    LET digits == IF Len(s) >= 2 /\ SubSeq(s, 1, 2) = Prefix THEN SubSeq(s, 3, Len(s)) ELSE s
        even == IF Len(digits) % 2 = 0 THEN digits ELSE <<Zero>> \o digits
    IN  IF \E i \in 1 .. Len(digits) : FromHexDigit(digits[i]) = -1 THEN <<>>
        ELSE [i \in 1 .. Len(even) \div 2 |->
                FromHexDigit(even[2 * i - 1]) * 16 + FromHexDigit(even[2 * i])]

-----------------------------------------------------------------------------
(* Numbers *)

Power256[n \in Nat] == IF n = 0 THEN 1 ELSE 256 * Power256[n - 1]

\* toBigEndian into bytes of a given size
ToBigEndian(n, size) == [i \in 1 .. size |-> (n \div Power256[size - i]) % 256]

\* fromBigEndian, of bytes that the type has room for
FromBigEndian(bytes) == FoldLeft(LAMBDA n, b : n * 256 + b, 0, bytes)

BytesRequired[n \in Nat] == IF n = 0 THEN 0 ELSE 1 + BytesRequired[n \div 256]

\* toCompactBigEndian, with _min
ToCompactBigEndian(n, min) ==
    ToBigEndian(n, IF BytesRequired[n] > min THEN BytesRequired[n] ELSE min)

\* boost's number of a string of digits: a leading zero says it is octal.
RECURSIVE Value(_, _)
Value(s, radix) ==
    IF s = <<>> THEN 0 ELSE Value(Front(s), radix) * radix + Last(s) - Zero

Parsed(s) == IF Len(s) > 1 /\ s[1] = Zero THEN Value(s, 8) ELSE Value(s, 10)

RECURSIVE Decimal(_)
Decimal(n) == IF n < 10 THEN <<Zero + n>> ELSE Append(Decimal(n \div 10), Zero + (n % 10))

-----------------------------------------------------------------------------
(* Text *)

PrettyEscape(c) == CASE c = 13 -> 114 [] c = 10 -> 110 [] c = 9 -> 116 [] c = 11 -> 118

\* One character of escaped; a char is signed, so those from 128 on are below ' '.
EscapedChar(c, all) ==
    CASE c \in {Quote, Backslash} /\ ~all -> <<Backslash, c>>
      [] c \in {13, 10, 9, 11} /\ ~all -> <<Backslash, PrettyEscape(c)>>
      [] c < 32 \/ c >= 128 \/ all -> <<Backslash, X, HexDigit(c \div 16), HexDigit(c % 16)>>
      [] OTHER -> <<c>>

\* escaped
Escaped(s, all) ==
    <<Quote>> \o FlattenSeq([i \in 1 .. Len(s) |-> EscapedChar(s[i], all)]) \o <<Quote>>

\* The positions of s that hold a zero, and toString(string32) and fromRaw.
Zeros(s) == {i \in 1 .. Len(s) : s[i] = 0}
UpToZero(s) == IF Zeros(s) = {} THEN s ELSE SubSeq(s, 1, Min(Zeros(s)) - 1)
FromRaw(s) == IF \E i \in 1 .. Len(UpToZero(s)) : UpToZero(s)[i] < 32 \/ UpToZero(s)[i] >= 128
                THEN <<>> ELSE UpToZero(s)

\* find_base64_char_index
Base64Index(c) == CASE c \in Upper -> c - 65
                    [] c \in Lower -> c - 97 + 26
                    [] c \in Digit -> c - Zero + 52
                    [] c = 43 -> 62
                    [] c = 47 -> 63
                    [] OTHER -> 64

\* base64_chars
Base64Char(i) == CHOOSE c \in Upper \cup Lower \cup Digit \cup {43, 47} : Base64Index(c) = i

\* char_array_4 of three bytes
Sextets(b) == <<b[1] \div 4, (b[1] % 4) * 16 + (b[2] \div 16),
                (b[2] % 16) * 4 + (b[3] \div 64), b[3] % 64>>

\* char_array_3 of four indices; those of characters that are missing are 64.
Octets(x) == <<(x[1] * 4 + ((x[2] \div 16) % 4)) % 256,
               ((x[2] % 16) * 16 + ((x[3] \div 4) % 16)) % 256,
               ((x[3] % 4) * 64 + x[4]) % 256>>

Slice(s, i, n) == SubSeq(s, n * (i - 1) + 1, IF n * i < Len(s) THEN n * i ELSE Len(s))
Slices(s, n) == [i \in 1 .. (Len(s) + n - 1) \div n |-> Slice(s, i, n)]
Filled(s, n, x) == s \o [i \in 1 .. n - Len(s) |-> x]

\* toBase64
ToBase64(bytes) ==
    FlattenSeq([i \in DOMAIN Slices(bytes, 3) |->
        LET b == Slices(bytes, 3)[i]
        IN  Filled([j \in 1 .. Len(b) + 1 |-> Base64Char(Sextets(Filled(b, 3, 0))[j])], 4, 61)])

\* fromBase64: up to the first character that is none.
FromBase64(s) ==
    LET foreign == {i \in 1 .. Len(s) : Base64Index(s[i]) = 64}
        text == IF foreign = {} THEN s ELSE SubSeq(s, 1, Min(foreign) - 1)
        Part(x) == SubSeq(Octets([j \in 1 .. 4 |-> IF j > Len(x) THEN 64 ELSE Base64Index(x[j])]),
                          1, Len(x) - 1)
    IN  FlattenSeq([i \in DOMAIN Slices(text, 4) |-> Part(Slices(text, 4)[i])])

-----------------------------------------------------------------------------
(* CommonJS *)

AllDigits(s) == \A i \in 1 .. Len(s) : s[i] \in Digit
Prefixed(s) == Len(s) >= 2 /\ SubSeq(s, 1, 2) = Prefix
Unprefixed(s) == SubSeq(s, 3, Len(s))

\* toJS of a number
ToJSNumber(n) == Prefix \o ToHexShort(ToCompactBigEndian(n, 1))

\* toJS of bytes, padded at the end
ToJS(bytes, padding) == Prefix \o ToHex(Filled(bytes, padding, 0))

JsToBytes(s) == IF Prefixed(s) THEN FromHex(Unprefixed(s))
                ELSE IF AllDigits(s) THEN ToCompactBigEndian(Parsed(s), 0) ELSE <<>>

\* jsToInt, into size bytes
JsToInt(s, size) == IF Prefixed(s) THEN FromBigEndian(FromHex(Unprefixed(s))) % Power256[size]
                    ELSE IF AllDigits(s) THEN Parsed(s) % Power256[size] ELSE 0

\* padded: with the last bytes kept
Padded(bytes, size) ==
    IF Len(bytes) < size THEN [i \in 1 .. size - Len(bytes) |-> 0] \o bytes
                         ELSE SubSeq(bytes, Len(bytes) - size + 1, Len(bytes))

PaddedRight(bytes, size) == SubSeq(Filled(bytes, size, 0), 1, size)

NotZero(bytes) == {i \in 1 .. Len(bytes) : bytes[i] # 0}
Unpadded(bytes) == IF NotZero(bytes) = {} THEN <<>> ELSE SubSeq(bytes, 1, Max(NotZero(bytes)))
UnpadLeft(bytes) == IF NotZero(bytes) = {} THEN <<>>
                    ELSE SubSeq(bytes, Min(NotZero(bytes)), Len(bytes))

-----------------------------------------------------------------------------
(* Collections *)

\* commonPrefix
CommonPrefix(s, t) ==
    Max({n \in 0 .. Len(s) : n <= Len(t) /\ SubSeq(s, 1, n) = SubSeq(t, 1, n)})

TrimFront(s, elements) == SubSeq(s, elements + 1, Len(s))
PushFront(s, e) == <<e>> \o s

\* operator+= of two maps: what is there stays.
Merged(x, y) == [k \in DOMAIN x \cup DOMAIN y |-> IF k \in DOMAIN x THEN x[k] ELSE y[k]]

KeysOf(x) == SetToSortSeq(DOMAIN x, <)
ValuesOf(x) == [i \in DOMAIN KeysOf(x) |-> x[KeysOf(x)[i]]]
=============================================================================
