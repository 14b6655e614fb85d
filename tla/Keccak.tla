------------------------------- MODULE Keccak -------------------------------
(***************************************************************************)
(* sha3 of libdevcore/SHA3.cpp, as it is coded - lanes in one array, moved *)
(* along a cycle, padding xored into the last block - in step with the     *)
(* definition of Keccak by columns, rows and lanes of bits.                *)
(***************************************************************************)
EXTENDS Naturals, SequencesExt

CONSTANT Lengths \* of inputs, in bytes

VARIABLES input,
          blk, \* the blocks absorbed
          i,   \* the rounds done
          a,   \* of each of the 25 lanes, the places of its ones
          A    \* the state of the definition: its bits that are 1

vars == <<input, blk, i, a, A>>

rate == 136 \* of sha3_256
delim == 1

Bit(n, k) == (n \div 2 ^ k) % 2 = 1
Xor(x, y) == (x \ y) \cup (y \ x)
rol(x, n) == {(k + n) % 64 : k \in x}

rho == <<1, 3, 6, 10, 15, 21, 28, 36, 45, 55, 2, 14, 27, 41, 56, 8, 25, 43, 62, 18, 39, 61, 20, 44>>
pi == <<10, 7, 11, 17, 18, 3, 5, 16, 8, 21, 24, 4, 15, 23, 19, 13, 12, 2, 20, 14, 22, 9, 6, 1>>

\* The constants of the rounds, as the places of their ones.
RC == <<{0}, {1, 7, 15}, {1, 3, 7, 15, 63}, {15, 31, 63}, {0, 1, 3, 7, 15}, {0, 31}, {0, 7, 15, 31, 63}, {0, 3, 15, 63},
        {1, 3, 7}, {3, 7}, {0, 3, 15, 31}, {1, 3, 31}, {0, 1, 3, 7, 15, 31}, {0, 1, 3, 7, 63}, {0, 3, 7, 15, 63},
        {0, 1, 15, 63}, {1, 15, 63}, {7, 63}, {1, 3, 15}, {1, 3, 31, 63}, {0, 7, 15, 31, 63}, {7, 15, 63}, {0, 31},
        {3, 15, 31, 63}>>

Theta(s) ==
    LET b == [x \in 0 .. 4 |-> Xor(Xor(Xor(s[x], s[x + 5]), Xor(s[x + 10], s[x + 15])), s[x + 20])]
    IN  [n \in 0 .. 24 |-> Xor(s[n], Xor(b[(n + 4) % 5], rol(b[(n + 1) % 5], 1)))]

\* The lanes move along the cycle of pi, each rotated on its way.
RhoAndPi(s) ==
    [n \in 0 .. 24 |-> IF n = 0 THEN s[0]
                      ELSE LET x == CHOOSE x \in 1 .. 24 : pi[x] = n
                           IN  rol(s[IF x = 1 THEN 1 ELSE pi[x - 1]], rho[x])]

Chi(s) == [n \in 0 .. 24 |-> LET b(k) == s[(n - (n % 5)) + ((n + k) % 5)]
                            IN  Xor(b(0), b(2) \ b(1))]

Iota(s, n) == [s EXCEPT ![0] = Xor(@, RC[n + 1])]

\* The bits of bytes, as places in the state.
BitsOf(bytes) == {k \in 0 .. 8 * Len(bytes) - 1 : Bit(bytes[(k \div 8) + 1], k % 8)}

xorin(s, bytes) == LET bits == BitsOf(bytes)
                   IN  [n \in 0 .. 24 |-> Xor(s[n], {k \in 0 .. 63 : 64 * n + k \in bits})]

\* The delimiter after the rest of the input, and the end of the frame: both
\* may be in one byte.
Frame(inlen) == [k \in 1 .. rate |-> (IF k = inlen + 1 THEN delim ELSE 0) + (IF k = rate THEN 128 ELSE 0)]

\* What hash does before it applies P for the b-th time.
Absorbed(s, b) ==
    LET in == SubSeq(input, rate * b + 1, Len(input))
    IN  IF Len(in) >= rate THEN xorin(s, SubSeq(in, 1, rate))
        ELSE xorin(xorin(s, Frame(Len(in))), in)

-----------------------------------------------------------------------------
\* Keccak-f as FIPS 202 defines it, over bits of columns, rows and lanes.
\* The register of rc is shifted once for each bit.
Shift(R) == <<R[8], R[1], R[2], R[3], R[4] # R[8], R[5] # R[8], R[6] # R[8], R[7]>>
Register[t \in Nat] == IF t = 0 THEN <<TRUE, FALSE, FALSE, FALSE, FALSE, FALSE, FALSE, FALSE>> ELSE Shift(Register[t - 1])
RoundConstant == [n \in 0 .. 23 |-> {2 ^ j - 1 : j \in {k \in 0 .. 6 : Register[k + 7 * n][1]}}]

\* The column and row that the t-th step of rho is at.
At[t \in Nat \ {0}] == IF t = 1 THEN <<1, 0>>
                       ELSE LET p == At[t - 1] IN <<p[2], (2 * p[1] + 3 * p[2]) % 5>>
Offset == [x, y \in 0 .. 4 |-> IF x = 0 /\ y = 0 THEN 0
                               ELSE LET t == CHOOSE t \in 1 .. 24 : At[t] = <<x, y>> IN (t * (t + 1)) \div 2]

DefinedRound(S, n) ==
    LET at(x, y, z) == 64 * (x + 5 * y) + z
        odd == {p \in (0 .. 4) \X (0 .. 63) : Cardinality({y \in 0 .. 4 : at(p[1], y, p[2]) \in S}) % 2 = 1}
        T(x, y, z) == (at(x, y, z) \in S) # ((<<(x + 4) % 5, z>> \in odd) # (<<(x + 1) % 5, (z + 63) % 64>> \in odd))
        moved(x, y) == LET from == (x + 3 * y) % 5
                           off == Offset[from, x]
                       IN  {at(x, y, z) : z \in {z \in 0 .. 63 : T(from, x, (z + 640 - off) % 64)}}
        B == UNION {moved(x, y) : x \in 0 .. 4, y \in 0 .. 4}
        constant == RoundConstant[n]
        row(p, k) == 64 * (5 * (p \div 320) + (((p \div 64) + k) % 5)) + (p % 64)
    IN  {p \in 0 .. 1599 : ((p \in B) # (row(p, 1) \notin B /\ row(p, 2) \in B)) # (p \in constant)}

\* The padded input, a one, zeros and a one after it, in blocks.
Blocks == (8 * Len(input) + 2 + 1087) \div 1088
Padded == BitsOf(input) \cup {8 * Len(input), 1088 * Blocks - 1}
DefinedAbsorbed(S, b) == Xor(S, {k \in 0 .. 1087 : 1088 * b + k \in Padded})

-----------------------------------------------------------------------------
Message(n) == [k \in 1 .. n |-> (7 * k + 3 * n) % 256]

Init == /\ input \in {Message(n) : n \in Lengths}
        /\ blk = 0 /\ i = 24
        /\ a = [n \in 0 .. 24 |-> {}] /\ A = {}

Absorb == /\ i = 24 /\ blk < (Len(input) \div rate) + 1
          /\ a' = Absorbed(a, blk)
          /\ A' = DefinedAbsorbed(A, blk)
          /\ blk' = blk + 1 /\ i' = 0
          /\ UNCHANGED input

\* A round of keccakf.
Round == /\ i < 24
         /\ a' = Iota(Chi(RhoAndPi(Theta(a))), i)
         /\ A' = DefinedRound(A, i)
         /\ i' = i + 1
         /\ UNCHANGED <<input, blk>>

Next == Absorb \/ Round
Spec == Init /\ [][Next]_vars

-----------------------------------------------------------------------------
\* The code's state is that of the definition after each block and each round,
\* and the blocks are as many, wherever the input ends in a block: sha3, the
\* first 256 bits of the last state, is Keccak-256.
Sha3IsKeccak == /\ A = UNION {{64 * n + k : k \in a[n]} : n \in 0 .. 24}
                /\ Blocks = (Len(input) \div rate) + 1
=============================================================================
