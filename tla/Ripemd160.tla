------------------------------ MODULE Ripemd160 ------------------------------
(***************************************************************************)
(* ripemd160 of libdevcore/Hash.cpp, as it is coded - tables unrolled into *)
(* macros, five registers used in turn, the last block put together word   *)
(* by word - in step with the definition of RIPEMD-160 by its authors.     *)
(*                                                                         *)
(* A word is the set of the places of its ones, the lowest being 0.        *)
(***************************************************************************)
EXTENDS Naturals, SequencesExt

CONSTANT Lengths \* of inputs, in bytes

VARIABLES input,
          blk,         \* the block of 64 bytes that is being compressed
          j,           \* the steps done
          MDbuf,
          left, right, \* aa to ee, and aaa to eee
          h, l, r      \* what the definition has instead of those three

vars == <<input, blk, j, MDbuf, left, right, h, l, r>>

Bit(n, i) == (n \div 2 ^ i) % 2 = 1
Word(hi, lo) == {i \in 0 .. 31 : IF i < 16 THEN Bit(lo, i) ELSE Bit(hi, i - 16)}
Xor(x, y) == (x \ y) \cup (y \ x)
Rol(x, n) == {(i + n) % 32 : i \in x}

\* Addition modulo 2^32: a carry comes from a place with two ones.
Plus(x, y) == LET carry == {i \in 1 .. 31 : \E k \in 0 .. i - 1 : /\ k \in x \cap y
                                                               /\ k + 1 .. i - 1 \subseteq x \cup y}
              IN  Xor(Xor(x, y), carry)

\* The macros F to J.
Apply(f, x, y, z) ==
    LET all == 0 .. 31
    IN  CASE f = "F" -> Xor(Xor(x, y), z)
          [] f = "G" -> (x \cap y) \cup (z \ x)
          [] f = "H" -> Xor(x \cup (all \ y), z)
          [] f = "I" -> (x \cap z) \cup (y \ z)
          [] f = "J" -> Xor(x, y \cup (all \ z))

\* Of each round of a line: its macro and constant, and for each of its steps
\* the word of the message that is added and the rotation.
Row(f, hi, lo, words, shifts) == [f |-> f, k |-> Word(hi, lo), words |-> words, shifts |-> shifts]

LeftRounds ==
    <<Row("F", 0, 0, <<0, 1, 2, 3, 4, 5, 6, 7, 8, 9, 10, 11, 12, 13, 14, 15>>,
                     <<11, 14, 15, 12, 5, 8, 7, 9, 11, 13, 14, 15, 6, 7, 9, 8>>),
      Row("G", 23170, 31129, <<7, 4, 13, 1, 10, 6, 15, 3, 12, 0, 9, 5, 2, 14, 11, 8>>,
                             <<7, 6, 8, 13, 11, 9, 7, 15, 7, 12, 15, 9, 11, 7, 13, 12>>),
      Row("H", 28377, 60321, <<3, 10, 14, 4, 9, 15, 8, 1, 2, 7, 0, 6, 13, 11, 5, 12>>,
                             <<11, 13, 6, 7, 14, 9, 13, 15, 14, 8, 13, 6, 5, 12, 7, 5>>),
      Row("I", 36635, 48348, <<1, 9, 11, 10, 0, 8, 12, 4, 13, 3, 7, 15, 14, 5, 6, 2>>,
                             <<11, 12, 14, 15, 14, 15, 9, 8, 9, 14, 5, 6, 8, 6, 5, 12>>),
      Row("J", 43347, 64846, <<4, 0, 5, 9, 7, 12, 2, 10, 14, 1, 3, 8, 11, 6, 15, 13>>,
                             <<9, 15, 5, 11, 6, 8, 13, 12, 5, 12, 13, 14, 11, 8, 5, 6>>)>>

\* The lines of the parallel rounds.
RightRounds ==
    <<Row("J", 20642, 35814, <<5, 14, 7, 0, 9, 2, 11, 4, 13, 6, 15, 8, 1, 10, 3, 12>>,
                             <<8, 9, 9, 11, 13, 15, 15, 5, 7, 7, 8, 11, 14, 14, 12, 6>>),
      Row("I", 23629, 53540, <<6, 11, 3, 7, 0, 13, 5, 10, 14, 15, 8, 12, 4, 9, 1, 2>>,
                             <<9, 13, 15, 7, 12, 8, 9, 11, 7, 7, 12, 7, 6, 15, 13, 11>>),
      Row("H", 28016, 16115, <<15, 5, 1, 3, 7, 14, 6, 9, 11, 8, 12, 2, 10, 0, 4, 13>>,
                             <<9, 7, 15, 11, 8, 6, 6, 14, 12, 13, 5, 14, 13, 13, 7, 5>>),
      Row("G", 31341, 30441, <<8, 6, 4, 1, 3, 11, 15, 0, 5, 12, 2, 13, 9, 7, 10, 14>>,
                             <<15, 5, 8, 11, 14, 14, 6, 14, 6, 9, 12, 9, 12, 5, 15, 8>>),
      Row("F", 0, 0, <<12, 15, 10, 4, 1, 5, 8, 7, 6, 2, 13, 14, 0, 3, 9, 11>>,
                     <<8, 5, 12, 9, 12, 5, 14, 6, 8, 13, 6, 5, 15, 13, 11, 11>>)>>

\* One macro: the registers a to e are those from the s-th on, backwards.
Macro(X, rounds, regs, s) ==
    LET row == rounds[(s \div 16) + 1]
        at(i) == ((i + 4 * s) % 5) + 1
        x == X[row.words[(s % 16) + 1]]
        sum == Plus(Plus(regs[at(0)], Apply(row.f, regs[at(1)], regs[at(2)], regs[at(3)])), Plus(x, row.k))
    IN  [regs EXCEPT ![at(0)] = Plus(Rol(sum, row.shifts[(s % 16) + 1]), regs[at(4)]), ![at(2)] = Rol(@, 10)]

\* The results of the two lines combined.
Combined(buf, ll, rr) ==
    [i \in 1 .. 5 |-> Plus(buf[(i % 5) + 1], Plus(ll[((i + 1) % 5) + 1], rr[((i + 2) % 5) + 1]))]

MDinit == <<Word(26437, 8961), Word(61389, 43913), Word(39098, 56574), Word(4146, 21622), Word(50130, 57840)>>

BitOf(bytes, i) == Bit(bytes[(i \div 8) + 1], i % 8)
Words(bytes) == [w \in 0 .. 15 |-> {i \in 0 .. 31 : BitOf(bytes, 32 * w + i)}]

\* Mutant: a rest of 56 bytes is thought to leave place for the length.
TooLongBy1(n) == n % 64 > 56

\* Whether the length goes to the next block, in MDfinish.
TooLong(n) == n % 64 > 55

\* The words of the rest of n bytes, and the bit after it.
LastWords(bytes, n) ==
    LET rest == SubSeq(bytes, n - (n % 64) + 1, n)
    IN  [w \in 0 .. 15 |-> {i \in 0 .. 31 : LET at == 32 * w + i
                                            IN  IF at < 8 * Len(rest) THEN BitOf(rest, at)
                                                ELSE at = 8 * Len(rest) + 7}]

\* What ripemd160 and then MDfinish compress as the b-th block, 0 the first.
Block(bytes, b) ==
    LET n == Len(bytes)
        Lengthened(X) == [X EXCEPT ![14] = Word((8 * n) \div 65536, (8 * n) % 65536), ![15] = {}]
    IN  CASE b < n \div 64 -> Words(SubSeq(bytes, 64 * b + 1, 64 * b + 64))
          [] b = n \div 64 -> IF TooLong(n) THEN LastWords(bytes, n) ELSE Lengthened(LastWords(bytes, n))
          [] OTHER -> Lengthened([w \in 0 .. 15 |-> {}])

Blocks(bytes) == (Len(bytes) \div 64) + (IF TooLong(Len(bytes)) THEN 2 ELSE 1)

-----------------------------------------------------------------------------
\* The definition: the order of the words by the permutations rho and pi, a
\* rotation for each word and round, and blocks filled by a one and zeros.
Rho == <<7, 4, 13, 1, 10, 6, 15, 3, 12, 0, 9, 5, 2, 14, 11, 8>>
Pi(i) == (9 * i + 5) % 16
RhoTimes(k, i) == CASE k = 0 -> i [] k = 1 -> Rho[i + 1] [] k = 2 -> Rho[Rho[i + 1] + 1]
                    [] k = 3 -> Rho[Rho[Rho[i + 1] + 1] + 1] [] k = 4 -> Rho[Rho[Rho[Rho[i + 1] + 1] + 1] + 1]
Rotation == <<<<11, 14, 15, 12, 5, 8, 7, 9, 11, 13, 14, 15, 6, 7, 9, 8>>,
              <<12, 13, 11, 15, 6, 9, 9, 7, 12, 15, 11, 13, 7, 8, 7, 7>>,
              <<13, 15, 14, 11, 7, 7, 6, 8, 13, 14, 13, 12, 5, 5, 6, 9>>,
              <<14, 11, 12, 14, 8, 6, 5, 5, 15, 12, 15, 14, 9, 9, 8, 6>>,
              <<15, 12, 13, 13, 9, 5, 8, 6, 14, 11, 12, 11, 8, 6, 5, 5>>>>

\* A step of a line: v is <<A, B, C, D, E>>, i where the order starts from.
Defined(X, v, k, i, row) ==
    LET w == RhoTimes(k, i)
        t == Plus(Plus(v[1], Apply(row.f, v[2], v[3], v[4])), Plus(X[w], row.k))
    IN  <<v[5], Plus(Rol(t, Rotation[k + 1][w + 1]), v[5]), v[2], Rol(v[3], 10), v[4]>>

DefinedBlocks(bytes) == ((Len(bytes) + 8) \div 64) + 1
DefinedBlock(bytes, b) ==
    LET n == Len(bytes)
        size == 64 * DefinedBlocks(bytes)
        filled(i) == CASE i <= n -> bytes[i]
                       [] i = n + 1 -> 128
                       [] i > n + 1 /\ i <= size - 8 -> 0
                       [] OTHER -> LET k == i + 7 - size IN IF k > 3 THEN 0 ELSE ((8 * n) \div 2 ^ (8 * k)) % 256
    IN  Words([i \in 1 .. 64 |-> filled(64 * b + i)])

-----------------------------------------------------------------------------
Message(n) == [i \in 1 .. n |-> (7 * i + 3 * n) % 256]

Init == /\ input \in {Message(n) : n \in Lengths}
        /\ blk = 0 /\ j = 0
        /\ MDbuf = MDinit /\ left = MDinit /\ right = MDinit
        /\ h = MDinit /\ l = MDinit /\ r = MDinit

\* A macro of each line of MDcompress, and a step of each line.
Step ==
    /\ j < 80 /\ blk < Blocks(input)
    /\ left' = Macro(Block(input, blk), LeftRounds, left, j)
    /\ right' = Macro(Block(input, blk), RightRounds, right, j)
    /\ LET k == j \div 16
           X == DefinedBlock(input, blk)
       IN  /\ l' = Defined(X, l, k, j % 16, LeftRounds[k + 1])
           /\ r' = Defined(X, r, k, Pi(j % 16), RightRounds[k + 1])
    /\ j' = j + 1
    /\ UNCHANGED <<input, blk, MDbuf, h>>

\* The end of MDcompress, and the start of the next.
Combine ==
    /\ j = 80
    /\ MDbuf' = Combined(MDbuf, left, right) /\ left' = MDbuf' /\ right' = MDbuf'
    /\ LET Sum(x, y, z) == Plus(x, Plus(y, z))
       IN  h' = <<Sum(h[2], l[3], r[4]), Sum(h[3], l[4], r[5]), Sum(h[4], l[5], r[1]),
                  Sum(h[5], l[1], r[2]), Sum(h[1], l[2], r[3])>>
    /\ l' = h' /\ r' = h'
    /\ blk' = blk + 1 /\ j' = 0
    /\ UNCHANGED input

Next == Step \/ Combine
Spec == Init /\ [][Next]_vars

-----------------------------------------------------------------------------
\* After each block the buffer is the chaining value of the definition, and the
\* blocks are as many: wherever the input ends in a block, the digest is its
\* RIPEMD-160.
RipemdAsDefined == (j = 0 => MDbuf = h) /\ Blocks(input) = DefinedBlocks(input)
=============================================================================
