----------------------------- MODULE MCFormats -----------------------------
(***************************************************************************)
(* The formats and the functions of libdevcore, each over small inputs:    *)
(* RLP and the tool that prints and makes it (this module's own state),    *)
(* range masks, the two hashes, the conversions of bytes, and FixedHash    *)
(* with its Bloom filters.  Each behaviour is of one of them, the subject. *)
(***************************************************************************)
EXTENDS RLPTool, RangeMask

\* Strings and lists on both sides of each boundary between forms of encoding,
\* and every string of up to three telling bytes.
Repeat(b, n) == [i \in 1 .. n |-> b]

MCDatas == {<<>>, <<0>>, <<0, 0, 3>>, <<48, 120, 49>>, <<92, 34, 10>>,
            Repeat(5, 54), Repeat(200, 55), Repeat(7, 256)}
MCLines == {<<>>, <<"--ascii-strings">>, <<"--force-string", "--64">>, <<"--nice">>,
            <<"--force-string", "--force-escape", "--bin", "--lenience">>,
            <<"--nice", "--force-hex", "--hex">>}
MCForeign == UNION {[1 .. n -> {0, 1, 55, 127, 128, 129, 130, 184, 192, 193, 194, 248}] : n \in 1 .. 3}
MCLongForeign == {<<184, n>> \o Repeat(1, n) : n \in 54 .. 57}
                   \cup {<<248, n>> \o Repeat(1, n) : n \in 54 .. 57}
                   \cup {<<185, 0, n>> \o Repeat(1, n) : n \in 54 .. 57}
MCAllForeign == MCForeign \cup MCLongForeign

-----------------------------------------------------------------------------
VARIABLES subject,
          message, block, step, MDbuf, left, right, digest, line1, line2, \* of RIPEMD-160
          input, absorbed, round, lanes, bits,                        \* of Keccak
          data,                                                       \* of conversions
          hash, bloom, added, steps                                   \* of FixedHash

ripemd == <<message, block, step, MDbuf, left, right, digest, line1, line2>>
keccak == <<input, absorbed, round, lanes, bits>>
fixed == <<hash, bloom, added, steps>>
all == <<subject, vars, mask, ripemd, keccak, data, fixed>>

\* Lengths about those where the padding needs another block.
RipemdLengths == {0, 1, 55, 56, 64}
Ripemd == INSTANCE Ripemd160 WITH
    Lengths <- RipemdLengths, input <- message, blk <- block, j <- step, h <- digest, l <- line1, r <- line2

KeccakLengths == {0, 1, 135, 136, 137, 272}
Sha3 == INSTANCE Keccak WITH Lengths <- KeccakLengths, blk <- absorbed, i <- round, a <- lanes, A <- bits

\* Bytes at the ends of ranges of characters and numbers; an id has three; the
\* names are h and 1.2.
TellingBytes == {0, 9, 15, 48, 92, 128, 255}
HostNames == {<<104>>, <<49, 46, 50>>}
Conversions == INSTANCE Codecs WITH
    Telling <- TellingBytes, MaxData <- 4, IdSize <- 3, Names <- HostNames, DefaultPort <- 30303

\* Two bytes make a hash and a filter, in which a hash sets two bits.
HashSamples == [1 .. 2 -> {0, 1, 127, 255}]
Hashes == INSTANCE FixedHash WITH Size <- 2, BloomSize <- 2, Parts <- 2, Samples <- HashSamples, MaxSteps <- 4

ASSUME MaskConstants == RangeMaskConstants /\ AskedFits

Is(part) == subject = part

\* Those that are not the subject start in one way.
MCInit == /\ subject \in {"rlp", "ranges", "ripemd", "keccak", "conversions", "hashes"}
          /\ Init /\ RangeInit /\ Ripemd!Init /\ Sha3!Init /\ Conversions!Init /\ Hashes!Init
          /\ Is("ripemd") \/ message = <<>>
          /\ Is("keccak") \/ input = <<>>

MCNext == \/ Is("rlp") /\ Next /\ UNCHANGED <<subject, mask, ripemd, keccak, data, fixed>>
          \/ Is("ranges") /\ RangeNext /\ UNCHANGED <<subject, vars, ripemd, keccak, data, fixed>>
          \/ Is("ripemd") /\ Ripemd!Next /\ UNCHANGED <<subject, vars, mask, keccak, data, fixed>>
          \/ Is("keccak") /\ Sha3!Next /\ UNCHANGED <<subject, vars, mask, ripemd, data, fixed>>
          \/ Is("conversions") /\ Conversions!Next /\ UNCHANGED <<subject, vars, mask, ripemd, keccak, fixed>>
          \/ Is("hashes") /\ Hashes!Next /\ UNCHANGED <<subject, vars, mask, ripemd, keccak, data>>

MCSpec == MCInit /\ [][MCNext]_all

-----------------------------------------------------------------------------
\* What is written is read back as it was, in every format: RLP, which has one
\* encoding of each item, by every way of reading, by subscripts in any order, by
\* conversions and by the tool; the numbers in a mask of ranges; the bytes,
\* numbers and names of nodes that CommonData and NodeSpec write; a hash in a
\* Bloom filter, which never denies what shiftBloom added.
ReadBack ==
    /\ Is("rlp") => /\ WrittenIsRead /\ OneEncoding /\ SubscriptIsItem
                    /\ AppendedIsConverted /\ RenderedIsCreated
    /\ Is("ranges") => RangesApart /\ AnswersRight
    /\ Is("conversions") => /\ Conversions!NothingLost /\ Conversions!NumbersSurvive
                            /\ Conversions!NamesStand
    /\ Is("hashes") => Hashes!AddedIsContained /\ Hashes!HashIsItsNumber

\* ripemd160 is RIPEMD-160 and sha3 is Keccak-256, wherever the input ends in a
\* block.
HashesAsDefined ==
    /\ Is("ripemd") => Ripemd!RipemdAsDefined
    /\ Is("keccak") => Sha3!Sha3IsKeccak
=============================================================================
