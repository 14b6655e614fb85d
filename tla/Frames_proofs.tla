---------------------------- MODULE Frames_proofs ----------------------------
(***************************************************************************)
(* Proofs about Frames: for any packets, any sizes that mux is called with *)
(* and any number of frames on their way, packets arrive in order, whole   *)
(* and once.                                                               *)
(***************************************************************************)
EXTENDS Frames, SequenceTheorems, FiniteSetTheorems, WellFoundedInduction, TLAPS

(* What is on its way, and what reading it makes of the reader *)

Packet == [id : Nat, of : Priority, size : PacketSizes]

Piece(packet, begin, to) == [packet |-> packet, begin |-> begin, to |-> to]

AnyPiece == [packet : Packet, begin : Nat, to : Nat]

Whole(packet) == Piece(packet, 0, packet.size)

Wholes(p) == {Whole(packet) : packet \in {x \in Packet : x.of = p}}

Frame(multi, seq, total, pieces, size) ==
    [multi |-> multi, sequence |-> seq, total |-> total, pieces |-> pieces, size |-> size]

FrameType == [multi : BOOLEAN, sequence : Nat, total : Nat, pieces : Seq(AnyPiece), size : Nat]

\* The reader as a value: what it has of packets, whether it has thrown, what it
\* has returned.
Reader(parts, bad, got) == [parts |-> parts, bad |-> bad, got |-> got]

\* What it keeps of a packet of which it has this much.
Part(packet, to) == [packet |-> packet, to |-> to, remaining |-> packet.size - to]

Assign(parts, s, part) == [t \in DOMAIN parts \cup {s} |-> IF t = s THEN part ELSE parts[t]]
Without(parts, s) == [t \in DOMAIN parts \ {s} |-> parts[t]]

IdsOf(pieces) == [i \in DOMAIN pieces |-> pieces[i].packet.id]

Got(got, p, ids) == [o \in Priority |-> IF o = p THEN got[o] \o ids ELSE got[o]]

\* A frame of whole packets.
GetsWholes(r, f, s) ==
    \E p \in Priority : \E pieces \in Seq(Wholes(p)), size \in Nat :
       /\ pieces # <<>> /\ f = Frame(FALSE, 0, 0, pieces, size)
       /\ s = Reader(r.parts, FALSE, Got(r.got, p, IdsOf(pieces)))

\* The first frame of a packet, which demux may take for one that is too large.
GetsFirst(r, f, s) ==
    \E packet \in Packet, seq, to \in Nat :
       /\ to < packet.size
       /\ f = Frame(TRUE, seq, packet.size, <<Piece(packet, 0, to)>>, to)
       /\ \A t \in DOMAIN r.parts : r.parts[t].packet.of # packet.of
       /\ IF TooLarge(f) THEN s = r
          ELSE s = Reader(Assign(r.parts, seq, Part(packet, to)), FALSE, r.got)

\* A further frame of it, which the reader refuses if it has not got the first.
GetsMore(r, f, s) ==
    \E packet \in Packet, seq, from, to \in Nat :
       /\ 0 < from /\ from < to /\ to <= packet.size
       /\ f = Frame(TRUE, seq, 0, <<Piece(packet, from, to)>>, to - from)
       /\ seq \in DOMAIN r.parts => r.parts[seq] = Part(packet, from)
       /\ s = IF seq \notin DOMAIN r.parts THEN Reader(Without(r.parts, seq), TRUE, r.got)
              ELSE IF to < packet.size THEN Reader(Assign(r.parts, seq, Part(packet, to)), FALSE, r.got)
              ELSE Reader(Without(r.parts, seq), FALSE, Got(r.got, packet.of, <<packet.id>>))

\* The reader r, given the frame f, becomes s.
Gets(r, f, s) == \/ r.bad /\ s = r
                 \/ ~r.bad /\ (GetsWholes(r, f, s) \/ GetsFirst(r, f, s) \/ GetsMore(r, f, s))

\* Sizes for which mux does not underflow and demux drops no frame.
FramesFit == \A m \in MuxSizes : m >= Overhead + Block =>
                /\ m >= 2 * Overhead
                /\ \A size \in PacketSizes : size <= Block \/ size >= m - 2 * Block

\* The beginning of at most one packet of each priority.
OneEach(parts) ==
    /\ \A s \in DOMAIN parts : parts[s].packet.of \in Priority
    /\ \A s, t \in DOMAIN parts : parts[s].packet.of = parts[t].packet.of => s = t

\* Nothing was returned that was not enqued before, and as long as all frames
\* fit no frame is refused.
ReaderOK(r) ==
    /\ r = Reader(r.parts, r.bad, r.got)
    /\ r.parts = [s \in DOMAIN r.parts |-> r.parts[s]]
    /\ r.bad \in BOOLEAN /\ r.got \in [Priority -> Seq(Nat)]
    /\ \A p \in Priority : \E rest \in Seq(Nat) : accepted[p] = r.got[p] \o rest
    /\ FramesFit => ~r.bad
    /\ OneEach(r.parts)
-----------------------------------------------------------------------------
(* Where the writer is *)

Queued(p) == {packet \in Packet : packet.of = p}

QueuesOK ==
    /\ q \in [Priority -> Seq(Packet)]
    /\ \A p \in Priority : q[p] \in Seq(Queued(p))
    /\ accepted \in [Priority -> Seq(Nat)]
    /\ writing \in [Priority -> BOOLEAN] /\ remaining \in [Priority -> Nat]
    /\ multiFrame \in [Priority -> BOOLEAN]
    /\ sequence \in [Priority -> Nat] /\ sequenceId \in Nat

\* A packet that has been begun takes several frames, and is neither begun only
\* nor done.
Writing(p) == /\ q[p] # <<>> /\ multiFrame[p]
              /\ 0 < remaining[p] /\ remaining[p] + TypeSize < Head(q[p]).size

WritersOK == \A p \in Priority : IF writing[p] THEN Writing(p) ELSE ~multiFrame[p]

\* The packets under way have different sequence ids.
Apart == \A p, o \in Priority : writing[p] /\ writing[o] /\ p # o => sequence[p] # sequence[o]

Heading == [at : {"frame"}, frameLen : Nat, swap : BOOLEAN]
Packing == [at : {"pack"}, frameLen : Nat, swap : BOOLEAN, from : Priority, allot : Nat,
            payload : Seq(AnyPiece), size : Nat, offset : Nat]

MuxOK ==
    /\ mux \in {Idle} \cup Heading \cup Packing
    /\ mux.at = "pack" => /\ mux.payload \in Seq(Wholes(mux.from))
                          /\ IF mux.payload = <<>> THEN mux.size = 0 ELSE ~writing[mux.from]

\* mux never takes more than it was called with.
FrameOK ==
    /\ mux # Idle => /\ \E c \in Nat : mux.frameLen = Block * c
                     /\ \E m \in MuxSizes : m >= Overhead + Block /\ mux.frameLen <= m
                     /\ ~mux.swap => mux.frameLen >= 2 * Overhead
    /\ mux.at = "pack" => mux.size + mux.allot + Overhead <= mux.frameLen

\* The packets in the frame that is being packed.
InFrame(p) == IF mux.at = "pack" /\ mux.from = p THEN IdsOf(mux.payload) ELSE <<>>

\* Who has read all that was written has what is neither queued nor being packed,
\* and of the packets that have been begun what was written.
Match(r) ==
    ~r.bad =>
       /\ \A p \in Priority : accepted[p] = r.got[p] \o (InFrame(p) \o Ids(q[p]))
       /\ \A s \in DOMAIN r.parts : \E p \in Priority : writing[p] /\ s = sequence[p]
       /\ \A p \in Priority : writing[p] /\ sequence[p] \in DOMAIN r.parts =>
             r.parts[sequence[p]] = Part(Head(q[p]), Head(q[p]).size - remaining[p])
       /\ FramesFit => \A p \in Priority : writing[p] => sequence[p] \in DOMAIN r.parts

\* What the reader becomes with each frame that is on its way.
Reads(R) ==
    /\ R = [k \in 0 .. Len(wire) |-> R[k]]
    /\ R[0] = Reader(incomplete, invalid, delivered)
    /\ \A k \in 1 .. Len(wire) : Gets(R[k - 1], wire[k], R[k])
    /\ \A k \in 0 .. Len(wire) : ReaderOK(R[k])
    /\ Match(R[Len(wire)])

\* The inductive invariant.
IInv == /\ QueuesOK /\ WritersOK /\ Apart /\ MuxOK /\ (FramesFit => FrameOK)
        /\ wire \in Seq(FrameType)
        /\ \E R : Reads(R)
-----------------------------------------------------------------------------
(* Sequences *)

LEMMA WholesFields ==
    ASSUME NEW p \in Priority, NEW pieces \in Seq(Wholes(p)), NEW i \in DOMAIN pieces
    PROVE  /\ pieces[i] = Whole(pieces[i].packet) /\ pieces[i].begin = 0
           /\ pieces[i].to = pieces[i].packet.size
           /\ pieces[i].packet \in Packet /\ pieces[i].packet.of = p
           /\ pieces[i] \in AnyPiece
  <1>1. pieces[i] \in Wholes(p)
    OBVIOUS
  <1>2. PICK packet \in Packet : packet.of = p /\ pieces[i] = Whole(packet)
    BY <1>1 DEF Wholes
  <1>3. packet.size \in Nat
    BY FramesConstants DEF Packet
  <1>4. pieces[i] = [packet |-> packet, begin |-> 0, to |-> packet.size]
    BY <1>2 DEF Whole, Piece
  <1>5. pieces[i].packet = packet /\ pieces[i].begin = 0 /\ pieces[i].to = packet.size
    BY <1>4
  <1>6. pieces[i] \in AnyPiece
    BY <1>3, <1>4 DEF AnyPiece
  <1> QED
    BY <1>2, <1>5, <1>6

LEMMA FunctionIsSeq ==
    ASSUME NEW k \in Nat, NEW f \in [1..k -> Nat]
    PROVE  f \in Seq(Nat) /\ Len(f) = k
  BY SeqDef

LEMMA IdsTyped ==
    ASSUME NEW s \in Seq(AnyPiece), NEW t \in Seq(Packet)
    PROVE  IdsOf(s) \in Seq(Nat) /\ Ids(t) \in Seq(Nat) /\ Len(IdsOf(s)) = Len(s) /\ Len(Ids(t)) = Len(t)
  <1>1. ASSUME NEW i \in 1 .. Len(s) PROVE s[i].packet.id \in Nat
    <2>1. s[i] \in AnyPiece
      OBVIOUS
    <2> QED
      BY <2>1 DEF AnyPiece, Packet
  <1>2. ASSUME NEW i \in 1 .. Len(t) PROVE t[i].id \in Nat
    <2>1. t[i] \in Packet
      OBVIOUS
    <2> QED
      BY <2>1 DEF Packet
  <1>3. IdsOf(s) = [i \in 1 .. Len(s) |-> s[i].packet.id] /\ Ids(t) = [i \in 1 .. Len(t) |-> t[i].id]
    BY DEF IdsOf, Ids
  <1>4. Len(s) \in Nat /\ Len(t) \in Nat
    OBVIOUS
  <1>5. IdsOf(s) \in [1 .. Len(s) -> Nat] /\ Ids(t) \in [1 .. Len(t) -> Nat]
    BY <1>1, <1>2, <1>3
  <1> QED
    BY <1>4, <1>5, FunctionIsSeq

LEMMA IdsGrow ==
    ASSUME NEW s \in Seq(AnyPiece), NEW x \in AnyPiece
    PROVE  IdsOf(Append(s, x)) = Append(IdsOf(s), x.packet.id)
  <1>1. x.packet.id \in Nat
    BY DEF AnyPiece, Packet
  <1>2. Append(s, x) \in Seq(AnyPiece) /\ Len(Append(s, x)) = Len(s) + 1
    OBVIOUS
  <1>3. IdsOf(s) \in Seq(Nat) /\ Len(IdsOf(s)) = Len(s)
        /\ IdsOf(Append(s, x)) \in Seq(Nat) /\ Len(IdsOf(Append(s, x))) = Len(s) + 1
    BY <1>2, IdsTyped, EmptySeq
  <1>4. ASSUME NEW i \in 1 .. Len(s) + 1
        PROVE  IdsOf(Append(s, x))[i] = Append(IdsOf(s), x.packet.id)[i]
    <2>1. IdsOf(Append(s, x))[i] = Append(s, x)[i].packet.id
      BY <1>2 DEF IdsOf
    <2>2. i # Len(s) + 1 => IdsOf(s)[i] = s[i].packet.id /\ Append(s, x)[i] = s[i]
      BY DEF IdsOf
    <2> QED
      BY <1>1, <1>3, <2>1, <2>2
  <1> QED
    BY <1>1, <1>3, <1>4, SeqEqual

LEMMA QueueGrows ==
    ASSUME NEW t \in Seq(Packet), NEW x \in Packet
    PROVE  Ids(Append(t, x)) = Append(Ids(t), x.id)
  <1>1. x.id \in Nat
    BY DEF Packet
  <1>2. Append(t, x) \in Seq(Packet) /\ Len(Append(t, x)) = Len(t) + 1
    OBVIOUS
  <1>3. Ids(t) \in Seq(Nat) /\ Len(Ids(t)) = Len(t)
        /\ Ids(Append(t, x)) \in Seq(Nat) /\ Len(Ids(Append(t, x))) = Len(t) + 1
    BY <1>2, IdsTyped, EmptySeq
  <1>4. ASSUME NEW i \in 1 .. Len(t) + 1
        PROVE  Ids(Append(t, x))[i] = Append(Ids(t), x.id)[i]
    <2>1. Ids(Append(t, x))[i] = Append(t, x)[i].id
      BY <1>2 DEF Ids
    <2>2. i # Len(t) + 1 => Ids(t)[i] = t[i].id /\ Append(t, x)[i] = t[i]
      BY DEF Ids
    <2> QED
      BY <1>1, <1>3, <2>1, <2>2
  <1> QED
    BY <1>1, <1>3, <1>4, SeqEqual

LEMMA InFront ==
    ASSUME NEW x \in Nat, NEW s \in Seq(Nat)
    PROVE  /\ <<x>> \o s \in Seq(Nat) /\ Len(<<x>> \o s) = Len(s) + 1
           /\ (<<x>> \o s)[1] = x
           /\ \A i \in 2 .. Len(s) + 1 : (<<x>> \o s)[i] = s[i - 1]
  <1>1. <<x>> \in Seq(Nat) /\ Len(<<x>>) = 1 /\ <<x>>[1] = x /\ Len(s) \in Nat
    OBVIOUS
  <1>2. /\ <<x>> \o s \in Seq(Nat) /\ Len(<<x>> \o s) = Len(<<x>>) + Len(s)
        /\ \A i \in 1 .. Len(<<x>>) + Len(s) :
              (<<x>> \o s)[i] = IF i <= Len(<<x>>) THEN <<x>>[i] ELSE s[i - Len(<<x>>)]
    BY <1>1, ConcatProperties
  <1> QED
    BY <1>1, <1>2

LEMMA QueueShrinks ==
    ASSUME NEW t \in Seq(Packet), t # <<>>
    PROVE  Head(t) \in Packet /\ Tail(t) \in Seq(Packet) /\ Ids(t) = <<Head(t).id>> \o Ids(Tail(t))
  <1>1. Head(t) \in Packet /\ Tail(t) \in Seq(Packet) /\ Len(Tail(t)) = Len(t) - 1 /\ Len(t) \in Nat
        /\ Head(t) = t[1] /\ \A i \in 2 .. Len(t) : Tail(t)[i - 1] = t[i]
    OBVIOUS
  <1> DEFINE x == Head(t).id
             s == Ids(Tail(t))
  <1>2. x \in Nat /\ x = t[1].id
    BY <1>1 DEF Packet
  <1>3. Ids(t) \in Seq(Nat) /\ s \in Seq(Nat) /\ Len(Ids(t)) = Len(t) /\ Len(s) = Len(t) - 1
    BY <1>1, IdsTyped, EmptySeq
  <1>4. \A i \in 1 .. Len(t) : Ids(t)[i] = t[i].id
    BY DEF Ids
  <1>5. \A i \in 2 .. Len(t) : s[i - 1] = t[i].id
    BY <1>1 DEF Ids
  <1> HIDE DEF x, s
  <1>6. Len(s) + 1 = Len(t)
    BY <1>1, <1>3
  <1>7. /\ <<x>> \o s \in Seq(Nat) /\ Len(<<x>> \o s) = Len(t) /\ (<<x>> \o s)[1] = x
        /\ \A i \in 2 .. Len(t) : (<<x>> \o s)[i] = s[i - 1]
    BY <1>2, <1>3, <1>6, InFront
  <1>8. \A i \in 1 .. Len(t) : Ids(t)[i] = (<<x>> \o s)[i]
    BY <1>1, <1>2, <1>4, <1>5, <1>7
  <1>9. Ids(t) = <<x>> \o s
    BY <1>3, <1>7, <1>8, SeqEqual
  <1> QED
    BY <1>1, <1>9 DEF x, s

LEMMA OneMore ==
    ASSUME NEW a \in Seq(Nat), NEW x \in Nat, NEW b \in Seq(Nat)
    PROVE  /\ Append(a, x) = a \o <<x>> /\ <<x>> \in Seq(Nat)
           /\ Append(a, x) \o b = a \o (<<x>> \o b)
           /\ a \o Append(b, x) = Append(a \o b, x)
  <1>1. Append(a, x) = a \o <<x>> /\ Append(b, x) = b \o <<x>>
    BY AppendIsConcat
  <1>3. <<x>> \in Seq(Nat)
    OBVIOUS
  <1>2. a \o b \in Seq(Nat) /\ Append(a \o b, x) = (a \o b) \o <<x>>
    BY ConcatProperties, AppendIsConcat
  <1>4. (a \o <<x>>) \o b = a \o (<<x>> \o b)
    BY <1>3, ConcatAssociative
  <1>5. (a \o b) \o <<x>> = a \o (b \o <<x>>)
    BY <1>3, ConcatAssociative
  <1> QED
    BY <1>1, <1>2, <1>3, <1>4, <1>5
-----------------------------------------------------------------------------
(* The reader *)

LEMMA ReaderFields ==
    ASSUME NEW parts, NEW bad, NEW got
    PROVE  /\ Reader(parts, bad, got).parts = parts /\ Reader(parts, bad, got).bad = bad
           /\ Reader(parts, bad, got).got = got
  BY DEF Reader

LEMMA PieceFields ==
    ASSUME NEW packet, NEW from, NEW to
    PROVE  /\ <<Piece(packet, from, to)>>[1] = Piece(packet, from, to)
           /\ DOMAIN <<Piece(packet, from, to)>> = {1}
           /\ Head(<<Piece(packet, from, to)>>) = Piece(packet, from, to)
           /\ Piece(packet, from, to).packet = packet
           /\ Piece(packet, from, to).begin = from /\ Piece(packet, from, to).to = to
  BY DEF Piece

LEMMA NothingReturned ==
    ASSUME delivered \in [Priority -> Seq(Nat)], Return(<<>>)
    PROVE  delivered' = delivered
  BY DEF Return

LEMMA ReadsWholes ==
    ASSUME NEW r, NEW f, NEW s, r = Reader(incomplete, invalid, delivered), ReaderOK(r),
           f = Head(wire), ~invalid, GetsWholes(r, f, s), Demux
    PROVE  s = Reader(incomplete', invalid', delivered')
  <1>1. PICK p \in Priority : \E pieces \in Seq(Wholes(p)), size \in Nat :
           /\ pieces # <<>> /\ f = Frame(FALSE, 0, 0, pieces, size)
           /\ s = Reader(r.parts, FALSE, Got(r.got, p, IdsOf(pieces)))
    BY DEF GetsWholes
  <1>2. PICK pieces \in Seq(Wholes(p)), size \in Nat :
           /\ pieces # <<>> /\ f = Frame(FALSE, 0, 0, pieces, size)
           /\ s = Reader(r.parts, FALSE, Got(r.got, p, IdsOf(pieces)))
    BY <1>1
  <1> DEFINE packets == [i \in DOMAIN pieces |-> pieces[i].packet]
  <1>3. ~f.multi /\ f.pieces = pieces
    BY <1>2 DEF Frame
  <1>4. \A i \in DOMAIN pieces : /\ pieces[i].begin = 0 /\ pieces[i].to = pieces[i].packet.size
                                 /\ pieces[i].packet.of = p
    BY WholesFields
  <1>5. Parse(f)
    BY <1>3 DEF Demux, TooLarge, Continues
  <1>6. invalid' = FALSE /\ incomplete' = incomplete /\ Return(packets)
    BY <1>3, <1>4, <1>5 DEF Parse
  <1>7. 1 \in DOMAIN pieces
    BY <1>2
  <1>8. packets # <<>> /\ packets[1].of = p
    BY <1>4, <1>7
  <1>9. Ids(packets) = IdsOf(pieces)
    BY DEF Ids, IdsOf
  <1> HIDE DEF packets
  <1>10. delivered' = Got(delivered, p, IdsOf(pieces))
    BY <1>6, <1>8, <1>9 DEF Return, Got
  <1>11. r.parts = incomplete /\ r.got = delivered
    BY ReaderFields
  <1> QED
    BY <1>2, <1>6, <1>10, <1>11

LEMMA ReadsFirst ==
    ASSUME NEW r, NEW f, NEW s, r = Reader(incomplete, invalid, delivered), ReaderOK(r),
           f = Head(wire), ~invalid, GetsFirst(r, f, s), Demux
    PROVE  s = Reader(incomplete', invalid', delivered')
  <1>1. PICK packet \in Packet, seq \in Nat, to \in Nat :
           /\ to < packet.size
           /\ f = Frame(TRUE, seq, packet.size, <<Piece(packet, 0, to)>>, to)
           /\ IF TooLarge(f) THEN s = r
              ELSE s = Reader(Assign(r.parts, seq, Part(packet, to)), FALSE, r.got)
    BY DEF GetsFirst
  <1>2. packet.size \in Nat
    BY FramesConstants DEF Packet
  <1>3. /\ f.multi /\ f.sequence = seq /\ f.total = packet.size
        /\ f.pieces = <<Piece(packet, 0, to)>> /\ f.size = to
    BY <1>1 DEF Frame
  <1>4. /\ DOMAIN f.pieces = {1} /\ f.pieces[1].begin = 0 /\ f.pieces[1].to = to
        /\ f.pieces[1].packet = packet /\ Head(f.pieces).packet = packet /\ Head(f.pieces).to = to
    BY <1>3, PieceFields
  <1>5. r.parts = incomplete /\ r.got = delivered /\ delivered \in [Priority -> Seq(Nat)]
    BY ReaderFields DEF ReaderOK
  <1>6. CASE TooLarge(f)
    <2>1. UNCHANGED reader
      BY <1>6 DEF Demux
    <2> QED
      BY <1>1, <1>6, <2>1 DEF reader
  <1>7. CASE ~TooLarge(f)
    <2>1. Parse(f)
      BY <1>1, <1>2, <1>3, <1>7 DEF Demux, Continues
    <2>2. to # packet.size /\ packet.size - to # 0
      BY <1>1, <1>2
    <2>3. /\ invalid' = FALSE /\ Return(<<>>)
          /\ incomplete' = [t \in DOMAIN Forget(seq) \cup {seq} |->
                              IF t = seq THEN Part(packet, to) ELSE Forget(seq)[t]]
      <3>1. \A i \in DOMAIN f.pieces : f.pieces[i].begin = 0
        BY <1>4
      <3>2. ~ \A i \in DOMAIN f.pieces : f.pieces[i].to = f.pieces[i].packet.size
        BY <1>4, <2>2
      <3>3. f.total - f.size = packet.size - to
        BY <1>3
      <3> QED
        BY <1>3, <1>4, <2>1, <2>2, <3>1, <3>2, <3>3 DEF Parse, Part
    <2>4. incomplete' = Assign(incomplete, seq, Part(packet, to))
      BY <2>3 DEF Forget, Assign
    <2>5. delivered' = delivered
      BY <1>5, <2>3, NothingReturned
    <2> QED
      BY <1>1, <1>5, <1>7, <2>3, <2>4, <2>5
  <1> QED
    BY <1>6, <1>7

LEMMA ReadsMore ==
    ASSUME NEW r, NEW f, NEW s, r = Reader(incomplete, invalid, delivered), ReaderOK(r),
           f = Head(wire), ~invalid, GetsMore(r, f, s), Demux
    PROVE  s = Reader(incomplete', invalid', delivered')
  <1>1. PICK packet \in Packet, seq \in Nat, from \in Nat, to \in Nat :
           /\ 0 < from /\ from < to /\ to <= packet.size
           /\ f = Frame(TRUE, seq, 0, <<Piece(packet, from, to)>>, to - from)
           /\ seq \in DOMAIN r.parts => r.parts[seq] = Part(packet, from)
           /\ s = IF seq \notin DOMAIN r.parts THEN Reader(Without(r.parts, seq), TRUE, r.got)
                  ELSE IF to < packet.size THEN Reader(Assign(r.parts, seq, Part(packet, to)), FALSE, r.got)
                  ELSE Reader(Without(r.parts, seq), FALSE, Got(r.got, packet.of, <<packet.id>>))
    BY DEF GetsMore
  <1>2. packet.size \in Nat /\ packet.of \in Priority
    BY FramesConstants DEF Packet
  <1>3. /\ f.multi /\ f.sequence = seq /\ f.total = 0
        /\ f.pieces = <<Piece(packet, from, to)>> /\ f.size = to - from
    BY <1>1 DEF Frame
  <1>4. /\ DOMAIN f.pieces = {1} /\ f.pieces[1].begin = from /\ f.pieces[1].to = to
        /\ Head(f.pieces) = Piece(packet, from, to)
        /\ f.pieces[1].packet = packet /\ Head(f.pieces).packet = packet
        /\ Head(f.pieces).to = to /\ Head(f.pieces).begin = from
    BY <1>3, PieceFields
  <1>5. /\ r.parts = incomplete /\ r.got = delivered /\ delivered \in [Priority -> Seq(Nat)]
        /\ incomplete = [t \in DOMAIN incomplete |-> incomplete[t]] /\ invalid = FALSE
    BY ReaderFields DEF ReaderOK
  <1>6. ~TooLarge(f)
    BY <1>3 DEF TooLarge
  <1>7. CASE seq \notin DOMAIN incomplete
    <2>1. Parse(f)
      BY <1>3, <1>6, <1>7 DEF Demux, Continues
    <2>2. ~ (\A i \in DOMAIN f.pieces : f.pieces[i].begin = 0)
      BY <1>1, <1>4
    <2>3. invalid' = TRUE /\ incomplete' = Forget(seq) /\ Return(<<>>)
      BY <1>3, <2>1, <2>2 DEF Parse
    <2>4. delivered' = delivered
      BY <1>5, <2>3, NothingReturned
    <2> QED
      BY <1>1, <1>5, <1>7, <2>3, <2>4 DEF Forget, Without
  <1>8. CASE seq \in DOMAIN incomplete
    <2>1. incomplete[seq] = Part(packet, from)
      BY <1>1, <1>5, <1>8
    <2>2. /\ incomplete[seq].packet = packet /\ incomplete[seq].to = from
          /\ incomplete[seq].remaining = packet.size - from
      BY <2>1 DEF Part
    <2>3. to - from <= packet.size - from
          /\ packet.size - from - (to - from) = packet.size - to
      BY <1>1, <1>2
    <2>4. Continue(f)
      BY <1>3, <1>6, <1>8, <2>2, <2>3 DEF Demux, Continues
    <2>5. CASE to < packet.size
      <3>1. packet.size - to # 0
        BY <1>2, <2>5
      <3>2. /\ incomplete' = [incomplete EXCEPT ![seq].remaining = packet.size - to, ![seq].to = to]
            /\ UNCHANGED <<invalid, delivered>>
        <4>1. incomplete[f.sequence].remaining - f.size = packet.size - to
          BY <1>3, <2>2, <2>3
        <4>2. /\ incomplete' = [incomplete EXCEPT ![f.sequence].remaining = packet.size - to,
                                                  ![f.sequence].to = Head(f.pieces).to]
              /\ UNCHANGED <<invalid, delivered>>
          BY <2>4, <3>1, <4>1 DEF Continue
        <4> QED  BY <1>3, <1>4, <4>2
      <3> DEFINE less == [incomplete[seq] EXCEPT !.remaining = packet.size - to]
                 more == [incomplete EXCEPT ![seq] = less]
      <3>6. incomplete' = [more EXCEPT ![seq] = [more[seq] EXCEPT !.to = to]]
        BY <3>2
      <3>7. more[seq] = less
        BY <1>8
      <3>8. incomplete[seq] = [packet |-> packet, to |-> from, remaining |-> packet.size - from]
        BY <2>1 DEF Part
      <3>9. less = [packet |-> packet, to |-> from, remaining |-> packet.size - to]
        BY <3>8
      <3> HIDE DEF less
      <3>5. [less EXCEPT !.to = to] = Part(packet, to)
        BY <3>9 DEF Part
      <3>3. incomplete' = [incomplete EXCEPT ![seq] = Part(packet, to)]
        BY <1>5, <1>8, <3>5, <3>6, <3>7
      <3>4. incomplete' = Assign(incomplete, seq, Part(packet, to))
        BY <1>5, <1>8, <3>3 DEF Assign
      <3> QED
        BY <1>1, <1>5, <1>8, <2>5, <3>2, <3>4
    <2>6. CASE ~(to < packet.size)
      <3>1. to = packet.size /\ packet.size - to = 0
        BY <1>1, <1>2, <2>6
      <3>2. /\ incomplete' = Forget(seq) /\ invalid' = FALSE /\ Return(<<packet>>)
        BY <1>3, <1>4, <2>2, <2>3, <2>4, <3>1 DEF Continue
      <3>3. Ids(<<packet>>) = <<packet.id>>
        BY DEF Ids
      <3>4. delivered' = Got(delivered, packet.of, <<packet.id>>)
        BY <3>2, <3>3 DEF Return, Got
      <3> QED
        BY <1>1, <1>5, <1>8, <2>6, <3>2, <3>4 DEF Forget, Without
    <2> QED
      BY <2>5, <2>6
  <1> QED
    BY <1>7, <1>8

\* demux does what Gets says.
LEMMA DemuxReads ==
    ASSUME NEW r, NEW s, r = Reader(incomplete, invalid, delivered), ReaderOK(r),
           Gets(r, Head(wire), s), Demux
    PROVE  s = Reader(incomplete', invalid', delivered')
  <1>1. ~invalid /\ ~r.bad
    BY ReaderFields DEF Demux
  <1> QED
    BY <1>1, ReadsWholes, ReadsFirst, ReadsMore DEF Gets
-----------------------------------------------------------------------------
(* What is on its way *)

LEMMA Associates ==
    ASSUME NEW a \in Seq(Nat), NEW b \in Seq(Nat), NEW c \in Seq(Nat)
    PROVE  (a \o b) \o c = a \o (b \o c) /\ b \o c \in Seq(Nat)
  <1>1. (a \o b) \o c = a \o (b \o c)
    OBVIOUS
  <1>2. b \o c \in Seq(Nat)
    BY ConcatProperties
  <1> QED
    BY <1>1, <1>2

LEMMA ReaderOKKeeps ==
    ASSUME NEW r, ReaderOK(r), accepted \in [Priority -> Seq(Nat)],
           \A p \in Priority : \E more \in Seq(Nat) : accepted'[p] = accepted[p] \o more
    PROVE  ReaderOK(r)'
  <1>1. ASSUME NEW p \in Priority PROVE \E rest \in Seq(Nat) : accepted'[p] = r.got[p] \o rest
    <2>1. PICK rest \in Seq(Nat) : accepted[p] = r.got[p] \o rest
      BY DEF ReaderOK
    <2>2. PICK more \in Seq(Nat) : accepted'[p] = accepted[p] \o more
      OBVIOUS
    <2>3. r.got[p] \in Seq(Nat)
      BY DEF ReaderOK
    <2>4. (r.got[p] \o rest) \o more = r.got[p] \o (rest \o more) /\ rest \o more \in Seq(Nat)
      BY <2>3, Associates
    <2> QED
      BY <2>1, <2>2, <2>4
  <1> QED
    BY <1>1 DEF ReaderOK

\* Nothing is written or read.
LEMMA ReadsSame ==
    ASSUME NEW R, Reads(R), wire' = wire, UNCHANGED reader, accepted \in [Priority -> Seq(Nat)],
           \A p \in Priority : \E more \in Seq(Nat) : accepted'[p] = accepted[p] \o more,
           Match(R[Len(wire)])'
    PROVE  Reads(R)'
  <1>1. \A k \in 0 .. Len(wire) : ReaderOK(R[k])'
    BY ReaderOKKeeps DEF Reads
  <1> QED
    BY <1>1 DEF Reads, reader

LEMMA AcceptedSame ==
    ASSUME accepted \in [Priority -> Seq(Nat)], accepted' = accepted
    PROVE  \A p \in Priority : \E more \in Seq(Nat) : accepted'[p] = accepted[p] \o more
  <1>1. ASSUME NEW p \in Priority PROVE <<>> \in Seq(Nat) /\ accepted'[p] = accepted[p] \o <<>>
    OBVIOUS
  <1> QED
    BY <1>1

\* A frame is written.
LEMMA ReadsFurther ==
    ASSUME NEW R, Reads(R), wire \in Seq(FrameType), NEW f \in FrameType, wire' = Append(wire, f),
           UNCHANGED reader, accepted \in [Priority -> Seq(Nat)], accepted' = accepted,
           NEW s, Gets(R[Len(wire)], f, s), ReaderOK(s)', Match(s)'
    PROVE  \E S : Reads(S)'
  <1>0. PICK n : n = Len(wire)
    OBVIOUS
  <1>1. n \in Nat /\ Len(wire') = n + 1 /\ wire'[n + 1] = f /\ \A k \in 1 .. n : wire'[k] = wire[k]
    BY <1>0
  <1>2. PICK S : /\ S = [k \in 0 .. n + 1 |-> S[k]] /\ S[n + 1] = s /\ \A k \in 0 .. n : S[k] = R[k]
    <2> DEFINE S == [k \in 0 .. n + 1 |-> IF k = n + 1 THEN s ELSE R[k]]
    <2>1. S = [k \in 0 .. n + 1 |-> S[k]] /\ S[n + 1] = s /\ \A k \in 0 .. n : S[k] = R[k]
      BY <1>1
    <2> QED
      BY <2>1
  <1>3. S[0] = Reader(incomplete, invalid, delivered)'
    <2>1. 0 \in 0 .. n
      BY <1>1
    <2>2. S[0] = R[0]
      BY <1>2, <2>1
    <2> QED
      BY <2>2 DEF Reads, reader
  <1>4. ASSUME NEW k \in 1 .. n + 1 PROVE Gets(S[k - 1], wire'[k], S[k])
    <2>1. CASE k = n + 1
      <3>1. k - 1 = n /\ S[k - 1] = R[n] /\ S[k] = s /\ wire'[k] = f
        <4>1. k - 1 = n /\ n \in 0 .. n
          BY <1>1, <2>1
        <4> QED
          BY <1>1, <1>2, <2>1, <4>1
      <3> QED
        BY <1>0, <3>1
    <2>2. CASE k # n + 1
      <3>1. k \in 1 .. n /\ k - 1 \in 0 .. n /\ k \in 0 .. n
        BY <1>1, <2>2
      <3> QED
        BY <1>0, <1>1, <1>2, <3>1 DEF Reads
    <2> QED
      BY <2>1, <2>2
  <1>5. ASSUME NEW k \in 0 .. n + 1 PROVE ReaderOK(S[k])'
    <2>1. CASE k = n + 1
      BY <1>2, <2>1
    <2>2. CASE k # n + 1
      <3>1. k \in 0 .. n
        BY <1>1, <2>2
      <3> QED
        <4>1. ReaderOK(R[k])
          BY <1>0, <3>1 DEF Reads
        <4>2. ReaderOK(R[k])'
          BY <4>1, ReaderOKKeeps, AcceptedSame
        <4> QED
          BY <1>2, <3>1, <4>2
    <2> QED
      BY <2>1, <2>2
  <1>6. Match(S[Len(wire)])'
    BY <1>1, <1>2
  <1>7. Reads(S)'
    BY <1>1, <1>2, <1>3, <1>4, <1>5, <1>6 DEF Reads
  <1> QED
    BY <1>7

\* A frame is read.
LEMMA ReadsOn ==
    ASSUME NEW R, Reads(R), wire \in Seq(FrameType), Demux, accepted \in [Priority -> Seq(Nat)]
    PROVE  \E S : Reads(S)'
  <1>0. PICK n : n = Len(wire)
    OBVIOUS
  <1>1. n \in Nat /\ n > 0 /\ Len(wire') = n - 1 /\ Head(wire) = wire[1]
        /\ \A k \in 1 .. n - 1 : wire'[k] = wire[k + 1]
    BY <1>0 DEF Demux
  <1>2. PICK S : S = [k \in 0 .. n - 1 |-> S[k]] /\ S[0] = R[1] /\ \A k \in 0 .. n - 1 : S[k] = R[k + 1]
    <2> DEFINE S == [k \in 0 .. n - 1 |-> R[k + 1]]
    <2>1. S = [k \in 0 .. n - 1 |-> S[k]] /\ S[0] = R[1] /\ \A k \in 0 .. n - 1 : S[k] = R[k + 1]
      BY <1>1
    <2> QED
      BY <2>1
  <1>3. UNCHANGED <<writer, mux, accepted>>
    BY DEF Demux
  <1>4. S[0] = Reader(incomplete, invalid, delivered)'
    <2>1. Gets(R[0], Head(wire), R[1]) /\ ReaderOK(R[0])
      <3>1. 1 \in 1 .. n /\ 0 \in 0 .. n /\ 1 - 1 = 0
        BY <1>1
      <3> QED
        BY <1>0, <1>1, <3>1 DEF Reads
    <2> QED
      BY <1>2, <2>1, DemuxReads DEF Reads
  <1>5. ASSUME NEW k \in 1 .. n - 1 PROVE Gets(S[k - 1], wire'[k], S[k])
    <2>1. k + 1 \in 1 .. n /\ k - 1 \in 0 .. n - 1 /\ k \in 0 .. n - 1 /\ (k + 1) - 1 = k /\ (k - 1) + 1 = k
      BY <1>1
    <2>2. Gets(R[k], wire[k + 1], R[k + 1])
      BY <1>0, <2>1 DEF Reads
    <2> QED
      BY <1>1, <1>2, <2>1, <2>2
  <1>6. ASSUME NEW k \in 0 .. n - 1 PROVE ReaderOK(S[k])'
    <2>1. k + 1 \in 0 .. n
      BY <1>1
    <2> QED
      <3>1. ReaderOK(R[k + 1])
        BY <1>0, <2>1 DEF Reads
      <3>2. ReaderOK(R[k + 1])'
        BY <1>3, <3>1, ReaderOKKeeps, AcceptedSame
      <3> QED
        BY <1>2, <3>2
  <1>7. Match(S[Len(wire)])'
    <2>1. n - 1 \in 0 .. n - 1 /\ (n - 1) + 1 = n
      BY <1>1
    <2>2. Match(S[n - 1])
      BY <1>0, <1>2, <2>1 DEF Reads
    <2>3. Match(S[n - 1])'
      BY <1>3, <2>2 DEF Match, writer, InFrame
    <2> QED
      BY <1>1, <2>3
  <1>8. Reads(S)'
    BY <1>1, <1>2, <1>4, <1>5, <1>6, <1>7 DEF Reads
  <1> QED
    BY <1>8
-----------------------------------------------------------------------------
(* Sizes *)

LEMMA Reduced ==
    ASSUME NEW x \in Int, NEW n \in Nat \ {0}
    PROVE  x % n \in Nat /\ (0 <= x /\ x < n => x % n = x)
  OBVIOUS

LEMMA PaddedFits ==
    ASSUME NEW a \in Nat, NEW c \in Nat
    PROVE  /\ Padded(a) \in Nat /\ \E k \in Nat : Padded(a) = Block * k
           /\ a + Overhead <= Block * c => Overhead + Padded(a) <= Block * c
  <1>1. (a + 15) \div 16 \in Nat /\ a <= 16 * ((a + 15) \div 16) /\ 16 * ((a + 15) \div 16) <= a + 15
    OBVIOUS
  <1> DEFINE k == (a + 15) \div 16
  <1>2. a + Block - 1 = a + 15 /\ Padded(a) = k * 16
    BY DEF Padded, Block
  <1> HIDE DEF k
  <1>3. k \in Nat /\ a <= 16 * k /\ 16 * k <= a + 15 /\ Padded(a) = 16 * k
    BY <1>1, <1>2 DEF k
  <1>4. a + 48 <= 16 * c => 48 + 16 * k <= 16 * c
    BY <1>3
  <1> QED
    BY <1>3, <1>4 DEF Block, Overhead

LEMMA Sizes ==
    /\ PacketSizes \subseteq Nat /\ \A n \in PacketSizes : n > 1
    /\ \A packet \in Packet : packet.size \in Nat /\ packet.size > 1 /\ packet.of \in Priority /\ packet.id \in Nat
    /\ SizeT \in Nat \ {0} /\ SequenceIds \in Nat \ {0} /\ \A m \in MuxSizes : m \in Nat /\ m < SizeT
  <1>1. PacketSizes \subseteq Nat /\ \A n \in PacketSizes : n > 1
    BY FramesConstants DEF TypeSize
  <1>2. \A packet \in Packet : packet.size \in PacketSizes /\ packet.of \in Priority /\ packet.id \in Nat
    BY DEF Packet
  <1> QED
    BY <1>1, <1>2, FramesConstants

LEMMA MuxFields ==
    ASSUME MuxOK
    PROVE  /\ mux # Idle => mux.frameLen \in Nat /\ mux.swap \in BOOLEAN /\ mux.at \in {"frame", "pack"}
           /\ mux.at = "frame" => mux \in Heading
           /\ mux.at = "pack" => /\ mux \in Packing /\ mux.from \in Priority /\ mux.allot \in Nat
                                 /\ mux.size \in Nat /\ mux.offset \in Nat /\ mux.payload \in Seq(AnyPiece)
  BY DEF MuxOK, Idle, Heading, Packing

\* A frame is written, or there was nothing to write.
LEMMA FrameEnds ==
    ASSUME MuxOK, FramesFit => FrameOK, mux.at = "pack",
           NEW state, NEW payload, NEW size \in Nat, NEW offset,
           EndFrame(state, payload, size, offset),
           FramesFit => size + Overhead <= mux.frameLen
    PROVE  /\ MuxOK' /\ (FramesFit => FrameOK') /\ mux' \in {Idle} \cup Heading
           /\ \A p \in Priority : InFrame(p)' = <<>>
  <1>1. mux.frameLen \in Nat /\ mux.swap \in BOOLEAN /\ mux # Idle
    BY MuxFields DEF Idle
  <1> DEFINE left == mux.frameLen - (Overhead + Padded(size))
  <1>2. Padded(size) \in Nat /\ left \in Int /\ left % SizeT \in Nat
    <2>1. Padded(size) \in Nat
      BY PaddedFits
    <2>2. left \in Int
      BY <1>1, <2>1 DEF Overhead, Block
    <2> HIDE DEF left
    <2> QED
      BY <2>1, <2>2, Reduced, Sizes
  <1>3. \/ mux' = [at |-> "frame", frameLen |-> left % SizeT, swap |-> TRUE]
        \/ mux' = Idle
        \/ ~mux.swap /\ mux' = [at |-> "frame", frameLen |-> mux.frameLen, swap |-> TRUE]
    BY <1>1 DEF EndFrame
  <1>4. mux' \in {Idle} \cup Heading
    <2>1. ASSUME NEW n \in Nat PROVE [at |-> "frame", frameLen |-> n, swap |-> TRUE] \in Heading
      BY DEF Heading
    <2> HIDE DEF left
    <2> QED
      BY <1>1, <1>2, <1>3, <2>1
  <1>5. mux'.at # "pack"
    BY <1>4 DEF Idle, Heading
  <1>6. ASSUME FramesFit, mux' # Idle
        PROVE  /\ \E c \in Nat : mux'.frameLen = Block * c
               /\ \E m \in MuxSizes : m >= Overhead + Block /\ mux'.frameLen <= m
               /\ mux'.swap = TRUE
    <2>1. PICK c \in Nat : mux.frameLen = Block * c
      BY <1>1, <1>6 DEF FrameOK
    <2>2. PICK m \in MuxSizes : m >= Overhead + Block /\ mux.frameLen <= m
      BY <1>1, <1>6 DEF FrameOK
    <2>3. PICK k \in Nat : Padded(size) = Block * k
      BY PaddedFits
    <2>4. Overhead + Padded(size) <= mux.frameLen
      BY <1>6, <2>1, PaddedFits
    <2>5. 0 <= left /\ left <= m /\ left < SizeT
      BY <1>1, <1>2, <2>2, <2>4, Sizes DEF Overhead, Block
    <2>6. left = Block * (c - 3 - k) /\ c - 3 - k \in Nat
      BY <2>1, <2>3, <2>5 DEF Overhead, Block
    <2> HIDE DEF left
    <2>7. left % SizeT = left
      BY <1>2, <2>5, Reduced, Sizes
    <2> QED
      BY <1>3, <1>6, <2>1, <2>2, <2>5, <2>6, <2>7
  <1>7. MuxOK'
    BY <1>4, <1>5 DEF MuxOK
  <1>8. FramesFit => FrameOK'
    BY <1>5, <1>6 DEF FrameOK
  <1> QED
    BY <1>4, <1>5, <1>7, <1>8 DEF InFrame
-----------------------------------------------------------------------------
(* Steps that write nothing *)

LEMMA QueueTypes ==
    ASSUME QueuesOK, MuxOK, NEW p \in Priority
    PROVE  /\ q[p] \in Seq(Packet) /\ q[p] \in Seq(Queued(p)) /\ accepted[p] \in Seq(Nat)
           /\ Ids(q[p]) \in Seq(Nat) /\ InFrame(p) \in Seq(Nat)
           /\ q[p] # <<>> => /\ Head(q[p]) \in Packet /\ Head(q[p]).of = p
                             /\ Tail(q[p]) \in Seq(Packet) /\ Tail(q[p]) \in Seq(Queued(p))
                             /\ Ids(q[p]) = <<Head(q[p]).id>> \o Ids(Tail(q[p]))
                             /\ Ids(Tail(q[p])) \in Seq(Nat)
           /\ remaining[p] \in Nat /\ sequence[p] \in Nat /\ sequenceId \in Nat
           /\ writing[p] \in BOOLEAN /\ multiFrame[p] \in BOOLEAN
  <1>1. q[p] \in Seq(Packet) /\ q[p] \in Seq(Queued(p)) /\ accepted[p] \in Seq(Nat)
    BY DEF QueuesOK
  <1>2. Ids(q[p]) \in Seq(Nat) /\ InFrame(p) \in Seq(Nat)
    <2>1. mux.at = "pack" => mux.payload \in Seq(AnyPiece)
      BY MuxFields
    <2>2. <<>> \in Seq(Packet) /\ <<>> \in Seq(Nat) /\ <<>> \in Seq(AnyPiece)
      OBVIOUS
    <2> QED
      BY <1>1, <2>1, <2>2, IdsTyped DEF InFrame
  <1>3. ASSUME q[p] # <<>>
        PROVE  /\ Head(q[p]) \in Packet /\ Head(q[p]).of = p
               /\ Tail(q[p]) \in Seq(Packet) /\ Tail(q[p]) \in Seq(Queued(p))
               /\ Ids(q[p]) = <<Head(q[p]).id>> \o Ids(Tail(q[p]))
               /\ Ids(Tail(q[p])) \in Seq(Nat)
    <2>1. Head(q[p]) \in Queued(p) /\ Tail(q[p]) \in Seq(Queued(p))
      BY <1>1, <1>3
    <2>2. Tail(q[p]) \in Seq(Packet) /\ Ids(q[p]) = <<Head(q[p]).id>> \o Ids(Tail(q[p]))
      BY <1>1, <1>3, QueueShrinks
    <2>3. Ids(Tail(q[p])) \in Seq(Nat)
      <3>1. <<>> \in Seq(AnyPiece)
        OBVIOUS
      <3> QED
        BY <2>2, <3>1, IdsTyped
    <2> QED
      BY <2>1, <2>2, <2>3 DEF Queued
  <1> QED
    BY <1>1, <1>2, <1>3 DEF QueuesOK

LEMMA Longer ==
    ASSUME NEW S, NEW t \in Seq(S), NEW x \in S
    PROVE  /\ Append(t, x) \in Seq(S) /\ Append(t, x) # <<>>
           /\ t # <<>> => Head(Append(t, x)) = Head(t)
  <1>1. Append(t, x) \in Seq(S) /\ Len(Append(t, x)) = Len(t) + 1 /\ Len(t) \in Nat
    OBVIOUS
  <1>2. t # <<>> => Len(t) >= 1 /\ Append(t, x)[1] = t[1]
    OBVIOUS
  <1> QED
    BY <1>1, <1>2

LEMMA EnqueInv ==
    ASSUME IInv, NEW p \in Priority, NEW size \in PacketSizes, Enque(p, size)
    PROVE  IInv'
  <1>1. PICK packet : packet = [id |-> Enqued + 1, of |-> p, size |-> size]
    OBVIOUS
  <1>2. packet \in Packet /\ packet.of = p /\ packet.id \in Nat
    <2>1. accepted["high"] \in Seq(Nat) /\ accepted["low"] \in Seq(Nat)
      BY DEF IInv, QueuesOK, Priority
    <2>3. Len(accepted["high"]) \in Nat /\ Len(accepted["low"]) \in Nat
      BY <2>1, LenProperties
    <2>4. PICK m \in Nat, n \in Nat : Len(accepted["high"]) = m /\ Len(accepted["low"]) = n
      BY <2>3
    <2>5. Enqued = m + n
      BY <2>4 DEF Enqued
    <2>2. Enqued + 1 \in Nat
      BY <2>5
    <2> QED
      BY <1>1, <2>2 DEF Packet
  <1>3. /\ q' = [q EXCEPT ![p] = Append(@, packet)]
        /\ accepted' = [accepted EXCEPT ![p] = Append(@, packet.id)]
        /\ UNCHANGED <<writing, remaining, multiFrame, sequence, sequenceId, mux, wire, reader>>
    BY <1>1 DEF Enque
  <1>4. \A o \in Priority : /\ q'[o] = IF o = p THEN Append(q[o], packet) ELSE q[o]
                            /\ accepted'[o] = IF o = p THEN Append(accepted[o], packet.id) ELSE accepted[o]
    BY <1>3 DEF IInv, QueuesOK
  <1>5. \A o \in Priority : /\ q[o] \in Seq(Packet) /\ q[o] \in Seq(Queued(o)) /\ accepted[o] \in Seq(Nat)
                            /\ Ids(q[o]) \in Seq(Nat) /\ InFrame(o) \in Seq(Nat)
    BY QueueTypes DEF IInv
  <1>6. QueuesOK'
    <2>1. ASSUME NEW o \in Priority
          PROVE  q'[o] \in Seq(Packet) /\ q'[o] \in Seq(Queued(o)) /\ accepted'[o] \in Seq(Nat)
      <3>1. o = p => packet \in Queued(o)
        BY <1>2 DEF Queued
      <3>2. CASE o = p
        <4>1. packet \in Queued(o) /\ packet \in Packet /\ packet.id \in Nat
          BY <1>2, <3>1, <3>2
        <4>2. q[o] \in Seq(Packet) /\ q[o] \in Seq(Queued(o)) /\ accepted[o] \in Seq(Nat)
          BY <1>5
        <4>3. /\ Append(q[o], packet) \in Seq(Packet) /\ Append(q[o], packet) \in Seq(Queued(o))
              /\ Append(accepted[o], packet.id) \in Seq(Nat)
          BY <4>1, <4>2, Longer
        <4> QED
          BY <1>4, <3>2, <4>3
      <3>3. CASE o # p
        BY <1>4, <1>5, <3>3
      <3> QED
        BY <3>2, <3>3
    <2>2. q' = [o \in Priority |-> q'[o]] /\ accepted' = [o \in Priority |-> accepted'[o]]
      BY <1>3 DEF IInv, QueuesOK
    <2> QED
      BY <1>3, <2>1, <2>2 DEF IInv, QueuesOK
  <1>7. \A o \in Priority : q[o] # <<>> => q'[o] # <<>> /\ Head(q'[o]) = Head(q[o])
    <2>1. ASSUME NEW o \in Priority, q[o] # <<>>
          PROVE  Append(q[o], packet) # <<>> /\ Head(Append(q[o], packet)) = Head(q[o])
      <3>1. q[o] \in Seq(Packet)
        BY <1>5
      <3> QED
        BY <1>2, <2>1, <3>1, Longer
    <2> QED
      BY <1>4, <2>1
  <1>8. WritersOK'
    BY <1>3, <1>7 DEF IInv, WritersOK, Writing
  <1>9. Apart' /\ MuxOK' /\ (FramesFit => FrameOK')
    BY <1>3 DEF IInv, Apart, MuxOK, FrameOK
  <1>10. \A o \in Priority : \E more \in Seq(Nat) : accepted'[o] = accepted[o] \o more
    <2>1. <<>> \in Seq(Nat) /\ <<packet.id>> \in Seq(Nat)
      BY <1>2
    <2>2. ASSUME NEW o \in Priority, o # p PROVE accepted'[o] = accepted[o] \o <<>>
      BY <1>4, <1>5, <2>2
    <2>3. accepted'[p] = accepted[p] \o <<packet.id>>
      BY <1>2, <1>4, <1>5, AppendIsConcat
    <2> QED
      BY <2>1, <2>2, <2>3
  <1>11. PICK R : Reads(R)
    BY DEF IInv
  <1>12. PICK r : r = R[Len(wire)]
    OBVIOUS
  <1>13. ReaderOK(r) /\ Match(r)
    <2>1. Len(wire) \in 0 .. Len(wire)
      BY <1>11 DEF Reads
    <2> QED
      BY <1>11, <1>12, <2>1 DEF Reads
  <1>14. ASSUME NEW o \in Priority, ~r.bad
         PROVE  accepted'[o] = r.got[o] \o (InFrame(o)' \o Ids(q'[o]))
    <2>1. accepted[o] = r.got[o] \o (InFrame(o) \o Ids(q[o])) /\ InFrame(o)' = InFrame(o)
          /\ r.got[o] \in Seq(Nat)
      BY <1>3, <1>13, <1>14 DEF Match, InFrame, ReaderOK
    <2>2. CASE o # p
      BY <1>4, <2>1, <2>2
    <2>3. CASE o = p
      <3>1. Ids(q'[o]) = Append(Ids(q[o]), packet.id)
        BY <1>2, <1>4, <1>5, <2>3, QueueGrows
      <3>2. InFrame(o) \o Append(Ids(q[o]), packet.id) = Append(InFrame(o) \o Ids(q[o]), packet.id)
        <4>1. PICK a \in Seq(Nat), b \in Seq(Nat), x \in Nat : a = InFrame(o) /\ b = Ids(q[o]) /\ x = packet.id
          BY <1>2, <1>5
        <4>2. a \o Append(b, x) = Append(a \o b, x)
          BY OneMore
        <4> QED
          BY <4>1, <4>2
      <3>3. InFrame(o) \o Ids(q[o]) \in Seq(Nat)
        BY <1>5, ConcatProperties
      <3>4. r.got[o] \o Append(InFrame(o) \o Ids(q[o]), packet.id)
              = Append(r.got[o] \o (InFrame(o) \o Ids(q[o])), packet.id)
        BY <1>2, <2>1, <3>3, OneMore
      <3> QED
        BY <1>4, <2>1, <2>3, <3>1, <3>2, <3>4
    <2> QED
      BY <2>2, <2>3
  <1>15. \A o \in Priority : writing[o] => Head(q'[o]) = Head(q[o])
    BY <1>7 DEF IInv, WritersOK, Writing
  <1>16. Match(r)'
    BY <1>3, <1>13, <1>14, <1>15 DEF Match
  <1>17. \E S : Reads(S)'
    BY <1>3, <1>10, <1>11, <1>12, <1>16, ReadsSame DEF IInv, QueuesOK, reader
  <1> QED
    BY <1>3, <1>6, <1>8, <1>9, <1>17 DEF IInv

LEMMA ReadsQuiet ==
    ASSUME IInv, UNCHANGED <<q, writing, sequence, wire, reader, accepted>>,
           \A p \in Priority : writing[p] => remaining'[p] = remaining[p],
           \A p \in Priority : InFrame(p)' = InFrame(p)
    PROVE  \E S : Reads(S)'
  <1>1. PICK R : Reads(R)
    BY DEF IInv
  <1>2. PICK r : r = R[Len(wire)]
    OBVIOUS
  <1>3. Match(r)
    BY <1>1, <1>2 DEF Reads
  <1>4. Match(r)'
    BY <1>3 DEF Match
  <1>5. \A p \in Priority : \E more \in Seq(Nat) : accepted'[p] = accepted[p] \o more
    BY AcceptedSame DEF IInv, QueuesOK
  <1> QED
    BY <1>1, <1>2, <1>4, <1>5, ReadsSame DEF IInv, QueuesOK

LEMMA StartMuxInv ==
    ASSUME IInv, NEW size \in MuxSizes, StartMux(size)
    PROVE  IInv'
  <1>1. /\ mux = Idle /\ size >= Overhead + Block
        /\ mux' = [at |-> "frame", frameLen |-> (size \div Block) * Block, swap |-> FALSE]
        /\ UNCHANGED <<writer, wire, reader, accepted>>
    BY DEF StartMux
  <1>2. PICK c : c = size \div 16
    OBVIOUS
  <1>3. size \in Nat /\ c \in Nat /\ 16 * c <= size /\ size < 16 * c + 16
    BY <1>2, Sizes
  <1>4. mux'.frameLen = 16 * c /\ 16 * c \in Nat /\ mux'.swap = FALSE /\ mux'.at = "frame"
    BY <1>1, <1>2, <1>3 DEF Block
  <1>5. MuxOK'
    BY <1>1, <1>2, <1>3, <1>4 DEF MuxOK, Heading, Block
  <1>6. FramesFit => FrameOK'
    <2>1. ASSUME FramesFit PROVE 16 * c >= 96
      BY <1>1, <1>3, <2>1 DEF FramesFit, Overhead, Block
    <2> QED
      BY <1>1, <1>3, <1>4, <2>1 DEF FrameOK, Overhead, Block
  <1>7. \A p \in Priority : InFrame(p)' = InFrame(p)
    BY <1>1, <1>4 DEF InFrame, Idle
  <1>8. \E S : Reads(S)'
    BY <1>1, <1>7, ReadsQuiet DEF writer
  <1>9. QueuesOK' /\ WritersOK' /\ Apart' /\ wire' \in Seq(FrameType)
    BY <1>1 DEF IInv, QueuesOK, WritersOK, Writing, Apart, writer
  <1> QED
    BY <1>5, <1>6, <1>8, <1>9 DEF IInv

LEMMA AllotmentFits ==
    ASSUME MuxOK, FramesFit => FrameOK, mux.at = "frame", mux.frameLen >= Overhead + Block
    PROVE  Allotment \in Nat /\ (FramesFit => Allotment + Overhead <= mux.frameLen)
  <1>1. mux.frameLen \in Nat /\ mux.swap \in BOOLEAN /\ mux # Idle
    BY MuxFields DEF Idle
  <1>2. PICK half : half = mux.frameLen \div 2
    OBVIOUS
  <1>3. half \in Nat /\ 2 * half <= mux.frameLen /\ mux.frameLen <= 2 * half + 1
    BY <1>1, <1>2
  <1>4. PICK shared \in BOOLEAN : shared = (~mux.swap /\ Pending("high") /\ Pending("low"))
    OBVIOUS
  <1>5. PICK room : room = (IF shared /\ half - (Overhead + Block) # 0 THEN half ELSE mux.frameLen) - Overhead
    OBVIOUS
  <1>6. Allotment = room % SizeT
    BY <1>2, <1>4, <1>5 DEF Allotment
  <1>7. room = half - 48 \/ room = mux.frameLen - 48
    BY <1>5 DEF Overhead, Block
  <1>8. room \in Int
    BY <1>1, <1>3, <1>7
  <1>9. ASSUME FramesFit PROVE 0 <= room /\ room < SizeT /\ room + Overhead <= mux.frameLen
    <2>1. PICK m \in MuxSizes : mux.frameLen <= m
      BY <1>1, <1>9 DEF FrameOK
    <2>2. m \in Nat /\ m < SizeT
      BY Sizes
    <2>3. shared => mux.frameLen >= 96
      <3>1. shared => ~mux.swap
        BY <1>4
      <3>2. ~mux.swap => mux.frameLen >= 2 * Overhead
        BY <1>1, <1>9 DEF FrameOK
      <3> QED
        BY <3>1, <3>2 DEF Overhead, Block
    <2>4. CASE room = mux.frameLen - 48
      BY <1>1, <2>1, <2>2, <2>4, Sizes DEF Overhead, Block
    <2>5. CASE room = half - 48 /\ shared
      BY <1>1, <1>3, <2>1, <2>2, <2>3, <2>5, Sizes DEF Overhead, Block
    <2> QED
      BY <1>5, <2>4, <2>5 DEF Overhead, Block
  <1> QED
    BY <1>6, <1>8, <1>9, Reduced, Sizes

LEMMA BeginFrameInv ==
    ASSUME IInv, BeginFrame
    PROVE  IInv'
  <1>1. mux.at = "frame" /\ UNCHANGED <<writer, wire, reader, accepted>>
    BY DEF BeginFrame
  <1>2. mux \in Heading /\ mux.frameLen \in Nat /\ mux.swap \in BOOLEAN /\ mux # Idle
    BY <1>1, MuxFields DEF IInv, Idle
  <1>3. /\ MuxOK' /\ (FramesFit => FrameOK') /\ \A p \in Priority : InFrame(p)' = <<>>
    <2>1. CASE mux' = Idle
      BY <2>1 DEF MuxOK, FrameOK, Idle, InFrame
    <2>2. CASE mux' # Idle
      <3>1. /\ mux.frameLen >= Overhead + Block
            /\ mux' = [at |-> "pack", frameLen |-> mux.frameLen, swap |-> mux.swap,
                       from |-> Chosen, allot |-> Allotment, payload |-> <<>>, size |-> 0, offset |-> 0]
        BY <1>2, <2>2 DEF BeginFrame, Overhead, Block
      <3>2. Allotment \in Nat /\ (FramesFit => Allotment + Overhead <= mux.frameLen)
        BY <1>1, <3>1, AllotmentFits DEF IInv
      <3>3. Chosen \in Priority
        BY DEF Chosen, Priority
      <3>4. PICK from \in Priority, allot \in Nat :
              /\ FramesFit => allot + Overhead <= mux.frameLen
              /\ mux' = [at |-> "pack", frameLen |-> mux.frameLen, swap |-> mux.swap,
                       from |-> from, allot |-> allot, payload |-> <<>>, size |-> 0, offset |-> 0]
        BY <3>1, <3>2, <3>3
      <3>5. mux' \in Packing
        BY <1>2, <3>4 DEF Packing
      <3>6. /\ mux'.at = "pack" /\ mux'.payload = <<>> /\ mux'.size = 0 /\ mux'.frameLen = mux.frameLen
            /\ mux'.swap = mux.swap /\ mux'.allot = allot
        BY <3>4
      <3>7. <<>> \in Seq(Wholes(mux'.from))
        OBVIOUS
      <3>8. MuxOK'
        BY <3>5, <3>6, <3>7 DEF MuxOK
      <3>9. FramesFit => FrameOK'
        BY <1>2, <3>4, <3>6 DEF FrameOK, IInv, Overhead, Block
      <3>10. \A p \in Priority : InFrame(p)' = <<>>
        BY <3>6 DEF InFrame, IdsOf
      <3> QED
        BY <3>8, <3>9, <3>10
    <2> QED
      BY <2>1, <2>2
  <1>4. \A p \in Priority : InFrame(p) = <<>>
    BY <1>1 DEF InFrame
  <1>5. \E S : Reads(S)'
    BY <1>1, <1>3, <1>4, ReadsQuiet DEF writer
  <1>6. QueuesOK' /\ WritersOK' /\ Apart' /\ wire' \in Seq(FrameType)
    BY <1>1 DEF IInv, QueuesOK, WritersOK, Writing, Apart, writer
  <1> QED
    BY <1>3, <1>5, <1>6 DEF IInv
-----------------------------------------------------------------------------
(* Steps that write a frame *)

\* What the reader becomes with the frame that is written.
LEMMA ReadsWritten ==
    ASSUME IInv, NEW R, Reads(R), NEW f \in FrameType, wire' = Append(wire, f),
           UNCHANGED <<reader, accepted>>, QueuesOK', MuxOK', NEW r, r = R[Len(wire)],
           ~r.bad => \E parts, bad, got : LET s == Reader(parts, bad, got) IN
              /\ Gets(r, f, s) /\ Match(s)'
              /\ parts = [t \in DOMAIN parts |-> parts[t]] /\ OneEach(parts)
              /\ bad \in BOOLEAN /\ (FramesFit => ~bad)
              /\ got \in [Priority -> Seq(Nat)] /\ (bad => got = r.got)
    PROVE  \E S : Reads(S)'
  <1>1. ReaderOK(r) /\ ReaderOK(r)' /\ accepted \in [Priority -> Seq(Nat)]
    <2>1. Len(wire) \in 0 .. Len(wire)
      BY DEF IInv
    <2> QED
      BY <2>1, ReaderOKKeeps, AcceptedSame DEF IInv, QueuesOK, Reads
  <1>2. CASE r.bad
    <2>1. Gets(r, f, r) /\ Match(r)'
      BY <1>2 DEF Gets, Match
    <2> QED
      BY <1>1, <2>1, ReadsFurther DEF IInv
  <1>3. CASE ~r.bad
    <2>1. PICK parts, bad, got :
              /\ Gets(r, f, Reader(parts, bad, got)) /\ Match(Reader(parts, bad, got))'
              /\ parts = [t \in DOMAIN parts |-> parts[t]] /\ OneEach(parts)
              /\ bad \in BOOLEAN /\ (FramesFit => ~bad)
              /\ got \in [Priority -> Seq(Nat)] /\ (bad => got = r.got)
      BY <1>3
    <2>2. PICK s : s = Reader(parts, bad, got)
      OBVIOUS
    <2>3. s.parts = parts /\ s.bad = bad /\ s.got = got
      BY <2>2, ReaderFields
    <2>4. ASSUME NEW p \in Priority PROVE \E rest \in Seq(Nat) : accepted'[p] = got[p] \o rest
      <3>1. CASE bad
        BY <1>1, <2>1, <3>1 DEF ReaderOK
      <3>2. CASE ~bad
        <4>1. accepted'[p] = got[p] \o (InFrame(p)' \o Ids(q'[p]))
          BY <2>1, <2>2, <2>3, <3>2 DEF Match
        <4>2. InFrame(p)' \in Seq(Nat) /\ Ids(q'[p]) \in Seq(Nat)
          <5>1. q'[p] \in Seq(Packet)
            BY DEF QueuesOK
          <5>2. mux'.at = "pack" => mux'.payload \in Seq(AnyPiece)
            BY DEF MuxOK, Idle, Heading, Packing
          <5>3. <<>> \in Seq(Nat) /\ <<>> \in Seq(AnyPiece)
            OBVIOUS
          <5> QED
            BY <5>1, <5>2, <5>3, IdsTyped DEF InFrame
        <4>3. InFrame(p)' \o Ids(q'[p]) \in Seq(Nat)
          BY <4>2, ConcatProperties
        <4> QED
          BY <4>1, <4>3
      <3> QED
        BY <3>1, <3>2
    <2>5. ReaderOK(s)'
      BY <2>1, <2>2, <2>3, <2>4 DEF ReaderOK
    <2> QED
      BY <1>1, <2>1, <2>2, <2>5, ReadsFurther DEF IInv
  <1> QED
    BY <1>2, <1>3

\* What mux would write now is of the frame's priority, and of whole packets.
LEMMA Stops ==
    ASSUME IInv, StopPacking, NEW p, p = mux.from
    PROVE  \E state :
              /\ EndFrame(state, mux.payload, mux.size, mux.offset)
              /\ state.multi = writing[p] /\ state.multi = multiFrame[p] /\ state.remaining \in Nat
              /\ remaining' = [remaining EXCEPT ![p] = state.remaining]
              /\ writing[p] => state.remaining = remaining[p]
  <1>1. PICK state :
          /\ state = [multi |-> multiFrame[p] /\ (NoRoom \/ NothingToWrite),
                      remaining |-> IF NoRoom \/ NothingToWrite THEN remaining[p] ELSE 0,
                      sequence |-> sequence[p]]
          /\ EndFrame(state, mux.payload, mux.size, mux.offset)
          /\ remaining' = [remaining EXCEPT ![p] = state.remaining]
    BY DEF StopPacking
  <1>2. mux.at = "pack" /\ p \in Priority
    BY MuxFields DEF StopPacking, IInv
  <1>3. writing[p] \in BOOLEAN /\ multiFrame[p] \in BOOLEAN /\ remaining[p] \in Nat
    BY <1>2 DEF IInv, QueuesOK
  <1>4. /\ state.multi = (multiFrame[p] /\ (NoRoom \/ NothingToWrite))
        /\ state.remaining = IF NoRoom \/ NothingToWrite THEN remaining[p] ELSE 0
    BY <1>1
  <1>5. CASE writing[p]
    <2>1. multiFrame[p] = TRUE
      BY <1>2, <1>3, <1>5 DEF IInv, WritersOK, Writing
    <2>2. NoRoom
      BY <1>5 DEF StopPacking, NothingToWrite, NextTooLarge
    <2> QED
      BY <1>1, <1>3, <1>4, <1>5, <2>1, <2>2
  <1>6. CASE ~writing[p]
    <2>1. multiFrame[p] = FALSE
      BY <1>2, <1>3, <1>6 DEF IInv, WritersOK
    <2> QED
      BY <1>1, <1>3, <1>4, <1>6, <2>1
  <1> QED
    BY <1>5, <1>6

LEMMA StopPackingInv ==
    ASSUME IInv, StopPacking
    PROVE  IInv'
  <1>1. PICK p : p = mux.from
    OBVIOUS
  <1>2. PICK state :
          /\ EndFrame(state, mux.payload, mux.size, mux.offset)
          /\ state.multi = writing[p] /\ state.multi = multiFrame[p] /\ state.remaining \in Nat
          /\ remaining' = [remaining EXCEPT ![p] = state.remaining]
          /\ writing[p] => state.remaining = remaining[p]
    BY <1>1, Stops
  <1>3. /\ mux.at = "pack" /\ UNCHANGED <<q, writing, sequence, sequenceId, reader, accepted>>
    BY DEF StopPacking
  <1>4. /\ mux \in Packing /\ p \in Priority /\ mux.size \in Nat /\ mux.frameLen \in Nat
        /\ mux.allot \in Nat /\ mux.payload \in Seq(AnyPiece)
    BY <1>1, <1>3, MuxFields DEF IInv, Idle
  <1>5. FramesFit => mux.size + Overhead <= mux.frameLen
    BY <1>3, <1>4 DEF IInv, FrameOK, Overhead, Block
  <1>6. /\ MuxOK' /\ (FramesFit => FrameOK') /\ \A o \in Priority : InFrame(o)' = <<>>
    BY <1>2, <1>3, <1>4, <1>5, FrameEnds DEF IInv
  <1>7. writing[p] \in BOOLEAN /\ multiFrame \in [Priority -> BOOLEAN] /\ remaining \in [Priority -> Nat]
    BY <1>4 DEF IInv, QueuesOK
  <1>8. multiFrame' = multiFrame
    <2>1. \/ multiFrame' = [multiFrame EXCEPT ![p] = state.multi]
          \/ mux.payload # <<>> /\ multiFrame' = [multiFrame EXCEPT ![p] = state.multi /\ state.remaining # 0]
      BY <1>1, <1>2 DEF EndFrame
    <2>2. mux.payload # <<>> => writing[p] = FALSE
      BY <1>1, <1>3, <1>7 DEF IInv, MuxOK
    <2>3. multiFrame' = [multiFrame EXCEPT ![p] = multiFrame[p]]
      BY <1>2, <1>7, <2>1, <2>2
    <2> QED
      BY <1>7, <2>3
  <1>9. QueuesOK' /\ WritersOK' /\ Apart'
    <2>1. \A o \in Priority : remaining'[o] \in Nat /\ (writing[o] => remaining'[o] = remaining[o])
      BY <1>2, <1>7
    <2>2. remaining' \in [Priority -> Nat]
      BY <1>2, <1>7
    <2> QED
      BY <1>3, <1>8, <2>1, <2>2 DEF IInv, QueuesOK, WritersOK, Writing, Apart
  <1>10. CASE mux.payload = <<>>
    <2>1. wire' = wire
      BY <1>2, <1>10 DEF EndFrame
    <2>2. \A o \in Priority : InFrame(o) = <<>>
      BY <1>10 DEF InFrame, IdsOf
    <2>3. \A o \in Priority : writing[o] => remaining'[o] = remaining[o]
      BY <1>2, <1>7
    <2>4. \E S : Reads(S)'
      BY <1>3, <1>6, <2>1, <2>2, <2>3, ReadsQuiet
    <2> QED
      BY <1>6, <1>9, <2>1, <2>4 DEF IInv
  <1>11. CASE mux.payload # <<>>
    <2>1. PICK f : f = Frame(FALSE, 0, 0, mux.payload, mux.size)
      OBVIOUS
    <2>2. state.multi = FALSE /\ writing[p] = FALSE
      BY <1>1, <1>2, <1>3, <1>7, <1>11 DEF IInv, MuxOK
    <2>3. wire' = Append(wire, f)
      BY <1>2, <1>11, <2>1, <2>2 DEF EndFrame, Frame
    <2>4. f \in FrameType
      BY <1>4, <2>1 DEF Frame, FrameType
    <2>5. PICK R : Reads(R)
      BY DEF IInv
    <2>6. PICK r : r = R[Len(wire)]
      OBVIOUS
    <2>7. ReaderOK(r) /\ Match(r)
      <3>1. Len(wire) \in 0 .. Len(wire)
        BY DEF IInv
      <3> QED
        BY <2>5, <2>6, <3>1 DEF Reads
    <2>8. mux.payload \in Seq(Wholes(p)) /\ IdsOf(mux.payload) \in Seq(Nat)
      <3>1. <<>> \in Seq(Packet)
        OBVIOUS
      <3> QED
        BY <1>1, <1>3, <1>4, <3>1, IdsTyped DEF IInv, MuxOK
    <2>9. ASSUME ~r.bad
          PROVE  \E parts, bad, got : LET s == Reader(parts, bad, got) IN
              /\ Gets(r, f, s) /\ Match(s)'
              /\ parts = [t \in DOMAIN parts |-> parts[t]] /\ OneEach(parts)
              /\ bad \in BOOLEAN /\ (FramesFit => ~bad)
              /\ got \in [Priority -> Seq(Nat)] /\ (bad => got = r.got)
      <3>1. PICK ids : ids = IdsOf(mux.payload)
        OBVIOUS
      <3>2. PICK got : got = Got(r.got, p, ids)
        OBVIOUS
      <3>3. PICK s : s = Reader(r.parts, FALSE, got)
        OBVIOUS
      <3>4. s.parts = r.parts /\ s.bad = FALSE /\ s.got = got
        BY <3>3, Zenon DEF Reader
      <3>5. Gets(r, f, s)
        BY <1>4, <1>11, <2>1, <2>8, <2>9, <3>1, <3>2, <3>3 DEF Gets, GetsWholes
      <3>6. r.got \in [Priority -> Seq(Nat)] /\ ids \in Seq(Nat)
        BY <2>7, <2>8, <3>1 DEF ReaderOK
      <3>7. got \in [Priority -> Seq(Nat)]
        <4>1. \A o \in Priority : r.got[o] \o ids \in Seq(Nat)
          BY <3>6, ConcatProperties
        <4> QED
          BY <3>2, <3>6, <4>1 DEF Got
      <3>8. ASSUME NEW o \in Priority
            PROVE  accepted'[o] = got[o] \o (InFrame(o)' \o Ids(q'[o]))
        <4>1. /\ accepted[o] = r.got[o] \o (InFrame(o) \o Ids(q[o]))
              /\ Ids(q[o]) \in Seq(Nat) /\ r.got[o] \in Seq(Nat)
              /\ InFrame(o) = IF o = p THEN ids ELSE <<>>
          BY <1>1, <1>3, <2>7, <2>9, <3>1, <3>6, QueueTypes DEF IInv, Match, InFrame
        <4>2. <<>> \o Ids(q[o]) = Ids(q[o])
          BY <4>1, ConcatEmptySeq
        <4>3. (r.got[o] \o ids) \o Ids(q[o]) = r.got[o] \o (ids \o Ids(q[o]))
          BY <3>6, <4>1, Associates
        <4>4. got[o] = IF o = p THEN r.got[o] \o ids ELSE r.got[o]
          BY <3>2 DEF Got
        <4> QED
          BY <1>3, <1>6, <4>1, <4>2, <4>3, <4>4
      <3>9. \A o \in Priority : writing[o] => remaining'[o] = remaining[o]
        BY <1>2, <1>7
      <3>10. Match(s)'
        BY <1>3, <2>7, <2>9, <3>4, <3>8, <3>9 DEF Match
      <3> QED
        BY <2>7, <3>3, <3>5, <3>7, <3>10 DEF ReaderOK
    <2>10. \E S : Reads(S)'
      BY <1>3, <1>6, <1>9, <2>3, <2>4, <2>5, <2>6, <2>9, ReadsWritten
    <2>11. wire' \in Seq(FrameType)
      BY <2>3, <2>4 DEF IInv
    <2> QED
      BY <1>6, <1>9, <2>10, <2>11 DEF IInv
  <1> QED
    BY <1>10, <1>11
-----------------------------------------------------------------------------
(* Packing a packet *)

LEMMA PackFacts ==
    ASSUME IInv, Pack, NEW p, p = mux.from, NEW packet, packet = Head(q[p])
    PROVE  /\ mux.at = "pack" /\ p \in Priority /\ mux \in Packing
           /\ mux.allot \in Nat /\ mux.allot >= Block /\ mux.size \in Nat /\ mux.offset \in Nat
           /\ mux.frameLen \in Nat /\ mux.payload \in Seq(AnyPiece)
           /\ FramesFit => mux.size + mux.allot + Overhead <= mux.frameLen
           /\ q[p] # <<>> /\ packet \in Packet /\ packet.of = p /\ packet.size \in Nat /\ packet.size > 1
           /\ writing[p] \in BOOLEAN
           /\ writing[p] => /\ mux.payload = <<>> /\ mux.size = 0 /\ multiFrame[p] = TRUE
                            /\ remaining[p] \in Nat /\ 0 < remaining[p] /\ remaining[p] + 1 < packet.size
           /\ ~writing[p] /\ packet.size > mux.allot => mux.payload = <<>> /\ mux.size = 0
           /\ UNCHANGED <<reader, accepted>>
  <1>1. mux.at = "pack" /\ ~NoRoom /\ ~NothingToWrite /\ ~NextTooLarge /\ UNCHANGED <<reader, accepted>>
    BY DEF Pack
  <1>2. /\ p \in Priority /\ mux \in Packing /\ mux.allot \in Nat /\ mux.size \in Nat /\ mux.offset \in Nat
        /\ mux.frameLen \in Nat /\ mux.payload \in Seq(AnyPiece)
    BY <1>1, MuxFields DEF IInv, Idle
  <1>3. mux.allot >= Block
    BY <1>1, <1>2 DEF NoRoom, Block
  <1>4. FramesFit => mux.size + mux.allot + Overhead <= mux.frameLen
    BY <1>1 DEF IInv, FrameOK
  <1>5. writing[p] \in BOOLEAN /\ multiFrame[p] \in BOOLEAN /\ remaining[p] \in Nat
    BY <1>2 DEF IInv, QueuesOK
  <1>6. writing[p] => q[p] # <<>> /\ multiFrame[p] = TRUE /\ 0 < remaining[p] /\ remaining[p] + 1 < packet.size
    BY <1>2, <1>5 DEF IInv, WritersOK, Writing, TypeSize
  <1>7. q[p] # <<>>
    BY <1>1, <1>6 DEF NothingToWrite, Pending
  <1>8. packet \in Packet /\ packet.of = p
    BY <1>2, <1>7, QueueTypes DEF IInv
  <1>9. packet.size \in Nat /\ packet.size > 1
    BY <1>8, Sizes
  <1>10. IF mux.payload = <<>> THEN mux.size = 0 ELSE ~writing[p]
    BY <1>1 DEF IInv, MuxOK
  <1>11. ~writing[p] /\ packet.size > mux.allot => mux.payload = <<>>
    BY <1>1, <1>7 DEF NextTooLarge, Pending
  <1> QED
    BY <1>1, <1>2, <1>3, <1>4, <1>5, <1>6, <1>7, <1>8, <1>9, <1>10, <1>11

MuxWith(p, packet, offset) ==
    [at |-> "pack", frameLen |-> mux.frameLen, swap |-> mux.swap, from |-> p,
     allot |-> mux.allot - packet.size, payload |-> Append(mux.payload, Whole(packet)),
     size |-> mux.size + packet.size, offset |-> offset]

\* A packet that fits.
LEMMA PacksWhole ==
    ASSUME IInv, Pack, NEW p, p = mux.from, NEW packet, packet = Head(q[p]),
           ~writing[p], packet.size <= mux.allot
    PROVE  /\ sequenceId' = sequenceId /\ sequence' = sequence /\ wire' = wire
           /\ remaining' = [remaining EXCEPT ![p] = 0]
           /\ writing' = [writing EXCEPT ![p] = FALSE]
           /\ multiFrame' = [multiFrame EXCEPT ![p] = FALSE]
           /\ q' = [q EXCEPT ![p] = Tail(@)]
           /\ \E offset \in Nat : mux' = MuxWith(p, packet, offset)
  <1>1. /\ mux.allot \in Nat /\ mux.size \in Nat /\ mux.offset \in Nat /\ packet.size \in Nat /\ packet.size > 1
        /\ writing[p] = FALSE /\ p \in Priority
    BY PackFacts
  <1> DEFINE data == packet.size - TypeSize
             room == mux.allot - TypeSize
             length == IF data <= room THEN data ELSE room
             offset == IF room > 0 /\ data > 0 THEN data - data ELSE mux.offset
             piece == [packet |-> packet, begin |-> 0, to |-> TypeSize + data - data + length]
             payload == Append(mux.payload, piece)
             size == mux.size + piece.to - piece.begin
             done == length = data
             multi == packet.size > mux.allot
  <1>2. /\ sequenceId' = IF multi THEN (sequenceId + 1) % SequenceIds ELSE sequenceId
        /\ sequence' = [sequence EXCEPT ![p] = IF multi THEN (sequenceId + 1) % SequenceIds ELSE sequence[p]]
        /\ remaining' = [remaining EXCEPT ![p] = data - length]
        /\ writing' = [writing EXCEPT ![p] = ~done]
        /\ q' = IF done THEN [q EXCEPT ![p] = Tail(@)] ELSE q
        /\ ~multi => /\ mux' = [mux EXCEPT !.allot = room - length, !.payload = payload,
                                           !.size = size, !.offset = offset]
                     /\ multiFrame' = [multiFrame EXCEPT ![p] = FALSE]
                     /\ UNCHANGED wire
    BY <1>1 DEF Pack
  <1>3. ~multi /\ length = data /\ done /\ data - length = 0 /\ room - length = mux.allot - packet.size
    BY <1>1 DEF TypeSize
  <1>4. piece = Whole(packet) /\ size = mux.size + packet.size
    <2>1. TypeSize + data - data + length = packet.size
      BY <1>1, <1>3 DEF TypeSize
    <2> HIDE DEF length, data
    <2> QED
      BY <1>1, <2>1 DEF Whole, Piece
  <1>5. offset \in Nat
    BY <1>1 DEF TypeSize
  <1>6. sequence \in [Priority -> Nat]
    BY DEF IInv, QueuesOK
  <1> HIDE DEF data, room, length, offset, piece, payload, size, done, multi
  <1>7. payload = Append(mux.payload, Whole(packet))
    BY <1>4 DEF payload
  <1>8. mux' = [mux EXCEPT !.allot = mux.allot - packet.size,
                           !.payload = Append(mux.payload, Whole(packet)),
                           !.size = mux.size + packet.size, !.offset = offset]
    BY <1>2, <1>3, <1>4, <1>7
  <1>9. mux \in Packing /\ mux.at = "pack"
    BY PackFacts
  <1>10. mux' = MuxWith(p, packet, offset)
    BY <1>8, <1>9 DEF Packing, MuxWith
  <1> QED
    BY <1>1, <1>2, <1>3, <1>5, <1>6, <1>10

\* The beginning of one that does not.
LEMMA PacksFirst ==
    ASSUME IInv, Pack, NEW p, p = mux.from, NEW packet, packet = Head(q[p]),
           ~writing[p], packet.size > mux.allot, NEW next, next = (sequenceId + 1) % SequenceIds
    PROVE  /\ sequenceId' = next /\ sequence' = [sequence EXCEPT ![p] = next]
           /\ remaining' = [remaining EXCEPT ![p] = packet.size - mux.allot]
           /\ writing' = [writing EXCEPT ![p] = TRUE] /\ q' = q
           /\ multiFrame' = [multiFrame EXCEPT ![p] = TRUE]
           /\ wire' = Append(wire, Frame(TRUE, next, packet.size, <<Piece(packet, 0, mux.allot)>>, mux.allot))
           /\ \E state, payload, offset : EndFrame(state, payload, mux.allot, offset)
  <1>1. /\ mux.allot \in Nat /\ mux.allot >= Block /\ mux.size = 0 /\ mux.payload = <<>>
        /\ packet.size \in Nat /\ packet.size > 1 /\ writing[p] = FALSE /\ p \in Priority
    BY PackFacts
  <1> DEFINE data == packet.size - TypeSize
             room == mux.allot - TypeSize
             length == IF data <= room THEN data ELSE room
             offset == IF room > 0 /\ data > 0 THEN data - data ELSE mux.offset
             piece == [packet |-> packet, begin |-> 0, to |-> TypeSize + data - data + length]
             payload == Append(mux.payload, piece)
             size == mux.size + piece.to - piece.begin
             done == length = data
             multi == packet.size > mux.allot
             state == [multi |-> TRUE, remaining |-> data - length, sequence |-> IF multi THEN next ELSE sequence[p]]
  <1>2. /\ sequenceId' = IF multi THEN next ELSE sequenceId
        /\ sequence' = [sequence EXCEPT ![p] = IF multi THEN next ELSE sequence[p]]
        /\ remaining' = [remaining EXCEPT ![p] = data - length]
        /\ writing' = [writing EXCEPT ![p] = ~done]
        /\ q' = IF done THEN [q EXCEPT ![p] = Tail(@)] ELSE q
        /\ multi => EndFrame(state, payload, size, offset)
    BY <1>1 DEF Pack
  <1>3. /\ multi /\ length = mux.allot - 1 /\ ~done /\ data - length = packet.size - mux.allot
        /\ offset = 0 /\ data - length # 0
    BY <1>1 DEF TypeSize, Block
  <1>4. piece = Piece(packet, 0, mux.allot) /\ size = mux.allot
    <2>1. TypeSize + data - data + length = mux.allot
      BY <1>1, <1>3 DEF TypeSize
    <2> HIDE DEF length, data
    <2> QED
      BY <1>1, <2>1 DEF Piece
  <1>5. state.multi = TRUE /\ state.remaining # 0 /\ state.sequence = next
    BY <1>3
  <1> HIDE DEF data, room, length, offset, piece, size, done, multi, state
  <1>6. payload = <<Piece(packet, 0, mux.allot)>> /\ payload # <<>> /\ payload[1].packet = packet
    BY <1>1, <1>4 DEF Piece
  <1>7. EndFrame(state, payload, mux.allot, 0)
    BY <1>2, <1>3, <1>4
  <1> HIDE DEF payload
  <1>8. /\ multiFrame' = [multiFrame EXCEPT ![p] = TRUE]
        /\ wire' = Append(wire, Frame(TRUE, next, packet.size, <<Piece(packet, 0, mux.allot)>>, mux.allot))
    BY <1>5, <1>6, <1>7 DEF EndFrame, Frame
  <1> QED
    BY <1>2, <1>3, <1>7, <1>8

\* More of it.
More(p, length, done, left, f) ==
    /\ sequenceId' = sequenceId /\ sequence' = sequence
    /\ remaining' = [remaining EXCEPT ![p] = left]
    /\ writing' = [writing EXCEPT ![p] = ~done]
    /\ q' = IF done THEN [q EXCEPT ![p] = Tail(@)] ELSE q
    /\ multiFrame' = [multiFrame EXCEPT ![p] = ~done]
    /\ wire' = Append(wire, f)
    /\ \E state, payload, offset : EndFrame(state, payload, length, offset)

\* The frame f has the next length bytes of the packet that is being written.
NextPart(p, packet, length, from, done, still, f) ==
    /\ p = mux.from /\ packet = Head(q[p]) /\ writing[p]
    /\ length = IF remaining[p] <= mux.allot THEN remaining[p] ELSE mux.allot
    /\ from = packet.size - remaining[p]
    /\ done \in BOOLEAN /\ (done <=> length = remaining[p])
    /\ still = remaining[p] - length
    /\ f = Frame(TRUE, sequence[p], 0, <<Piece(packet, from, from + length)>>, length)

LEMMA Remainders ==
    ASSUME NEW n \in Nat, NEW m \in Nat, 0 < m, m + 1 < n
    PROVE  n - 1 - m # 0 /\ 1 + (n - 1) - m = n - m /\ n - m \in Nat
  OBVIOUS

LEMMA PacksMore ==
    ASSUME IInv, Pack, NEW p, NEW packet, NEW length, NEW from, NEW done, NEW still, NEW f,
           NextPart(p, packet, length, from, done, still, f)
    PROVE  More(p, length, done, still, f)
  <1> USE DEF NextPart
  <1>1. /\ mux.allot \in Nat /\ mux.allot >= Block /\ mux.size = 0 /\ mux.payload = <<>>
        /\ packet.size \in Nat /\ writing[p] = TRUE /\ p \in Priority /\ multiFrame[p] = TRUE
        /\ remaining[p] \in Nat /\ 0 < remaining[p] /\ remaining[p] + 1 < packet.size
    BY PackFacts
  <1> DEFINE data == packet.size - TypeSize
             left == remaining[p]
             offset == IF mux.allot > 0 /\ left > 0 THEN data - left ELSE mux.offset
             piece == [packet |-> packet, begin |-> TypeSize + data - left, to |-> TypeSize + data - left + length]
             payload == Append(mux.payload, piece)
             size == mux.size + piece.to - piece.begin
             state == [multi |-> TRUE, remaining |-> left - length, sequence |-> sequence[p]]
  <1>2. /\ sequenceId' = sequenceId
        /\ sequence' = [sequence EXCEPT ![p] = sequence[p]]
        /\ remaining' = [remaining EXCEPT ![p] = left - length]
        /\ writing' = [writing EXCEPT ![p] = ~(length = left)]
        /\ q' = IF length = left THEN [q EXCEPT ![p] = Tail(@)] ELSE q
        /\ EndFrame(state, payload, size, offset)
    BY <1>1 DEF Pack
  <1>3. /\ offset # 0 /\ TypeSize + data - left = from /\ length \in Nat /\ from \in Nat
        /\ (left - length # 0) = ~done
    <2>1. offset # 0 /\ TypeSize + data - left = from /\ length \in Nat /\ from \in Nat
      <3>1. PICK n \in Nat, m \in Nat, a \in Nat : n = packet.size /\ m = remaining[p] /\ a = mux.allot
        BY <1>1
      <3>2. 0 < m /\ m + 1 < n /\ a > 0 /\ length = (IF m <= a THEN m ELSE a) /\ from = n - m
        BY <1>1, <3>1 DEF Block
      <3>3. offset = n - 1 - m /\ TypeSize + data - left = 1 + (n - 1) - m
        BY <3>1, <3>2 DEF TypeSize
      <3>4. n - 1 - m # 0 /\ 1 + (n - 1) - m = n - m /\ n - m \in Nat
        BY <3>2, Remainders
      <3> QED
        BY <3>1, <3>2, <3>3, <3>4
    <2>2. left - length # 0 <=> length # left
      BY <1>1, <2>1
    <2>3. length # left <=> ~done
      OBVIOUS
    <2> QED
      BY <2>1, <2>2, <2>3
  <1>4. piece = Piece(packet, from, from + length) /\ size = length
    <2>1. TypeSize + data - left = from /\ TypeSize + data - left + length = from + length
      BY <1>3
    <2>2. piece = Piece(packet, from, from + length)
      BY <2>1 DEF Piece
    <2>3. piece.begin = from /\ piece.to = from + length
      BY <2>1
    <2> HIDE DEF piece, data
    <2>4. mux.size = 0 /\ from \in Nat /\ length \in Nat
      BY <1>1, <1>3
    <2>5. 0 + (from + length) - from = length
      BY <2>4
    <2> QED
      BY <2>2, <2>3, <2>4, <2>5
  <1>5. state.multi = TRUE /\ (state.remaining # 0) = ~done /\ state.sequence = sequence[p]
    BY <1>3
  <1>9. sequence \in [Priority -> Nat]
    BY DEF IInv, QueuesOK
  <1> HIDE DEF data, offset, piece, size, state, left
  <1>6. payload = <<Piece(packet, from, from + length)>> /\ payload # <<>>
    <2>1. payload = Append(<<>>, Piece(packet, from, from + length))
      BY <1>1, <1>4
    <2> HIDE DEF payload
    <2> QED
      BY <2>1
  <1>7. EndFrame(state, payload, length, offset)
    BY <1>2, <1>4
  <1> HIDE DEF payload
  <1>8. /\ multiFrame' = [multiFrame EXCEPT ![p] = ~done]
        /\ wire' = Append(wire, Frame(TRUE, sequence[p], 0, <<Piece(packet, from, from + length)>>, length))
    BY <1>3, <1>5, <1>6, <1>7 DEF EndFrame, Frame
  <1> QED
    BY <1>2, <1>7, <1>8, <1>9 DEF left, More
-----------------------------------------------------------------------------
(* Steps of the inner loop *)

LEMMA PackWholeInv ==
    ASSUME IInv, Pack, NEW p, p = mux.from, NEW packet, packet = Head(q[p]),
           ~writing[p], packet.size <= mux.allot
    PROVE  IInv'
  <1>1. /\ mux.at = "pack" /\ p \in Priority /\ mux \in Packing
        /\ mux.allot \in Nat /\ mux.size \in Nat /\ mux.frameLen \in Nat /\ mux.payload \in Seq(AnyPiece)
        /\ FramesFit => mux.size + mux.allot + Overhead <= mux.frameLen
        /\ q[p] # <<>> /\ packet \in Packet /\ packet.of = p /\ packet.size \in Nat
        /\ writing[p] = FALSE /\ UNCHANGED <<reader, accepted>>
    BY PackFacts
  <1>2. PICK offset \in Nat :
           /\ sequenceId' = sequenceId /\ sequence' = sequence /\ wire' = wire
           /\ remaining' = [remaining EXCEPT ![p] = 0]
           /\ writing' = [writing EXCEPT ![p] = FALSE]
           /\ multiFrame' = [multiFrame EXCEPT ![p] = FALSE]
           /\ q' = [q EXCEPT ![p] = Tail(@)]
           /\ mux' = MuxWith(p, packet, offset)
    BY PacksWhole
  <1>3. mux.payload \in Seq(Wholes(p)) /\ Whole(packet) \in Wholes(p) /\ Whole(packet) \in AnyPiece
    BY <1>1 DEF IInv, MuxOK, Wholes, Whole, Piece, AnyPiece
  <1>4. PICK payload : payload = Append(mux.payload, Whole(packet))
    OBVIOUS
  <1>5. payload \in Seq(AnyPiece) /\ payload \in Seq(Wholes(p)) /\ payload # <<>>
    BY <1>1, <1>3, <1>4, Longer
  <1>6. PICK allot \in Nat, size \in Nat : allot = mux.allot - packet.size /\ size = mux.size + packet.size
    <2>1. mux.allot - packet.size \in Nat /\ mux.size + packet.size \in Nat
      BY <1>1
    <2> QED
      BY <2>1
  <1>7. mux' = [at |-> "pack", frameLen |-> mux.frameLen, swap |-> mux.swap, from |-> p, allot |-> allot,
                payload |-> payload, size |-> size, offset |-> offset]
    BY <1>2, <1>4, <1>6 DEF MuxWith
  <1>8. /\ mux'.at = "pack" /\ mux'.frameLen = mux.frameLen /\ mux'.swap = mux.swap /\ mux'.from = p
        /\ mux'.allot = allot /\ mux'.payload = payload /\ mux'.size = size
    BY <1>7
  <1>9. mux' \in Packing
    BY <1>1, <1>5, <1>6, <1>7 DEF Packing
  <1>10. /\ q \in [Priority -> Seq(Packet)] /\ writing \in [Priority -> BOOLEAN]
         /\ multiFrame \in [Priority -> BOOLEAN] /\ remaining \in [Priority -> Nat]
    BY DEF IInv, QueuesOK
  <1>11. /\ writing' = writing
         /\ \A o \in Priority : o # p => q'[o] = q[o] /\ remaining'[o] = remaining[o] /\ multiFrame'[o] = multiFrame[o]
         /\ q'[p] = Tail(q[p]) /\ remaining'[p] = 0 /\ multiFrame'[p] = FALSE
    BY <1>1, <1>2, <1>10
  <1>12. Tail(q[p]) \in Seq(Packet) /\ Tail(q[p]) \in Seq(Queued(p))
    BY <1>1, QueueTypes DEF IInv
  <1>13. QueuesOK'
    <2>1. q' \in [Priority -> Seq(Packet)]
      BY <1>2, <1>10, <1>12
    <2>2. \A o \in Priority : q'[o] \in Seq(Queued(o))
      BY <1>11, <1>12 DEF IInv, QueuesOK
    <2>3. multiFrame' \in [Priority -> BOOLEAN] /\ remaining' \in [Priority -> Nat]
      BY <1>2, <1>10
    <2> QED
      BY <1>1, <1>2, <1>11, <2>1, <2>2, <2>3 DEF IInv, QueuesOK
  <1>14. WritersOK'
    BY <1>1, <1>11 DEF IInv, WritersOK, Writing
  <1>15. Apart'
    BY <1>2, <1>11 DEF IInv, Apart
  <1>16. MuxOK'
    BY <1>1, <1>5, <1>8, <1>9, <1>11 DEF MuxOK
  <1>17. FramesFit => FrameOK'
    <2>1. mux # Idle /\ mux' # Idle
      BY <1>1, <1>8 DEF Idle
    <2>2. FramesFit => size + allot + Overhead <= mux.frameLen
      <3>1. PICK a \in Nat, n \in Nat, k \in Nat : a = mux.allot /\ n = mux.size /\ k = packet.size
        BY <1>1
      <3>2. allot = a - k /\ size = n + k
        BY <1>6, <3>1
      <3>3. (n + k) + (a - k) = n + a
        OBVIOUS
      <3>4. size + allot = n + a
        BY <3>2, <3>3
      <3> QED
        BY <1>1, <3>1, <3>4
    <2> QED
      BY <1>8, <2>1, <2>2 DEF IInv, FrameOK
  <1>18. PICK R : Reads(R)
    BY DEF IInv
  <1>19. PICK r : r = R[Len(wire)]
    OBVIOUS
  <1>20. ReaderOK(r) /\ Match(r)
    <2>1. Len(wire) \in 0 .. Len(wire)
      BY DEF IInv
    <2> QED
      BY <1>18, <1>19, <2>1 DEF Reads
  <1>21. ASSUME NEW o \in Priority, ~r.bad
         PROVE  accepted'[o] = r.got[o] \o (InFrame(o)' \o Ids(q'[o]))
    <2>1. accepted[o] = r.got[o] \o (InFrame(o) \o Ids(q[o]))
      BY <1>20, <1>21 DEF Match
    <2>2. CASE o # p
      BY <1>1, <1>8, <1>11, <2>1, <2>2 DEF InFrame
    <2>3. CASE o = p
      <3>1. PICK ids, rest, id : ids = IdsOf(mux.payload) /\ rest = Ids(Tail(q[p])) /\ id = packet.id
        OBVIOUS
      <3>2. ids \in Seq(Nat) /\ rest \in Seq(Nat) /\ id \in Nat /\ Ids(q[p]) = <<id>> \o rest
        <4>1. <<>> \in Seq(Packet)
          OBVIOUS
        <4> QED
          BY <1>1, <3>1, <4>1, IdsTyped, QueueTypes, Sizes DEF IInv
      <3>3. InFrame(p)' = Append(ids, id)
        <4>1. Whole(packet).packet = packet
          BY DEF Whole, Piece
        <4>2. IdsOf(payload) = Append(ids, id)
          BY <1>1, <1>3, <1>4, <3>1, <4>1, IdsGrow
        <4> QED
          BY <1>8, <4>2 DEF InFrame
      <3>4. Append(ids, id) \o rest = ids \o (<<id>> \o rest)
        BY <3>2, OneMore
      <3>5. InFrame(p) = ids
        BY <1>1, <3>1 DEF InFrame
      <3> QED
        BY <1>1, <1>11, <2>1, <2>3, <3>1, <3>2, <3>3, <3>4, <3>5
    <2> QED
      BY <2>2, <2>3
  <1>22. \A o \in Priority : writing[o] => q'[o] = q[o] /\ remaining'[o] = remaining[o]
    BY <1>1, <1>11
  <1>23. Match(r)'
    <2>1. ASSUME ~r.bad
          PROVE  /\ \A s \in DOMAIN r.parts : \E o \in Priority : writing'[o] /\ s = sequence'[o]
                 /\ \A o \in Priority : writing'[o] /\ sequence'[o] \in DOMAIN r.parts =>
                       r.parts[sequence'[o]] = Part(Head(q'[o]), Head(q'[o]).size - remaining'[o])
                 /\ FramesFit => \A o \in Priority : writing'[o] => sequence'[o] \in DOMAIN r.parts
      <3>1. sequence' = sequence /\ writing' = writing
        BY <1>2, <1>11
      <3>2. \A s \in DOMAIN r.parts : \E o \in Priority : writing[o] /\ s = sequence[o]
        BY <1>20, <2>1 DEF Match
      <3>3. FramesFit => \A o \in Priority : writing[o] => sequence[o] \in DOMAIN r.parts
        BY <1>20, <2>1 DEF Match
      <3>4. ASSUME NEW o \in Priority, writing'[o], sequence'[o] \in DOMAIN r.parts
            PROVE  r.parts[sequence'[o]] = Part(Head(q'[o]), Head(q'[o]).size - remaining'[o])
        <4>1. writing[o] /\ sequence[o] \in DOMAIN r.parts
          BY <3>1, <3>4
        <4>2. r.parts[sequence[o]] = Part(Head(q[o]), Head(q[o]).size - remaining[o])
          BY <1>20, <2>1, <4>1 DEF Match
        <4>3. q'[o] = q[o] /\ remaining'[o] = remaining[o]
          BY <1>22, <4>1
        <4> QED
          BY <3>1, <4>2, <4>3
      <3> QED
        BY <3>1, <3>2, <3>3, <3>4
    <2> QED
      BY <1>21, <2>1 DEF Match
  <1>24. \E S : Reads(S)'
    <2>1. \A o \in Priority : \E more \in Seq(Nat) : accepted'[o] = accepted[o] \o more
      BY <1>1, AcceptedSame DEF IInv, QueuesOK
    <2> QED
      BY <1>1, <1>2, <1>18, <1>19, <1>23, <2>1, ReadsSame DEF IInv, QueuesOK
  <1> QED
    BY <1>2, <1>13, <1>14, <1>15, <1>16, <1>17, <1>24 DEF IInv

\* The sequence id of a packet that is begun is not in use.
NoReuse ==
    \A p, o \in Priority : writing[p] /\ ~writing[o] /\ q[o] # <<>> =>
        sequence[p] # (sequenceId + 1) % SequenceIds

LEMMA FirstFits ==
    ASSUME FramesFit, IInv, Pack, NEW p, p = mux.from, NEW packet, packet = Head(q[p]),
           ~writing[p], packet.size > mux.allot, NEW next
    PROVE  ~TooLarge(Frame(TRUE, next, packet.size, <<Piece(packet, 0, mux.allot)>>, mux.allot))
  <1>1. /\ mux.at = "pack" /\ mux.allot \in Nat /\ mux.allot >= Block /\ mux.frameLen \in Nat
        /\ mux.size = 0 /\ packet \in Packet /\ packet.size \in Nat
        /\ mux.size + mux.allot + Overhead <= mux.frameLen
    BY PackFacts
  <1>2. mux # Idle
    BY <1>1 DEF Idle
  <1>3. PICK c \in Nat : mux.frameLen = Block * c
    BY <1>2 DEF IInv, FrameOK
  <1>4. PICK m \in MuxSizes : m >= Overhead + Block /\ mux.frameLen <= m
    BY <1>2 DEF IInv, FrameOK
  <1>5. packet.size >= m - 2 * Block
    <2>1. packet.size \in PacketSizes
      BY <1>1 DEF Packet
    <2> QED
      BY <1>1, <1>4, <2>1 DEF FramesFit, Block
  <1>6. Padded(mux.allot) \in Nat /\ Overhead + Padded(mux.allot) <= mux.frameLen
    BY <1>1, <1>3, PaddedFits DEF Overhead, Block
  <1>7. Padded(mux.allot) + Block <= packet.size
    BY <1>1, <1>4, <1>5, <1>6, Sizes DEF Overhead, Block
  <1>8. PICK f : f = Frame(TRUE, next, packet.size, <<Piece(packet, 0, mux.allot)>>, mux.allot)
    OBVIOUS
  <1>9. f.total = packet.size /\ f.size = mux.allot
    BY <1>8 DEF Frame
  <1>10. ~(FrameSize(f) > f.total)
    BY <1>1, <1>6, <1>7, <1>9 DEF FrameSize, Block
  <1> QED
    BY <1>8, <1>10 DEF TooLarge

\* The beginnings of packets that the reader has: of those that have been begun.
LEMMA PartsKnown ==
    ASSUME IInv, NEW r, ReaderOK(r), Match(r), ~r.bad, NEW s \in DOMAIN r.parts
    PROVE  \E o \in Priority : writing[o] /\ s = sequence[o] /\ r.parts[s].packet.of = o
  <1>1. PICK o \in Priority : writing[o] /\ s = sequence[o]
    BY DEF Match
  <1>2. r.parts[s] = Part(Head(q[o]), Head(q[o]).size - remaining[o])
    BY <1>1 DEF Match
  <1>3. r.parts[s].packet = Head(q[o])
    BY <1>2 DEF Part
  <1>4. Head(q[o]).of = o
    BY <1>1, QueueTypes DEF IInv, WritersOK, Writing
  <1> QED
    BY <1>1, <1>3, <1>4

LEMMA PackFirstInv ==
    ASSUME IInv, NoReuse, Pack, NEW p, p = mux.from, NEW packet, packet = Head(q[p]),
           ~writing[p], packet.size > mux.allot
    PROVE  IInv'
  <1>1. /\ mux.at = "pack" /\ p \in Priority
        /\ mux.allot \in Nat /\ mux.allot >= Block /\ mux.size = 0 /\ mux.payload = <<>> /\ mux.frameLen \in Nat
        /\ FramesFit => mux.size + mux.allot + Overhead <= mux.frameLen
        /\ q[p] # <<>> /\ packet \in Packet /\ packet.of = p /\ packet.size \in Nat
        /\ writing[p] = FALSE /\ UNCHANGED <<reader, accepted>>
    BY PackFacts
  <1>2. PICK next \in Nat : next = (sequenceId + 1) % SequenceIds
    <2>1. sequenceId + 1 \in Int
      BY DEF IInv, QueuesOK
    <2> QED
      BY <2>1, Reduced, Sizes
  <1>3. PICK allot \in Nat : allot = mux.allot
    BY <1>1
  <1>4. PICK f : f = Frame(TRUE, next, packet.size, <<Piece(packet, 0, allot)>>, allot)
    OBVIOUS
  <1>5. /\ sequenceId' = next /\ sequence' = [sequence EXCEPT ![p] = next]
        /\ remaining' = [remaining EXCEPT ![p] = packet.size - allot]
        /\ writing' = [writing EXCEPT ![p] = TRUE] /\ q' = q
        /\ multiFrame' = [multiFrame EXCEPT ![p] = TRUE]
        /\ wire' = Append(wire, f)
        /\ \E state, payload, offset : EndFrame(state, payload, allot, offset)
    BY <1>2, <1>3, <1>4, PacksFirst
  <1>6. /\ MuxOK' /\ (FramesFit => FrameOK') /\ \A o \in Priority : InFrame(o)' = <<>>
    <2>1. PICK state, payload, offset : EndFrame(state, payload, allot, offset)
      BY <1>5
    <2>2. FramesFit => allot + Overhead <= mux.frameLen
      BY <1>1, <1>3 DEF Overhead, Block
    <2> QED
      BY <1>1, <2>1, <2>2, FrameEnds DEF IInv
  <1>7. \A o \in Priority : InFrame(o) = <<>>
    BY <1>1 DEF InFrame, IdsOf
  <1>8. f \in FrameType
    <2>1. Piece(packet, 0, allot) \in AnyPiece
      BY <1>1 DEF Piece, AnyPiece
    <2>2. <<Piece(packet, 0, allot)>> \in Seq(AnyPiece)
      BY <2>1
    <2> QED
      BY <1>1, <1>4, <2>2 DEF Frame, FrameType
  <1>9. /\ q \in [Priority -> Seq(Packet)] /\ writing \in [Priority -> BOOLEAN] /\ sequence \in [Priority -> Nat]
        /\ multiFrame \in [Priority -> BOOLEAN] /\ remaining \in [Priority -> Nat]
    BY DEF IInv, QueuesOK
  <1>10. packet.size - allot \in Nat /\ 0 < packet.size - allot /\ packet.size - allot + 1 < packet.size
         /\ allot < packet.size /\ packet.size - (packet.size - allot) = allot
    BY <1>1, <1>3 DEF Block
  <1>11. /\ \A o \in Priority : o # p => /\ writing'[o] = writing[o] /\ remaining'[o] = remaining[o]
                                         /\ multiFrame'[o] = multiFrame[o] /\ sequence'[o] = sequence[o]
         /\ writing'[p] = TRUE /\ remaining'[p] = packet.size - allot /\ multiFrame'[p] = TRUE
         /\ sequence'[p] = next
    BY <1>1, <1>5, <1>9
  <1>12. QueuesOK'
    BY <1>1, <1>5, <1>9, <1>10 DEF IInv, QueuesOK
  <1>13. WritersOK'
    <2>1. Writing(p)'
      BY <1>1, <1>5, <1>10, <1>11 DEF Writing, TypeSize
    <2>2. ASSUME NEW o \in Priority, o # p PROVE IF writing'[o] THEN Writing(o)' ELSE ~multiFrame'[o]
      BY <1>5, <1>11, <2>2 DEF IInv, WritersOK, Writing
    <2> QED
      BY <1>11, <2>1, <2>2 DEF WritersOK
  <1>14. \A o \in Priority : writing[o] => o # p /\ sequence[o] # next
    BY <1>1, <1>2 DEF NoReuse
  <1>15. Apart'
    BY <1>11, <1>14 DEF IInv, Apart
  <1>16. PICK R : Reads(R)
    BY DEF IInv
  <1>17. PICK r : r = R[Len(wire)]
    OBVIOUS
  <1>18. ReaderOK(r) /\ Match(r)
    <2>1. Len(wire) \in 0 .. Len(wire)
      BY DEF IInv
    <2> QED
      BY <1>16, <1>17, <2>1 DEF Reads
  <1>19. ASSUME ~r.bad
         PROVE  \E parts, bad, got : LET s == Reader(parts, bad, got) IN
              /\ Gets(r, f, s) /\ Match(s)'
              /\ parts = [t \in DOMAIN parts |-> parts[t]] /\ OneEach(parts)
              /\ bad \in BOOLEAN /\ (FramesFit => ~bad)
              /\ got \in [Priority -> Seq(Nat)] /\ (bad => got = r.got)
    <2>1. \A t \in DOMAIN r.parts : \E o \in Priority : o # p /\ writing[o] /\ t = sequence[o] /\ r.parts[t].packet.of = o
      BY <1>14, <1>18, <1>19, PartsKnown
    <2>2. \A t \in DOMAIN r.parts : r.parts[t].packet.of # packet.of
      BY <1>1, <2>1
    <2>3. next \notin DOMAIN r.parts
      BY <1>14, <2>1
    <2>4. /\ r = Reader(r.parts, FALSE, r.got) /\ r.parts = [t \in DOMAIN r.parts |-> r.parts[t]]
          /\ r.got \in [Priority -> Seq(Nat)] /\ OneEach(r.parts)
      <3>1. r.bad = FALSE
        BY <1>18, <1>19 DEF ReaderOK
      <3> QED
        BY <1>18, <3>1 DEF ReaderOK
    <2>5. ASSUME NEW o \in Priority PROVE accepted'[o] = r.got[o] \o (InFrame(o)' \o Ids(q'[o]))
      <3>1. accepted[o] = r.got[o] \o (InFrame(o) \o Ids(q[o]))
        BY <1>18, <1>19 DEF Match
      <3>2. InFrame(o) = <<>> /\ InFrame(o)' = <<>>
        BY <1>6, <1>7
      <3> QED
        BY <1>1, <1>5, <3>1, <3>2
    <2>6. \A t \in DOMAIN r.parts : \E o \in Priority : o # p /\ writing'[o] /\ t = sequence'[o]
      BY <1>11, <2>1
    <2>7. \A o \in Priority : o # p /\ writing'[o] /\ sequence'[o] \in DOMAIN r.parts =>
             r.parts[sequence'[o]] = Part(Head(q'[o]), Head(q'[o]).size - remaining'[o])
      <3>1. ASSUME NEW o \in Priority, o # p, writing'[o], sequence'[o] \in DOMAIN r.parts
            PROVE  r.parts[sequence'[o]] = Part(Head(q'[o]), Head(q'[o]).size - remaining'[o])
        <4>1. writing[o] /\ sequence'[o] = sequence[o] /\ remaining'[o] = remaining[o] /\ q' = q
          BY <1>5, <1>11, <3>1
        <4>2. r.parts[sequence[o]] = Part(Head(q[o]), Head(q[o]).size - remaining[o])
          BY <1>18, <1>19, <3>1, <4>1 DEF Match
        <4> QED
          BY <4>1, <4>2
      <3> QED
        BY <3>1
    <2>8. CASE TooLarge(f)
      <3>1. ~FramesFit
        BY <1>1, <1>3, <1>4, <2>8, FirstFits
      <3>2. GetsFirst(r, f, r)
        BY <1>1, <1>2, <1>3, <1>4, <1>10, <2>2, <2>8 DEF GetsFirst
      <3>3. Match(r)'
        BY <1>11, <2>3, <2>5, <2>6, <2>7, <3>1 DEF Match
      <3> QED
        BY <1>19, <2>4, <3>1, <3>2, <3>3 DEF Gets
    <2>9. CASE ~TooLarge(f)
      <3>1. PICK parts : parts = Assign(r.parts, next, Part(packet, allot))
        OBVIOUS
      <3>2. PICK s : s = Reader(parts, FALSE, r.got)
        OBVIOUS
      <3>3. s.parts = parts /\ s.got = r.got /\ ~s.bad
        BY <3>2 DEF Reader
      <3>4. GetsFirst(r, f, s)
        BY <1>1, <1>2, <1>3, <1>4, <1>10, <2>2, <2>9, <3>1, <3>2 DEF GetsFirst
      <3>5. /\ DOMAIN parts = DOMAIN r.parts \cup {next} /\ parts[next] = Part(packet, allot)
            /\ \A t \in DOMAIN r.parts : parts[t] = r.parts[t]
            /\ parts = [t \in DOMAIN parts |-> parts[t]]
        BY <2>3, <3>1 DEF Assign
      <3>6. parts[next].packet.of = p
        BY <1>1, <3>5 DEF Part
      <3>7. OneEach(parts)
        BY <1>1, <2>2, <2>4, <3>5, <3>6 DEF OneEach
      <3>8. \A t \in DOMAIN parts : \E o \in Priority : writing'[o] /\ t = sequence'[o]
        BY <1>1, <1>11, <2>6, <3>5
      <3>9. \A o \in Priority : writing'[o] /\ sequence'[o] \in DOMAIN parts =>
               parts[sequence'[o]] = Part(Head(q'[o]), Head(q'[o]).size - remaining'[o])
        <4>1. ASSUME NEW o \in Priority, o # p, writing'[o], sequence'[o] \in DOMAIN parts
              PROVE  parts[sequence'[o]] = Part(Head(q'[o]), Head(q'[o]).size - remaining'[o])
          <5>1. sequence'[o] # next
            BY <1>11, <1>14, <4>1
          <5>2. sequence'[o] \in DOMAIN r.parts
            BY <3>5, <4>1, <5>1
          <5> QED
            BY <2>7, <3>5, <4>1, <5>2
        <4>2. parts[sequence'[p]] = Part(Head(q'[p]), Head(q'[p]).size - remaining'[p])
          BY <1>5, <1>10, <1>11, <3>5
        <4> QED
          BY <4>1, <4>2
      <3>10. FramesFit => \A o \in Priority : writing'[o] => sequence'[o] \in DOMAIN parts
        BY <1>11, <1>18, <1>19, <3>5 DEF Match
      <3>11. Match(s)'
        BY <2>5, <3>3, <3>8, <3>9, <3>10 DEF Match
      <3> QED
        BY <1>19, <2>4, <3>2, <3>4, <3>5, <3>7, <3>11 DEF Gets
    <2> QED
      BY <2>8, <2>9
  <1>20. \E S : Reads(S)'
    BY <1>1, <1>5, <1>6, <1>8, <1>12, <1>16, <1>17, <1>19, ReadsWritten
  <1>21. wire' \in Seq(FrameType)
    BY <1>5, <1>8 DEF IInv
  <1> QED
    BY <1>6, <1>12, <1>13, <1>15, <1>20, <1>21 DEF IInv

\* How much of a packet of n bytes, with r left to be written, a call of mux takes
\* when it is allotted a.
LEMMA CutSizes ==
    ASSUME NEW r \in Nat, NEW a \in Nat, NEW n \in Nat, 0 < r, r + 1 < n, a >= 16,
           NEW length, length = (IF r <= a THEN r ELSE a), NEW from, from = n - r,
           NEW left, left = r - length, NEW to, to = from + length
    PROVE  /\ length \in Nat /\ 0 < length /\ length <= r /\ length <= a
           /\ from \in Nat /\ 0 < from /\ from < to /\ to <= n /\ to \in Nat /\ to - from = length
           /\ left \in Nat /\ left + 1 < n /\ to = n - left
  OBVIOUS

LEMMA PackMoreInv ==
    ASSUME IInv, Pack, NEW p, p = mux.from, NEW packet, packet = Head(q[p]), writing[p]
    PROVE  IInv'
  <1>1. /\ mux.at = "pack" /\ p \in Priority
        /\ mux.allot \in Nat /\ mux.allot >= Block /\ mux.size = 0 /\ mux.payload = <<>> /\ mux.frameLen \in Nat
        /\ FramesFit => mux.size + mux.allot + Overhead <= mux.frameLen
        /\ q[p] # <<>> /\ packet \in Packet /\ packet.of = p /\ packet.size \in Nat
        /\ remaining[p] \in Nat /\ 0 < remaining[p] /\ remaining[p] + 1 < packet.size
        /\ writing[p] = TRUE /\ UNCHANGED <<reader, accepted>>
    BY PackFacts
  <1>2. PICK length : length = IF remaining[p] <= mux.allot THEN remaining[p] ELSE mux.allot
    OBVIOUS
  <1>3. PICK from : from = packet.size - remaining[p]
    OBVIOUS
  <1>4. PICK done \in BOOLEAN : done <=> length = remaining[p]
    OBVIOUS
  <1>5. PICK left : left = remaining[p] - length
    OBVIOUS
  <1>6. PICK to : to = from + length
    OBVIOUS
  <1>7. /\ length \in Nat /\ 0 < length /\ length <= remaining[p] /\ length <= mux.allot
        /\ from \in Nat /\ 0 < from /\ from < to /\ to <= packet.size /\ to \in Nat /\ to - from = length
        /\ left \in Nat /\ left + 1 < packet.size /\ to = packet.size - left
    <2>1. PICK r \in Nat, a \in Nat, n \in Nat : r = remaining[p] /\ a = mux.allot /\ n = packet.size
      BY <1>1
    <2>2. /\ 0 < r /\ r + 1 < n /\ a >= 16 /\ length = (IF r <= a THEN r ELSE a) /\ from = n - r
          /\ left = r - length /\ to = from + length
      BY <1>1, <1>2, <1>3, <1>5, <1>6, <2>1 DEF Block
    <2>3. /\ length \in Nat /\ 0 < length /\ length <= r /\ length <= a
          /\ from \in Nat /\ 0 < from /\ from < to /\ to <= n /\ to \in Nat /\ to - from = length
          /\ left \in Nat /\ left + 1 < n /\ to = n - left
      BY <2>2, CutSizes
    <2> QED
      BY <2>1, <2>3
  <1>8. /\ done => left = 0 /\ ~(to < packet.size)
        /\ ~done => 0 < left /\ to < packet.size
    <2>1. PICK r \in Nat, k \in Nat, n \in Nat : r = remaining[p] /\ k = length /\ n = packet.size
      BY <1>1, <1>7
    <2>2. k <= r /\ left = r - k /\ to = n - left
      BY <1>5, <1>7, <2>1
    <2>3. /\ k = r => left = 0 /\ ~(to < n)
          /\ k # r => 0 < left /\ to < n
      BY <2>1, <2>2
    <2>4. done <=> k = r
      BY <1>4, <2>1
    <2> QED
      BY <2>1, <2>3, <2>4
  <1>9. PICK seq : seq = sequence[p]
    OBVIOUS
  <1>10. PICK f : f = Frame(TRUE, seq, 0, <<Piece(packet, from, to)>>, to - from)
    OBVIOUS
  <1>11. /\ sequenceId' = sequenceId /\ sequence' = sequence
         /\ remaining' = [remaining EXCEPT ![p] = left]
         /\ writing' = [writing EXCEPT ![p] = ~done]
         /\ q' = IF done THEN [q EXCEPT ![p] = Tail(@)] ELSE q
         /\ multiFrame' = [multiFrame EXCEPT ![p] = ~done]
         /\ wire' = Append(wire, f)
         /\ \E state, payload, offset : EndFrame(state, payload, length, offset)
    <2>1. f = Frame(TRUE, sequence[p], 0, <<Piece(packet, from, from + length)>>, length)
      BY <1>6, <1>7, <1>9, <1>10
    <2>2. writing[p] /\ (done <=> length = remaining[p])
      BY <1>4
    <2>3. NextPart(p, packet, length, from, done, left, f)
      BY <1>2, <1>3, <1>5, <2>1, <2>2 DEF NextPart
    <2>4. More(p, length, done, left, f)
      BY <2>3, PacksMore
    <2> QED
      BY <2>4 DEF More
  <1>12. /\ MuxOK' /\ (FramesFit => FrameOK') /\ \A o \in Priority : InFrame(o)' = <<>>
    <2>1. PICK state, payload, offset : EndFrame(state, payload, length, offset)
      BY <1>11
    <2>2. FramesFit => length + Overhead <= mux.frameLen
      <3>1. PICK a \in Nat, m \in Nat : a = mux.allot /\ m = mux.frameLen
        BY <1>1
      <3>2. (FramesFit => a + Overhead <= m) /\ length \in Nat /\ length <= a
        BY <1>1, <1>7, <3>1
      <3> QED
        BY <3>1, <3>2 DEF Overhead, Block
    <2> QED
      BY <1>1, <1>7, <2>1, <2>2, FrameEnds DEF IInv
  <1>13. \A o \in Priority : InFrame(o) = <<>>
    BY <1>1 DEF InFrame, IdsOf
  <1>14. /\ q \in [Priority -> Seq(Packet)] /\ writing \in [Priority -> BOOLEAN] /\ sequence \in [Priority -> Nat]
         /\ multiFrame \in [Priority -> BOOLEAN] /\ remaining \in [Priority -> Nat] /\ seq \in Nat
    BY <1>1, <1>9 DEF IInv, QueuesOK
  <1>15. f \in FrameType
    <2>1. Piece(packet, from, to) \in AnyPiece
      BY <1>1, <1>7 DEF Piece, AnyPiece
    <2>2. <<Piece(packet, from, to)>> \in Seq(AnyPiece)
      BY <2>1
    <2>3. to - from \in Nat
      BY <1>7
    <2> QED
      BY <1>10, <1>14, <2>2, <2>3 DEF Frame, FrameType
  <1>16. /\ \A o \in Priority : o # p => /\ writing'[o] = writing[o] /\ remaining'[o] = remaining[o]
                                         /\ multiFrame'[o] = multiFrame[o] /\ q'[o] = q[o]
         /\ writing'[p] = ~done /\ remaining'[p] = left /\ multiFrame'[p] = ~done
         /\ q'[p] = IF done THEN Tail(q[p]) ELSE q[p]
    BY <1>1, <1>11, <1>14
  <1>17. /\ Tail(q[p]) \in Seq(Packet) /\ Tail(q[p]) \in Seq(Queued(p)) /\ Ids(Tail(q[p])) \in Seq(Nat)
         /\ Ids(q[p]) = <<packet.id>> \o Ids(Tail(q[p])) /\ packet.id \in Nat
    BY <1>1, QueueTypes, Sizes DEF IInv
  <1>18. QueuesOK'
    <2>1. q' \in [Priority -> Seq(Packet)]
      BY <1>11, <1>14, <1>17
    <2>2. \A o \in Priority : q'[o] \in Seq(Queued(o))
      BY <1>16, <1>17 DEF IInv, QueuesOK
    <2>3. remaining' \in [Priority -> Nat]
      BY <1>7, <1>11, <1>14
    <2>4. multiFrame' \in [Priority -> BOOLEAN] /\ writing' \in [Priority -> BOOLEAN]
      BY <1>11, <1>14
    <2> QED
      BY <1>1, <1>11, <2>1, <2>2, <2>3, <2>4 DEF IInv, QueuesOK
  <1>19. WritersOK'
    <2>1. ~done => Writing(p)'
      BY <1>1, <1>7, <1>8, <1>16 DEF Writing, TypeSize
    <2>2. ASSUME NEW o \in Priority, o # p PROVE IF writing'[o] THEN Writing(o)' ELSE ~multiFrame'[o]
      BY <1>16, <2>2 DEF IInv, WritersOK, Writing
    <2> QED
      BY <1>16, <2>1, <2>2 DEF WritersOK
  <1>20. \A o \in Priority : writing'[o] => writing[o]
    BY <1>1, <1>16
  <1>21. Apart'
    BY <1>11, <1>20 DEF IInv, Apart
  <1>22. PICK R : Reads(R)
    BY DEF IInv
  <1>23. PICK r : r = R[Len(wire)]
    OBVIOUS
  <1>24. ReaderOK(r) /\ Match(r)
    <2>1. Len(wire) \in 0 .. Len(wire)
      BY DEF IInv
    <2> QED
      BY <1>22, <1>23, <2>1 DEF Reads
  <1>25. ASSUME ~r.bad
         PROVE  \E parts, bad, got : LET s == Reader(parts, bad, got) IN
              /\ Gets(r, f, s) /\ Match(s)'
              /\ parts = [t \in DOMAIN parts |-> parts[t]] /\ OneEach(parts)
              /\ bad \in BOOLEAN /\ (FramesFit => ~bad)
              /\ got \in [Priority -> Seq(Nat)] /\ (bad => got = r.got)
    <2>1. \A t \in DOMAIN r.parts : \E o \in Priority : writing[o] /\ t = sequence[o] /\ r.parts[t].packet.of = o
      BY <1>24, <1>25, PartsKnown
    <2>2. seq \in DOMAIN r.parts => r.parts[seq] = Part(packet, from)
      BY <1>1, <1>3, <1>9, <1>24, <1>25 DEF Match
    <2>3. /\ r.parts = [t \in DOMAIN r.parts |-> r.parts[t]]
          /\ r.got \in [Priority -> Seq(Nat)] /\ OneEach(r.parts)
      BY <1>24 DEF ReaderOK
    <2>4. \A o \in Priority : writing[o] /\ o # p => sequence[o] # seq
      BY <1>1, <1>9 DEF IInv, Apart
    <2>5. ASSUME NEW o \in Priority PROVE accepted'[o] = r.got[o] \o Ids(q[o])
      <3>1. accepted[o] = r.got[o] \o (<<>> \o Ids(q[o]))
        BY <1>13, <1>24, <1>25 DEF Match
      <3>2. <<>> \o Ids(q[o]) = Ids(q[o])
        BY QueueTypes, ConcatEmptySeq DEF IInv
      <3> QED
        BY <1>1, <3>1, <3>2
    <2>6. ASSUME NEW o \in Priority PROVE InFrame(o)' \o Ids(q'[o]) = Ids(q'[o])
      <3>1. q'[o] \in Seq(Packet)
        BY <1>18 DEF QueuesOK
      <3>2. Ids(q'[o]) \in Seq(Nat)
        <4>1. <<>> \in Seq(AnyPiece)
          OBVIOUS
        <4> QED
          BY <3>1, <4>1, IdsTyped
      <3>3. <<>> \o Ids(q'[o]) = Ids(q'[o])
        BY <3>2, ConcatEmptySeq
      <3> QED
        BY <1>12, <3>3
    <2>7. CASE seq \notin DOMAIN r.parts
      <3>1. PICK s : s = Reader(Without(r.parts, seq), TRUE, r.got)
        OBVIOUS
      <3>2. GetsMore(r, f, s)
        BY <1>1, <1>7, <1>10, <1>14, <2>7, <3>1 DEF GetsMore
      <3>3. ~FramesFit
        BY <1>1, <1>9, <1>24, <1>25, <2>7 DEF Match
      <3>4. s.bad
        BY <3>1 DEF Reader
      <3>5. Match(s)'
        BY <3>4 DEF Match
      <3>6. PICK parts : parts = Without(r.parts, seq)
        OBVIOUS
      <3>7. parts = [t \in DOMAIN parts |-> parts[t]] /\ OneEach(parts)
        BY <2>3, <3>6 DEF Without, OneEach
      <3> QED
        BY <1>25, <2>3, <3>1, <3>2, <3>3, <3>5, <3>6, <3>7 DEF Gets
    <2>8. CASE seq \in DOMAIN r.parts /\ ~done
      <3>1. PICK parts : parts = Assign(r.parts, seq, Part(packet, to))
        OBVIOUS
      <3>2. PICK s : s = Reader(parts, FALSE, r.got)
        OBVIOUS
      <3>3. s.parts = parts /\ s.got = r.got /\ ~s.bad
        BY <3>2 DEF Reader
      <3>4. GetsMore(r, f, s)
        <4>1. packet \in Packet /\ seq \in Nat /\ from \in Nat /\ to \in Nat
          BY <1>1, <1>7, <1>14
        <4>2. 0 < from /\ from < to /\ to <= packet.size /\ to < packet.size
          BY <1>7, <1>8, <2>8
        <4> QED
          BY <1>10, <2>2, <2>8, <3>1, <3>2, <4>1, <4>2 DEF GetsMore
      <3>5. /\ DOMAIN parts = DOMAIN r.parts /\ parts[seq] = Part(packet, to)
            /\ \A t \in DOMAIN r.parts : t # seq => parts[t] = r.parts[t]
            /\ parts = [t \in DOMAIN parts |-> parts[t]]
        BY <2>8, <3>1 DEF Assign
      <3>6. \A t \in DOMAIN parts : parts[t].packet.of = r.parts[t].packet.of
        BY <2>2, <2>8, <3>5 DEF Part
      <3>7. OneEach(parts)
        BY <2>3, <3>5, <3>6 DEF OneEach
      <3>8. \A o \in Priority : writing'[o] <=> writing[o]
        BY <1>1, <1>16, <2>8
      <3>9. \A o \in Priority : q'[o] = q[o]
        BY <1>16, <2>8
      <3>10. ASSUME NEW o \in Priority, writing'[o], sequence'[o] \in DOMAIN parts
             PROVE  parts[sequence'[o]] = Part(Head(q'[o]), Head(q'[o]).size - remaining'[o])
        <4>1. CASE o = p
          BY <1>1, <1>7, <1>9, <1>11, <1>16, <2>8, <3>5, <4>1
        <4>2. CASE o # p
          <5>1. sequence[o] # seq /\ writing[o]
            BY <2>4, <3>8, <3>10, <4>2
          <5>2. r.parts[sequence[o]] = Part(Head(q[o]), Head(q[o]).size - remaining[o])
            BY <1>11, <1>24, <1>25, <3>5, <3>10, <5>1 DEF Match
          <5> QED
            BY <1>11, <1>16, <3>5, <3>10, <4>2, <5>1, <5>2
        <4> QED
          BY <4>1, <4>2
      <3>11. ASSUME NEW o \in Priority PROVE accepted'[o] = r.got[o] \o (InFrame(o)' \o Ids(q'[o]))
        <4>1. accepted'[o] = r.got[o] \o Ids(q[o])
          BY <2>5
        <4>2. InFrame(o)' \o Ids(q'[o]) = Ids(q'[o])
          BY <2>6
        <4>3. q'[o] = q[o]
          BY <3>9
        <4> QED
          BY <4>1, <4>2, <4>3
      <3>12. /\ \A t \in DOMAIN parts : \E o \in Priority : writing'[o] /\ t = sequence'[o]
             /\ FramesFit => \A o \in Priority : writing'[o] => sequence'[o] \in DOMAIN parts
        BY <1>11, <1>24, <1>25, <3>5, <3>8 DEF Match
      <3>13. Match(s)'
        BY <3>3, <3>10, <3>11, <3>12 DEF Match
      <3> QED
        BY <1>25, <2>3, <3>2, <3>4, <3>5, <3>7, <3>13 DEF Gets
    <2>9. CASE seq \in DOMAIN r.parts /\ done
      <3>1. PICK parts : parts = Without(r.parts, seq)
        OBVIOUS
      <3>2. PICK got : got = Got(r.got, packet.of, <<packet.id>>)
        OBVIOUS
      <3>3. PICK s : s = Reader(parts, FALSE, got)
        OBVIOUS
      <3>4. s.parts = parts /\ s.got = got /\ ~s.bad
        BY <3>3 DEF Reader
      <3>5. GetsMore(r, f, s)
        <4>1. packet \in Packet /\ seq \in Nat /\ from \in Nat /\ to \in Nat
          BY <1>1, <1>7, <1>14
        <4>2. 0 < from /\ from < to /\ to <= packet.size /\ ~(to < packet.size)
          BY <1>7, <1>8, <2>9
        <4> QED
          BY <1>10, <2>2, <2>9, <3>1, <3>2, <3>3, <4>1, <4>2 DEF GetsMore
      <3>6. /\ DOMAIN parts = DOMAIN r.parts \ {seq} /\ \A t \in DOMAIN parts : parts[t] = r.parts[t]
            /\ parts = [t \in DOMAIN parts |-> parts[t]]
        BY <3>1 DEF Without
      <3>7. OneEach(parts)
        BY <2>3, <3>6 DEF OneEach
      <3>8. /\ \A o \in Priority : o # p => (writing'[o] <=> writing[o]) /\ q'[o] = q[o]
            /\ ~writing'[p] /\ q'[p] = Tail(q[p])
        BY <1>16, <2>9
      <3>9. <<packet.id>> \in Seq(Nat)
        BY <1>17
      <3>10. got \in [Priority -> Seq(Nat)]
        <4>1. \A o \in Priority : r.got[o] \o <<packet.id>> \in Seq(Nat)
          BY <2>3, <3>9, ConcatProperties
        <4> QED
          BY <2>3, <3>2, <4>1 DEF Got
      <3>11. ASSUME NEW o \in Priority PROVE accepted'[o] = got[o] \o (InFrame(o)' \o Ids(q'[o]))
        <4>1. got[o] = IF o = p THEN r.got[o] \o <<packet.id>> ELSE r.got[o]
          BY <1>1, <3>2 DEF Got
        <4>2. (r.got[p] \o <<packet.id>>) \o Ids(Tail(q[p])) = r.got[p] \o (<<packet.id>> \o Ids(Tail(q[p])))
          <5>1. r.got[p] \in Seq(Nat) /\ Ids(Tail(q[p])) \in Seq(Nat)
            BY <1>1, <1>17, <2>3
          <5>2. PICK a \in Seq(Nat), b \in Seq(Nat), d \in Seq(Nat) :
                   a = r.got[p] /\ b = <<packet.id>> /\ d = Ids(Tail(q[p]))
            BY <3>9, <5>1
          <5>3. (a \o b) \o d = a \o (b \o d)
            BY Associates
          <5> QED
            BY <5>2, <5>3
        <4>3. accepted'[o] = r.got[o] \o Ids(q[o]) /\ InFrame(o)' \o Ids(q'[o]) = Ids(q'[o])
          BY <2>5, <2>6
        <4>4. CASE o = p
          BY <1>17, <3>8, <4>1, <4>2, <4>3, <4>4
        <4>5. CASE o # p
          BY <3>8, <4>1, <4>3, <4>5
        <4> QED
          BY <4>4, <4>5
      <3>12. \A t \in DOMAIN parts : \E o \in Priority : writing'[o] /\ t = sequence'[o]
        <4>1. ASSUME NEW t \in DOMAIN parts PROVE \E o \in Priority : writing'[o] /\ t = sequence'[o]
          <5>1. t \in DOMAIN r.parts /\ t # seq
            BY <3>6, <4>1
          <5>2. PICK o \in Priority : writing[o] /\ t = sequence[o]
            BY <2>1, <5>1
          <5> QED
            BY <1>9, <1>11, <3>8, <5>1, <5>2
        <4> QED
          BY <4>1
      <3>13. \A o \in Priority : writing'[o] =>
                /\ sequence'[o] \in DOMAIN parts => 
                      parts[sequence'[o]] = Part(Head(q'[o]), Head(q'[o]).size - remaining'[o])
                /\ FramesFit => sequence'[o] \in DOMAIN parts
        <4>1. ASSUME NEW o \in Priority, writing'[o]
              PROVE  o # p /\ writing[o] /\ sequence'[o] = sequence[o] /\ sequence[o] # seq
                     /\ q'[o] = q[o] /\ remaining'[o] = remaining[o]
          BY <1>11, <1>16, <2>4, <3>8, <4>1
        <4>2. ASSUME NEW o \in Priority, writing'[o]
              PROVE  /\ sequence[o] \in DOMAIN r.parts =>
                           r.parts[sequence[o]] = Part(Head(q[o]), Head(q[o]).size - remaining[o])
                     /\ FramesFit => sequence[o] \in DOMAIN r.parts
          BY <1>24, <1>25, <4>1, <4>2 DEF Match
        <4>3. ASSUME NEW o \in Priority, writing'[o]
              PROVE  /\ sequence[o] \in DOMAIN parts => sequence[o] \in DOMAIN r.parts
                     /\ sequence[o] \in DOMAIN r.parts => sequence[o] \in DOMAIN parts
                     /\ sequence[o] \in DOMAIN parts => parts[sequence[o]] = r.parts[sequence[o]]
          BY <3>6, <4>1, <4>3
        <4> QED
          BY <4>1, <4>2, <4>3
      <3>14. Match(s)'
        BY <3>4, <3>11, <3>12, <3>13 DEF Match
      <3> QED
        BY <1>25, <3>3, <3>5, <3>6, <3>7, <3>10, <3>14 DEF Gets
    <2> QED
      BY <2>7, <2>8, <2>9
  <1>26. \E S : Reads(S)'
    BY <1>1, <1>11, <1>12, <1>15, <1>18, <1>22, <1>23, <1>25, ReadsWritten
  <1>27. wire' \in Seq(FrameType)
    BY <1>11, <1>15 DEF IInv
  <1> QED
    BY <1>12, <1>18, <1>19, <1>21, <1>26, <1>27 DEF IInv
-----------------------------------------------------------------------------
(* The invariant *)

LEMMA InitInv == Init => IInv
  <1> SUFFICES ASSUME Init PROVE IInv
    OBVIOUS
  <1>1. QueuesOK
    <2>1. SequenceIds - 1 \in Nat
      BY Sizes
    <2>2. \A p \in Priority : <<>> \in Seq(Packet) /\ <<>> \in Seq(Queued(p)) /\ <<>> \in Seq(Nat)
      OBVIOUS
    <2> QED
      BY <2>1, <2>2 DEF Init, QueuesOK
  <1>2. WritersOK /\ Apart
    BY DEF Init, WritersOK, Apart
  <1>3. MuxOK /\ FrameOK
    BY DEF Init, MuxOK, FrameOK, Idle
  <1>4. wire \in Seq(FrameType) /\ wire = <<>> /\ Len(wire) = 0
    BY DEF Init
  <1>5. PICK r : r = Reader(incomplete, invalid, delivered)
    OBVIOUS
  <1>6. r.parts = incomplete /\ r.got = delivered /\ ~r.bad /\ r.bad = FALSE
    BY <1>5 DEF Init, Reader
  <1>7. DOMAIN incomplete = {} /\ incomplete = [s \in DOMAIN incomplete |-> incomplete[s]]
    BY DEF Init
  <1>8. \A p \in Priority : accepted[p] = <<>> /\ r.got[p] = <<>> /\ InFrame(p) = <<>> /\ Ids(q[p]) = <<>>
    BY <1>6 DEF Init, InFrame, Idle, Ids
  <1>9. <<>> \in Seq(Nat) /\ <<>> \o <<>> = <<>>
    OBVIOUS
  <1>10. ReaderOK(r)
    <2>1. r.got \in [Priority -> Seq(Nat)]
      BY <1>6, <1>9 DEF Init
    <2>2. \A p \in Priority : \E rest \in Seq(Nat) : accepted[p] = r.got[p] \o rest
      BY <1>8, <1>9
    <2>3. OneEach(r.parts)
      BY <1>6, <1>7 DEF OneEach
    <2>4. r = Reader(r.parts, r.bad, r.got)
      BY <1>5 DEF Reader
    <2> QED
      BY <1>6, <1>7, <2>1, <2>2, <2>3, <2>4 DEF ReaderOK
  <1>11. Match(r)
    <2>1. \A p \in Priority : ~writing[p]
      BY DEF Init
    <2>2. \A p \in Priority : accepted[p] = r.got[p] \o (InFrame(p) \o Ids(q[p]))
      BY <1>8, <1>9
    <2> QED
      BY <1>6, <1>7, <2>1, <2>2 DEF Match
  <1>12. PICK R : R = [k \in 0 .. 0 |-> r]
    OBVIOUS
  <1>13. R = [k \in 0 .. Len(wire) |-> R[k]] /\ R[0] = r /\ \A k \in 0 .. Len(wire) : R[k] = r
    BY <1>4, <1>12
  <1>14. Reads(R)
    <2>1. 1 .. Len(wire) = {}
      BY <1>4
    <2>2. R[Len(wire)] = r
      BY <1>4, <1>13
    <2> QED
      BY <1>5, <1>10, <1>11, <1>13, <2>1, <2>2 DEF Reads
  <1> QED
    BY <1>1, <1>2, <1>3, <1>4, <1>14 DEF IInv

LEMMA DemuxInv ==
    ASSUME IInv, Demux
    PROVE  IInv'
  <1>1. PICK R : Reads(R)
    BY DEF IInv
  <1>2. \E S : Reads(S)'
    BY <1>1, ReadsOn DEF IInv, QueuesOK
  <1>3. UNCHANGED <<writer, mux, accepted>> /\ wire # <<>> /\ wire' = Tail(wire)
    BY DEF Demux
  <1>4. wire' \in Seq(FrameType)
    BY <1>3 DEF IInv
  <1>5. QueuesOK' /\ WritersOK' /\ Apart' /\ MuxOK' /\ (FramesFit => FrameOK')
    BY <1>3 DEF IInv, QueuesOK, WritersOK, Writing, Apart, MuxOK, FrameOK, writer
  <1> QED
    BY <1>2, <1>4, <1>5 DEF IInv

LEMMA PackInv ==
    ASSUME IInv, NoReuse, Pack
    PROVE  IInv'
  <1>1. PICK p, packet : p = mux.from /\ packet = Head(q[p])
    OBVIOUS
  <1>2. packet.size \in Nat /\ mux.allot \in Nat
    BY <1>1, PackFacts
  <1>3. CASE writing[p]
    BY <1>1, <1>3, PackMoreInv
  <1>4. CASE ~writing[p] /\ packet.size <= mux.allot
    BY <1>1, <1>4, PackWholeInv
  <1>5. CASE ~writing[p] /\ packet.size > mux.allot
    BY <1>1, <1>5, PackFirstInv
  <1> QED
    BY <1>2, <1>3, <1>4, <1>5

LEMMA NextInv == IInv /\ NoReuse /\ [Next]_vars => IInv'
  <1> SUFFICES ASSUME IInv, NoReuse, [Next]_vars PROVE IInv'
    OBVIOUS
  <1>1. ASSUME NEW p \in Priority, NEW size \in PacketSizes, Enque(p, size) PROVE IInv'
    BY <1>1, EnqueInv
  <1>2. ASSUME NEW size \in MuxSizes, StartMux(size) PROVE IInv'
    BY <1>2, StartMuxInv
  <1>3. CASE BeginFrame
    BY <1>3, BeginFrameInv
  <1>4. CASE StopPacking
    BY <1>4, StopPackingInv
  <1>5. CASE Pack
    BY <1>5, PackInv
  <1>6. CASE Demux
    BY <1>6, DemuxInv
  <1>7. CASE UNCHANGED vars
    <2>1. UNCHANGED <<q, writing, sequence, wire, reader, accepted>>
      BY <1>7 DEF vars, writer
    <2>2. \A p \in Priority : InFrame(p)' = InFrame(p) /\ remaining'[p] = remaining[p]
      BY <1>7 DEF vars, writer, InFrame
    <2>3. \E S : Reads(S)'
      BY <2>1, <2>2, ReadsQuiet
    <2>4. QueuesOK' /\ WritersOK' /\ Apart' /\ MuxOK' /\ (FramesFit => FrameOK') /\ wire' \in Seq(FrameType)
      BY <1>7 DEF IInv, QueuesOK, WritersOK, Writing, Apart, MuxOK, FrameOK, vars, writer
    <2> QED
      BY <2>3, <2>4 DEF IInv
  <1> QED
    BY <1>1, <1>2, <1>3, <1>4, <1>5, <1>6, <1>7 DEF Next
-----------------------------------------------------------------------------
(* Sequence ids *)

\* The packets of a queue of which nothing has been written.
Held(p) == Len(q[p]) - (IF writing[p] THEN 1 ELSE 0)
Total == Held("high") + Held("low")

\* Every packet takes at most one sequence id; once the ids have been used up
\* nothing is left to be begun.
Counting == /\ sequenceId + Total <= Enqued
            /\ \A p \in Priority : writing[p] => 1 <= sequence[p] /\ sequence[p] <= sequenceId
UsedUp == Enqued >= MaxPackets /\ \A p \in Priority : Held(p) = 0

CountInv == Enqued <= MaxPackets /\ (Counting \/ UsedUp)

LEMMA HeldTyped ==
    ASSUME QueuesOK, WritersOK
    PROVE  /\ \A p \in Priority : Held(p) \in Nat /\ (~writing[p] /\ q[p] # <<>> => Held(p) >= 1)
           /\ Held("high") \in Nat /\ Held("low") \in Nat /\ Total \in Nat /\ Enqued \in Nat
  <1>1. ASSUME NEW p \in Priority
        PROVE  Held(p) \in Nat /\ (~writing[p] /\ q[p] # <<>> => Held(p) >= 1)
    <2>1. q[p] \in Seq(Packet) /\ (writing[p] => q[p] # <<>>)
      BY DEF QueuesOK, WritersOK, Writing
    <2>2. Len(q[p]) \in Nat /\ (q[p] # <<>> => Len(q[p]) >= 1)
      BY <2>1
    <2> QED
      BY <2>1, <2>2 DEF Held
  <1>2. Held("high") \in Nat /\ Held("low") \in Nat
    BY <1>1 DEF Priority
  <1>3. accepted["high"] \in Seq(Nat) /\ accepted["low"] \in Seq(Nat)
    BY DEF QueuesOK, Priority
  <1>4. PICK m \in Nat, n \in Nat : Len(accepted["high"]) = m /\ Len(accepted["low"]) = n
    BY <1>3, LenProperties
  <1>5. Enqued = m + n
    BY <1>4 DEF Enqued
  <1> QED
    BY <1>1, <1>2, <1>5 DEF Total

LEMMA TotalMoves ==
    ASSUME QueuesOK, WritersOK, QueuesOK', WritersOK', NEW p \in Priority, NEW d \in Int,
           Held(p)' = Held(p) + d, \A o \in Priority : o # p => Held(o)' = Held(o)
    PROVE  Total' = Total + d
  <1>1. PICK h \in Nat, l \in Nat : Held("high") = h /\ Held("low") = l
    BY HeldTyped
  <1>2. CASE p = "high"
    <2>1. Held("high")' = h + d /\ Held("low")' = l
      BY <1>1, <1>2 DEF Priority
    <2> QED
      BY <1>1, <2>1 DEF Total
  <1>3. CASE p = "low"
    <2>1. Held("high")' = h /\ Held("low")' = l + d
      BY <1>1, <1>3 DEF Priority
    <2> QED
      BY <1>1, <2>1 DEF Total
  <1> QED
    BY <1>2, <1>3 DEF Priority

LEMMA TotalSum ==
    ASSUME QueuesOK, WritersOK, NEW p \in Priority
    PROVE  Held(p) <= Total /\ (Held(p) = Total => \A o \in Priority : o # p => Held(o) = 0)
  <1>1. PICK h \in Nat, l \in Nat : Held("high") = h /\ Held("low") = l
    BY HeldTyped
  <1>2. Total = h + l
    BY <1>1 DEF Total
  <1> QED
    BY <1>1, <1>2 DEF Priority

\* No sequence id is in use when it is assigned, for as many packets as there
\* are ids.
LEMMA IdsLast ==
    ASSUME IInv, CountInv, MaxPackets <= SequenceIds
    PROVE  NoReuse
  <1>1. PICK id \in Nat, n \in Nat, m \in Nat, t \in Nat :
           id = sequenceId /\ n = SequenceIds /\ m = MaxPackets /\ t = Total
    BY HeldTyped, FramesConstants DEF IInv, QueuesOK
  <1>2. PICK e \in Nat : e = Enqued
    BY HeldTyped DEF IInv
  <1>3. SUFFICES ASSUME NEW p \in Priority, NEW o \in Priority, writing[p], ~writing[o], q[o] # <<>>
                 PROVE  sequence[p] # (sequenceId + 1) % SequenceIds
    BY DEF NoReuse
  <1>4. Held(o) >= 1 /\ Held(o) \in Nat
    BY <1>3, HeldTyped DEF IInv
  <1>5. Counting
    BY <1>4 DEF CountInv, UsedUp
  <1>6. t >= 1
    BY <1>1, <1>4, TotalSum DEF IInv
  <1>7. id + 1 <= n
    <2>1. id + t <= e /\ e <= m /\ m <= n
      BY <1>1, <1>2, <1>5 DEF Counting, CountInv
    <2> QED
      BY <1>6, <2>1
  <1>8. PICK s \in Nat : s = sequence[p]
    BY DEF IInv, QueuesOK
  <1>9. 1 <= s /\ s <= id
    BY <1>1, <1>3, <1>5, <1>8 DEF Counting
  <1>10. (id + 1) % n = id + 1 \/ (id + 1) % n = 0
    <2>1. CASE id + 1 < n
      BY <2>1, Reduced
    <2>2. CASE id + 1 = n
      <3>1. n % n = 0
        BY <1>7
      <3> QED
        BY <2>2, <3>1
    <2> QED
      BY <1>7, <2>1, <2>2
  <1> QED
    BY <1>1, <1>8, <1>9, <1>10

LEMMA CountSame ==
    ASSUME QueuesOK, WritersOK, QueuesOK', WritersOK', CountInv, UNCHANGED <<accepted, sequenceId>>,
           \A p \in Priority : Held(p)' = Held(p),
           \A p \in Priority : writing'[p] => writing[p] /\ sequence'[p] = sequence[p]
    PROVE  CountInv'
  <1>1. Enqued' = Enqued
    BY DEF Enqued
  <1>2. Total' = Total
    <2>1. "high" \in Priority /\ "low" \in Priority
      BY DEF Priority
    <2> QED
      BY <2>1 DEF Total
  <1>3. Counting => Counting'
    BY <1>1, <1>2 DEF Counting
  <1>4. UsedUp => UsedUp'
    BY <1>1 DEF UsedUp
  <1> QED
    BY <1>1, <1>3, <1>4 DEF CountInv

LEMMA EnqueCount ==
    ASSUME IInv, IInv', CountInv, NEW p \in Priority, NEW size \in PacketSizes, Enque(p, size)
    PROVE  CountInv'
  <1>1. PICK packet : packet = [id |-> Enqued + 1, of |-> p, size |-> size]
    OBVIOUS
  <1>2. /\ Enqued < MaxPackets
        /\ q' = [q EXCEPT ![p] = Append(@, packet)]
        /\ accepted' = [accepted EXCEPT ![p] = Append(@, packet.id)]
        /\ UNCHANGED <<writing, sequence, sequenceId>>
    BY <1>1 DEF Enque
  <1>3. QueuesOK /\ WritersOK /\ QueuesOK' /\ WritersOK'
    BY DEF IInv
  <1>4. PICK e \in Nat, m \in Nat, id \in Nat, t \in Nat :
           e = Enqued /\ m = MaxPackets /\ id = sequenceId /\ t = Total
    BY <1>3, HeldTyped, FramesConstants DEF QueuesOK
  <1>5. Counting
    BY <1>2, <1>4 DEF CountInv, UsedUp
  <1>6. /\ q'[p] = Append(q[p], packet) /\ accepted'[p] = Append(accepted[p], packet.id)
        /\ \A o \in Priority : o # p => q'[o] = q[o] /\ accepted'[o] = accepted[o]
    BY <1>2, <1>3 DEF QueuesOK
  <1>7. /\ \A o \in Priority : o # p => Held(o)' = Held(o)
        /\ Held(p)' = Held(p) + 1
    <2>1. q[p] \in Seq(Packet)
      BY <1>3 DEF QueuesOK
    <2>2. Len(q'[p]) = Len(q[p]) + 1 /\ Len(q[p]) \in Nat
      BY <1>6, <2>1
    <2>3. \A o \in Priority : o # p => Held(o)' = Held(o)
      BY <1>2, <1>6 DEF Held
    <2>4. Held(p)' = Held(p) + 1
      BY <1>2, <2>2 DEF Held
    <2> QED
      BY <2>3, <2>4
  <1>8. Total' = t + 1
    BY <1>3, <1>4, <1>7, TotalMoves
  <1>9. Enqued' = e + 1
    <2>1. \A o \in Priority : accepted[o] \in Seq(Nat)
      BY <1>3 DEF QueuesOK
    <2>2. "high" \in Priority /\ "low" \in Priority
      BY DEF Priority
    <2>3. PICK h \in Nat, l \in Nat : h = Len(accepted["high"]) /\ l = Len(accepted["low"])
      BY <2>1, <2>2, LenProperties
    <2>4. Len(accepted'[p]) = Len(accepted[p]) + 1
      BY <1>6, <2>1
    <2>7. e = h + l
      BY <1>4, <2>3 DEF Enqued
    <2>8. Enqued' = Len(accepted'["high"]) + Len(accepted'["low"])
      BY DEF Enqued
    <2>5. CASE p = "high"
      <3>1. Len(accepted'["high"]) = h + 1 /\ Len(accepted'["low"]) = l
        BY <1>6, <2>2, <2>3, <2>4, <2>5
      <3> QED
        BY <2>7, <2>8, <3>1
    <2>6. CASE p = "low"
      <3>1. Len(accepted'["high"]) = h /\ Len(accepted'["low"]) = l + 1
        BY <1>6, <2>2, <2>3, <2>4, <2>6
      <3> QED
        BY <2>7, <2>8, <3>1
    <2> QED
      BY <2>5, <2>6 DEF Priority
  <1>10. id + t <= e /\ \A o \in Priority : writing[o] => 1 <= sequence[o] /\ sequence[o] <= sequenceId
    BY <1>4, <1>5 DEF Counting
  <1>11. id + (t + 1) <= e + 1 /\ e + 1 <= m
    BY <1>2, <1>4, <1>10
  <1>12. Counting'
    BY <1>2, <1>4, <1>8, <1>9, <1>10, <1>11 DEF Counting
  <1> QED
    BY <1>4, <1>9, <1>11, <1>12 DEF CountInv

LEMMA PackCount ==
    ASSUME IInv, IInv', CountInv, Pack, MaxPackets <= SequenceIds
    PROVE  CountInv'
  <1>1. PICK p, packet : p = mux.from /\ packet = Head(q[p])
    OBVIOUS
  <1>2. /\ p \in Priority /\ q[p] # <<>> /\ packet.size \in Nat /\ mux.allot \in Nat
        /\ writing[p] \in BOOLEAN /\ remaining[p] \in Nat /\ accepted' = accepted
    BY <1>1, PackFacts DEF IInv, QueuesOK
  <1>3. QueuesOK /\ WritersOK /\ QueuesOK' /\ WritersOK'
    BY DEF IInv
  <1>4. PICK e \in Nat, m \in Nat, n \in Nat, id \in Nat, t \in Nat :
           e = Enqued /\ m = MaxPackets /\ n = SequenceIds /\ id = sequenceId /\ t = Total
    BY <1>3, HeldTyped, FramesConstants DEF QueuesOK
  <1>5. Enqued' = e /\ e <= m /\ m <= n
    BY <1>2, <1>4 DEF Enqued, CountInv
  <1>6. PICK k \in Nat : Len(Tail(q[p])) = k - 1 /\ Len(q[p]) = k
    <2>1. q[p] \in Seq(Packet)
      BY <1>2, <1>3 DEF QueuesOK
    <2>2. Len(Tail(q[p])) = Len(q[p]) - 1 /\ Len(q[p]) \in Nat
      BY <1>2, <2>1
    <2> QED
      BY <2>2
  <1>7. /\ q \in [Priority -> Seq(Packet)] /\ writing \in [Priority -> BOOLEAN] /\ sequence \in [Priority -> Nat]
    BY <1>3 DEF QueuesOK
  <1>8. ~writing[p] => Held(p) >= 1 /\ Counting /\ t >= 1
    <2>1. ~writing[p] => Held(p) >= 1 /\ Held(p) \in Nat
      BY <1>2, <1>3, HeldTyped
    <2>2. Held(p) <= t
      BY <1>2, <1>3, <1>4, TotalSum
    <2> QED
      BY <1>2, <1>4, <2>1, <2>2 DEF CountInv, UsedUp
  <1>9. CASE writing[p]
    <2>1. PICK length : length = IF remaining[p] <= mux.allot THEN remaining[p] ELSE mux.allot
      OBVIOUS
    <2>2. PICK done \in BOOLEAN : done <=> length = remaining[p]
      OBVIOUS
    <2>9. PICK from, left : from = packet.size - remaining[p] /\ left = remaining[p] - length
      OBVIOUS
    <2>3. PICK f : f = Frame(TRUE, sequence[p], 0, <<Piece(packet, from, from + length)>>, length)
      OBVIOUS
    <2>10. NextPart(p, packet, length, from, done, left, f)
      BY <1>1, <1>9, <2>1, <2>2, <2>3, <2>9 DEF NextPart
    <2>4. More(p, length, done, left, f)
      BY <2>10, PacksMore
    <2>5. /\ sequenceId' = sequenceId /\ sequence' = sequence
          /\ \A o \in Priority : o # p => writing'[o] = writing[o] /\ q'[o] = q[o]
          /\ writing'[p] = ~done /\ q'[p] = IF done THEN Tail(q[p]) ELSE q[p]
      BY <1>2, <1>7, <2>4 DEF More
    <2>6. Held(p)' = Held(p)
      <3>1. CASE done
        <4>1. Len(q'[p]) = k - 1 /\ ~writing'[p]
          BY <1>6, <2>5, <3>1
        <4> QED
          BY <1>6, <1>9, <4>1 DEF Held
      <3>2. CASE ~done
        BY <1>2, <1>9, <2>5, <3>2 DEF Held
      <3> QED
        BY <3>1, <3>2
    <2>7. \A o \in Priority : Held(o)' = Held(o)
      BY <2>5, <2>6 DEF Held
    <2>8. \A o \in Priority : writing'[o] => writing[o] /\ sequence'[o] = sequence[o]
      BY <1>9, <2>5
    <2> QED
      BY <1>2, <1>3, <2>5, <2>7, <2>8, CountSame
  <1>10. CASE ~writing[p] /\ packet.size <= mux.allot
    <2>1. /\ sequenceId' = sequenceId /\ sequence' = sequence
          /\ writing' = [writing EXCEPT ![p] = FALSE] /\ q' = [q EXCEPT ![p] = Tail(@)]
      BY <1>1, <1>10, PacksWhole
    <2>2. /\ \A o \in Priority : o # p => writing'[o] = writing[o] /\ q'[o] = q[o]
          /\ writing'[p] = FALSE /\ q'[p] = Tail(q[p])
      BY <1>2, <1>7, <2>1
    <2>3. Held(p)' = Held(p) + (-1) /\ \A o \in Priority : o # p => Held(o)' = Held(o)
      <3>1. Held(p) = k /\ \A o \in Priority : o # p => Held(o)' = Held(o)
        <4>1. Held(p) = k
          BY <1>6, <1>10 DEF Held
        <4>2. \A o \in Priority : o # p => Held(o)' = Held(o)
          BY <2>2 DEF Held
        <4> QED
          BY <4>1, <4>2
      <3>2. Len(q'[p]) = k - 1 /\ ~writing'[p]
        BY <1>6, <2>2
      <3>3. Held(p)' = k - 1
        BY <3>2 DEF Held
      <3> QED
        BY <3>1, <3>3
    <2>4. Total' = t + (-1)
      BY <1>2, <1>3, <1>4, <2>3, TotalMoves
    <2>5. id + t <= e
      BY <1>4, <1>8, <1>10 DEF Counting
    <2>6. id + (t + (-1)) <= e
      BY <2>5
    <2>7. \A o \in Priority : writing'[o] => 1 <= sequence'[o] /\ sequence'[o] <= sequenceId'
      BY <1>8, <1>10, <2>1, <2>2 DEF Counting
    <2> QED
      BY <1>4, <1>5, <2>1, <2>4, <2>6, <2>7 DEF CountInv, Counting
  <1>11. CASE ~writing[p] /\ packet.size > mux.allot
    <2>1. PICK next : next = (sequenceId + 1) % SequenceIds
      OBVIOUS
    <2>2. /\ sequenceId' = next /\ sequence' = [sequence EXCEPT ![p] = next]
          /\ writing' = [writing EXCEPT ![p] = TRUE] /\ q' = q
      BY <1>1, <1>11, <2>1, PacksFirst
    <2>3. /\ \A o \in Priority : o # p => writing'[o] = writing[o] /\ sequence'[o] = sequence[o]
          /\ writing'[p] = TRUE /\ sequence'[p] = next
      BY <1>2, <1>7, <2>2
    <2>4. Held(p)' = Held(p) + (-1) /\ \A o \in Priority : o # p => Held(o)' = Held(o)
      <3>1. Held(p) = k /\ \A o \in Priority : o # p => Held(o)' = Held(o)
        BY <1>6, <1>11, <2>2, <2>3 DEF Held
      <3>2. Len(q'[p]) = k /\ writing'[p]
        BY <1>6, <2>2, <2>3
      <3>3. Held(p)' = k - 1
        BY <3>2 DEF Held
      <3> QED
        BY <3>1, <3>3
    <2>5. id + t <= e /\ t >= 1
      BY <1>4, <1>8, <1>11 DEF Counting
    <2>6. id + 1 <= n
      BY <1>5, <2>5
    <2>7. CASE id + 1 < n
      <3>1. next = id + 1
        BY <1>4, <2>1, <2>7, Reduced
      <3>2. Total' = t + (-1)
        BY <1>2, <1>3, <1>4, <2>4, TotalMoves
      <3>3. (id + 1) + (t + (-1)) <= e
        BY <2>5
      <3>4. ASSUME NEW o \in Priority, writing'[o] PROVE 1 <= sequence'[o] /\ sequence'[o] <= sequenceId'
        <4>1. CASE o = p
          BY <2>2, <2>3, <3>1, <4>1
        <4>2. CASE o # p
          <5>1. PICK s \in Nat : s = sequence[o]
            BY <1>7
          <5>2. 1 <= s /\ s <= id
            BY <1>4, <1>8, <1>11, <2>3, <3>4, <4>2, <5>1 DEF Counting
          <5> QED
            BY <2>2, <2>3, <3>1, <4>2, <5>1, <5>2
        <4> QED
          BY <4>1, <4>2
      <3>5. Counting'
        BY <1>5, <2>2, <3>1, <3>2, <3>3, <3>4 DEF Counting
      <3> QED
        BY <1>4, <1>5, <3>5 DEF CountInv
    <2>8. CASE id + 1 = n
      <3>1. t = 1 /\ e = m
        BY <1>5, <2>5, <2>8
      <3>2. PICK h \in Nat : h = Held(p)
        BY <1>2, <1>3, HeldTyped
      <3>3. h = 1 /\ \A o \in Priority : o # p => Held(o) = 0
        <4>1. h <= t /\ (h = t => \A o \in Priority : o # p => Held(o) = 0)
          BY <1>2, <1>3, <1>4, <3>2, TotalSum
        <4> QED
          BY <1>8, <1>11, <3>1, <3>2, <4>1
      <3>4. \A o \in Priority : Held(o)' = 0
        BY <2>4, <3>2, <3>3
      <3> QED
        BY <1>4, <1>5, <3>1, <3>4 DEF CountInv, UsedUp
    <2> QED
      BY <2>6, <2>7, <2>8
  <1> QED
    BY <1>2, <1>9, <1>10, <1>11

LEMMA CountNext ==
    ASSUME IInv, IInv', CountInv, [Next]_vars, MaxPackets <= SequenceIds
    PROVE  CountInv'
  <1>1. ASSUME NEW p \in Priority, NEW size \in PacketSizes, Enque(p, size) PROVE CountInv'
    BY <1>1, EnqueCount
  <1>2. CASE Pack
    BY <1>2, PackCount
  <1>3. CASE \/ \E size \in MuxSizes : StartMux(size)
             \/ BeginFrame \/ StopPacking \/ Demux \/ UNCHANGED vars
    <2>1. UNCHANGED <<q, writing, sequence, sequenceId, accepted>>
      BY <1>3 DEF StartMux, BeginFrame, StopPacking, Demux, writer, vars
    <2>2. \A o \in Priority : Held(o)' = Held(o)
      BY <2>1 DEF Held
    <2> QED
      BY <2>1, <2>2, CountSame DEF IInv
  <1> QED
    BY <1>1, <1>2, <1>3 DEF Next
-----------------------------------------------------------------------------
(* What the invariant says *)

LEMMA Begins ==
    ASSUME NEW s \in Seq(Nat), NEW t \in Seq(Nat)
    PROVE  IsPrefix(s, s \o t)
  <1>1. Len(s \o t) = Len(s) + Len(t) /\ Len(s) \in Nat /\ Len(t) \in Nat /\ s \o t \in Seq(Nat)
    BY ConcatProperties
  <1>2. SubSeq(s, 1, Len(s)) = SubSeq(s \o t, 1, Len(s))
    <2>1. CASE Len(s) = 0
      <3>1. SubSeq(s, 1, 0) = <<>> /\ SubSeq(s \o t, 1, 0) = <<>>
        BY <1>1
      <3> QED
        BY <2>1, <3>1
    <2>2. CASE Len(s) # 0
      <3>1. 1 \in 1 .. Len(s) /\ Len(s) \in 1 .. Len(s)
        BY <1>1, <2>2
      <3> QED
        BY <3>1, SubSeqOfConcat1
    <2> QED
      BY <2>1, <2>2
  <1>3. Len(s) <= Len(s \o t)
    BY <1>1
  <1> QED
    BY <1>2, <1>3 DEF IsPrefix

\* What demux has returned of a priority is a prefix of what was enqued with it.
DeliveredFirst == \A p \in Priority : IsPrefix(delivered[p], accepted[p])

LEMMA ReaderNow ==
    ASSUME IInv
    PROVE  /\ \E r : r = Reader(incomplete, invalid, delivered) /\ ReaderOK(r)
           /\ wire = <<>> => Match(Reader(incomplete, invalid, delivered))
  <1>1. PICK R : Reads(R)
    BY DEF IInv
  <1>2. 0 \in 0 .. Len(wire)
    BY DEF IInv
  <1>3. R[0] = Reader(incomplete, invalid, delivered) /\ ReaderOK(R[0])
    BY <1>1, <1>2 DEF Reads
  <1>4. wire = <<>> => Match(R[0])
    <2>1. wire = <<>> => Len(wire) = 0
      OBVIOUS
    <2> QED
      BY <1>1, <2>1 DEF Reads
  <1> QED
    BY <1>3, <1>4

LEMMA InOrder ==
    ASSUME IInv
    PROVE  DeliveredFirst /\ (FramesFit => PacketsInOrder /\ ReaderFollows)
  <1>1. PICK r : r = Reader(incomplete, invalid, delivered) /\ ReaderOK(r)
    BY ReaderNow
  <1>2. r.parts = incomplete /\ r.got = delivered /\ (r.bad <=> invalid)
    BY <1>1 DEF Reader
  <1>3. DeliveredFirst
    <2>1. ASSUME NEW p \in Priority PROVE IsPrefix(delivered[p], accepted[p])
      <3>1. PICK rest \in Seq(Nat) : accepted[p] = delivered[p] \o rest
        BY <1>1, <1>2 DEF ReaderOK
      <3>2. delivered[p] \in Seq(Nat)
        BY <1>1, <1>2 DEF ReaderOK
      <3> QED
        BY <3>1, <3>2, Begins
    <2> QED
      BY <2>1 DEF DeliveredFirst
  <1>4. ASSUME FramesFit PROVE PacketsInOrder /\ ReaderFollows
    <2>1. ~invalid
      BY <1>1, <1>2, <1>4 DEF ReaderOK
    <2>2. ASSUME wire = <<>> PROVE Match(r)
      BY <1>1, <2>2, ReaderNow
    <2>3. ASSUME NEW p \in Priority, wire = <<>>, mux.at # "pack"
          PROVE  accepted[p] = delivered[p] \o Ids(q[p])
      <3>1. accepted[p] = delivered[p] \o (InFrame(p) \o Ids(q[p]))
        BY <1>2, <2>1, <2>2, <2>3 DEF Match
      <3>2. InFrame(p) = <<>>
        BY <2>3 DEF InFrame
      <3>3. <<>> \o Ids(q[p]) = Ids(q[p])
        BY QueueTypes, ConcatEmptySeq DEF IInv
      <3> QED
        BY <3>1, <3>2, <3>3
    <2>4. PacketsInOrder
      BY <1>3, <2>3 DEF DeliveredFirst, PacketsInOrder
    <2>5. Cardinality(DOMAIN incomplete) <= Cardinality(Priority)
      <3>1. PICK f : f = [s \in DOMAIN incomplete |-> incomplete[s].packet.of]
        OBVIOUS
      <3>2. f \in Injection(DOMAIN incomplete, Priority)
        BY <1>1, <1>2, <3>1 DEF ReaderOK, OneEach, Injection, IsInjective
      <3>3. IsFiniteSet(Priority)
        <4>1. IsFiniteSet({"high"}) /\ IsFiniteSet({"low"})
          BY FS_Singleton
        <4>2. Priority = {"high"} \cup {"low"}
          BY DEF Priority
        <4> QED
          BY <4>1, <4>2, FS_Union
      <3> QED
        BY <3>2, <3>3, FS_Injection
    <2>6. ASSUME wire = <<>>, NEW p \in Priority, writing[p]
          PROVE  /\ sequence[p] \in DOMAIN incomplete
                 /\ incomplete[sequence[p]].packet = Head(q[p])
                 /\ incomplete[sequence[p]].remaining = remaining[p]
      <3>1. sequence[p] \in DOMAIN incomplete
        BY <1>2, <1>4, <2>1, <2>2, <2>6 DEF Match
      <3>2. incomplete[sequence[p]] = Part(Head(q[p]), Head(q[p]).size - remaining[p])
        BY <1>2, <2>1, <2>2, <2>6, <3>1 DEF Match
      <3>3. PICK n \in Nat, m \in Nat : n = Head(q[p]).size /\ m = remaining[p]
        BY <2>6, QueueTypes, Sizes DEF IInv, WritersOK, Writing
      <3>4. n - (n - m) = m
        OBVIOUS
      <3> QED
        BY <3>1, <3>2, <3>3, <3>4 DEF Part
    <2>7. ReaderFollows
      BY <2>1, <2>5, <2>6 DEF ReaderFollows
    <2> QED
      BY <2>4, <2>7
  <1> QED
    BY <1>3, <1>4

-----------------------------------------------------------------------------
LEMMA Invariance == Spec /\ []NoReuse => []IInv
  <1>1. Init => IInv
    BY InitInv
  <1>2. IInv /\ NoReuse /\ [Next]_vars => IInv'
    BY NextInv
  <1> QED
    BY <1>1, <1>2, PTL DEF Spec

\* For sizes of which the reader does take some frame for one that is too large
\* too, and drops it (RLPXFrameReader.cpp, demux), it never returns a packet
\* before one that was enqued earlier with the same priority, nor one twice,
\* nor without those before it.
THEOREM NothingOvertaken == Spec /\ []NoReuse => []DeliveredFirst
  <1>1. IInv => DeliveredFirst
    BY InOrder
  <1> QED
    BY <1>1, Invariance, PTL

\* As long as no sequence id is assigned that a packet under way has, which the
\* code leaves to the width of m_sequenceId, and no frame is dropped, packets
\* arrive in order, whole and once, however mux cuts and packs them.
THEOREM InOrderUnlessReused ==
    ASSUME FramesFit
    PROVE  Spec /\ []NoReuse => []PacketsInOrder /\ []ReaderFollows
  <1>1. IInv => PacketsInOrder /\ ReaderFollows
    BY InOrder
  <1> QED
    BY <1>1, Invariance, PTL

\* As many packets as there are sequence ids need no id twice.
THEOREM NeverReused ==
    ASSUME MaxPackets <= SequenceIds
    PROVE  Spec => []NoReuse
  <1>1. Init => IInv /\ CountInv
    <2>1. ASSUME Init PROVE CountInv
      <3>1. Held("high") = 0 /\ Held("low") = 0 /\ Enqued = 0 /\ sequenceId = 0
        BY <2>1 DEF Init, Held, Enqued, Priority
      <3>2. \A p \in Priority : ~writing[p]
        BY <2>1 DEF Init
      <3>3. Enqued <= MaxPackets
        BY <3>1, FramesConstants
      <3> QED
        BY <3>1, <3>2, <3>3 DEF CountInv, Counting, Total
    <2> QED
      BY <2>1, InitInv
  <1>2. IInv /\ CountInv => NoReuse
    BY IdsLast
  <1>3. IInv /\ CountInv /\ [Next]_vars => (IInv /\ CountInv)'
    <2> SUFFICES ASSUME IInv, CountInv, [Next]_vars PROVE IInv' /\ CountInv'
      OBVIOUS
    <2>1. IInv'
      BY IdsLast, NextInv
    <2> QED
      BY <2>1, CountNext
  <1> QED
    BY <1>1, <1>2, <1>3, PTL DEF Spec

\* mux and demux between them lose, repeat and reorder nothing within a priority.
THEOREM AlwaysInOrder ==
    ASSUME FramesFit, MaxPackets <= SequenceIds
    PROVE  Spec => []PacketsInOrder
  <1>1. Spec /\ []NoReuse => []PacketsInOrder /\ []ReaderFollows
    BY InOrderUnlessReused
  <1>2. Spec => []NoReuse
    BY NeverReused
  <1> QED
    BY <1>1, <1>2, PTL

\* The reader throws at nothing that the writer has written, and has of a packet
\* that is being cut what has been written of it.
THEOREM AlwaysFollows ==
    ASSUME FramesFit, MaxPackets <= SequenceIds
    PROVE  Spec => []ReaderFollows
  <1>1. Spec /\ []NoReuse => []PacketsInOrder /\ []ReaderFollows
    BY InOrderUnlessReused
  <1>2. Spec => []NoReuse
    BY NeverReused
  <1> QED
    BY <1>1, <1>2, PTL
=============================================================================
