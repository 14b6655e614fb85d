------------------------------- MODULE Frames -------------------------------
(***************************************************************************)
(* How packets are cut into frames and put together again: the writer of   *)
(* one protocol (RLPXFrameWriter.cpp) and the reader of the peer           *)
(* (RLPXFrameReader.cpp).                                                  *)
(*                                                                         *)
(* enque may be called from any thread, between any two iterations of the  *)
(* loops of mux: the outer loop, a frame each, and the inner one, a packet *)
(* each, are steps here.  Sizes are the code's, in bytes.  What a frame    *)
(* carries is a list of pieces of packets; of the encryption the model     *)
(* keeps the length it adds, and that frames are read in the order in      *)
(* which they were written, all of them, or the MAC of the next one fails. *)
(***************************************************************************)
EXTENDS Integers, SequencesExt

CONSTANTS PacketSizes, \* sizes of the packets that are sent, type included
          MuxSizes,    \* what mux is called with
          MaxPackets,  \* bound: packets enqued
          SequenceIds, \* values of the uint16_t m_sequenceId
          SizeT        \* values of a size_t

Block == 16
Overhead == 3 * Block \* c_overhead: header, its mac and the frame's
TypeSize == 1

ASSUME FramesConstants == /\ PacketSizes \subseteq Nat \ (0 .. TypeSize)
                          /\ MuxSizes \subseteq Nat
                          /\ {MaxPackets, SequenceIds} \subseteq Nat \ {0}
                          /\ SizeT \in Nat \ {0} /\ \A n \in MuxSizes : n < SizeT

Priority == {"high", "low"}
Other(p) == CHOOSE q \in Priority : q # p

VARIABLES q,          \* the packets of each WriterState
          writing,    \* WriterState: whether its first packet has been begun
          remaining,  \* what is left of that packet's data
          multiFrame, \* whether it takes several frames
          sequence,   \* the sequence id of its frames
          sequenceId, \* m_sequenceId
          mux,        \* where mux is, with its local variables
          wire,       \* frames on their way
          incomplete, \* m_incomplete: what the reader has of a sequence's packet
          invalid,    \* the reader has thrown RLPXInvalidPacket
          accepted,   \* what was enqued, with each priority
          delivered   \* what the reader has returned of it

writer == <<q, writing, remaining, multiFrame, sequence, sequenceId>>
reader == <<incomplete, invalid, delivered>>
vars == <<writer, mux, wire, reader, accepted>>

Idle == [at |-> "idle"]

Init == /\ q = [p \in Priority |-> <<>>]
        /\ writing = [p \in Priority |-> FALSE]
        /\ remaining = [p \in Priority |-> 0]
        /\ multiFrame = [p \in Priority |-> FALSE]
        /\ sequence = [p \in Priority |-> SequenceIds - 1]
        /\ sequenceId = 0
        /\ mux = Idle
        /\ wire = <<>>
        /\ incomplete = [s \in {} |-> {}]
        /\ invalid = FALSE
        /\ accepted = [p \in Priority |-> <<>>]
        /\ delivered = [p \in Priority |-> <<>>]

-----------------------------------------------------------------------------
(* The writer *)

Enqued == Len(accepted["high"]) + Len(accepted["low"])

\* enque, of a valid packet.
Enque(p, size) ==
    /\ Enqued < MaxPackets
    /\ LET packet == [id |-> Enqued + 1, of |-> p, size |-> size]
       IN  /\ q' = [q EXCEPT ![p] = Append(@, packet)]
           /\ accepted' = [accepted EXCEPT ![p] = Append(@, packet.id)]
    /\ UNCHANGED <<writing, remaining, multiFrame, sequence, sequenceId, mux, wire, reader>>

Pending(p) == q[p] # <<>>

\* mux is called; with less than this it returns at once.
StartMux(size) ==
    /\ mux = Idle /\ size >= Overhead + Block
    /\ mux' = [at |-> "frame", frameLen |-> (size \div Block) * Block, swap |-> FALSE]
    /\ UNCHANGED <<writer, wire, reader, accepted>>

\* The queue that the next frame is for.
Chosen == IF (Pending("high") /\ ~mux.swap) \/ ~Pending("low") THEN "high" ELSE "low"

\* What the frame may carry: in the first one half of the size is left for the
\* other queue.  The comparison and the subtraction are unsigned.
Allotment ==
    LET half == mux.frameLen \div 2
        shared == ~mux.swap /\ Pending("high") /\ Pending("low")
    IN  ((IF shared /\ half - (Overhead + Block) # 0 THEN half ELSE mux.frameLen) - Overhead)
          % SizeT

\* The head of the outer loop.
BeginFrame ==
    /\ mux.at = "frame"
    /\ mux' = IF mux.frameLen < Overhead + Block \/ ~\E p \in Priority : Pending(p)
                THEN Idle
                ELSE [at |-> "pack", frameLen |-> mux.frameLen, swap |-> mux.swap,
                      from |-> Chosen, allot |-> Allotment, payload |-> <<>>, size |-> 0, offset |-> 0]
    /\ UNCHANGED <<writer, wire, reader, accepted>>

\* With padding.
Padded(n) == ((n + Block - 1) \div Block) * Block

\* writeFrame, and the end of the outer loop's body, with a payload of so many
\* bytes.  A segmented packet's first frame carries its total size.
EndFrame(state, payload, size, offset) ==
    LET p == mux.from
        frame == [multi |-> state.multi,
                  sequence |-> IF state.multi THEN state.sequence ELSE 0,
                  total |-> IF state.multi /\ offset = 0 THEN payload[1].packet.size ELSE 0,
                  pieces |-> payload,
                  size |-> size]
    IN  IF payload # <<>>
          THEN /\ wire' = Append(wire, frame)
               /\ multiFrame' = [multiFrame EXCEPT ![p] = state.multi /\ state.remaining # 0]
               /\ mux' = [at |-> "frame", frameLen |-> (mux.frameLen - (Overhead + Padded(size))) % SizeT,
                          swap |-> TRUE]
          ELSE /\ multiFrame' = [multiFrame EXCEPT ![p] = state.multi]
               /\ mux' = IF mux.swap THEN Idle
                                     ELSE [at |-> "frame", frameLen |-> mux.frameLen, swap |-> TRUE]
               /\ UNCHANGED wire

\* The inner loop ends: no room, no packet, or the next packet does not fit
\* behind those that the frame has.
NoRoom == mux.allot < Block
NothingToWrite == ~writing[mux.from] /\ ~Pending(mux.from)
\* Mutant: a packet larger than the frame waits for a larger one.
NextTooLargeAlone == ~writing[mux.from] /\ Pending(mux.from)
                       /\ Head(q[mux.from]).size > mux.allot

NextTooLarge == ~writing[mux.from] /\ Pending(mux.from) /\ mux.payload # <<>>
                  /\ Head(q[mux.from]).size > mux.allot

StopPacking ==
    /\ mux.at = "pack"
    /\ NoRoom \/ NothingToWrite \/ NextTooLarge
    /\ LET p == mux.from
           still == [multi |-> multiFrame[p] /\ (NoRoom \/ NothingToWrite),
                     remaining |-> IF NoRoom \/ NothingToWrite THEN remaining[p] ELSE 0,
                     sequence |-> sequence[p]]
       IN  /\ EndFrame(still, mux.payload, mux.size, mux.offset)
           /\ remaining' = [remaining EXCEPT ![p] = still.remaining]
    /\ UNCHANGED <<q, writing, sequence, sequenceId, reader, accepted>>

\* An iteration of the inner loop: the first packet is begun, or continued,
\* with as much of it as the frame has room for.
Pack ==
    /\ mux.at = "pack" /\ ~(NoRoom \/ NothingToWrite \/ NextTooLarge)
    /\ LET p == mux.from
           packet == Head(q[p])
           data == packet.size - TypeSize
           begun == writing[p]
           multi == IF begun THEN multiFrame[p] ELSE packet.size > mux.allot
           next == (sequenceId + 1) % SequenceIds
           seq == IF ~begun /\ multi THEN next ELSE sequence[p]
           left == IF begun THEN remaining[p] ELSE data
           room == IF begun THEN mux.allot ELSE mux.allot - TypeSize
           length == IF left <= room THEN left ELSE room
           offset == IF room > 0 /\ left > 0 THEN data - left ELSE mux.offset
           piece == [packet |-> packet,
                     begin |-> IF begun THEN TypeSize + data - left ELSE 0,
                     to |-> TypeSize + data - left + length]
           payload == Append(mux.payload, piece)
           size == mux.size + piece.to - piece.begin
           done == length = left
       IN  /\ sequenceId' = IF ~begun /\ multi THEN next ELSE sequenceId
           /\ sequence' = [sequence EXCEPT ![p] = seq]
           /\ remaining' = [remaining EXCEPT ![p] = left - length]
           /\ writing' = [writing EXCEPT ![p] = ~done]
           /\ q' = IF done THEN [q EXCEPT ![p] = Tail(@)] ELSE q
           /\ IF multi
                THEN EndFrame([multi |-> TRUE, remaining |-> left - length, sequence |-> seq],
                              payload, size, offset)
                ELSE /\ mux' = [mux EXCEPT !.allot = room - length, !.payload = payload,
                                           !.size = size, !.offset = offset]
                     /\ multiFrame' = [multiFrame EXCEPT ![p] = FALSE]
                     /\ UNCHANGED wire
    /\ UNCHANGED <<reader, accepted>>

-----------------------------------------------------------------------------
(* The reader *)

\* The size of the frame that demux is given: with its padding and its mac.
FrameSize(frame) == Padded(frame.size) + Block

\* Mutant: the size that is compared has the header and its mac in it.
TooLargeWithHeader(frame) ==
    frame.multi /\ frame.total > 0 /\ FrameSize(frame) + 2 * Block > frame.total

TooLarge(frame) == frame.multi /\ frame.total > 0 /\ FrameSize(frame) > frame.total

\* The packets of a frame are of one priority.
Ids(packets) == [i \in DOMAIN packets |-> packets[i].id]

Return(packets) ==
    delivered' = [p \in Priority |-> IF packets # <<>> /\ packets[1].of = p
                                       THEN delivered[p] \o Ids(packets) ELSE delivered[p]]

Forget(s) == [t \in DOMAIN incomplete \ {s} |-> incomplete[t]]

\* The frame continues a packet of which the reader has the beginning.
Continues(frame) ==
    /\ frame.multi /\ frame.sequence \in DOMAIN incomplete
    /\ frame.total = 0
    /\ frame.size <= incomplete[frame.sequence].remaining

Continue(frame) ==
    LET s == frame.sequence
        have == incomplete[s]
        piece == Head(frame.pieces)
        left == have.remaining - frame.size
        whole == /\ piece.packet = have.packet
                 /\ piece.begin = have.to /\ piece.to = have.packet.size
    IN  IF left # 0
          THEN /\ incomplete' = [incomplete EXCEPT ![s].remaining = left, ![s].to = piece.to]
               /\ UNCHANGED <<invalid, delivered>>
          ELSE /\ incomplete' = Forget(s)
               /\ invalid' = ~whole
               /\ Return(IF whole THEN <<have.packet>> ELSE <<>>)

\* It starts packets.  What is not the start of one is not valid RLP or says
\* nothing of its length: RLPXInvalidPacket, at the latest with its end.
Parse(frame) ==
    LET others == IF frame.multi THEN Forget(frame.sequence) ELSE incomplete
        piece == Head(frame.pieces)
        starts == \A i \in DOMAIN frame.pieces : frame.pieces[i].begin = 0
        whole == \A i \in DOMAIN frame.pieces :
                    frame.pieces[i].to = frame.pieces[i].packet.size
        left == frame.total - frame.size
    IN  /\ invalid' = IF starts THEN ~whole /\ ~(frame.multi /\ left # 0) ELSE TRUE
        /\ incomplete' = IF starts /\ ~whole /\ frame.multi /\ left # 0
                           THEN [s \in DOMAIN others \cup {frame.sequence} |->
                                    IF s = frame.sequence
                                      THEN [packet |-> piece.packet, to |-> piece.to, remaining |-> left]
                                      ELSE others[s]]
                           ELSE others
        /\ Return(IF starts /\ whole THEN [i \in DOMAIN frame.pieces |-> frame.pieces[i].packet]
                                     ELSE <<>>)

\* demux of the next frame.
Demux ==
    /\ wire # <<>> /\ ~invalid
    /\ LET frame == Head(wire)
       IN  IF TooLarge(frame) THEN UNCHANGED reader
           ELSE IF Continues(frame) THEN Continue(frame)
           ELSE Parse(frame)
    /\ wire' = Tail(wire)
    /\ UNCHANGED <<writer, mux, accepted>>

-----------------------------------------------------------------------------
Next == \/ \E p \in Priority, size \in PacketSizes : Enque(p, size)
        \/ \E size \in MuxSizes : StartMux(size)
        \/ BeginFrame \/ StopPacking \/ Pack
        \/ Demux

Spec == Init /\ [][Next]_vars

\* The write loop calls mux as long as packets are queued, and the peer reads.
Fairness == /\ WF_vars(/\ \E p \in Priority : Pending(p)
                       /\ \E size \in MuxSizes : StartMux(size))
            /\ WF_vars(BeginFrame \/ StopPacking \/ Pack)
            /\ WF_vars(Demux)

FairSpec == Spec /\ Fairness

-----------------------------------------------------------------------------
\* Nothing is lost, repeated or overtaken within a priority, however packets
\* are packed and cut and however their frames are interleaved: what the peer
\* has is a prefix of what was enqued, and once the frames have been read it
\* is all but what is queued or being packed.
PacketsInOrder ==
    \A p \in Priority :
        /\ IsPrefix(delivered[p], accepted[p])
        /\ wire = <<>> /\ mux.at # "pack" => accepted[p] = delivered[p] \o Ids(q[p])

\* The reader never throws RLPXInvalidPacket at what the writer has written,
\* and keeps the beginning of at most one packet of each queue.
ReaderFollows ==
    /\ ~invalid
    /\ Cardinality(DOMAIN incomplete) <= Cardinality(Priority)
    /\ wire = <<>> /\ mux = Idle =>
          \A p \in Priority : writing[p] =>
              /\ sequence[p] \in DOMAIN incomplete
              /\ incomplete[sequence[p]].packet = Head(q[p])
              /\ incomplete[sequence[p]].remaining = remaining[p]

\* Every packet that is enqued arrives in the end, of either priority: mux
\* ends, and passes from one queue to the other.
PacketsArrive ==
    \A p \in Priority : \A id \in 1 .. MaxPackets :
        id \in ToSet(accepted[p]) ~> id \in ToSet(delivered[p])
=============================================================================
