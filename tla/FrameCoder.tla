----------------------------- MODULE FrameCoder -----------------------------
(***************************************************************************)
(* The coders at the two ends of a connection (RLPXFrameCoder.cpp): the    *)
(* secrets each derives from a handshake, and the frames they write, seal, *)
(* check and decrypt.                                                      *)
(*                                                                         *)
(* Hashes and ciphers are terms: a hash is what was hashed, the state of a *)
(* MAC all it was updated with, and what is encrypted with a stream cipher *)
(* its plain text with the place in the key stream.  What is on its way    *)
(* may be damaged, lost, repeated or exchanged (bound: MaxCoderFaults).    *)
(***************************************************************************)
EXTENDS Integers, SequencesExt

CONSTANTS Lists,     \* what headers hold after the length: sequences of 1 to 3 numbers
          Sizes,     \* sizes of payloads
          Field,     \* 2^24, what the length in a header is counted modulo
          MaxFrames, \* bound: frames that an end writes
          MaxCoderFaults \* bound: faults of the network

FrameCoderConstants ==
    /\ Lists \subseteq Seq(Nat) /\ (\A list \in Lists : Len(list) \in 1 .. 3)
    /\ Sizes \subseteq Nat \ {0}
    /\ Field \in Nat /\ Field >= 16 /\ MaxFrames \in Nat /\ MaxCoderFaults \in Nat

Side == {"initiator", "recipient"}
Peer(e) == CHOOSE f \in Side : f # e

VARIABLES egress, ingress, \* m_egressMac, m_ingressMac
          enc, dec,        \* blocks that m_frameEnc and m_frameDec have processed
          stream,          \* what is on its way to an end
          reading,         \* what an end reads next, or "stopped"
          header,          \* the RLPXFrameInfo it has read last
          framesSent,      \* the frames an end has written
          accepted,        \* those it has accepted
          coderFaults      \* number of faults so far

coderVars == <<egress, ingress, enc, dec, stream, reading, header, framesSent, accepted, coderFaults>>
-----------------------------------------------------------------------------
(* setup *)

Nonce(e) == <<"nonce", e>>
Hash(x, y) == <<"hash", x, y>>
Xor(x, y) == (x \ y) \cup (y \ x)

EphemeralShared(e) == {e, Peer(e)}

\* The nonce of the recipient, and that of the initiator.
NonceMaterial(e) == IF e = "initiator" THEN <<Nonce(Peer(e)), Nonce(e)>> ELSE <<Nonce(e), Nonce(Peer(e))>>

SharedSecret(e) == Hash(EphemeralShared(e), NonceMaterial(e))
AESSecret(e) == Hash(EphemeralShared(e), SharedSecret(e))
MACSecret(e) == Hash(EphemeralShared(e), AESSecret(e))

AuthOrAck(originated) == IF originated THEN "auth" ELSE "ack"

EgressSeed(e) == <<Xor({MACSecret(e)}, {Nonce(Peer(e))}), AuthOrAck(e = "initiator")>>

\* The secret is recovered from what the egress MAC began with.
IngressSeed(e) ==
    <<Xor(Xor(EgressSeed(e)[1], {Nonce(Peer(e))}), {Nonce(e)}), AuthOrAck(e # "initiator")>>

MAC(e, seed) == [key |-> MACSecret(e), seed |-> seed, updates |-> <<>>]

CoderInit == /\ egress = [e \in Side |-> MAC(e, EgressSeed(e))]
             /\ ingress = [e \in Side |-> MAC(e, IngressSeed(e))]
             /\ enc = [e \in Side |-> 0] /\ dec = [e \in Side |-> 0]
             /\ stream = [e \in Side |-> <<>>]
             /\ reading = [e \in Side |-> "header"]
             /\ header = [e \in Side |-> <<>>]
             /\ framesSent = [e \in Side |-> <<>>] /\ accepted = [e \in Side |-> <<>>]
             /\ coderFaults = 0
-----------------------------------------------------------------------------
Blocks(size) == (size + 15) \div 16

Encrypted(e, at, plain, size) == [key |-> AESSecret(e), at |-> at, plain |-> plain, size |-> size]
Garbage == [what |-> "garbage"]
Decrypted(e, cipher) == IF cipher.key = AESSecret(e) /\ cipher.at = dec[e] THEN cipher.plain ELSE Garbage

\* updateMAC, of a header or of a frame.
Updated(mac, as, cipher) == [mac EXCEPT !.updates = Append(@, <<as, cipher>>)]

\* writeFrame and writeSingleFramePacket
WriteFrame(e, list, size) ==
    /\ Len(framesSent[e]) < MaxFrames
    /\ LET payload == [number |-> Len(framesSent[e]), size |-> size]
           head == Encrypted(e, enc[e], [length |-> size % Field, list |-> list], 1)
           frame == Encrypted(e, enc[e] + 1, payload, Blocks(size))
           headMAC == Updated(egress[e], "header", head)
           frameMAC == Updated(headMAC, "frame", frame)
       IN /\ stream' = [stream EXCEPT ![Peer(e)] =
                         @ \o << [cipher |-> head, mac |-> headMAC], [cipher |-> frame, mac |-> frameMAC] >>]
          /\ egress' = [egress EXCEPT ![e] = frameMAC]
          /\ framesSent' = [framesSent EXCEPT ![e] = Append(@, [list |-> list, payload |-> payload])]
    /\ enc' = [enc EXCEPT ![e] = @ + 1 + Blocks(size)]
    /\ UNCHANGED <<ingress, dec, reading, header, accepted, coderFaults>>

\* RLPXFrameInfo: what is missing in the list is zero.
Info(head) == [length |-> head.length, protocolId |-> head.list[1], multiFrame |-> Len(head.list) > 1,
               sequenceId |-> IF Len(head.list) > 1 THEN head.list[2] ELSE 0,
               totalLength |-> IF Len(head.list) = 3 THEN head.list[3] ELSE 0]

\* Mutant: the MAC is not compared.
Unchecked(e, unit, as) == TRUE

\* What was read has the MAC expected.
Authentic(e, unit, as) == unit.mac = Updated(ingress[e], as, unit.cipher)

\* authAndDecryptHeader; who reads stops when it fails.
AuthAndDecryptHeader(e) ==
    /\ reading[e] = "header" /\ stream[e] # <<>>
    /\ LET unit == Head(stream[e])
       IN /\ ingress' = [ingress EXCEPT ![e] = Updated(@, "header", unit.cipher)]
          /\ IF Authentic(e, unit, "header")
               THEN /\ header' = [header EXCEPT ![e] = Decrypted(e, unit.cipher)]
                    /\ dec' = [dec EXCEPT ![e] = @ + 1]
                    /\ reading' = [reading EXCEPT ![e] = IF header'[e] = Garbage THEN "stopped" ELSE "frame"]
               ELSE reading' = [reading EXCEPT ![e] = "stopped"] /\ UNCHANGED <<header, dec>>
    /\ stream' = [stream EXCEPT ![e] = Tail(@)]
    /\ UNCHANGED <<egress, enc, framesSent, accepted, coderFaults>>

\* authAndDecryptFrame.  The header says how much is read; when that is not a
\* whole frame, it has no MAC that could match.
AuthAndDecryptFrame(e) ==
    /\ reading[e] = "frame" /\ stream[e] # <<>>
    /\ LET unit == Head(stream[e])
       IN /\ ingress' = [ingress EXCEPT ![e] = Updated(@, "frame", unit.cipher)]
          /\ IF Authentic(e, unit, "frame") /\ Blocks(header[e].length) = unit.cipher.size
               THEN /\ accepted' = [accepted EXCEPT ![e] = Append(@,
                                  [info |-> Info(header[e]), payload |-> Decrypted(e, unit.cipher)])]
                    /\ dec' = [dec EXCEPT ![e] = @ + unit.cipher.size]
                    /\ reading' = [reading EXCEPT ![e] = "header"]
               ELSE reading' = [reading EXCEPT ![e] = "stopped"] /\ UNCHANGED <<accepted, dec>>
    /\ stream' = [stream EXCEPT ![e] = Tail(@)]
    /\ UNCHANGED <<egress, enc, header, framesSent, coderFaults>>

\* The network
Damaged(unit) == { [unit EXCEPT !.cipher.plain = Garbage], [unit EXCEPT !.mac.updates = <<>>] }

Fault(e) ==
    /\ coderFaults < MaxCoderFaults
    /\ \E i \in DOMAIN stream[e] :
          \/ \E unit \in Damaged(stream[e][i]) : stream' = [stream EXCEPT ![e][i] = unit]
          \/ stream' = [stream EXCEPT ![e] = RemoveAt(@, i)]
          \/ stream' = [stream EXCEPT ![e] = InsertAt(@, i, @[i])]
          \/ i > 1 /\ stream' = [stream EXCEPT ![e][i] = stream[e][i - 1], ![e][i - 1] = stream[e][i]]
    /\ coderFaults' = coderFaults + 1
    /\ UNCHANGED <<egress, ingress, enc, dec, reading, header, framesSent, accepted>>

CoderNext ==
    \E e \in Side : \/ \E list \in Lists, size \in Sizes : WriteFrame(e, list, size)
                    \/ AuthAndDecryptHeader(e) \/ AuthAndDecryptFrame(e) \/ Fault(e)

CoderSpec == CoderInit /\ [][CoderNext]_coderVars
-----------------------------------------------------------------------------
AsRead(frame) == [info |-> Info([length |-> frame.payload.size, list |-> frame.list]), payload |-> frame.payload]

\* What an end accepts and decrypts is what the other end has written, from the
\* first frame on and without a gap, whatever happens on the way.
AcceptedIsWritten ==
    \A e \in Side : IsPrefix(accepted[e], [i \in DOMAIN framesSent[Peer(e)] |-> AsRead(framesSent[Peer(e)][i])])

\* Both ends derive the same secrets and count the same blocks: as long as
\* nothing happens on the way, an end accepts all it receives.
AcceptsAll == coderFaults = 0 => \A e \in Side : reading[e] # "stopped"

\* Both: what is written is accepted, and nothing else.
AcceptsWhatIsWritten == AcceptedIsWritten /\ AcceptsAll
=============================================================================
