--------------------------- MODULE PacketChannel ---------------------------
(***************************************************************************)
(* What a Session promises about the packets it accepts for sending: those *)
(* that reach the wire do so in the order of acceptance, each once, and    *)
(* the n-th frame on the wire is the n-th one sealed.  RLPXFrameCoder      *)
(* chains cipher and MAC through all frames, so a frame out of this order  *)
(* makes the peer refuse it and all that follow.                           *)
(***************************************************************************)
EXTENDS Naturals, Sequences

CONSTANT Kind     \* kinds of packets

VARIABLES offered,   \* packets accepted, in order
          delivered, \* frames on the wire: the packet's number and its seal's
          up         \* the connection is open

Init == offered = <<>> /\ delivered = <<>> /\ up = TRUE

Offer == \E k \in Kind : offered' = Append(offered, k) /\ UNCHANGED <<delivered, up>>

Deliver == LET n == Len(delivered) + 1 IN
           /\ up
           /\ n <= Len(offered)
           /\ delivered' = Append(delivered, [msg |-> n, seal |-> n])
           /\ UNCHANGED <<offered, up>>

GoDown == up' = FALSE /\ UNCHANGED <<offered, delivered>>

Spec == Init /\ [][Offer \/ Deliver \/ GoDown]_<<offered, delivered, up>>
=============================================================================
