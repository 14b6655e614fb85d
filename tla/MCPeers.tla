------------------------------- MODULE MCPeers -------------------------------
(* Peers for TLC: one slot, or, for required peers only, two.              *)
EXTENDS Peers

OneSlot == [pin |-> FALSE, stretch |-> 1]
MCPrefs == {OneSlot, [pin |-> TRUE, stretch |-> 2]}
=============================================================================
