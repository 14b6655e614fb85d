------------------------------- MODULE MCTrie -------------------------------
(***************************************************************************)
(* Keys that share nibbles, two of which start with another; values so     *)
(* short that every leaf is inline, such that a leaf has 32 bytes and      *)
(* more, and longer than a hash.                                           *)
(***************************************************************************)
EXTENDS Trie

MCKey == {<<0, 0>>, <<1, 0>>, <<0, 0, 0, 1>>, <<0, 0, 1, 0>>}
MCValue == {"a", "b", "c"}
MCValueLen == [a |-> 1, b |-> 29, c |-> 33]
=============================================================================
