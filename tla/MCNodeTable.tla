---------------------------- MODULE MCNodeTable ----------------------------
(* Small instances of NodeTable for TLC: all ids in one bucket.            *)
EXTENDS NodeTable, TLC

MCBins == {0}
MCBinOf == [n \in Id |-> 0]

Symmetry == Permutations(Id \ {Self})
=============================================================================
