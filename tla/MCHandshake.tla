---------------------------- MODULE MCHandshake ----------------------------
(* Handshake for TLC: two hosts, which dial each other.                    *)
EXTENDS Handshake

CONSTANTS a, b

MCDial == {[from |-> a, to |-> b], [from |-> b, to |-> a]}
MCSlow == {[from |-> a, to |-> b]}
=============================================================================
