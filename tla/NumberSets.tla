----------------------------- MODULE NumberSets ------------------------------
(***************************************************************************)
(* What RangeMask.h promises: sets of numbers in a ground range, and the   *)
(* operations on them.  A range is [begin, end) here.                      *)
(***************************************************************************)
EXTENDS Integers, FiniteSets

Least(a, b) == IF a < b THEN a ELSE b
Greatest(a, b) == IF a > b THEN a ELSE b

Interval(r) == r[1] .. r[2] - 1
Hull(r, s) == <<Least(r[1], s[1]), Greatest(r[2], s[2])>>

NumberSet(ground, elems) == [ground |-> ground, elems |-> elems]

Complement(s) == NumberSet(s.ground, Interval(s.ground) \ s.elems)
Extended(s, i) == NumberSet(Hull(s.ground, <<i, i + 1>>), s.elems)
PlusRange(s, r) == NumberSet(s.ground, s.elems \cup Interval(r))
LessRange(s, r) == NumberSet(s.ground, s.elems \ Interval(r))
Sum(s, t) == NumberSet(Hull(s.ground, t.ground), s.elems \cup t.elems)
Difference(s, t) == NumberSet(Hull(s.ground, t.ground), s.elems \ t.elems)

\* The n smallest elements.
Smallest(elems, n) == {i \in elems : Cardinality({j \in elems : j < i}) < n}
LowestOf(s, n) == NumberSet(s.ground, Smallest(s.elems, n))
=============================================================================
