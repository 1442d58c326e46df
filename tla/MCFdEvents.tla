---------------------------- MODULE MCFdEvents ----------------------------
(* FdEvents for TLC: a table of 2 places, fds inside and outside of it.    *)
EXTENDS FdEvents, TLC

CONSTANTS READ, WRITE, c1, c2, w1, w2

BothEvents == {READ, WRITE}
Callers2 == {c1, c2}
Workers2 == {w1, w2}
BeyondTable == {2, 4}
Symmetry == Permutations(Callers2) \cup Permutations(Workers2)
============================================================================
