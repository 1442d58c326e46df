---------------------------- MODULE MCFdManager ----------------------------
(* FdManager for TLC: a table of 2 places, fds beyond it, two threads that *)
(* run fibers and one that does not.                                       *)
EXTENDS FdManager, TLC

CONSTANTS h1, h2, outsider

Fds3 == {1, 2, 4}
Runners == {h1, h2}
All == Runners \cup {outsider}
Symmetry == Permutations(Runners)
============================================================================
