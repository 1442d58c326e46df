----------------------------- MODULE MCCondVar -----------------------------
(* FiberCondVar and its producer/consumer use for TLC.                     *)
EXTENDS CondVarProtocol, TLC

CONSTANTS p1, p2, c1, c2

Producers2 == {p1, p2}
Consumers2 == {c1, c2}
Fibers4 == {p1, p2, c1, c2}
Symmetry == Permutations(Producers2) \cup Permutations(Consumers2)
============================================================================
