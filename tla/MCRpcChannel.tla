---------------------------- MODULE MCRpcChannel ----------------------------
(* RpcChannel for TLC.                                                     *)
EXTENDS RpcChannel, TLC

CONSTANTS f1, f2

Callers2 == {f1, f2}
Conns2 == 1..2
AllFibers == Callers2 \cup Conns2
Symmetry == Permutations(Callers2)
============================================================================
