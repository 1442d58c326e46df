---------------------------- MODULE MCRpcProvider ---------------------------
(* RpcProvider for TLC.                                                    *)
EXTENDS RpcProvider

CONSTANTS c1, c2, t1

Clients2 == {c1, c2}
Threads1 == {t1}
============================================================================
