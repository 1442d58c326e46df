---------------------------- MODULE MCFiberMutex ----------------------------
(* FiberMutex for TLC: fibers are model values.                            *)
EXTENDS FiberMutex

CONSTANTS f1, f2, f3

Workers3 == {f1, f2, f3}
============================================================================
