-------------------------- MODULE MCFiberSemaphore --------------------------
(* FiberSemaphore for TLC: fibers are model values.                        *)
EXTENDS FiberSemaphore

CONSTANTS f1, f2, f3

Fibers3 == {f1, f2, f3}
============================================================================
