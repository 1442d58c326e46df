---------------------------- MODULE MCFiberReuse ----------------------------
(* FiberReuse for TLC, with the gauges compared to sums over the blocks.   *)
EXTENDS FiberReuse, TLC, FiniteSetsExt

CONSTANTS b1, b2, b3, p1, p2, f1, f2

Blocks3 == {b1, b2, b3}
Threads2 == {p1, p2}
Fibers2 == {f1, f2}
Sizes == {2, 3, 5}
PowersOfTwo == {1, 2, 4, 8, 16}
Symmetry == Permutations(Blocks3) \cup Permutations(Threads2) \cup Permutations(Fibers2)

BytesIn(p) == MapThenSumSet(allocationSize, {b \in Blocks : place[b] = p})

\* The gauges are what the blocks add up to at every moment, between the two
\* sections of acquire, release and trim too; so the test at
\* stack_allocator.cpp:273 never ends the program.
GaugesExact == cachedBytes = BytesIn("cached") /\ checkedOutBytes = BytesIn("out")
============================================================================
