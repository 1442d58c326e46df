---------------------------- MODULE MCScheduler ----------------------------
(* Scheduler for TLC: jobs are model values.                               *)
EXTENDS Scheduler

CONSTANTS j1, j2

Jobs2 == {j1, j2}
============================================================================
