---------------------------- MODULE MCIOManager ----------------------------
(* IOManager for TLC: jobs are model values.                               *)
EXTENDS IOManager

CONSTANTS j1

Jobs1 == {j1}
============================================================================
