--------------------------- MODULE MCTimerWheel ---------------------------
(* TimerWheel for TLC: wheels that reach 2, 3, 4 and 5 units of time, and  *)
(* delays for each of them and for the tree.                               *)
EXTENDS TimerWheel

CONSTANTS t1

OneTimer == {t1}
Reaches == <<2, 3, 4, 5>>
Long == 0..5
============================================================================
