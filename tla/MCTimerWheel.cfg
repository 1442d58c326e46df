CONSTANTS
  t1 = t1
  None = None
  Timers <- OneTimer
  Reach <- Reaches
  MaxTime = 8
  Delays <- Long
  Recurring = {FALSE, TRUE}
SPECIFICATION TimerFairSpec
INVARIANTS FiresOnce
PROPERTIES CancelledSilent TimerFires
CHECK_DEADLOCK FALSE
