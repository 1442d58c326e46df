CONSTANTS
  Kinds <- BothKinds
  MaxCalls = 2
  MaxWaits = 2
SPECIFICATION HookFairSpec
INVARIANTS TimeoutEarned WakeForWait
PROPERTIES  TimedWaitEnds
CHECK_DEADLOCK FALSE
