CONSTANTS
  f1 = f1
  f2 = f2
  f3 = f3
  Fibers <- Fibers3
  Outsiders = {f3}
  Plain = {f2}
  Queues = {"sem"}
  Initial = 0
  MaxNeed = 2
  MaxWaits = 1
  MaxCount = 1
SPECIFICATION FSFairSpec
INVARIANTS NoHiddenWaiter
PROPERTIES CoveredWaitEnds 
CHECK_DEADLOCK FALSE
