CONSTANTS
  f1 = f1
  f2 = f2
  f3 = f3
  None = None
  Fibers <- Workers3
  Outsiders = {f3}
  Queues = {"mutex"}
  Plain = {}
  MaxWaits = 1
SPECIFICATION FMFairSpec
INVARIANTS NoIdleQueue WokenOnce
PROPERTIES NoBarging ImplementsFairLock LockReturns
