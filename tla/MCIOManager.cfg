CONSTANTS
  j1 = j1
  None = None
  N = 2
  Jobs <- Jobs1
  UseCaller = TRUE
  Epoll = TRUE
  Pinning = TRUE
  MaxYields = 2
SPECIFICATION IOMSpec
PROPERTIES WaitsHoldWorker
CHECK_DEADLOCK FALSE
