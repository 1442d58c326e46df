CONSTANTS
  j1 = j1
  j2 = j2
  None = None
  N = 2
  Jobs <- Jobs2
  UseCaller = FALSE
  Epoll = FALSE
  Pinning = TRUE
  MaxYields = 1
SPECIFICATION SchedFairSpec
INVARIANTS TasksConserved
PROPERTIES NeverMigrates 
CHECK_DEADLOCK FALSE
