CONSTANTS
  READ = READ
  WRITE = WRITE
  c1 = c1
  c2 = c2
  w1 = w1
  w2 = w2
  Fds <- BeyondTable
  Events <- BothEvents
  Callers <- Callers2
  Workers <- Workers2
  InitSize = 2
  MaxMade = 2
SPECIFICATION FdSpec
SYMMETRY Symmetry
INVARIANTS CountExact InterestExact
CHECK_DEADLOCK FALSE
