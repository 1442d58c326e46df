CONSTANTS
  p1 = p1
  p2 = p2
  c1 = c1
  c2 = c2
  None = None
  Producers <- Producers2
  Consumers <- Consumers2
  Fibers <- Fibers4
  Outsiders = {}
  Queues = {"mutex", "cond"}
  Plain = {}
  MaxWaits = 2
SPECIFICATION Spec
SYMMETRY Symmetry
INVARIANTS NoStrandedItem TimeoutNotEarly
PROPERTY MutexReacquired
CHECK_DEADLOCK FALSE
