CONSTANTS
  f1 = f1
  f2 = f2
  None = None
  Callers <- Callers2
  Fibers <- AllFibers
  Conns <- Conns2
  States = {1, 2}
  MaxCalls = 1
  Slots = {1}
  Workers = 2
SPECIFICATION ChannelSpec
SYMMETRY Symmetry
INVARIANTS NoLostWait   NoLostCall
CHECK_DEADLOCK FALSE
