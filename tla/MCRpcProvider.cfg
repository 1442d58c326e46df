CONSTANTS
  c1 = c1
  c2 = c2
  t1 = t1
  None = None
  Clients <- Clients2
  MuxClients = {c2}
  MaxConnections = 1
  MaxRequests = 2
  Threads <- Threads1
  Capacities = {0, 1}
  MuxLimit = 2
  MaxBuffered = 3
SPECIFICATION ProviderFairSpec
INVARIANTS DrainTrue CountsExact HandlerWokenOnce
PROPERTIES AnswerEarned StopDrainsCalls
CHECK_DEADLOCK FALSE
