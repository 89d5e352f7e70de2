SPECIFICATION Spec
CONSTANTS
  c1 = c1
  c2 = c2
  c3 = c3
  Main = Main
  Nobody = Nobody
  Sessions <- TwoConnections
  FdLimits = {3}
  NChannels = 3
  DEBUG_KOHERON = TRUE
  DriversMayFail = TRUE
  WebSocketCh = {2}
  MaxWorkers <- MixedWorkers
SYMMETRY Symmetry
INVARIANTS
  SessionsOwned
  SlotsMatchThreads
  ReadyMeansListening
PROPERTIES
  AbortsHaveACause
