SPECIFICATION Spec
CONSTANTS
  c1 = c1
  c2 = c2
  c3 = c3
  Main = Main
  Nobody = Nobody
  Sessions <- TwoConnections
  FdLimits = {2}
  NChannels = 1
  DEBUG_KOHERON = FALSE
  DriversMayFail = FALSE
  WebSocketCh = {}
  MaxWorkers <- OneWorker
INVARIANTS
  MaxParallelConnections
