SPECIFICATION FairSpec
CONSTANTS
  load = load
  read1 = read1
  read2 = read2
  write = write
  PoolSize = 3
  Requests <- FourRequests
  Reads <- ThreeReads
  LoadCmds = load
  None = None
INVARIANTS
  SocketsAccountedFor
  AnswersReachTheirRequest
PROPERTIES
  RequestsReturn
CHECK_DEADLOCK FALSE
