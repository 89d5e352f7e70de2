SPECIFICATION FairSpec
CONSTANTS
  Ops <- ServerOps
  NoOp = NoOp
  Known <- ServerOps
  Packs <- MCPacks
  Offset <- MCOffset
  Reply <- MCReply
  HeaderBytes = 2
  LengthBytes = 2
  Garbage = {0, 2}
  SizeT64 = TRUE
  Capacity = 3
  MaxCalls = 2
PROPERTIES
  RecvAllEnds
