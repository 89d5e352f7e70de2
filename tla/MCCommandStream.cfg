SPECIFICATION FairSpec
CONSTANTS
  Ops <- AllOps
  NoOp = NoOp
  Known <- ServerOps
  Packs <- MCPacks
  Offset <- MCOffset
  Reply <- MCReply
  HeaderBytes = 2
  LengthBytes = 2
  Garbage = {0, 2}
  SizeT64 = FALSE
  Capacity = 2
  MaxCalls = 3
INVARIANTS
  InPlace
  ExecutedInOrder
  AnswersMatchCalls
PROPERTIES
  CallsReturn
  LeavingEndsSession
