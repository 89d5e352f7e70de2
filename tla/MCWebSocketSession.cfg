SPECIFICATION Spec
CONSTANTS
  Frames <- AllFrames
  SmallStream = 3
  MediumMax = 5
  CommandHeader = 2
  ReadStrLen = 22
  Margin = 15
  OverflowLen = 13
  SendBufLen = 17
  RequestBytes = 2
  AcceptBytes = 2
  Capacity = 2
  MaxFrames = 2
INVARIANTS
  FramesInPlace
  ExecutedInOrder
  EndsForACause
PROPERTIES
  CommandsAreAnswered
  LostConnectionEnds
