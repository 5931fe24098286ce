CONSTANTS
  PipeDepth = 3
  FIFODepth = 3
  StallDepth = 2
  Half = 2
  Commands = {"draw", "stack", "swap"}
  Cost <- KindCost
  Latency = 1
  FIFOIrq = 1
  NumChannels = 1
  Controls <- NoTransfers
  ChunkSize = 2
  Stores <- OneOrTwo
  DmaWords <- OneWord
  SliceCycles = 2
  FrameCycles = 2
SPECIFICATION GxSpec
PROPERTY NothingDropped
CHECK_DEADLOCK FALSE
