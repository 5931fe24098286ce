CONSTANTS
  NumEntries = 3
  T = {0, 1, 2}
  Zero = 0
  Depth = 2
  Words = {1}
  Nibbles = {0}
  Settings <- OffOrOn
  SyncIrqs <- NobodyListens
  EnableSets <- EveryIrq
  MaxWords = 3
  NumTimers = 3
  Unit = 2
  Counts = 2
  TimerSettings <- ChainedSettings
  Reloads = {0, 1}
  MaxSlice = 2
  PipeDepth = 3
  FIFODepth = 3
  StallDepth = 2
  Half = 2
  Commands = {"draw", "stack", "swap"}
  Cost <- KindCost
  Latency = 1
  FIFOIrq = 1
  NumChannels = 2
  Controls <- GxControls
  ChunkSize = 2
  Stores <- OneOrTwo
  DmaWords <- OneWord
  SliceCycles = 2
  FrameCycles = 2
  RingSize = 4
  BackLimit = 2
  SyncLimit = 1
  ReadSizes = {1, 3}
  Modulus = 8
SPECIFICATION DevSpec
INVARIANTS DevTypeOK LineCurrent DriverInOrder DriverWakesUp StatusTruthful
PROPERTIES ImplementsQueue RecvIsTold DoneIsTold TimersExact CommandsInOrder TransfersExact HeardInOrder
PROPERTIES EverythingArrives StallsAndTransfersEnd
CHECK_DEADLOCK FALSE
