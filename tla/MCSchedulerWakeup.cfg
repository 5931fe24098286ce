CONSTANTS
  ARM9Scale = 2
  kMaxIterationCycles = 6
  kIterationCycleMargin = 1
  MaxCycles9 = 2
  MaxCycles7 = 1
  LINE_CYCLES = 7
  HBLANK_CYCLES = 5
  SpuPeriod = 4
  FifoPeriod = 2
  FifoDelay = 2
  FrameCycles = 14
  RtcPeriods = {5}
  DivDelays = {}
  SpiDelays = {1}
  LastLine = 1
  OutputCapacity = 6
  VCountWritten = FALSE
  SleepAllowed = TRUE
  MaxTime = 36
SPECIFICATION Spec
INVARIANT FrameHasLCD
CHECK_DEADLOCK FALSE
