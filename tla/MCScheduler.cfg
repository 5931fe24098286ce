CONSTANTS
  ARM9Scale = 2
  kMaxIterationCycles = 4
  kIterationCycleMargin = 1
  MaxCycles9 = 3
  MaxCycles7 = 2
  LINE_CYCLES = 7
  HBLANK_CYCLES = 5
  SpuPeriod = 5
  FifoPeriod = 2
  FifoDelay = 2
  FrameCycles = 4
  RtcPeriods = {6}
  DivDelays = {1}
  SpiDelays = {1}
  LastLine = 1
  OutputCapacity = 1
  VCountWritten = TRUE
  SleepAllowed = TRUE
  MaxTime = 9
SPECIFICATION Spec
INVARIANTS TypeOK NothingOverdue LatenessBounded CPUsInStep SamplesKeepTime
CHECK_DEADLOCK FALSE
