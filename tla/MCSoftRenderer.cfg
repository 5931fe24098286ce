CONSTANTS
  Lines = 2
  Kinds = {"abort", "wakeup", "savestate", "reset"}
SPECIFICATION FairSpec
INVARIANTS GPUStateProtected NothingLeftOver
PROPERTIES LinesInStep StopReturns PlainFramesKeepComing
CHECK_DEADLOCK FALSE
