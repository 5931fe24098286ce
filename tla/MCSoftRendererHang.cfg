CONSTANTS
  Lines = 2
  Kinds = {"savestate"}
SPECIFICATION FairSpec
PROPERTY FramesKeepComing
CHECK_DEADLOCK FALSE
