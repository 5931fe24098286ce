CONSTANTS
  kStart <- Start
  kEnd <- RingEnd
  StartOffsets <- OneStart
  Procs = {0, 1, 2}
  Joined = {}
  Resident = {}
  MaxInstances = 4
  StaleWindow = 1
  TSMod = 64
  SemMax = 8
  MaxInits = 1
  MaxBegins = 1
  Data = {}
  Lengths = {}
  FrameTypes = {}
  Times = {}
  Hosts = {}
  MaxBacklog = 0
  MaxFrames = 0
SPECIFICATION Spec
INVARIANT PresentInBitmask
CHECK_DEADLOCK FALSE
