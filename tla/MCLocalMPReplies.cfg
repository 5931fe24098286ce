CONSTANTS
  kStart <- ReplyStart
  kEnd <- ReplyEnd
  StartOffsets <- ReplyStarts
  Procs = {0, 1}
  Joined = {}
  Resident = {}
  MaxInstances = 2
  StaleWindow = 1
  TSMod = 64
  SemMax = 8
  MaxInits = 1
  MaxBegins = 1
  Times = {2, 4, 6}
  Data = {1}
  Lengths = {0, 2}
  FrameTypes = {}
  Hosts = {0}
  MaxBacklog = 5
  MaxFrames = 3
SPECIFICATION Spec
INVARIANT RepliesAnswerCmd
CHECK_DEADLOCK FALSE
