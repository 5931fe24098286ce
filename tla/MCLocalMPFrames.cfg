CONSTANTS
  kStart <- Start
  kEnd <- RingEnd
  StartOffsets <- FrameStarts
  Procs = {0, 1}
  Joined = {0}
  Resident = {0}
  MaxInstances = 2
  StaleWindow = 1
  TSMod = 64
  SemMax = 8
  MaxInits = 2
  MaxBegins = 1
  MaxFrames = 2
  Data = {1}
  Lengths = {1, 2}
  FrameTypes = {0}
  Times = {2}
  Hosts = {}
  MaxBacklog = 5
SPECIFICATION FairSpec
INVARIANTS TypeOK OneWakeupPerFrame InstancesPresent
PROPERTIES ImplementsChannel EveryFrameRead
CHECK_DEADLOCK FALSE
