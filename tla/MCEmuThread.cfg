CONSTANTS
  MaxStack = 2
  MaxDialogs = 1
  MaxInner = 1
SPECIFICATION EthSpec
INVARIANTS EthTypeOK NoFrameInPause ContextHandedOver
PROPERTIES SpinsEnd StopIsObeyed
CHECK_DEADLOCK FALSE
