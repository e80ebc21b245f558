CONSTANTS
  Calls = {c1}
  Impatient = {}
  NoCallback = NoCallback
  QueueCap = 1
  WireCap = 6
  MissLimit = 3
  MaxPings = 5
  MaxOthers = 0
  PromptTimers = TRUE
SPECIFICATION FairSpec
PROPERTIES
  CallsComplete
  SilentPeerDetected
CHECK_DEADLOCK FALSE
