CONSTANTS
  Calls = {c1, c2}
  Impatient = {c1, c2}
  NoCallback = NoCallback
  QueueCap = 1
  WireCap = 1
  MissLimit = 3
  MaxPings = 5
  MaxOthers = 0
  PromptTimers = TRUE
SPECIFICATION FairSpec
PROPERTIES
  SilentPeerDetected
CHECK_DEADLOCK FALSE
