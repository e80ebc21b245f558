CONSTANTS
  Calls <- Forwarded
  Back <- AskBack
  QueueCap = 1
  WireCap = 1
  MaxPings = 3
SPECIFICATION FairSpec
INVARIANTS
  TypeOK
PROPERTIES
  OnlyGridlockBlocks
  GridlockStays
CHECK_DEADLOCK FALSE
