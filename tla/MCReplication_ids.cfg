CONSTANTS
  Users <- MCUsers
  Channels <- MCChannels
  Hash <- MCHash
  Preset <- MCPreset
  Registered <- MCUsers
  Joined <- Both
  Requests <- Takeover
  MayDisconnect = {}
  MayCrash = {"A"}
  MaxCrashes = 1
  MaxTasks = 5
SPECIFICATION Spec
INVARIANTS
  MessageIdsUnique
CHECK_DEADLOCK FALSE
