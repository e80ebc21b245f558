CONSTANTS
  Users <- MCUsers
  Channels <- MCChannels
  Hash <- MCHash
  Preset <- MCPreset
  Registered <- MCUsers
  Joined = {}
  Requests <- NewChannelSend
  MayDisconnect = {}
  MayCrash = {}
  MaxCrashes = 0
  MaxTasks = 5
SPECIFICATION Spec
INVARIANTS
  ReplicaHasChannel
CHECK_DEADLOCK FALSE
