CONSTANTS
  Users <- MCUsers
  Channels <- MCChannels
  Hash <- MCHash
  Preset <- MCPreset
  Registered = {}
  Joined = {}
  Requests <- OneUser
  MayDisconnect = {}
  MayCrash = {"B"}
  MaxCrashes = 1
  MaxTasks = 5
SPECIFICATION FairSpec
PROPERTIES
  RequestsAnswered
CHECK_DEADLOCK FALSE
