CONSTANTS
  Users <- MCUsers
  Channels <- MCChannels
  Hash <- MCHash
  Preset <- MCPreset
  Registered <- MCUsers
  Joined <- Both
  Requests <- BackupCrash
  MayDisconnect <- Leaver
  MayCrash = {"B"}
  MaxCrashes = 1
  MaxTasks = 4
SPECIFICATION FairSpec
PROPERTIES
  RequestsAnswered
  ImplementsChat
CHECK_DEADLOCK FALSE
