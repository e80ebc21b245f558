CONSTANTS
  Users <- MCUsers
  Channels <- MCChannels
  Hash <- MCHash
  Preset <- MCPreset
  Registered = {"alice"}
  Joined <- Alice
  Requests <- OneCrash
  MayDisconnect = {}
  MayCrash = {"A", "B", "C"}
  MaxCrashes = 1
  MaxTasks = 4
SPECIFICATION Spec
INVARIANTS
  AckedMessagesKept
  ReadsSeeWrites
  RegisteredUsersKnown
  NamesListed
  RegistrationUnique
  MembershipSeen
CHECK_DEADLOCK FALSE
