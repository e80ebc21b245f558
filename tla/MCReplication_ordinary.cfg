CONSTANTS
  Users <- MCUsers
  Channels <- MCChannels
  Hash <- MCHash
  Preset <- MCPreset
  Registered = {"alice"}
  Joined <- Alice
  Requests <- Ordinary
  MayDisconnect <- Fickle
  MayCrash = {}
  MaxCrashes = 0
  MaxTasks = 3
SPECIFICATION Spec
INVARIANTS
  TypeOK
  ReplicasAgree
  AckedMessagesKept
  ReadsSeeWrites
  RegisteredUsersKnown
  NamesListed
  RegistrationUnique
  MembershipSeen
PROPERTIES
  NothingForgotten
CHECK_DEADLOCK FALSE
