CONSTANTS
  Users <- MCUsers
  Channels <- MCChannels
  Conns = {"c1", "c2"}
  Https = {"h"}
  Commands <- ChatCommands
  MaxCommands <- ChatBudget
  Registered = {"alice"}
  NoUser = "none"
SPECIFICATION Spec
INVARIANTS
  TypeOK
  MembershipAgrees
  CutUserLeaves
  PagingMissesNothing
CHECK_DEADLOCK FALSE
