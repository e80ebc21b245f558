CONSTANTS
  Calls = {c1, c2}
  Impatient = {c1, c2}
  NoCallback = NoCallback
  QueueCap = 1
  WireCap = 1
  MissLimit = 2
  MaxPings = 2
  MaxOthers = 1
  PromptTimers = FALSE
SPECIFICATION Spec
SYMMETRY Symmetry
INVARIANTS
  TypeOK
  WaitingCallIsReachable
  NoStrandedCallback
  AnswersMatch
  MissesBelowLimit
PROPERTIES
  ImplementsPeerCall
CHECK_DEADLOCK FALSE
