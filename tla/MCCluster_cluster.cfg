CONSTANTS
  Servers = {1, 2, 3}
  Config <- ByName
  Priority <- Shuffled
  Attempts = 2
  MayFail = {2, 3}
  MaxFailures = 1
  MaxRestarts = 1
SPECIFICATION FairSpec
INVARIANTS
  TypeOK
  OnlyReturnPoisons
  LeaderFollows
PROPERTIES
  ClusterForms
  SurvivorsAgree
CHECK_DEADLOCK FALSE
