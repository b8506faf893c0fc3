SPECIFICATION FairSpec
CONSTANTS
  BootFiles = 2
  MaxKeys = 3
  MaxPosts = 2
INVARIANTS TypeOK HandoverOK
PROPERTIES HandoverSpec AcceptedRuns ResetDetaches SwitchesToIde
CHECK_DEADLOCK FALSE
