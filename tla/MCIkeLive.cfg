SPECIFICATION FairSpec
CONSTANTS
  Ids = {c1}
  NoId = NoId
  MaxPosts = 2
  RetryTicks = 1
  ClaimTicks = 1
  MaxCommands = 1
  Faults = {"REVOKED", "FAILED"}
INVARIANTS
  StateTells
PROPERTIES
  IkeWaitEnds
  GuardSpec
CHECK_DEADLOCK FALSE
