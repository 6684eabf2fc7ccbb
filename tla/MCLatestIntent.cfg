SPECIFICATION Spec
CONSTANTS
  Ids = {c1}
  NoId = NoId
  MaxPosts = 2
  RetryTicks = 1
  ClaimTicks = 1
  MaxCommands = 2
  Faults = {}
INVARIANTS
  LatestIntentWins
CHECK_DEADLOCK FALSE
