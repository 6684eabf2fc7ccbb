SPECIFICATION Spec
CONSTANTS
  Ids = {c1}
  NoId = NoId
  MaxPosts = 3
  RetryTicks = 1
  ClaimTicks = 1
  MaxCommands = 2
  Faults = {"FAILED", "NO_SERVICE", "NO_LIBRARY", "NO_PROFILE"}
INVARIANTS
  TypeOK
  NoOrphanTunnel
  StateTells
  FailureIsHeard
  WaitIsWatched
  DisconnectWins
CHECK_DEADLOCK FALSE
