SPECIFICATION Spec
CONSTANTS
  Ids = {c1}
  NoId = NoId
  h1 = h1
  h2 = h2
  Handlers = {h1, h2}
  MaxGeneration = 2
  MaxBroadcasts = 1
  MaxSwitches = 1
SYMMETRY HandlerSymmetry
INVARIANTS
  TypeOK
  PendingIsWatched
  IntentHolds
  NoEarlyTimeout
CHECK_DEADLOCK FALSE
