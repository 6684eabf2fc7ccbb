SPECIFICATION FairSpec
CONSTANTS
  Ids = {c1}
  NoId = NoId
  h1 = h1
  h2 = h2
  Handlers = {h1}
  MaxGeneration = 2
  MaxBroadcasts = 1
  MaxSwitches = 1
PROPERTIES
  WaitEnds
CHECK_DEADLOCK FALSE
