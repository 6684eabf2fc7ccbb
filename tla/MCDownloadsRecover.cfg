SPECIFICATION Spec
CONSTANTS
  Unit = 1
  MaxBytes = 1
  MaxItems = 2
  Unsized = {}
  NoRanges = {}
  TotalBytes = 1
  MAX_CONCURRENT = 1
  MaxJobs = 3
  MaxEnqueues = 1
  MaxActions = 0
  MaxCrashes = 1
  Faults = {}
CONSTRAINT Undisturbed
INVARIANTS
  DeathIsRecovered
CHECK_DEADLOCK FALSE
