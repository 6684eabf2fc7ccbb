SPECIFICATION Spec
CONSTANTS
  Unit = 1
  MaxBytes = 40
  MaxItems = 2
  Unsized = {2}
  NoRanges = {}
  TotalBytes = 3
  MAX_CONCURRENT = 1
  MaxJobs = 3
  MaxEnqueues = 2
  MaxActions = 3
  MaxCrashes = 1
  Faults = {"ERROR", "UNSATISFIABLE"}
CONSTRAINT Undisturbed
INVARIANTS
  TypeOK
  PlansTile
  CompletedHasFile
  CompletedIsWhole
  BooksAreRight
  NothingStranded
CHECK_DEADLOCK FALSE
