SPECIFICATION FairSpec
CONSTANTS
  MaxInstance = 1
  MaxTask = 3
  MaxFd = 2
  MaxIntents = 4
  KillSwitch = {FALSE}
  Modes = {"xray", "proxy"}
  Events = {"START", "EMPTY", "STOP", "WARM", "REVOKE", "REFUSED", "FAILED", "BUSY", "LOST", "NETWORK"}
INVARIANTS
  ConnectedIsReal
  ReportIsTrue
PROPERTIES
  EndIsReported
CHECK_DEADLOCK FALSE
