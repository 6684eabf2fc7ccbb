SPECIFICATION Spec
CONSTANTS
  MaxInstance = 2
  MaxTask = 3
  MaxFd = 2
  MaxIntents = 3
  KillSwitch = {TRUE, FALSE}
  Modes = {"xray", "zeptun"}
  Events = {"START", "STOP", "SWITCH", "REVOKE", "FAILED", "LOST", "EXPIRED"}
INVARIANTS
  XrayHasOpenTun
CHECK_DEADLOCK FALSE
