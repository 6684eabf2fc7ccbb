SPECIFICATION Spec
CONSTANTS
  MaxInstance = 1
  MaxTask = 2
  MaxFd = 1
  MaxIntents = 1
  KillSwitch = {FALSE}
  Modes = {"xray"}
  Events = {"START", "BUSY"}
INVARIANTS
  XrayHasOpenTun
CHECK_DEADLOCK FALSE
