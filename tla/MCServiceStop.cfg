SPECIFICATION Spec
CONSTANTS
  MaxInstance = 2
  MaxTask = 3
  MaxFd = 2
  MaxIntents = 3
  KillSwitch = {FALSE}
  Modes = {"xray", "proxy"}
  Events = {"START", "EMPTY", "STOP", "WARM", "REVOKE", "REFUSED", "FAILED", "BUSY", "LOST", "NETWORK"}
INVARIANTS
  TypeOK
  
  EndsAreTold
PROPERTIES
  StartIsAlone
CHECK_DEADLOCK FALSE
