SPECIFICATION FairSpec
CONSTANTS
  can0 = can0
  can1 = can1
  Ifaces <- MCOneIface
  Flaky <- MCOneIface
  Exec = exec
  NumJoints = 1
  MaxErrors = 2
  DampingOnError = TRUE
PROPERTIES
  CleanupTerminates
  SilenceLeavesActive
  BadBusLeavesActive
  BadBusUnconfigures
  InterruptEndsProcess
