SPECIFICATION OSpec
CONSTANTS
  can0 = can0
  can1 = can1
  Ifaces <- MCIfaces
  Flaky <- MCFlaky
  Exec = exec
  NumJoints = 1
  MaxErrors = 1
  DampingOnError = TRUE
CHECK_DEADLOCK FALSE
INVARIANTS
  OTypeOK
  ControlExcludesCycles
  CalibratesOnlyInactive
  EveryInterfaceServed
