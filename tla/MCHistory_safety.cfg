SPECIFICATION HSpec
CONSTANTS
  can0 = can0
  can1 = can1
  Ifaces <- MCIfaces
  Flaky <- MCFlaky
  Exec = exec
  NumJoints = 1
  MaxErrors = 1
  DampingOnError = TRUE
INVARIANTS
  TypeOK
  OneTransition
  NoUseAfterFree
  WatchdogArmed
  UnconfiguredIsQuiet
  SilenceBounded
  InactiveCommandIsSafe
  ExitDisablesMotors
PROPERTIES
  KeepsPromise
