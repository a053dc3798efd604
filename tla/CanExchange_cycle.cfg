SPECIFICATION EFairSpec
CONSTANTS
  NumJoints = 2
  V3 = {1}
  ErrorFrames = TRUE
  MaxTrials = 2
  MaxErrSkips = 2
  MaxInbox = 2
  MaxLate = 1
INVARIANTS
  ETypeOK
  StatusIsHonest
  NoHiddenBacklog
  CyclesWaitShortly
PROPERTIES
  ConfiguredMeansEnabled
  CycleEnds
  ControlEnds
