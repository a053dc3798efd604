SPECIFICATION HSpec
CONSTANTS
  NumJoints = 2
  CanId <- MCCanId
  Invert <- MCInvert
  NamedIn <- MCNamedIn
  Limits <- MCLimits
  Others <- MCOthers
  Efforts <- MCEfforts
  Initial <- MCInitial
  SetZero = TRUE
  Controllers <- MCControllers
  Claims <- MCClaims
  MaxUnread = 2
  MaxForeign = 1
INVARIANTS
  HTypeOK
  DestroyedMeansOff
  Alternates
  ModeIsClaimed
  StoppedEffortIsZero
  DirectionKept
CHECK_DEADLOCK FALSE
