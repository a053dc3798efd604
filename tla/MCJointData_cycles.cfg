SPECIFICATION JFairSpec
CONSTANTS
  Ifaces <- MCIfaces
  NumJoints = 3
  IfaceOf <- MCIfaceOf
  Tuned <- MCTuned
  Values <- MCValues
  Limits <- MCLimits
  MaxTime = 2
  MaxScaled = 0
INVARIANTS
  JTypeOK
  StampIsConservative
PROPERTIES
  StampNeverGoesBack
  UpdatesAreAtomic
  UpdateApplied
