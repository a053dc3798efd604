SPECIFICATION JSpec
CONSTANTS
  Ifaces <- MCIfaces
  NumJoints = 3
  IfaceOf <- MCIfaceOf
  Tuned <- MCTuned
  Values <- MCValues
  Limits <- MCLimits
  MaxTime = 2
  MaxScaled = 2
INVARIANTS
  StaleValueIsLastSample
