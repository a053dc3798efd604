SPECIFICATION ESpec
CONSTANTS
  NumJoints = 2
  V3 = {1}
  ErrorFrames = TRUE
  MaxTrials = 2
  MaxErrSkips = 2
  MaxInbox = 2
  MaxLate = 1
INVARIANT
  SuccessIsFresh
