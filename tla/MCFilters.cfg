SPECIFICATION FSpec
CONSTANTS
  Samples <- MCSamples
  MaxSize = 4
INVARIANTS
  FTypeOK
  MedianOfWindow
  SumIsExact
  WindowIsRecent
