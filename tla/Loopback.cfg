SPECIFICATION FairSpec
CONSTANTS
  WindowSize = 3
  Blocks = 5
  BufferSize = 2
  LastLen = 1
  Capacity = 3
  Unordered = FALSE
  ErrorsUnbounded = TRUE
  ErrorBudget = 0
  MaxCount = 1
INVARIANTS
  OrderInv
  UnackedHeld
  AsksForMissing
  GapsAskedForOnce
  SREJAnswered
PROPERTIES
  NeverSlidesBack
  BothExit
