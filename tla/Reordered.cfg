SPECIFICATION Spec
CONSTANTS
  WindowSize = 2
  Blocks = 4
  BufferSize = 2
  LastLen = 1
  Capacity = 2
  Unordered = TRUE
  ErrorsUnbounded = FALSE
  ErrorBudget = 0
  MaxCount = 1
INVARIANTS
  ClosedWindowWaits
