SPECIFICATION Spec
CONSTANTS
  WindowSize = 2
  Blocks = 2
  BufferSize = 2
  LastLen = 1
  Capacity = 2
  Unordered = FALSE
  ErrorsUnbounded = TRUE
  ErrorBudget = 0
  MaxCount = 1
INVARIANTS
  CopyIdentical
