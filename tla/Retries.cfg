SPECIFICATION FairTimedSpec
CONSTANTS
  WindowSize = 3
  Blocks = 5
  BufferSize = 2
  LastLen = 1
  Capacity = 6
  Unordered = FALSE
  ErrorsUnbounded = FALSE
  ErrorBudget = 10
  MaxCount = 9
  Patience = 10
INVARIANTS
  TimedInv
  LossCounted
  GivesUpOnlyAfterErrors
  ServerOutlivesRcopy
PROPERTIES
  EnoughRetries
