SPECIFICATION Spec
CONSTANTS
  Blocks = 2
  MaxCount = 2
  Faults = {"flip request"}
INVARIANTS
  ServedAsAsked
CHECK_DEADLOCK FALSE
