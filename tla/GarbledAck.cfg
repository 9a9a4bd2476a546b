SPECIFICATION FairSpec
CONSTANTS
  Blocks = 2
  MaxCount = 2
  Faults = {"flip answer"}
PROPERTIES
  NamePhaseEnds
CHECK_DEADLOCK FALSE
