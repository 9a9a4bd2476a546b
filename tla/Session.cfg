SPECIFICATION FairSpec
CONSTANTS
  Blocks = 2
  MaxCount = 2
  Faults = {"drop", "flip request", "flip answer", "no host", "no fork"}
INVARIANTS
  IInv
  TypeOK
  StartsClean
  CopyIntact
  NoZombieLeft
PROPERTIES
  KeepsPromise
  PeerKept
  SessionEnds
CHECK_DEADLOCK FALSE
