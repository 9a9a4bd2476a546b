SPECIFICATION Spec
CONSTANTS
  Forks = 2
  MaxMsgNo = 3
  DropLists <- AnyDropLists
  FlipLists <- AnyFlipLists
INVARIANTS
  IInv
  ExactlyListedDropped
  SeedsDiffer
  EnvironmentWins
CHECK_DEADLOCK FALSE
