SPECIFICATION Spec
CONSTANTS
  Forks = 2
  MaxMsgNo = 3
  DropLists <- AnyDropLists
  FlipLists <- AnyFlipLists
INVARIANT
  AllStandardPerformed
CHECK_DEADLOCK FALSE
