SPECIFICATION Spec
CONSTANTS
  Numbers <- SomeNumbers
  Payloads <- SomePayloads
  Names <- SomeNames
INVARIANTS
  ReadAsSent
  FlippedAsModelled
  SumsLikeReference
CHECK_DEADLOCK FALSE
