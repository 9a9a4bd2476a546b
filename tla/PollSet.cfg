SPECIFICATION Spec
CONSTANTS
  POLL_SET_SIZE = 2
  LastFd = 7
INVARIANTS
  PollInv
  TypeOK
  AddedPolled
  AnswerRight
