SPECIFICATION LiveSpec
CONSTANTS
  NONE = NONE
  Thread = {w1, w2, w3, boot}
  Blocking = {w1, w2, w3}
  MutexUser = {w1, w2, w3}
  ResourceUser = {w1, w2, boot}
INVARIANTS TypeOK OwnersHold MutexHandoff
PROPERTIES MutexIsLock ResourceIsLock MutexPassedOn ResourceTaken
