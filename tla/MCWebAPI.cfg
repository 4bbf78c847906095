SPECIFICATION Spec
CONSTANTS
  Commands = {c1, bad}
  Bad = {bad}
  MaxStarts = 2
INVARIANTS
  OneWorker
  InOrder
PROPERTIES
  StopIsAnswered
  PostsAnswered
CHECK_DEADLOCK FALSE
