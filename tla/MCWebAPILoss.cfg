SPECIFICATION Spec
CONSTANTS
  Commands = {c1, c2}
  Bad = {}
  MaxStarts = 2
INVARIANT
  NothingLost
CHECK_DEADLOCK FALSE
