SPECIFICATION Spec
CONSTANTS
  Switch = {cb}
  Breaker = {cb}
  Thread = {t1, t2, t3}
INVARIANTS
  TypeOK
  OneMover
  IntermediateIffMoving
PROPERTIES
  IsMechanicalSwitch
  TripOpens
  CommandsEnd
CHECK_DEADLOCK FALSE
