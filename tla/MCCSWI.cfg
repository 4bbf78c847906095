SPECIFICATION Spec
CONSTANTS
  Ctl = {c1}
  MaxWait = 4
INVARIANTS
  PulseStands
  CounterStartsAtZero
  FailureTakesPulsesBack
PROPERTIES
  ControlsEnd
