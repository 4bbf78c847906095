SPECIFICATION Spec
CONSTANTS
  Channel = {a, b}
  Level = {low, high}
  OperateTime <- Curve
  MinOpTmms = 2
  MaxOpTmms = 6
  RsDlTmms = 3
  Unit = 6
  Deltas = {1, 2}
  FirstDeltas = {0, 1, 9}
  InitialProgress <- Leftovers
  InitialTimers <- Leftovers
  Stuck <- Hopeless
  low = low
  high = high
INVARIANTS
  TripsInTime
  TripIsEarned
PROPERTIES
  TripEnds
