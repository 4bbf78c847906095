SPECIFICATION Spec
CONSTANTS
  Phases = 2
  Hold = 1
  MinOpTm = 2
  MaxNet = 2
  WithPTOC = {"none"}
INVARIANTS
  TypeOK
  PublishedTogether
PROPERTIES
  OperateTimes
  FaultTrips
  BothTripsEnd
