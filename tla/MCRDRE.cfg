SPECIFICATION RDRE_Spec
CONSTANTS
  RDRE_MAX_SAMPLES = 3
  MaxSample = 5
  MaxTrips = 2
INVARIANTS
  FileInOrder
PROPERTIES
  ReceiverGoesOn
  RecordingEnds
