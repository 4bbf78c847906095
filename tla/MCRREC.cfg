SPECIFICATION Spec
CONSTANTS
  RREC_Timer = 2
  RREC_Timeout = 4
  RREC_RearmTimer = 6
  RREC_MAX_TripCnt = 2
  InitialCount <- Leftovers
  MaxTimers = 3
INVARIANTS
  ShotsLimited
  LocksAfterShots
PROPERTIES
  ReadyAgain
