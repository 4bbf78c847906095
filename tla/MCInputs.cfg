SPECIFICATION Spec
CONSTANTS
  g1 = g1
  g2 = g2
  sv = sv
  sv2 = sv2
  Gocb = {g1, g2}
  Svcb = {sv, sv2}
  SD <- Entries
  Dataset <- Names
  APPID <- Ids
  ethAddr <- Addresses
  Elements = 2
  InputLists <- Configurations
  CILOInput <- Gates
  DataOf <- Distinct
  MaxSt <- States
  MaxSq <- Numbers
  MaxNet <- UnderWay
INVARIANTS
  InputsUpToDate
  ReleasesFollowInputs
PROPERTIES
  AlarmsAreEarned
  Settles
