SPECIFICATION Spec
CONSTANTS
  mu = mu
  brk = brk
  amp = amp
  vol = vol
  cbr = cbr
  Ied = {mu, brk}
  Conns <- MuAndBreaker
  IedOf <- Ends
  Actuators = {cbr}
  Rounds = 2
INVARIANTS
  InStep
  FreshPositions
PROPERTIES
  SamplesNotOlder
  RoundsGoOn
  PublisherFollows
CHECK_DEADLOCK FALSE
