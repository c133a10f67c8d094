SPECIFICATION LiveSpec
CONSTANTS
  x = x
  y = y
  None = None
  Says <- TwoSays
  Activities = 2
  MaxUpdates = 2
INVARIANTS
  SayHasOneHome
  WaiterReady
PROPERTIES
  DaemonsOutliveFailures
  RunnerMovesOn
CHECK_DEADLOCK FALSE
