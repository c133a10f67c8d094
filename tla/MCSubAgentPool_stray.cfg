SPECIFICATION Spec
CONSTANTS
  f1 = f1
  f2 = f2
  la = la
  lb = lb
  lc = lc
  None = None
  Fanouts <- OneFanout
  Batch <- Pair
  MaxConcurrency = 1
  MaxTurns = 2
  MaxStops = 0
INVARIANT
  NothingAfterStopAll
CHECK_DEADLOCK FALSE
