SPECIFICATION LiveSpec
CONSTANTS
  f1 = f1
  f2 = f2
  la = la
  lb = lb
  lc = lc
  None = None
  Fanouts <- TwoFanouts
  Batch <- SharedLabel
  MaxConcurrency = 2
  MaxTurns = 2
  MaxStops = 1
INVARIANTS
  StoppedTreeStaysDown
  NoGhosts
PROPERTIES
  ChannelKept
  EveryFanoutReturns
CHECK_DEADLOCK FALSE
