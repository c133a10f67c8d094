SPECIFICATION FairSpec
CONSTANTS
  main = main
  c1 = c1
  c2 = c2
  nobody = nobody
  Agents <- MCAgents
  Principal = main
  Nobody = nobody
  ProbeLadder <- MCProbeLadder
  KnownResetLadder <- MCKnownResetLadder
  BalanceLadder <- MCBalanceLadder
  MaxWait = 4
  BalanceMaxWait = 3
  Resets = {1, 3}
  ShortRetryLimit = 2
INVARIANTS
  NoOrphan
  OneProbeInFlight
  TimerCovers
  StoppedIsQuiet
PROPERTIES
  EpisodeEnds
