SPECIFICATION FairSpec
CONSTANTS
  Root = root
  Children = {c1}
  MaxIterations = 3
  MaxToolCalls = 2
  MaxTokens = 9
  TokensCeiling = 9
  ExtraIterations = 1
  ExtraTokens = 2
  TurnTokens = {0}
  MaxBatch = 1
  MaxVerifications = 1
  KeepRecent = 1
  HookGate = FALSE
  Watchdog = TRUE
  AutoCompact = FALSE
  MaxGoals = 1
  MaxContinues = 0
  MaxSends = 0
PROPERTIES
  AbortCeases
  RunsEnd
CHECK_DEADLOCK FALSE
