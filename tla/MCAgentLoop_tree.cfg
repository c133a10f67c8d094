SPECIFICATION Spec
CONSTANTS
  Root = root
  Children = {c1, c2}
  MaxIterations = 3
  MaxToolCalls = 2
  MaxTokens = 2
  TokensCeiling = 3
  ExtraIterations = 1
  ExtraTokens = 2
  TurnTokens = {1}
  MaxBatch = 1
  MaxVerifications = 0
  KeepRecent = 1
  HookGate = TRUE
  Watchdog = FALSE
  AutoCompact = FALSE
  MaxGoals = 2
  MaxContinues = 1
  MaxSends = 0
SYMMETRY Permutes
VIEW BudgetView
INVARIANTS
  BudgetRespected
  TokenOvershootBounded
  LiveConsumptionCounted
CHECK_DEADLOCK FALSE
