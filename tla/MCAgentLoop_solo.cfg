SPECIFICATION Spec
CONSTANTS
  Root = root
  Children = {}
  MaxIterations = 4
  MaxToolCalls = 3
  MaxTokens = 9
  TokensCeiling = 9
  ExtraIterations = 1
  ExtraTokens = 2
  TurnTokens = {0}
  MaxBatch = 2
  MaxVerifications = 1
  KeepRecent = 1
  HookGate = FALSE
  Watchdog = TRUE
  AutoCompact = TRUE
  MaxGoals = 1
  MaxContinues = 0
  MaxSends = 1
INVARIANTS
  TypeOK
  PromptWellFormed
PROPERTIES
  NoEffectAfterAbort
  AnswerReflectsWork
CHECK_DEADLOCK FALSE
