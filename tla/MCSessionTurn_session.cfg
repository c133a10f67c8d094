SPECIFICATION FairSpec
CONSTANTS
  Composer = {a, b}
  Connector = {}
  Mentions = {b}
  Fanouts = {f}
  Monitors = {e}
  Hint = hint
  None = none
  Slots = {x, y}
  MaxAttempts = 2
  MaxContinues = 0
  MaxRetries = 0
  MaxDismissals = 0
  MaxStops = 1
INVARIANTS TypeOK OneTurn PhaseAgrees
PROPERTIES ResultsKept NoAttemptAfterStop ComposerHeard EventsHeard
CHECK_DEADLOCK FALSE
