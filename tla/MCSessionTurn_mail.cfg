SPECIFICATION Spec
CONSTANTS
  Composer = {a, b}
  Connector = {c}
  Mentions = {b}
  Fanouts = {}
  Monitors = {}
  Hint = hint
  None = none
  Slots = {x, y}
  MaxAttempts = 2
  MaxContinues = 1
  MaxRetries = 1
  MaxDismissals = 1
  MaxStops = 1
INVARIANTS OneHome
PROPERTIES MailboxSpec
CHECK_DEADLOCK FALSE
