SPECIFICATION Spec
CONSTANTS
  Webhooks = {w1}
  MaxAttempts = 2
  Settings <- MCSettings
CHECK_DEADLOCK FALSE
INVARIANTS
  FailuresAreReal
