SPECIFICATION FairSpec
CONSTANTS
  Webhooks = {w1, w2}
  MaxAttempts = 3
  Settings <- MCSettings
CHECK_DEADLOCK FALSE
INVARIANTS
  OnlyLostIsRepeated
  NoFalseSuccess
  ZfsResultKept
PROPERTIES
  Exits
