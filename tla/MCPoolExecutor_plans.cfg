SPECIFICATION HookedSpec
CONSTANTS
  d1 = d1
  d2 = d2
  d3 = d3
  Datasets = {d1, d2, d3}
  Works <- MCWorks
  SnapshotBatchSize = 2
  PruneBatchSize = 2
  Timeouts = {0, 1, 2}
CHECK_DEADLOCK FALSE
INVARIANTS
  WellFormedCommands
  SuccessIsComplete
  PostFollowsPre
PROPERTIES
  KeepsPromise
  OneProcessAtATime
  Terminates
