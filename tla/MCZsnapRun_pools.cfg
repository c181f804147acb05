SPECIFICATION FairSpec
CONSTANTS
  r1 = r1
  r2 = r2
  p1 = p1
  p2 = p2
  d1 = d1
  d2 = d2
  a = a
  b = b
  Runs <- MCRuns
  Pools = {p1, p2}
  Datasets = {d1, d2}
  Classes <- MCClasses
  DatasetOf <- MCDatasetOf
  PoolOf <- MCTwoPools
  Keep <- MCKeep
  Window <- MCWindow
  Boundaries <- MCBoundaries
  MaxTime = 4
  MaxRuns = 2
  MaxAdmin = 1
  OrphansSurvive = FALSE
  StartTime = 3
  StartSnaps <- MCTwoStart
CHECK_DEADLOCK FALSE
INVARIANTS
  OnePerPeriod
  CacheTruthful
  SuccessMeansFresh
PROPERTIES
  LockReleased
