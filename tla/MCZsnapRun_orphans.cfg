SPECIFICATION Spec
CONSTANTS
  r1 = r1
  r2 = r2
  p1 = p1
  p2 = p2
  d1 = d1
  d2 = d2
  a = a
  b = b
  Runs <- MCRuns
  Pools = {p1}
  Datasets = {d1}
  Classes <- MCOneClass
  DatasetOf <- MCOneDatasetOf
  PoolOf <- MCOnePool
  Keep <- MCKeep
  Window <- MCWindow
  Boundaries <- MCBoundaries
  MaxTime = 6
  MaxRuns = 2
  MaxAdmin = 1
  OrphansSurvive = TRUE
  StartTime = 3
  StartSnaps <- MCOneStart
SYMMETRY Symmetry
CHECK_DEADLOCK FALSE
PROPERTIES
  RetentionFloor
