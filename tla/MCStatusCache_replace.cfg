SPECIFICATION CacheSpec
CONSTANTS
  Procs = {p1, p2, p3}
  MaxVersion = 2
  None = None
  Names <- MCNames
  Components = {"tank", "a", "b", "rust"}
  Fields <- MCFields
  DefaultPolicy <- MCDefault
  ValidValues <- MCValidValues
  Configurations <- MCConfigurations
  Inventories = {}
  SnapshotKinds = {"hourly", "daily"}
  Preferred <- MCPreferred
  Period <- MCPeriod
  Holdings <- MCHoldings
  Capacities = {0, 60}
  MaxTime = 1
  MaxChanges = 1
SYMMETRY Symmetry
INVARIANTS
  AlwaysReadable
  NeverBehind
  ShowsCurrent
  NoLitter
  TornListingAccepted
  CountsTrue
