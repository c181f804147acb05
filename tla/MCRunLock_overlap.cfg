SPECIFICATION Spec
CONSTANTS
  p1 = p1
  p2 = p2
  timer = timer
  i1 = i1
  i2 = i2
  i3 = i3
  Procs <- MCTwoProcs
  ServiceProcs <- MCServiceProcs
  Inodes <- MCTwoInodes
  None = None
  DirRemoved = TRUE
INVARIANTS
  MutualExclusion
