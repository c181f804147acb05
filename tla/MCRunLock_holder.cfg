SPECIFICATION Spec
CONSTANTS
  p1 = p1
  p2 = p2
  timer = timer
  i1 = i1
  i2 = i2
  i3 = i3
  Procs <- MCProcs
  ServiceProcs <- MCServiceProcs
  Inodes <- MCInodes
  None = None
  DirRemoved = FALSE
INVARIANTS
  ReportedHolds
