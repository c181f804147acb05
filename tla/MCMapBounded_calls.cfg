SPECIFICATION FairSpec
CONSTANTS
  N = 4
  MaxThreads = 3
  PanicAborts <- MCBothBuilds
CHECK_DEADLOCK FALSE
INVARIANTS
  InputOrder
  ExactlyOnce
  NoneLeftRunning
PROPERTIES
  ImplementsMapOnce
  Returns
