SPECIFICATION FairSpec
CONSTANTS
  Max = 2
  Writers <- EngineThreads
  Pushes = 2
  Pops = 5
INVARIANTS NeverAhead
PROPERTIES Genuine CatchesUp
CHECK_DEADLOCK FALSE
