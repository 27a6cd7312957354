SPECIFICATION FairSpec
CONSTANTS
  N = 5
  FrameMod = 3
  Whats <- OneInstrument
  Lengths <- SomeLengths
  Ops <- EngineOps
  Spare = 1
INVARIANTS ListIntact Sorted AllocationSound
PROPERTIES EveryCallReturns ImplementsQueue
CHECK_DEADLOCK FALSE
