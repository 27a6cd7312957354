SPECIFICATION FairSpec
CONSTANTS
  Threads <- TwoThreads
  MaxMessages = 5
INVARIANTS NoDangling
PROPERTIES InOrder GetsPrinted Ends
CHECK_DEADLOCK FALSE
