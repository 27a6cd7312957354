SPECIFICATION FairSpec
CONSTANTS
  Callers <- EveryCaller
  MaxRequests = 4
INVARIANTS NoDangling Owned
PROPERTIES Answered Ends
CHECK_DEADLOCK FALSE
