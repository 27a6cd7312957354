SPECIFICATION Spec
CONSTANTS
  Hosts <- BothHosts
  MaxInstruments = 5
  MaxKit = 3
INVARIANTS Parallel OwnChannel
