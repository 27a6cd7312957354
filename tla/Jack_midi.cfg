SPECIFICATION JackSpec
CONSTANTS
  Failures <- NoFailure
  Addresses <- TwoAddresses
INVARIANTS MidiLive
CHECK_DEADLOCK FALSE
