SPECIFICATION JackSpec
CONSTANTS
  Failures <- AnyFailure
  Addresses <- ThreeAddresses
INVARIANTS CallsLive PortsOnce
CHECK_DEADLOCK FALSE
