SPECIFICATION Spec
CONSTANTS
  Names = {"node1", "node2"}
  Started = {"node1"}
  Ports = {1, 2}
  MaxClock = 5
  None = None
  DefaultPort <- MCDefaultPort
  Busy <- MCBusy
  StartRequests <- MCStartRequests
  Requests <- MCRequests
  OldSnapshots <- MCOldSnapshots
INVARIANTS
  DirsInRoot
PROPERTIES
  ImplementsSettings
CHECK_DEADLOCK FALSE
