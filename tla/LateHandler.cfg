SPECIFICATION ControlFairSpec
CONSTANTS
  call1 = call1
  call2 = call2
  Calls <- MCCalls
  Uses <- MCUses
INVARIANTS
  NoNetworkAfterSignal
CHECK_DEADLOCK FALSE
