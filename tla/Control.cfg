SPECIFICATION ControlFairSpec
CONSTANTS
  call1 = call1
  call2 = call2
  Calls <- MCCalls
  Uses <- MCUses
INVARIANTS
  NoBlockedSender
PROPERTIES
  AnswersAtMostOnce
  CommandReturns
  RunReturns
  ShutdownReleases
CHECK_DEADLOCK FALSE
