SPECIFICATION FairSpec
CONSTANTS
  c1 = c1
  c2 = c2
  c3 = c3
  Callers <- MCCallers
  ExitCodes <- MCExitCodes
  NoCode <- MCNoCode
INVARIANTS
  TypeOK
  StopAnswersExitCode
  ClosedOnce
PROPERTIES
  StopTerminates
  ImplementsPromise
CHECK_DEADLOCK FALSE
