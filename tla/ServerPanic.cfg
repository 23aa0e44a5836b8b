SPECIFICATION Spec
CONSTANTS
  n1 = n1
  n2 = n2
  s1 = s1
  w1 = w1
  w2 = w2
  Gone = Gone
  NoInfo = NoInfo
  NoErr = NoErr
  NoSnapshot = NoSnapshot
  Names <- MCNames
  Subnets <- MCSubnets
  Waiters = {}
  MaxNetworks = 2
INVARIANTS
  AwaitDoesNotPanic
CHECK_DEADLOCK FALSE
