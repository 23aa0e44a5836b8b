SPECIFICATION FairSpec
CONSTANTS
  n1 = n1
  n2 = n2
  s1 = s1
  w1 = w1
  w2 = w2
  Gone = Gone
  NoInfo = NoInfo
  NoErr = NoErr
  NoSnapshot = NoSnapshot
  Names = {n1}
  Subnets <- MCSubnets
  Waiters <- MCWaiters
  MaxNetworks = 2
INVARIANTS
  TypeOK
  HealthMatchesNetwork
  DeliveredErrorIsCurrent
  InfoStaleOnlyAfterError
PROPERTIES
  WaitReturns
CHECK_DEADLOCK FALSE
