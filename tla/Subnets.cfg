SPECIFICATION FairSpec
CONSTANTS
  node1 = node1
  node2 = node2
  subnet1 = subnet1
  Names = {node1, node2}
  Subnets = {subnet1}
  NoSubnet = NoSubnet
INVARIANTS
  NoRefusedTx
  TypeOK
  ValidatorsTrack
  ReadyIsReachable
PROPERTIES
  StopCompletes
CHECK_DEADLOCK FALSE
