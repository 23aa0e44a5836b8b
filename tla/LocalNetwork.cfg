SPECIFICATION FairSpec
CONSTANTS
  ida = ida
  idb = idb
  idc = idc
  p1 = p1
  p2 = p2
  p3 = p3
  k1 = k1
  NoName = NoName
  NoID = NoID
  NoPort = NoPort
  Absent = Absent
  MaxName = 2
  IDs <- MCIDs2
  Ports <- MCPorts2
  NetworkConfigs <- MCNetworkConfigs
  Pids <- MCPids3
  Configs <- MCConfigs
  Reassign = FALSE
  Checkers = {k1}
INVARIANTS
  TypeOK
  NoOrphans
  StoppedIsDead
  HealthyIsHonest
PROPERTIES
  LoadedNodesKnowBeacons
  PausedNodesKept
  StopCompletes
CHECK_DEADLOCK FALSE
