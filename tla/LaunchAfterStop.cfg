SPECIFICATION Spec
CONSTANTS
  ida = ida
  idb = idb
  idc = idc
  p1 = p1
  p2 = p2
  p3 = p3
  k1 = k1
  NoName = NoName
  NoID = NoID
  NoPort = NoPort
  Absent = Absent
  MaxName = 3
  IDs <- MCIDs
  Ports <- MCPorts
  NetworkConfigs <- MCNetworkConfigs
  Pids <- MCPids3
  Configs <- MCConfigs
  Reassign = FALSE
  Checkers = {}
SYMMETRY PidSymmetry
PROPERTIES
  NoLaunchAfterStop
CHECK_DEADLOCK FALSE
