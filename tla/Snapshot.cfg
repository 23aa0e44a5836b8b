CONSTANTS
  net1 = net1
  snap1 = snap1
  node1 = node1
  node2 = node2
  port1 = port1
  port2 = port2
  subnet1 = subnet1
  Nets <- MCOneNet
  Snapshots <- MCOneSnapshot
  Names <- MCNames
  Ports <- MCPorts
  Subnets <- MCSubnets
  Reassign = TRUE
  Absent = Absent
  Missing = Missing
  Partial = Partial
  NoSnapshot = NoSnapshot
  NoContent = NoContent
SPECIFICATION Spec
INVARIANTS
  
  SavedIsComplete
PROPERTY
  LoadRestores
