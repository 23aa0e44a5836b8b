SPECIFICATION ClientFairSpec
CONSTANTS
  st1 = st1
  Streams <- MCStreams
  Cli = st1
  Window = 2
PROPERTIES
  StreamCommandEnds
  StreamReleased
  CommandYieldsLock
CHECK_DEADLOCK FALSE
