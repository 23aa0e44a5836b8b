SPECIFICATION FairSpec
CONSTANTS
  st1 = st1
  st2 = st2
  Streams <- MCStreams
  Window = 1
INVARIANTS
  NoSendUnderWriter
  SendWithinHandler
PROPERTIES
  HandlerReturns
  NoGoroutineLeak
  WriterGetsLock
CHECK_DEADLOCK FALSE
