SPECIFICATION FairSpec
CONSTANTS
  Workers = {w1, w2}
  MaxRequests = 1
  FileFds = {"file"}
  StreamFds = {}
  BadFds = {}
  PipeCapacity = 2
  MaxEvents = 2
  CallbacksMayThrow = FALSE
PROPERTY
  CloseReturns
CHECK_DEADLOCK FALSE
