SPECIFICATION FairSpec
CONSTANTS
  Workers = {w1, w2}
  MaxRequests = 3
  FileFds = {"file"}
  StreamFds = {"pipe", "socket"}
  BadFds = {"bad"}
  PipeCapacity = 2
  MaxEvents = 2
  CallbacksMayThrow = FALSE
CHECK_DEADLOCK FALSE
PROPERTIES
  FileRequestServed
  CloseReturnsUnlessRaced
