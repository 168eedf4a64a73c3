SPECIFICATION Spec
CONSTANTS
  Workers = {w1, w2}
  MaxRequests = 3
  FileFds = {"file"}
  StreamFds = {"pipe"}
  BadFds = {"bad"}
  PipeCapacity = 2
  MaxEvents = 2
  CallbacksMayThrow = TRUE
PROPERTY
  ImplementsAsyncEngine
CHECK_DEADLOCK FALSE
