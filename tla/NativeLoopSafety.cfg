SPECIFICATION Spec
CONSTANTS
  Workers = {w1, w2}
  MaxRequests = 4
  FileFds = {"file"}
  StreamFds = {"pipe", "socket"}
  BadFds = {"bad"}
  PipeCapacity = 2
  MaxEvents = 2
  CallbacksMayThrow = FALSE
SYMMETRY WorkerSymmetry
INVARIANTS
  SingleOwner
  NoLostCompletion
  CallbackExactlyOnce
  AllocationsCounted
  FileRequestsNotLeaked
  LostOnlyIfReplaced
CHECK_DEADLOCK FALSE
