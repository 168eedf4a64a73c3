SPECIFICATION Spec
CONSTANTS
  ShmObjects = {p, q}
  FileObjects = {f}
  Sizes = {1, 2}
  FileLength = 1
  MaxInt = 3
  MaxSegments = 2
  Addresses = {a1, a2}
  NULL = NULL
  Processes = {p1, p2, p3}
  InitialValue = 1
  WithoutStdin = {p3}
  MaxSemaphores = 2
  Sessions = {s1}
  Dirs = {r, d1, d2}
  Root = r
  Names = {"a", "b"}
  MaxDepth = 2
  MaxChanges = 3
  MaxFailures = 1
  QueueLimit = 2
  Users = {u1, u2}
  MaxSniffers = 3
  Callers = {k1, k2}
  People = {"root", "me"}
  Me = "me"
  Entries = 2
  MaxCalls = 1
  Fds = {0, 1}
  MaxFiles = 3
  MaxBuffers = 2
  MaxTransfers = 2
SYMMETRY Symmetry
INVARIANTS
  CopiesInsideMapping
  MappingBacked
  HandlesOwned
  PermitsConserved
  FileLocksExclude
  EveryDirectoryWatched
  ReportsTruePath
  SniffersAccounted
  OthersUnharmed
  RecvOnOpenSniffer
  ListsCounted
  ListedInOrder
  UserAsAsked
  BuffersOutliveRequests
  RequestsKeepTheirFile
CHECK_DEADLOCK FALSE
