SPECIFICATION WatcherSpec
CONSTANTS
  Sessions = {s1}
  Dirs = {r, d1}
  Root = r
  Names = {"a"}
  MaxDepth = 1
  MaxChanges = 2
  MaxFailures = 1
  QueueLimit = 2
INVARIANT StopAllStopsThreads
CHECK_DEADLOCK FALSE
