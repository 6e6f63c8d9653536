CONSTANTS
  f1 = f1
  f2 = f2
  Files = {f1, f2}
  N <- MCN
  Width = 2
  Permits = 1
  MaxBuffered = 2
  Readers = {r1, r2}
  BlockCount = 3
  CacheSize = 2
  MaxReads <- MCMaxReads
  r1 = r1
  r2 = r2
  CanPanic = TRUE
  Threads = {"t1", "t2", "t3"}
  Handles = {"h1"}
  Served = {"open", "create", "read", "write", "release", "freeUp"}
  MaxRequests = 3
SPECIFICATION ReadSpec
INVARIANTS DownloadIsSound CacheIsSound
PROPERTIES ReadsEnd EveryRequestAnswered
CHECK_DEADLOCK FALSE
