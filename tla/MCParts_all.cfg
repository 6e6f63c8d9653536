CONSTANTS
  Threads = {t1, t2, t3}
  Handles = {h1, h2}
  Requests <- Kinds
  MaxRequests = 3
  CacheModes <- MCCacheModes  Folders <- MCFolders  Viewer <- MCViewer
  Programs <- MCPrograms  Thumbnailers <- MCThumbnailers  ConfigFiles <- MCConfigFiles
  Opens = {"o1", "o2"}  Uploads = {"u1"}  Blocks = 2  MaxOpens = 2  MaxCancels = 1
  Daemons = {"d1", "d2"}  Lines = {"u1", "u2"}  MaxOps = 4
  Addresses = {1, 2}  DriveFiles = {1}  Capacity = 3
  Fetched = {1, 2}  BlockPermits = 1  Delays = {0, 3}
  PageSize = 2  MaxEvents = 3  MaxShares = 1
  Nodes = {1, 2, 3, 4, 5}  BatchSize = 3
  Procs = {"p", "live"}  Live = "live"  Texts = {"s", "t"}
  MaxFaults = 1
  Terminals = {"t1", "t2"}
  Tags = {"s", "t"}  Values = {"a", "b"}
  Accounts = {"u", "v"}  KeyIds = {1, 2}  MaxSessions = 2  MaxEnds = 1
SPECIFICATION PartSpec
INVARIANTS LocksAreSound OpensAreSound SessionIsSound AnswersAreSound JobsAreSound
CHECK_DEADLOCK FALSE
