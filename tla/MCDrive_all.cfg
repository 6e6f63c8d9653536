CONSTANTS
  Nodes = {"a", "b", "c"}
  Names = {"x", "y"}
  Links0 <- MCLinks
  Tasks = {t1, t2}
  MaxOps = 2
  MaxOthers = 1
  Modes <- MCModes
  Callers = {"a"}
  Emails = {"x", "y"}
  Members0 = {"x"}
  MaxShares = 2
  MaxCalls = 2
  Pictures = {1, 2, 3, 4}
  Homes0 <- MCHomes
  Related0 <- MCRelated
  MaxAdded = 2
  Place0 <- MCPlace
  ContentOf <- MCContentOf
  Live0 <- MCLive
  Folders = {"root", "f"}
  Pages = 2
  Runs = {u1, u2}  Batch = 1  PageSize = 2  MaxFaults = 1
  MaxSent = 3
  MaxLogins = 2
SYMMETRY Symmetry
SPECIFICATION DriveSpec
INVARIANTS NodesAreSound SharingIsSound PhotosAreKept DesktopIsSound
PROPERTIES MovesKeepNames NobodyIsDropped
CHECK_DEADLOCK FALSE
