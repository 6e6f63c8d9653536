CONSTANTS
  Inodes = {f1, d1}
  Folders = {d1}
  Deferred = {}
  MaxId = 3
  BatchLimit = 2
  UploadWidth = 2
  RetryLimit = 1
SPECIFICATION FairSpec
INVARIANTS AttemptsAreSound LoadedIsCurrent PassOrder OneUploadPerFile
PROPERTIES AppliedStaysApplied QueueSettles
CHECK_DEADLOCK FALSE
