CONSTANTS
  Names = {"a"}
  MaxClock = 2
  MaxChanges = 3
  MaxSyncFaults = 0
SPECIFICATION SyncSpec
INVARIANTS OverwrittenIsPreserved
CHECK_DEADLOCK FALSE
