CONSTANTS
  MaxEdits = 2
  MaxRevisions = 3
  Modes = {{"concurrent"}}
SPECIFICATION Spec
PROPERTIES FreesOnlyStored
CHECK_DEADLOCK FALSE
