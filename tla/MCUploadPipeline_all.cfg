CONSTANTS
  f1 = f1
  f2 = f2
  Files = {f1, f2}
  Expected <- MCExpected
  MaxBlocks <- MCMaxBlocks
  Buffer = 1
  Width = 2
  Permits = 1
  Pausable = {f1}
SPECIFICATION FairSpec
INVARIANTS UploadIsSound
PROPERTIES CommittedStays UploadsEnd
CHECK_DEADLOCK FALSE
