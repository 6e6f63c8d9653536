CONSTANTS
  MaxEdits = 2
  MaxRevisions = 3
  Modes <- MCFileModes
  Entries = {"e1", "e2"}  MaxFiles = 4  MaxKills <- MCMaxKills
  DatabaseModes <- MCDatabaseModes
  Names = {"a", "b"}
  MaxIno = 4  MaxUid = 4  MaxRemote = 1  MaxTries = 2
  First <- MCFirst
  TreeModes <- MCTreeModes
  MaxLocal <- MCMaxLocal
SPECIFICATION MountSpec
INVARIANTS ContentsAreSound TreeIsSound DatabaseIsSound
PROPERTIES UploadsDoNotGoBack DeletesOnlyEmpty
CHECK_DEADLOCK FALSE
