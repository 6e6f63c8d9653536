SPECIFICATION CommandsSpec
INVARIANTS ExportsAreSound BackupIsSound
PROPERTIES UserFilesAreKept CommandsEnd
CHECK_DEADLOCK FALSE
