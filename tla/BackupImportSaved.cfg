SPECIFICATION BackupSpec
CONSTANTS
  Leftovers = {{}, {"wal", "shm"}}
  MaxLooks = 1
INVARIANTS
  SavedTranscriptIsKept
CHECK_DEADLOCK FALSE
