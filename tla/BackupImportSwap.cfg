SPECIFICATION BackupSpec
CONSTANTS
  Leftovers = {{}, {"wal", "shm"}}
  MaxLooks = 1
INVARIANTS
  FailedSwapRestores
CHECK_DEADLOCK FALSE
