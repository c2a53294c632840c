SPECIFICATION Spec
CONSTANTS
  p1 = p1 p2 = p2 c1 = c1 c2 = c2 s1 = s1 s2 = s2
  Paths = {p1, p2}
  Contents = {c1, c2}
  None = None
  Scans = {s1, s2}
  ListLimit = 1
  MaxScans = 2
  MaxJobs = 3
  MaxChanges = 1
  Leftovers = {{}, {"wal", "shm"}}
  MaxLooks = 1
SYMMETRY Interchangeable
INVARIANTS
  ScanQueuesOnce
  OldArchiveSurvives
  ImportIsOneArchive
CHECK_DEADLOCK FALSE
