\* Two providers selected and deselected while probes and the tasks of jobs
\* are under way, with the fairness of the runtime.
CONSTANTS
  j1 = j1
  j2 = j2
  r1 = r1
  r2 = r2
  b1 = b1
  b2 = b2
  None = None
  Ids = {j1}
  Requests = {r1}
  Bindings = {b1, b2}
  MaxUnacknowledged = 1
  MaxRecords = 1
  MaxGeneration = 2
  MaxSessions = 2
SPECIFICATION FairSpec
INVARIANTS
  EachJobIsServedOnce
PROPERTIES
  PendingSettles
  StopCloses
CHECK_DEADLOCK FALSE
