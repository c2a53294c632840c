CONSTANTS
  j1 = j1
  j2 = j2
  Free = Free
  Desktop = Desktop
  Jobs = {j1, j2}
  Requests <- ShortRequest
  Total = 1
  Enhancers = 1
  MaxJobs = 1
  MaxServers = 1
SPECIFICATION FairSpec
INVARIANTS
  TableIsTrue
PROPERTIES
  StatusAdvances
  StopEnds
CHECK_DEADLOCK FALSE
