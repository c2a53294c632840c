CONSTANTS
  j1 = j1
  j2 = j2
  Free = Free
  Companion = Companion
  Jobs = {j1, j2}
  Requests <- FullRequest
  Total = 1
  Enhancers = 1
SPECIFICATION FairSpec
INVARIANTS
  GateAndRegistryAgree
  AnnouncedIsTrue
PROPERTIES
  StartedJobEnds
CHECK_DEADLOCK FALSE
