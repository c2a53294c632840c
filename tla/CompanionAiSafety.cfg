\* The job store across failed saves, stops, crashes and a restart: two jobs,
\* two requests that compete for their UUIDs, one provider.
CONSTANTS
  j1 = j1
  j2 = j2
  r1 = r1
  r2 = r2
  b1 = b1
  b2 = b2
  None = None
  Ids = {j1, j2}
  Requests = {r1, r2}
  Bindings = {b1}
  MaxUnacknowledged = 2
  MaxRecords = 2
  MaxGeneration = 1
  MaxSessions = 2
SPECIFICATION Spec
SYMMETRY Symmetry
INVARIANTS
  ShownResultIsKept
  ReportedOutcomeIsDurable
PROPERTIES
  TombstoneIsFinal
  LedgerSpec
CHECK_DEADLOCK FALSE
