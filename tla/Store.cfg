SPECIFICATION FairSpec
CONSTANTS
  Requests = {r1, r2}
  Admins = {t1, t2}
  Nobody = Nobody
  None = None
  Legacy = Legacy
  LegacyIds = {}
  Workload = {"free", "prune", "read", "stats"}
  SpaceErrors = FALSE
  ReaderErrors = FALSE
  ReaderStart = "open"
  MaxRows = 2
  EmergencyRows = 1
  MaxCalls = 1
  MaxRestarts = 1
INVARIANT BodiesBelong
INVARIANT PageOfOneRequest
INVARIANT StatsFresh
PROPERTY EveryCallEnds
CHECK_DEADLOCK FALSE
