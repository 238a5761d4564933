SPECIFICATION FairSpec
CONSTANTS
  Requests = {r1}
  Admins = {t1, t2}
  Nobody = Nobody
  None = None
  Legacy = Legacy
  LegacyIds = {}
  Workload = {"free", "log", "prune"}
  SpaceErrors = FALSE
  ReaderErrors = FALSE
  ReaderStart = "open"
  MaxRows = 2
  EmergencyRows = 1
  MaxCalls = 2
  MaxRestarts = 1
PROPERTY EveryCallEnds
CHECK_DEADLOCK FALSE
