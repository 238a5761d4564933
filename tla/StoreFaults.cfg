SPECIFICATION FairSpec
CONSTANTS
  Requests = {r1}
  Admins = {t1}
  Nobody = Nobody
  None = None
  Legacy = Legacy
  LegacyIds = {1}
  Workload = {"free", "log", "clear", "read", "stats", "restart"}
  SpaceErrors = TRUE
  ReaderErrors = TRUE
  ReaderStart = "untried"
  MaxRows = 1
  EmergencyRows = 1
  MaxCalls = 2
  MaxRestarts = 1
INVARIANT TypeOK
PROPERTY EveryCallEnds
CHECK_DEADLOCK FALSE
