SPECIFICATION Spec
CONSTANTS
  Requests = {r1, r2}
  Admins = {t1, t2}
  Sessions = {}
  Tokens = {k1}
  NoToken = NoToken
  NoSession = NoSession
  Session <- NoSessions
  Forced <- NobodyForced
  ToolRequests = {}
  Caps = {0, 1}
  Workload = {"patch", "remove", "add"}
  StoreErrors = FALSE
  MaxId = 2
  MaxGen = 1
  r1 = r1
  s1 = NoSession
SYMMETRY Interchangeable
INVARIANT InFlightCovers
INVARIANT PoolMirrorsRows
PROPERTY UnderCap
