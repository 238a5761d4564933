SPECIFICATION Spec
CONSTANTS
  Requests = {r1}
  Admins = {t1}
  Sessions = {s1}
  Tokens = {k1, k2}
  NoToken = NoToken
  NoSession = NoSession
  Session <- OneSession
  Forced <- FirstForced
  ToolRequests = {r1}
  Caps = {0}
  Workload = {"patch", "probe", "remove", "add", "unpin", "flush", "restart"}
  StoreErrors = TRUE
  MaxId = 2
  MaxGen = 1
  r1 = r1
  s1 = s1
SYMMETRY Interchangeable
INVARIANT TypeOK
PROPERTY IdentityStable
