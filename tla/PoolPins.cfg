SPECIFICATION Spec
CONSTANTS
  Requests = {r1}
  Admins = {t1}
  Sessions = {s1}
  Tokens = {k1, k2}
  NoToken = NoToken
  NoSession = NoSession
  Session <- FirstSession
  Forced <- NobodyForced
  ToolRequests = {}
  Caps = {0}
  Workload = {"remove", "unpin", "flush", "restart"}
  StoreErrors = FALSE
  MaxId = 2
  MaxGen = 2
  r1 = r1
  s1 = s1
SYMMETRY Interchangeable
INVARIANT PinsAgree
