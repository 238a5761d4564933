SPECIFICATION Spec
CONSTANTS
  NoLogin = NoLogin
  NoToken = NoToken
  Workers = {w1, c1, c2}
  Removers = {w1}
  Calls = {c1, c2}
  Logins = {l1}
  Tokens = {k1}
  Tabs = {t1}
  ByCookie = {t1}
  MaxSubs = 1
  MaxChanges = 1
  MaxSaid = 2
INVARIANT NoLostWakeup
INVARIANT OneAccountPerLogin
PROPERTY ShownInTheEnd
PROPERTY StaleCloses
\* Nothing has to happen once every tab is closed.
CHECK_DEADLOCK FALSE
