SPECIFICATION FairSpec
CONSTANTS
  Accounts = {a1, a2}
  Models = {m1, m2}
  Syncers = {t1, t2}
  UrlModels = {m1}
  MaxSyncs = 2
  MaxRestarts = 1
INVARIANT ExclusionJustified
INVARIANT SavedIsServed
PROPERTY NeverOlder
PROPERTY SyncEnds
\* No thread starts another refresh after MaxSyncs.
CHECK_DEADLOCK FALSE
