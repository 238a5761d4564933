SPECIFICATION FairSpec
CONSTANTS
  Requests = {"p", "c", "s", "w"}
  Keys = {"limited", "free"}
  Transport <- TransportOf
  Key <- KeyOf
  Limit <- LimitOne
  MaxPieces = 1
INVARIANT SlotsExact
INVARIANT ServedUnderLimit
INVARIANT LoggedOnce
INVARIANT Truthful
PROPERTY AllQuiet
