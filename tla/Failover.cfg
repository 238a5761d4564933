SPECIFICATION FairSpec
CONSTANTS
  Accounts = {a1, a2}
  None = None
  Tools = TRUE
  MaxAttempts = 4
  RetryAfterRetries = 1
  TransientRetries = 2
  MaxPieces = 2
INVARIANT AttemptsBounded
INVARIANT StreamsAreCounted
INVARIANT EveryPickJudged
PROPERTY NoSecondTry
PROPERTY Promise
PROPERTY Terminates
