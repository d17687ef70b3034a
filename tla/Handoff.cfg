SPECIFICATION FairSpec
CONSTANTS
  Requests = {r1, r2, r3}
  None = None
  WaitMayExpire = TRUE
  MayRaise = TRUE
CHECK_DEADLOCK FALSE
INVARIANT TypeOK
INVARIANT OkMeansOneEpisode
INVARIANT LostBehindWithdrawn
PROPERTY ServiceImplemented
PROPERTY EveryCallReturns
