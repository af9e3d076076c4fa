CONSTANTS
  g1 = g1
  g2 = g2
  None = None
  Callers <- MCCallers
  TTL = 2
  AcquireMax = 1
  MaxTime = 2
  MaxCookies = 3
  MaxInFlight = 1
  RetryCount = 1
  Budget = TRUE
  MaxCalls = 1
SPECIFICATION FairSpec
INVARIANTS
  TypeOK
  RetryIsFresh
  SlotAccounting
  RequestBudget
PROPERTIES
  GetReturnsValid
  IsCache
  CallsEnd
CHECK_DEADLOCK FALSE
