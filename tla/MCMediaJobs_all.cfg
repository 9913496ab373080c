SPECIFICATION FairSpec
CONSTANTS
  Call = {c1, c2}
  c1 = c1
  c2 = c2
  NoModel = NoModel
  Endpoint <- MCEndpoint
  Published <- MCPublished
  Configured <- MCConfigured
  Asks <- MCAsks
  Timeout = 2
  Interval = 0
  LongestRetry = 3
  Latency = 1
  MaxParts = 2
INVARIANTS
  EndsNearTimeout
  LooksBeforeGivingUp
  OrdersLackOnlyTheUnsaid
PROPERTIES
  CallsEnd
  PaidWorkSpec
CHECK_DEADLOCK FALSE
