SPECIFICATION FairSpec
CONSTANTS
  k1 = k1
  k2 = k2
  Key = {k1, k2}
  None = None
  MaxUpdate = 3
  Contents <- Mixed
  Permits = 2
  MaxEnds = 1
CONSTRAINT
  RequestToDeletion
INVARIANTS
  LiveRequestReachable
  NothingForgotten
PROPERTIES
  DeletionReachesRequest
  LogSpec
  EveryUpdateEnds
