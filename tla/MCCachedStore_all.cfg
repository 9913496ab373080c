SPECIFICATION FairSpec
CONSTANTS
  Actor = {a1, a2}
  Entries <- AllEntries
  Limit = 2
  MaxChange = 3
  Miss = Miss
  Nobody = Nobody
  MayDrop = TRUE
INVARIANTS
  ChangesInOrder
  NoLostChange
  CacheIsCurrent
PROPERTIES
  OperationsEnd
