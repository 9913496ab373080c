CONSTANTS
  Life = 2
  MaxItem = 3
  MaxTotal = 4
  MaxUsize = 4
  MaxNow = 3
  MaxLinks = 3
SPECIFICATION MediaSpec
INVARIANTS GoneForNeed PartsAreExact
