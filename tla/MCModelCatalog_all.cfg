SPECIFICATION Spec
CONSTANTS
  Caller = {c1, c2}
  NoLock = NoLock
  Life = 2
  MaxNow = 4
  Gets = 4
INVARIANTS
  AnswersNeverGoBack
  StaleServes
PROPERTIES
  RefreshedOncePerLife
CHECK_DEADLOCK FALSE
