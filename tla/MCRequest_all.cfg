SPECIFICATION LiveSpec
CONSTANTS
  Request = {r1, r2}
  Modes = {"chat", "guest"}
  Commands = {"new", "transcribe"}
  Plans = {"assistant", "vision", "refuse", "media", "artifact"}
  Failing = {"store", "provider", "telegram"}
  Limit = 3
  Parts = 1
INVARIANTS
  ProviderIsWatched
  QuestionAskedOnce
  AnswerBehindQuestion
PROPERTIES
  
  ResultIsFinal
  RequestEnds
CHECK_DEADLOCK FALSE
