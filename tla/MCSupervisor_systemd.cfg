SPECIFICATION FairSpec
CONSTANTS
  Bot = {b1, b2}
  Drain = 3
  ServerTime = 2
  Policy = "on-failure"
  MaxJobs = 2
  MaxFaults = 3
CHECK_DEADLOCK FALSE
PROPERTY ServiceGoesOn
