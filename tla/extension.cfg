SPECIFICATION FairSpec
CONSTANTS
  Requests = {r1, r2}
  None = none
  Limit = 1
  CrashLimit = 2
  MaxSessions = 2
  MaxDeaths = 1
  MaxPresses = 1
INVARIANTS
  EndsOnce
  CancelSticks
  NoStaleWorker

  
CHECK_DEADLOCK FALSE
