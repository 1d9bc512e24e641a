SPECIFICATION FairSpec
CONSTANTS
  None = None
  r1 = r1
  Repos = {r1}
  Calls <- Threads
  Length <- Histories
  Batch = 2
  FirstWindow = 1
  NextWindow = 2
  Prefetch = 1
  Endless = FALSE
  MaxMoves = 3
  MaxTokens = 4
  MaxRows = 2
CHECK_DEADLOCK FALSE
INVARIANTS LatestStands NothingLeftRunning ShownIsOneWalk
 
