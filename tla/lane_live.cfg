SPECIFICATION FairSpec
CONSTANTS
  TaskCount = 2
  Mergers = {}
  Nobody = free
  Main = main
  Other = other
  LaneTries = 2
  Stops = {"conflict", "red", "git"}
  Moves = {"rewind", "switch"}
  MaxMoves = 2
  MaxCrashes = 1
PROPERTY
  LandingEnds
CHECK_DEADLOCK FALSE
