SPECIFICATION Spec
CONSTANTS
  TaskCount = 2
  Mergers = {m}
  Nobody = free
  Main = main
  Other = other
  LaneTries = 2
  Stops = {"conflict", "red", "git"}
  Moves = {"rewind", "switch"}
  MaxMoves = 2
  MaxCrashes = 1
INVARIANTS
  LandsWhatWasChecked
  LedgerTellsTruth
PROPERTIES
  NothingLost
  Promised
CHECK_DEADLOCK FALSE
