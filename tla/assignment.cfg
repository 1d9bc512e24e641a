SPECIFICATION FairSpec
CONSTANTS
  Jobs = {"review", "merge"}
  UnitCount = 2
  FirstLevels = {"Suggest", "StepByStep", "SignOff", "Unattended"}
  Highest = "Unattended"
  Configured = TRUE
  MayLand = TRUE
  Controls = {"pause", "resume", "stop", "level", "continue", "redo", "askWhy", "accept", "dismiss", "own", "moved", "carryOn"}
  MaxPresses = 3
  MaxCrashes = 1
  Trouble = {"error", "dirty", "limit"}
INVARIANTS
  TypeOK
  
  LandsOnce
  FinishedWasAnswered
PROPERTIES
  WaitingIsThePersons
  PersonsWordStands
  StopEnds
CHECK_DEADLOCK FALSE
