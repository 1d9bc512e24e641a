SPECIFICATION FairSpec
CONSTANTS
  Changes <- MCChanges
  Recipes <- MCRecipes
  RunLevels = {"StepByStep", "SignOff"}
  Start <- MCStart
  SquashCount = 2
  Theirs <- MCTheirs
  MaxTroubles = 2
  MaxEdits = 1
  MaxAnswers = 3
  MaxCrashes = 1
INVARIANTS
  TypeOK
  
  
PROPERTIES
  AskedFirst
  
  NeverStuck
CHECK_DEADLOCK FALSE
