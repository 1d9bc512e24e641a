SPECIFICATION Spec
CONSTANTS
  Tasks <- FourTasks
  NoTask = 0
  DependsOn <- FourDependsOn
  Parent <- FourParent
  Priority <- FourPriority
  Overlap <- FourOverlap
  Agents = {"claude"}
  NoAgent = nobody
  Route <- FourRoute
  MaxParallel = 2
  MaxAttempts = 1
  People = {p}
  Nobody = free
  MaxRuns = 3
  MaxCommits = 1
  MaxCommands = 3
  MaxRestarts = 0
  Commands = {"start", "merge", "cancel"}
  Faults = {}
  Exits = {"ok", "failed"}
  Landings = {}
  Results = {"none"}
  Levels = {"Assisted"}
  CheckLists = {"v1"}
  Resolvers = {"ask"}
  MayMerge = FALSE
  InitStatus <- FourReady
INVARIANTS
  LeasesDisjoint
  DependenciesFirst
  ContainerFollows
CHECK_DEADLOCK FALSE
