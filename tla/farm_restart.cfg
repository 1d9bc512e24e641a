SPECIFICATION Spec
CONSTANTS
  Tasks <- OneTask
  NoTask = 0
  DependsOn <- OneDependsOn
  Parent <- OneParent
  Priority <- OnePriority
  Overlap = {}
  Agents = {"claude", "codex"}
  NoAgent = nobody
  Route <- OneRoute
  MaxParallel = 1
  MaxAttempts = 2
  People = {p}
  Nobody = free
  MaxRuns = 3
  MaxCommits = 3
  MaxCommands = 2
  MaxRestarts = 1
  Commands = {"start"}
  Faults = {"branch", "worktree", "spawn"}
  Exits = {"ok", "handback", "failed"}
  Landings = {"red", "conflict", "failed"}
  Results = {"pass", "fail"}
  Levels = {"Yolo"}
  CheckLists = {"v1"}
  Resolvers = {"agent"}
  MayMerge = TRUE
  InitStatus <- OneReady
INVARIANTS
  EvidenceIsTrue
PROPERTIES
  DoneByLanding
CHECK_DEADLOCK FALSE
