SPECIFICATION Spec
CONSTANTS
  Tasks <- OneTask
  NoTask = 0
  DependsOn <- OneDependsOn
  Parent <- OneParent
  Priority <- OnePriority
  Overlap = {}
  Agents = {"claude", "codex"}
  NoAgent = nobody
  Route <- OneRoute
  MaxParallel = 1
  MaxAttempts = 2
  People = {p, q}
  Nobody = free
  MaxRuns = 2
  MaxCommits = 2
  MaxCommands = 2
  MaxRestarts = 0
  Commands = {"start", "ready", "verify", "run", "review", "merge", "merged", "merger", "configure", "cancel", "retry", "assign", "pause"}
  Faults = {"spawn"}
  Exits = {"ok", "failed"}
  Landings = {"red", "conflict", "failed"}
  Results = {"pass", "fail"}
  Levels = {"Yolo"}
  CheckLists = {"v1", "v2"}
  Resolvers = {"agent"}
  MayMerge = TRUE
  InitStatus <- OneReady
INVARIANTS
  TypeOK
  NothingIsLeaked
  AutoLandIsEarned
  OneVerification
PROPERTIES
  DoneByLanding
  TerminalLeavesOnlyByRetry
SYMMETRY PeopleSymmetry
CHECK_DEADLOCK FALSE
