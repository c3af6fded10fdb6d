SPECIFICATION Spec
CONSTANTS
  a = a
  b = b
  c = c
  Story = {a, b}
  NoStory = NoStory
  Deps <- Unrelated
  Children <- NoSplit
  MaxRetriesBeforeEscalation = 1
  MaxSeniorRetries = 0
  MaxManagerAttempts = 0
  MaxConcurrentAgents = 2
  MergeMode = "auto"
  ManagerWired = FALSE
  PlannerWired = FALSE
  DeleteDanglingBranches = TRUE
  SLAAutoEscalate = FALSE
  Commands = {}
  FailCap = 1
  MaxCrashes = 1
INVARIANTS
  TypeOK
  MergeExclusive
  WorkerIsolation
  TrackedOnce
PROPERTIES
  MergedIsFinal
  KeepsPromise
CHECK_DEADLOCK FALSE
