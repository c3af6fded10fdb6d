SPECIFICATION Spec
CONSTANTS
  a = a
  b = b
  c = c
  Story = {a, b}
  NoStory = NoStory
  Deps <- BAfterA
  Children <- NoSplit
  MaxRetriesBeforeEscalation = 0
  MaxSeniorRetries = 0
  MaxManagerAttempts = 0
  MaxConcurrentAgents = 1
  MergeMode = "auto"
  ManagerWired = TRUE
  PlannerWired = FALSE
  DeleteDanglingBranches = TRUE
  SLAAutoEscalate = FALSE
  Commands = {}
  FailCap = 1
  MaxCrashes = 0
INVARIANTS
  DependenciesFirst
CHECK_DEADLOCK FALSE
