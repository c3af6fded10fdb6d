SPECIFICATION FairSpec
CONSTANTS
  a = a
  b = b
  c = c
  Story = {a, b, c}
  NoStory = NoStory
  Deps <- Unrelated
  Children <- SplitOfA
  MaxRetriesBeforeEscalation = 0
  MaxSeniorRetries = 0
  MaxManagerAttempts = 0
  MaxConcurrentAgents = 1
  MergeMode = "pr_only"
  ManagerWired = TRUE
  PlannerWired = TRUE
  DeleteDanglingBranches = TRUE
  SLAAutoEscalate = TRUE
  Commands = {}
  FailCap = 1
  MaxCrashes = 0
INVARIANTS
  VerdictCoversAllStories
PROPERTIES
  RunTerminates
  KeepsPromise
CHECK_DEADLOCK FALSE
