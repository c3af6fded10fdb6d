SPECIFICATION PatientSpec
CONSTANTS
  a = a
  b = b
  c = c
  Story = {a, b}
  NoStory = NoStory
  Deps <- BAfterA
  Children <- NoSplit
  MaxRetriesBeforeEscalation = 0
  MaxSeniorRetries = 0
  MaxManagerAttempts = 0
  MaxConcurrentAgents = 1
  MergeMode = "auto"
  ManagerWired = FALSE
  PlannerWired = FALSE
  DeleteDanglingBranches = TRUE
  SLAAutoEscalate = FALSE
  Commands = {}
  FailCap = 1
  MaxCrashes = 2
INVARIANTS
  DependenciesFirst
PROPERTIES
  StalledIsPickedUp
CHECK_DEADLOCK FALSE
