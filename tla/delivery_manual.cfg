SPECIFICATION Spec
CONSTANTS
  a = a
  b = b
  c = c
  Story = {a, b}
  NoStory = NoStory
  Deps <- BAfterA
  Children <- NoSplit
  MaxRetriesBeforeEscalation = 0
  MaxSeniorRetries = 0
  MaxManagerAttempts = 0
  MaxConcurrentAgents = 1
  MergeMode = "manual"
  ManagerWired = FALSE
  PlannerWired = FALSE
  DeleteDanglingBranches = FALSE
  SLAAutoEscalate = FALSE
  Commands = {"pause", "approve", "reject", "retry"}
  FailCap = 1
  MaxCrashes = 0
INVARIANTS
  AwaitingIsMergeable
  TrackedOnce
CHECK_DEADLOCK FALSE
