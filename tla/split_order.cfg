SPECIFICATION Spec
CONSTANTS
  sa = sa
  sb = sb
  k1 = k1
  k2 = k2
  shared = shared
  Integration = integrate
  Scribe = scribe
  Appended = {integrate}
  RawPlans <- Plans
  SplitIds = {k1, k2}
  FilesOf <- Files
  RePlanIds = {sa, k1, k2}
  RawEdges <- Edges
  WaveCap = 0
  MaxRuns = 2
  MaxSplits = 1
  TierLimit <- Limits
  StaticRole = {0, 2}
  History <- Outcomes
  MinSamples = 2
  MaxEvents = 9
  GateReqs = {r1}
  MaxCycles = 1
  MaxResumes = 2
  DbStories <- DbStoryIds
  LowerCase <- InLower
  DbReqs = {"r1", "r2", "r3"}
  ReqOf <- DbReqOf
  DbSettings <- DbInstances
  LastPort = 1
  MaxDbRuns = 2
  MaxDatabases = 2
  MaxAttempts = 2
  MaxRounds = 2
  MaxMoves = 1
  Conflicts <- ConflictSets
  WithTechLead = TRUE
  Experiments = {1, 2}
  Diffs <- SomeDiffs
  Parallel = 2
  Gates = {"auto", "winning", "pr"}
  Routes = {"cli", "api", "google", "codex"}
  MaxRetries = 1
  QuotaLimit = 1
  MaxUSDPerReq = 1
  MaxCharges = 2
  ImproveFindings = {"f1"}
  MaxPRsPerRun = 1
  MaxTries = 2
  Shells = {"s1"}
  MaxScans = 2
  MaxCommands = 1
  LinesPerRun = 1
  DiscoveryEvery = 2
  ActiveBidding = TRUE
  SecStories = {"t1"}
  Defects <- WorktreeDefects
  Baseline = {"CWE-798"}
  Dashboards = {1, 2}
  Reqs = {1, 2}
  ReqProject <- SameProject
  MaxToken = 2
  NoDash = 0
  Tabs = {"tab"}
  MaxTier = 1
  LogBound = 3
SYMMETRY Alike
INVARIANT SplitKeepsOrder
CHECK_DEADLOCK FALSE
