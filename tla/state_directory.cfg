SPECIFICATION DirSpec
CONSTANTS
  r1 = r1
  c1 = c1
  v1 = v1
  v2 = v2
  Nobody = Nobody
  Resumer = {r1}
  Command = {c1}
  Replayer = {v1, v2}
  Process = {r1, c1, v1, v2}
  StoryId = {"s"}
  Candidate <- Submissions
  MaxLog = 2
  MaxFiles = 3
INVARIANTS
  DirTypeOK
  ExclusiveUnlessContended
  NoDoubleProjection
  ProjectedIsLogged
  PartialOnlyIfInterrupted
PROPERTIES
  ReplayRepairs
CHECK_DEADLOCK FALSE
CONSTRAINT ThreeRun
SYMMETRY Replayers
