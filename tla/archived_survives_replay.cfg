SPECIFICATION DirSpec
CONSTANTS
  r1 = r1
  c1 = c1
  v1 = v1
  v2 = v2
  Nobody = Nobody
  Resumer = {}
  Command = {c1}
  Replayer = {v1}
  Process = {c1, v1}
  StoryId = {"s"}
  Candidate <- Submissions
  MaxLog = 2
  MaxFiles = 3
INVARIANTS
  ArchivedSurvivesReplay
CHECK_DEADLOCK FALSE
