SPECIFICATION Spec
CONSTANTS
  None = None
  LedgerExpiry = 1
  Body = "body"
  Reviewers = {cite}
  Paths <- MCPaths
  Fps <- MCFps
  Claims <- MCClaims
  Similarity <- MCSimilarity
  PathOrder <- MCPathOrder
  MergeBases = {m1}
  ThreadsPage = 4
  FetchFails = FALSE
  MaxFindings = 2
  MaxRuns = 2
  MaxCommits = 1
INVARIANT UnchangedIsSkipped
CHECK_DEADLOCK FALSE
