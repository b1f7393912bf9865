SPECIFICATION Spec
CONSTANTS
  None = None
  LedgerExpiry = 1
  Body = "body"
  claude = claude
  codex = codex
  Reviewers = {claude, codex}
  Paths <- MCPaths
  Fps <- MCFps
  Claims <- MCClaims
  Similarity <- MCSimilarity
  PathOrder <- MCPathOrder
  MergeBases = {m1}
  ThreadsPage = 4
  FetchFails = FALSE
  MaxFindings = 2
  MaxRuns = 2
  MaxCommits = 2
INVARIANTS TypeOK NoDuplicate ReplayIsQuiet ThreadsAgree
PROPERTIES ResolvedForCause
SYMMETRY ReviewerSymmetry
CONSTRAINT SmallTogether
CHECK_DEADLOCK FALSE
