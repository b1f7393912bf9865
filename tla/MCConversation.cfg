SPECIFICATION Spec
CONSTANTS
  None = None
  Corrupt = Corrupt
  Body = "body"
  f = f
  g = g
  Fps <- MCFps
  Coarse <- MCCoarse
  Similarity <- MCSimilarity
  PathOrder <- MCPathOrder
  LedgerExpiry = 1
  Window = 0
  MaxEvents = 5
  MaxJobs = 2
INVARIANTS
  TypeOK
  LedgerIsTrue
  SuppressedForCause
  LinesAreUses
  IssuesTraceToTheLog
PROPERTIES
  KeepsWhatItRead
SYMMETRY QuoteSymmetry
CONSTRAINT OneComment TwoTicks FewWords
CHECK_DEADLOCK FALSE
