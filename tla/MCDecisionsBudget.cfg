SPECIFICATION Spec
CONSTANTS
  None = None
  Names = {"f", "g"}
  MinQuote = 2
  MaxSpan = 2
  Around = 1
  Paths <- MCPaths
  MaxFindings = 2
  MaxFileLines = 5
  Nits = FALSE
  BlockingSet = {"crash", "concurrency"}
  HeadPaths = {"p"}
  HeadSymbols = {"f"}
  Verifies = TRUE
  MeansOf <- MCMeansOf
  Others <- MCOthers
  Related <- MCRelated
  Comments = FALSE
  Shell = FALSE
  Changes <- MCChanges
  Reviews <- MCReviews
  MinCommentBudget = 1
  MaxCommentBudget = 3
  LinesPerComment = 1
  MaxConfiguredComments = 4
  MaxPerFile = 2
  NotableInBody = 1
  Runs <- MCRuns
  Found <- MCFound
  Carried <- MCCarried
  MaxFound = 3
  Files <- MCFiles
  MaxFiles = 3
  Commands <- MCCommands
  FileAt <- MCFileAt
  Categories <- MCCategories
  MaxCommentsCap = 20
  Numbers <- MCNumbers
  ReviewTimeoutBase = 2
  AssumedGenerationRate = 4
  DefaultReviewTimeout = 8
  DefaultReviewMaxOutputTokens = 32
  DefaultTimeout = 8
  DefaultReviewConcurrency = 2
CHECK_DEADLOCK FALSE
INVARIANT BudgetIsKept
