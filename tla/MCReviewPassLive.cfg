SPECIFICATION FairSpec
CONSTANTS
  f1 = f1
  f2 = f2
  Files = {f1, f2}
  Classes = {"reviewable"}
  BatchSize = 2
  Concurrency = 2
  Cutoff = 1
  RetryBucket = 1
  ParseBudget = 1
  DeadlineBudget = 1
  RunawayBudget = 0
  MaxClaims = 1
  ToolsMode = FALSE
  EffortPinned = FALSE
  MayCancel = TRUE
CHECK_DEADLOCK FALSE
INVARIANTS
  GivenUpOnlyWhenSpent
  CallsAccounted
PROPERTIES
  KeepsPromise
  Terminates
