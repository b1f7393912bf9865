SPECIFICATION Spec
CONSTANTS
  f1 = f1
  f2 = f2
  f3 = f3
  Files = {f1, f2, f3}
  Classes = {"deleted", "ignored", "missing", "unchanged", "reviewable"}
  BatchSize = 2
  Concurrency = 2
  Cutoff = 1
  RetryBucket = 0
  ParseBudget = 0
  DeadlineBudget = 0
  RunawayBudget = 1
  MaxClaims = 1
  ToolsMode = TRUE
  EffortPinned = FALSE
  MayCancel = TRUE
SYMMETRY FileSymmetry
CHECK_DEADLOCK FALSE
INVARIANTS
  TypeOK
  SettledOnce
  PassIsCovered
  CallsInFlight
  AnswerIsRecorded
