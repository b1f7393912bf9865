SPECIFICATION Spec
CONSTANTS
  Endpoints <- MCEndpoints
  IdLists <- MCIdLists
  RefLists <- MCRefLists
  Providers <- MCProviders
  RequestCap = 3
  LegCap = 2
  Bucket = 2
  Afters = {0, 7, 90}
  ToolsMode = TRUE
INVARIANTS
  TypeOK
  CredentialFollowsEndpoint
  NotGivenUpEarly
  OverflowHadTheFullBudget
  SpendBounded
  WaitsAreBounded
PROPERTY IsABoundedCall
CHECK_DEADLOCK FALSE
