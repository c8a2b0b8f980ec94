SPECIFICATION SuiteSpec
CONSTANTS
  Parts = {"adapter", "direct", "client", "shared"}
  None = None
  Ids = {"i1", "i2"}
  Versions = {"small", "medium", "large"}
  Size <- VersionSize
  RamBudget = 5
  GpuBudget = 3
  StagingBudget = 3
  Requests = {"r1", "r2"}
INVARIANTS
  WithinBudgets
  RunningIsResident
  LatestIsNewest
PROPERTIES
  UploadsAreTrue
CHECK_DEADLOCK FALSE
