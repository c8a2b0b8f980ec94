SPECIFICATION SuiteSpec
CONSTANTS
  Parts = {"restart", "faults", "rollout", "train", "backward"}
  None = None
  Adapter = TRUE
  KeepVersions = 1
  QueueLimit = 1
  Batches <- OnlineBatches
  MaxUpdates = 2
  MaxRuns = 2
  MaxVersion = 1
  MaxFaults = 1
INVARIANTS
  VersionNamesOnePolicy
  LearnerIsExact
  RolloutsAreTrue
  RecoveryIsExact
  GradientIsDerivative
CHECK_DEADLOCK FALSE
