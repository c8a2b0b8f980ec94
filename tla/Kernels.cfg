SPECIFICATION SuiteSpec
CONSTANTS
  Parts = {"load", "dispatch", "forward", "linear", "norm", "reduce", "w8", "pipe", "tile"}
  None = None
  Callers = {"big", "small", "empty"}
  Batch <- AdmissionBatch
  Capacities <- AdmissionCapacities
  QueryFails = TRUE
  MaxTurns = 2
INVARIANTS
  WeightsAreWhole
  KernelsFit
  ComputesTheModel
PROPERTIES
  CallsStoreTheNorm
  EveryLaunchEnds
CHECK_DEADLOCK FALSE
