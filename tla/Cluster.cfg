SPECIFICATION SuiteSpec
CONSTANTS
  Parts = {"adapter", "state", "scheduler"}
  None = None
  Backends <- MCBackends
  Versions = {v1, v2}
  Calls = {c1, c2, c3}
  Attempts = 1
  InitialStores <- Full
  Kinds = {"upload", "delete"}
  MaxOpen = 2
  MaxFaults = 1
INVARIANTS
  MutationIsExclusive
  PlacementsAreTrue
PROPERTIES
  LoadIsShared
SYMMETRY Symmetric
CHECK_DEADLOCK FALSE
