SPECIFICATION SuiteSpec
CONSTANTS
  Parts = {"adapter"}
  None = None
  Backends <- MCBackends
  Versions = {v1, v2}
  Calls = {c1, c2, c3}
  Attempts = 1
  InitialStores <- Full
  Kinds = {"delete", "list"}
  MaxOpen = 2
  MaxFaults = 1
INVARIANTS
  DeletedStaysDisabled
SYMMETRY Symmetric
CHECK_DEADLOCK FALSE
