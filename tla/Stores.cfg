SPECIFICATION SuiteSpec
CONSTANTS
  Parts = {"cache", "state", "prefix", "prefill", "single"}
  None = None
  Turns = {"turn1", "turn2", "turn3", "pause"}
  Keys = {"keyA", "keyB", "plainA", "plainB"}
  KeyOf <- TurnKey
  Fresh = {"pause"}
  Sessions = {"A", "B"}
  SessionOf <- KeySession
  Plain = {"plainA", "plainB"}
  Deletes = {"del"}
  DeleteOf <- DeletedSession
  L1Capacity = 1
  L2Capacity = 1
  MaxStops = 1
  DiskFails = FALSE
  MaxCrashes = 1
INVARIANTS
  CacheConsistent
  StateIsItsHistory
PROPERTIES
  LookupsAreTrue
  ImplementsStore
CHECK_DEADLOCK FALSE
