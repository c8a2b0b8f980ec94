SPECIFICATION SuiteSpec
CONSTANTS
  Parts = {"router", "resume", "calls", "replies"}
  None = None
  Requests = {"req1", "req2"}
  Loads = {"load1", "load2", "load3", "load4"}
  Models = {"modelA", "modelB"}
  Wanted <- LoadWanted
  Broken = {"modelB"}
INVARIANTS
  LeasePinsModel
  ModelIsConsistent
  StateHasOneOwner
PROPERTIES
  ControlReachesOwner
  EveryCallEnds
CHECK_DEADLOCK FALSE
