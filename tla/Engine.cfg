SPECIFICATION SuiteSpec
CONSTANTS
  Parts = {"admission", "text", "draw", "rounding"}
  None = None
  Callers = {"big", "small", "empty"}
  Batch <- AdmissionBatch
  Capacities <- AdmissionCapacities
  QueryFails = TRUE
  MaxTurns = 2
INVARIANTS
  ReservedIsHeld
  TextIsTheOutput
  DrawIsProportional
PROPERTIES
  AdmittedInTurn
  EveryoneServed
CHECK_DEADLOCK FALSE
