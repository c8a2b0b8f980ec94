SPECIFICATION SuiteSpec
CONSTANTS
  Parts = {"launcher", "pinned", "infer", "mutations"}
  None = None
  Cards = {n1, n2}
  Pin = {}
  Calls = {c1, c2}
  Signal = signal
INVARIANTS
  GpuExclusive
  ShownIsReal
PROPERTIES
  EveryoneEnds
CHECK_DEADLOCK FALSE
