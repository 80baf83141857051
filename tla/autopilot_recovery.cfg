SPECIFICATION Spec
CONSTANTS
  Cycles = {1, 2}
  Callers = {c1}
  OverflowAt = 6
  MaxFaults = 1
  MaxCrashes = 1
  MaxDeletes = 1
  MaxTroubles = 2
INVARIANTS NoExtraCycles PromotedIsLinked CountsNear
PROPERTIES CyclesEnd
