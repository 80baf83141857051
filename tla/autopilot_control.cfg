SPECIFICATION Spec
CONSTANTS
  Cycles = {1, 2}
  Callers = {c1, c2}
  OverflowAt = 2
  MaxFaults = 0
  MaxCrashes = 1
  MaxDeletes = 0
  MaxTroubles = 1
INVARIANTS PausedIsIdle
PROPERTIES ImplementsContract PauseIsKept
