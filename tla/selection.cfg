SPECIFICATION Spec
CONSTANTS
  MaxItems = 4
  FirstItems = 3
  SampleSize = 3
  Labels <- MCLabels
  MaxWonders = 1
  MaxSwitches = 2
  Distances = {0, 1}
  MaxCycles = 4
  MaxRuns = 4
  MaxLooked = 1
INVARIANTS PairsEven RunVaried
CHECK_DEADLOCK FALSE
