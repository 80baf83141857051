SPECIFICATION Spec
CONSTANTS
  Agents = {a1, a2}
  MaxRetries = 1
  Deltas = 1
  MaxErrors = 0
  MaxExits = 1
  MaxCancels = 0
  MaxSlow = 0
  MaxTroubles = 1
INVARIANT FailureDegrades
