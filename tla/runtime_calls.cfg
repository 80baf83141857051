SPECIFICATION Spec
CONSTANTS
  Agents = {a1, a2}
  MaxRetries = 1
  Deltas = 2
  MaxErrors = 1
  MaxExits = 1
  MaxCancels = 1
  MaxSlow = 1
  MaxTroubles = 1
INVARIANTS ReaderSurvives TurnsMinded TurnsAccounted SessionsClosed
PROPERTIES CallsEnd
