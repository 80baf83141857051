SPECIFICATION Spec
CONSTANTS
  Sessions = {s1, s2}
  Inline = {}
  Polled = {}
  Stoppers = {p1}
  MaxConcurrent = 1
  MaxWork = 0
  MaxRestarts = 0
  MaxFaults = 0
INVARIANTS TypeOK SlotsBalanced
PROPERTIES EventuallySettled StopIsFinal StopReturns
