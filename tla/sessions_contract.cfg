SPECIFICATION Spec
CONSTANTS
  Sessions = {s1, s2}
  Inline = {s1}
  Polled = {s2}
  Stoppers = {}
  MaxConcurrent = 1
  MaxWork = 1
  MaxRestarts = 2
  MaxFaults = 0
INVARIANTS OneRunPerSession
PROPERTIES ImplementsContract
