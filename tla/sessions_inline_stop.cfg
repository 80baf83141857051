SPECIFICATION Spec
CONSTANTS
  Sessions = {s1}
  Inline = {s1}
  Polled = {}
  Stoppers = {p1}
  MaxConcurrent = 1
  MaxWork = 0
  MaxRestarts = 0
  MaxFaults = 0
PROPERTY StopIsFinal
