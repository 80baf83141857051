SPECIFICATION StreamSpec
CONSTANTS
  Sessions = {s1}
  Inline = {}
  Polled = {}
  Stoppers = {p1, p2}
  MaxConcurrent = 1
  MaxWork = 0
  MaxRestarts = 1
  MaxFaults = 1
INVARIANTS OpenIsOwned StoppedIsQuiet Delivered
PROPERTIES OnlyStopRewinds
SYMMETRY Symmetry
CONSTRAINT OneTrouble
