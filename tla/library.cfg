SPECIFICATION Spec
CONSTANTS
  Callers = {c1, c2}
  Contents = {x1, x2}
  Actions = {"save", "wrong", "interesting"}
  MaxRequests = 4
  MaxWonders = 3
  MaxFaults = 1
  None = None
SYMMETRY Symmetry
INVARIANT DuplicatesBounded
INVARIANT FeedbackKept
INVARIANT StatusFollowsFeedback
INVARIANT Lineage
INVARIANT FailsForCause
