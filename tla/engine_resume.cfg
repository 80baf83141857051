SPECIFICATION Spec
CONSTANTS
  Pairs = {p1, p2, p3}
  Remote = {p2, p3}
  Budgets <- MCBudgets
  Synthesizer = TRUE
  Reviewer = TRUE
  MaxRetries = 1
  MaxCrashes = 1
  MaxErrors = 1
INVARIANTS PairOnce BudgetsKept CallsBounded WondersEarned FinalsComplete FailsForCause
CHECK_DEADLOCK FALSE
