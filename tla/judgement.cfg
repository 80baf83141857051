SPECIFICATION Spec
CONSTANTS
  Pairs <- MCPairs
  Seeds <- MCSeeds
  Texts <- MCTexts
  Reviews <- MCReviews
  Evaluations <- FewEvaluations
  Budgets = {1, 2, 3}
  Requests = {x1, x2}
SYMMETRY Symmetry
CONSTRAINT Followed
INVARIANTS Grounded GuardsHold
PROPERTIES KnowledgeEarned KnowledgeStable
CHECK_DEADLOCK FALSE
