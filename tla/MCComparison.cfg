SPECIFICATION Spec
CONSTANTS
  Populations <- TwoOrThree
  Budgets = {0, 1, 2}
INVARIANTS
  NeverRaises
  ReclaimSpendsBest
  OracleIsTheCeiling
  ScorecardsAgree
CHECK_DEADLOCK FALSE
