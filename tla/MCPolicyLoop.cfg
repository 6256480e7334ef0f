SPECIFICATION PolicySpec
CONSTANTS
  Rules <- WorstAndCareless
INVARIANTS
  DecisionIsClosedForm
  AlwaysAWayOut
  MoreRulesPermitLess
CHECK_DEADLOCK FALSE
