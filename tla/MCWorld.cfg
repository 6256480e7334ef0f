SPECIFICATION Spec
CONSTANTS
  Ladder <- SmallLadder
  Configs <- AllRuns
INVARIANTS
  WorldTypeOK
  OnlyLongMonthsAreRefused
  StampedCaseIsTheHarness
  SummaryIsBackedByInvoices
CHECK_DEADLOCK FALSE
