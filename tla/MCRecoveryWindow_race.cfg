SPECIFICATION RWSpec
CONSTANTS
  Subs = {"s1"}
  Workers = {w1}
  Passes = {p1, p2}
  NoEvent = NoEvent
  Feeds <- HaltFeeds
  Amount <- Amounts
  Facts <- SecondUnknown
  Traffic <- TwoPasses
SYMMETRY WindowSymmetry
INVARIANTS
  RWTypeOK
  OneCasePerHalt
  NoDebtInTwoCases
CHECK_DEADLOCK FALSE
