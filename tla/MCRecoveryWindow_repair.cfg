SPECIFICATION RWFairSpec
CONSTANTS
  Subs = {"s1"}
  Workers = {w1}
  Passes = {p1}
  NoEvent = NoEvent
  Feeds <- InvoiceFeeds
  Amount <- Amounts
  Facts <- SecondUnknown
  Traffic <- OnePass
INVARIANTS
  GateBeforeCase
  FailsClosed
PROPERTIES
  PassRepairs
CHECK_DEADLOCK FALSE
