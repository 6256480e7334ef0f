SPECIFICATION Spec
CONSTANTS
  Subs = {"s1", "s2"}
  Workers = {w1, w2}
  NoEvent = NoEvent
  Feeds <- RaceFeeds
SYMMETRY WorkerSymmetry
INVARIANTS
  TypeOK
  OpenOnlyWhileHalted
  EachEventMovesOnce
  LineageNamesAHalt
PROPERTIES
  EpisodesAreFinal
  KeepsTheHaltCycle
CHECK_DEADLOCK FALSE
