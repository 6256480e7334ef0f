SPECIFICATION TrailSpec
CONSTANTS
  Subs = {"s1"}
  Workers = {w1, w2}
  NoEvent = NoEvent
  Feeds <- TrailFeeds
  MaxLines = 3
SYMMETRY WorkerSymmetry
INVARIANTS
  OneLinePerNumber
  LinesAreTrue
  VerdictsAreAccountedFor
  EachStoryInOrder
CHECK_DEADLOCK FALSE
