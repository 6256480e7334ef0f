SPECIFICATION Spec
CONSTANTS
  Jobs = {"j", "k"}
  Evaluations = {"e"}
  Seeds = {42}
  Sizes = {3, 4}
  Held <- Shuffled
  Cases = {1, 2}
  Comparisons = {"p", "q"}
  Traffic <- Races
INVARIANTS
  RegistryAgrees
  NeverHalfAWorld
  OnlyEarlyComparisonsLoseTheWorld
PROPERTIES
  GenerationIsSettled
CHECK_DEADLOCK FALSE
