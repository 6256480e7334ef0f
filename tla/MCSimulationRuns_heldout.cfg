SPECIFICATION Spec
CONSTANTS
  Jobs = {"j", "k"}
  Evaluations = {"e"}
  Seeds = {42}
  Sizes = {3, 4}
  Held <- Shuffled
  Cases = {1, 2}
  Comparisons = {"p", "q"}
  Traffic <- OnlyTrainings
INVARIANT EvaluationIsHeldOut
CHECK_DEADLOCK FALSE
