SPECIFICATION Spec
CONSTANTS
  Extractions = {"p", "q"}
  Readers = {"r"}
  Texts <- SomeTexts
  Signals = {"fraud", "chargeback"}
  Proposals <- SomeProposals
  Explanations <- SomeExplanations
  Questions <- SomeQuestions
  Traffic <- Callers
INVARIANTS
  TrailTellsFlags
  TellsThePolicy
PROPERTIES
  RaisedFlagsAreQuoted
CHECK_DEADLOCK FALSE
