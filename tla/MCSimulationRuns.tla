-------------------------- MODULE MCSimulationRuns --------------------------
(***************************************************************************)
(* Two cases.  Two comparisons race generation and the agent; two          *)
(* trainings race an evaluation; or a comparison that needs a model races  *)
(* generation and a training.                                              *)
(*                                                                         *)
(* Datasets of three or four examples: one is held out to test on and one  *)
(* to validate with, which the shuffle picks by the size.                  *)
(***************************************************************************)
EXTENDS SimulationRuns

Shuffled(seed, n) ==
  [test |-> {<<seed, (n % 3) + 1>>}, validation |-> {<<seed, n>>}]

RacingComparisons ==
  [jobs |-> {}, evaluations |-> {}, generates |-> TRUE, comparisons |-> {"p", "q"},
   names |-> {{"naive", "rule_based"}}, touches |-> 1]

RacingTrainings ==
  [jobs |-> {"j", "k"}, evaluations |-> {"e"}, generates |-> FALSE,
   comparisons |-> {}, names |-> {}, touches |-> 0]

ComparisonAndTraining ==
  [jobs |-> {"j"}, evaluations |-> {}, generates |-> TRUE, comparisons |-> {"p"},
   names |-> {{"naive", "reclaim"}, {"unknown"}}, touches |-> 1]

Races == {RacingComparisons, RacingTrainings, ComparisonAndTraining}

OnlyTrainings == {RacingTrainings}
=============================================================================
