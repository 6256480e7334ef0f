------------------------------ MODULE Comparison ------------------------------
(***************************************************************************)
(* The comparison of strategies on one universe of cases: each strategy in *)
(* turn ranks the cases and spends the intervention budget on them, and is *)
(* scored against the outcome oracle.  The runner compares the deployable  *)
(* strategies on the cases of a run; the evaluation harness compares them, *)
(* a naive one that ignores the collectibility gate and a reference that   *)
(* knows the true probabilities, on cases it builds itself.                *)
(*                                                                         *)
(* Everything here is synchronous: a step is one case of one strategy.     *)
(***************************************************************************)
EXTENDS Economics, FiniteSets, FiniteSetsExt

CONSTANTS
  Populations,  \* sets of cases: what each case is, by synthetic case key
  Budgets       \* intervention budgets

(***************************************************************************)
(* A case: what policy reads (card, mandate, flags, attempts), what the    *)
(* gate made of its invoices (collectible and invalid paise), what         *)
(* strategies rank by (recent, success and the model's estimates), and     *)
(* what only the oracle knows (latent intent and a draw per action).       *)
(***************************************************************************)
Automated == {NoAction, PaymentLink, ManualCharge}

CaseKind ==
  [domestic : BOOLEAN, mandate : Nat, risk : BOOLEAN, dispute : BOOLEAN,
   opted_out : BOOLEAN, attempts : Nat, contacted : BOOLEAN,
   collectible : Nat, invalid : Nat,
   recent : BOOLEAN, success : 0..100, estimate : [Automated -> 0..Whole],
   latent : 0..100, draw : [Automated -> 0..(Whole - 1)]]

\* Keys are ordered: they are numbers here.
ASSUME ComparisonAssumption ==
  /\ Budgets \subseteq Nat
  /\ \A population \in Populations :
       /\ IsFiniteSet(DOMAIN population)
       /\ DOMAIN population \subseteq Nat
       /\ population \in [DOMAIN population -> CaseKind]

VARIABLES
  kind,       \* the cases
  budget,     \* interventions allowed, for each strategy alike
  setting,    \* who compares: "runner" or "harness"
  strategy,   \* the strategy that is choosing, or "none"
  remaining,  \* the slots it has left
  chosen,     \* the actions it has chosen so far, by case
  results,    \* the choices of the strategies that have finished
  raised      \* whether one of the runner's checks refused a strategy

comparisonVars ==
  <<kind, budget, setting, strategy, remaining, chosen, results, raised>>

fixed == <<kind, budget, setting>>

-----------------------------------------------------------------------------
Strategies ==
  {"naive", "rule_based", "reclaim"}
    \cup (IF setting = "harness" THEN {"oracle"} ELSE {})

Cases == DOMAIN kind

\* The harness's naive strategy alone is shown historical unpaid.
Ungated(s) == setting = "harness" /\ s = "naive"

BacklogIn(s, c) ==
  IF Ungated(s) THEN kind[c].collectible + kind[c].invalid ELSE kind[c].collectible

Universe(s) == {c \in Cases : BacklogIn(s, c) > 0}

\* The policy decision behind a view.  The harness knows no attempts and no
\* contact; the runner decides at a fixed time, which every contact the agent
\* made is later than and so in the cooldown of.
Policy(s, c) ==
  EvaluateV1([domestic |-> kind[c].domestic, backlog |-> BacklogIn(s, c),
              mandate |-> kind[c].mandate, risk |-> kind[c].risk,
              dispute |-> kind[c].dispute, opted_out |-> kind[c].opted_out,
              attempts |-> IF setting = "harness" THEN 0 ELSE kind[c].attempts,
              max_attempts |-> 3, now |-> 0,
              last_contact |-> IF setting = "runner" /\ kind[c].contacted THEN 1
                               ELSE NeverContacted,
              cooldown |-> 24])

Allowed(s, c) == Policy(s, c).allowed

Demanding(s, c) == Policy(s, c).escalates \/ Policy(s, c).stops

-----------------------------------------------------------------------------
(* The baselines.                                                          *)

\* _pick_action, with `left` slots.
PickAction(s, c, left) ==
  CASE PaymentLink \in Allowed(s, c) /\ left > 0 -> PaymentLink
    [] PaymentLink \notin Allowed(s, c) /\ ManualCharge \in Allowed(s, c)
         /\ left > 0 -> ManualCharge
    [] OTHER -> IF Demanding(s, c) /\ Escalate \in Allowed(s, c) THEN Escalate
                ELSE NoAction

RuleBasedScore(c) ==
  kind[c].collectible + (IF kind[c].recent THEN 50000 ELSE 0) + 1000 * kind[c].success

-----------------------------------------------------------------------------
(* The model's strategy, and the reference that knows the probabilities.   *)

EstimatedEV(s, c, action) ==
  IncrementalEV(BacklogIn(s, c), action, kind[c].estimate[action],
                kind[c].estimate[NoAction])

TrueEV(s, c, action) ==
  IncrementalEV(BacklogIn(s, c), action, RecoveryProbability(action, kind[c]),
                RecoveryProbability(NoAction, kind[c]))

\* What a strategy takes an intervention to be worth.
Worth(s, c, action) ==
  IF s = "oracle" THEN TrueEV(s, c, action) ELSE EstimatedEV(s, c, action)

\* The permitted intervention of the highest positive worth, if there is one: a
\* payment link when both are worth the same.
BestOf(s, c) ==
  LET positive == {a \in Allowed(s, c) \cap {PaymentLink, ManualCharge} :
                     Worth(s, c, a) > 0}
  IN  IF positive = {} THEN NoAction
      ELSE IF /\ PaymentLink \in positive
              /\ \A a \in positive : Worth(s, c, a) <= Worth(s, c, PaymentLink)
           THEN PaymentLink ELSE ManualCharge

\* _select_local of the model's strategy: what policy wants escalated is.
SelectLocal(s, c) ==
  IF Demanding(s, c)
  THEN IF Escalate \in Allowed(s, c) THEN Escalate ELSE NoAction
  ELSE BestOf(s, c)

Preferred(s, c) == IF s = "oracle" THEN BestOf(s, c) ELSE SelectLocal(s, c)

\* Fault: cases are ranked by the chance of payment, not by what it is worth.
ScoreByChance(s, c) ==
  CASE s = "naive" -> 0
    [] s = "rule_based" -> RuleBasedScore(c)
    [] OTHER -> IF Preferred(s, c) = Escalate THEN 0
                ELSE kind[c].estimate[Preferred(s, c)]

\* What a strategy ranks a case by; an escalation is worth 0.
Score(s, c) ==
  CASE s = "naive" -> 0
    [] s = "rule_based" -> RuleBasedScore(c)
    [] OTHER -> IF Preferred(s, c) = Escalate THEN 0
                ELSE Worth(s, c, Preferred(s, c))

RanksBefore(s, c, d) ==
  Score(s, c) > Score(s, d) \/ (Score(s, c) = Score(s, d) /\ c <= d)

\* Fault: the slot is checked against the budget of the whole comparison.
ChoiceUnbounded(s, c, left) ==
  IF s \in {"naive", "rule_based"} THEN PickAction(s, c, budget)
  ELSE Preferred(s, c)

\* The action a strategy takes on a case with `left` slots, NoAction if policy
\* should forbid it.
Choice(s, c, left) ==
  LET wanted == IF s \in {"naive", "rule_based"} THEN PickAction(s, c, left)
                ELSE IF ConsumesBudget(Preferred(s, c)) /\ left <= 0 THEN NoAction
                ELSE Preferred(s, c)
  IN  IF wanted \in Allowed(s, c) THEN wanted ELSE NoAction

-----------------------------------------------------------------------------
Init ==
  /\ kind \in Populations
  /\ budget \in Budgets
  /\ setting \in {"runner", "harness"}
  /\ strategy = "none"
  /\ remaining = 0
  /\ chosen = [c \in {} |-> NoAction]
  /\ results = [s \in {} |-> chosen]
  /\ raised = FALSE

\* A strategy is handed the universe and the whole budget.
Begin(s) ==
  /\ strategy = "none"
  /\ ~raised
  /\ s \in Strategies \ DOMAIN results
  /\ strategy' = s
  /\ remaining' = budget
  /\ chosen' = [c \in {} |-> NoAction]
  /\ UNCHANGED <<fixed, results, raised>>

Undecided == Universe(strategy) \ DOMAIN chosen

\* It decides on the case it ranks first among those left.
Choose(c) ==
  LET action == Choice(strategy, c, remaining) IN
  /\ strategy # "none"
  /\ c \in Undecided
  /\ \A d \in Undecided : RanksBefore(strategy, c, d)
  /\ chosen' = [d \in DOMAIN chosen \cup {c} |->
                  IF d = c THEN action ELSE chosen[d]]
  /\ remaining' = IF ConsumesBudget(action) THEN remaining - 1 ELSE remaining
  /\ UNCHANGED <<fixed, strategy, results, raised>>

Spent(actions) == {c \in DOMAIN actions : ConsumesBudget(actions[c])}

\* What the runner checks of a strategy before it scores it: the identical case
\* set, the budget and policy.  The harness counts the actions outside policy.
Accepted(s, actions) ==
  /\ DOMAIN actions = Universe(s)
  /\ Cardinality(Spent(actions)) <= budget
  /\ \A c \in DOMAIN actions : actions[c] \in Allowed(s, c)

Conclude ==
  /\ strategy # "none"
  /\ Undecided = {}
  /\ strategy' = "none"
  /\ raised' = ~Accepted(strategy, chosen)
  /\ results' = [s \in DOMAIN results \cup {strategy} |->
                   IF s = strategy THEN chosen ELSE results[s]]
  /\ UNCHANGED <<fixed, remaining, chosen>>

Next ==
  \/ \E s \in Strategies : Begin(s)
  \/ \E c \in Cases : Choose(c)
  \/ Conclude

Spec == Init /\ [][Next]_comparisonVars

-----------------------------------------------------------------------------
(* The two scorecards of the strategies that have finished.                *)

Total(Of(_), cases) == MapThenSumSet(Of, cases)

Count(P(_), cases) == Cardinality({c \in cases : P(c)})

Outcome(s, c) == Decide(kind[c], results[s][c])

Counterfactual(c) == Decide(kind[c], NoAction)

\* aggregate_metrics, of the runner.
AggregateMetrics(s) ==
  LET views == DOMAIN results[s]
      acts == results[s]
      Consumes(c) == ConsumesBudget(acts[c])
  IN  [used        |-> Count(Consumes, views),
       recovered   |-> Total(LAMBDA c : Outcome(s, c).amount, views),
       paid        |-> Count(LAMBDA c : Outcome(s, c).outcome = "paid", views),
       failed      |-> Count(LAMBDA c : Consumes(c) /\ Outcome(s, c).outcome = "failed",
                             views),
       escalations |-> Count(LAMBDA c : acts[c] = Escalate, views),
       no_actions  |-> Count(LAMBDA c : acts[c] = NoAction, views),
       unnecessary |-> Count(LAMBDA c : Consumes(c) /\ Counterfactual(c).amount > 0,
                             views),
       incremental |-> Total(LAMBDA c : Outcome(s, c).amount - Counterfactual(c).amount,
                             views),
       cost        |-> Total(LAMBDA c : CostOf(acts[c]), views),
       at_risk     |-> Total(LAMBDA c : BacklogIn(s, c), views)]

\* What a collector who ignored policy would try.
UnconstrainedPreference(s, c) == IF Demanding(s, c) THEN Escalate ELSE PaymentLink

\* Fault: what policy barred is missed as well.
MissedWhateverPolicy(s, c) == kind[c].collectible

\* What a strategy that leaves a case alone has missed.
Missed(s, c) ==
  IF \E a \in Allowed(s, c) : ConsumesBudget(a) THEN kind[c].collectible ELSE 0

\* score_strategy, of the harness: a row of each case, and their sums.
Contribution(s, c) ==
  LET action == results[s][c]
      intervened == ConsumesBudget(action)
      recovered == Outcome(s, c).amount
  IN  [recovered   |-> recovered,
       incremental |-> recovered - Counterfactual(c).amount,
       cost        |-> CostOf(action),
       intervened  |-> intervened,
       unnecessary |-> intervened /\ Counterfactual(c).amount > 0,
       attempted   |-> /\ UnconstrainedPreference(s, c) \notin Allowed(s, c)
                       /\ ConsumesBudget(UnconstrainedPreference(s, c)),
       executed    |-> action \notin Allowed(s, c),
       escalated   |-> action = Escalate,
       invalid     |-> IF Ungated(s) /\ intervened THEN kind[c].invalid ELSE 0,
       targeted    |-> IF intervened THEN kind[c].collectible ELSE 0,
       missed      |-> IF intervened THEN 0 ELSE Missed(s, c)]

ScoreStrategy(s) ==
  LET views == DOMAIN results[s]
      Of(c) == Contribution(s, c)
  IN  [used        |-> Count(LAMBDA c : Of(c).intervened, views),
       recovered   |-> Total(LAMBDA c : Of(c).recovered, views),
       escalations |-> Count(LAMBDA c : Of(c).escalated, views),
       unnecessary |-> Count(LAMBDA c : Of(c).unnecessary, views),
       incremental |-> Total(LAMBDA c : Of(c).incremental, views),
       cost        |-> Total(LAMBDA c : Of(c).cost, views),
       executed    |-> Count(LAMBDA c : Of(c).executed, views),
       invalid     |-> Total(LAMBDA c : Of(c).invalid, views),
       targeted    |-> Total(LAMBDA c : Of(c).targeted, views),
       missed      |-> Total(LAMBDA c : Of(c).missed, views)]

-----------------------------------------------------------------------------
(* What a comparison promises.                                             *)

\* A strategy's choices are found, whatever the cases, the budget and what the
\* strategies before it did, to be on the identical case set, within the budget
\* and within policy: no check of run_strategies ever raises.
NeverRaises == ~raised

Feasible(s) ==
  {acts \in [Universe(s) -> DefaultActions] : Accepted(s, acts)}

ValueOf(W(_, _, _), s, acts) ==
  Total(LAMBDA c : W(s, c, acts[c]), Spent(acts))

\* One greedy pass, a case at a time, spends the budget as well as it can be
\* spent: no choice of actions within budget and policy that leaves alone what
\* policy wants escalated is worth more, by the model's own estimates.
ReclaimSpendsBest ==
  "reclaim" \in DOMAIN results =>
    \A acts \in Feasible("reclaim") :
      (\A c \in Spent(acts) : ~Demanding("reclaim", c)) =>
        ValueOf(EstimatedEV, "reclaim", acts)
          <= ValueOf(EstimatedEV, "reclaim", results["reclaim"])

\* Regret is measured against a ceiling: no strategy that is shown the gated
\* cases has choices of a higher true value than the reference strategy's.
OracleIsTheCeiling ==
  "oracle" \in DOMAIN results =>
    \A s \in DOMAIN results :
      ~Ungated(s) =>
        ValueOf(TrueEV, s, results[s]) <= ValueOf(TrueEV, "oracle", results["oracle"])

Shared == {"used", "recovered", "escalations", "unnecessary", "incremental", "cost"}

\* The runner's scorecard and the harness's, written separately, agree on every
\* strategy; the harness finds no action outside policy, charges nothing that is
\* not collectible to a strategy behind the gate, and accounts for every paisa
\* that policy let a strategy collect: it is targeted or missed.
ScorecardsAgree ==
  \A s \in DOMAIN results :
    LET run == AggregateMetrics(s)
        bench == ScoreStrategy(s)
    IN  /\ \A f \in Shared : run[f] = bench[f]
        /\ bench.executed = 0
        /\ ~Ungated(s) => bench.invalid = 0
        /\ bench.targeted + bench.missed =
             Total(LAMBDA c : kind[c].collectible,
                   {c \in Universe(s) : \E a \in Allowed(s, c) : ConsumesBudget(a)})
=============================================================================
