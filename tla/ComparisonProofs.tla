--------------------------- MODULE ComparisonProofs ---------------------------
(***************************************************************************)
(* What a comparison promises, for every population, budget and order of   *)
(* strategies.  No check of run_strategies ever raises: a strategy's       *)
(* choices are permitted, and the slots it has spent and has left are the  *)
(* budget, after every case.  The one greedy pass of a strategy that ranks *)
(* by worth spends the budget best, by an exchange argument.  The two      *)
(* scorecards agree.                                                       *)
(*                                                                         *)
(* The last two are about sums, for which FiniteSums has the lemmas.       *)
(***************************************************************************)
EXTENDS Comparison, FiniteSums

\* Doing nothing is permitted whatever rules hit.
LEMMA NothingIsAllowed ==
  ASSUME NEW s, NEW c
  PROVE  NoAction \in Allowed(s, c)
BY DEF Allowed, Policy, EvaluateV1, EvaluatePolicy, DefaultActions, AutomatedCollection,
       NoAction, PaymentLink, ManualCharge, Escalate

\* Choice returns an action policy permits, because it falls back on one.
LEMMA ChoiceIsAllowed ==
  ASSUME NEW s, NEW c, NEW left
  PROVE  Choice(s, c, left) \in Allowed(s, c)
BY NothingIsAllowed DEF Choice

\* _pick_action spends a slot only when one is left.
LEMMA PickNeedsASlot ==
  ASSUME NEW s, NEW c, NEW left \in Int, ConsumesBudget(PickAction(s, c, left))
  PROVE  left > 0
BY DEF PickAction, ConsumesBudget, NoAction, PaymentLink, ManualCharge, Escalate

\* So does every strategy.
LEMMA ChoiceNeedsASlot ==
  ASSUME NEW s, NEW c, NEW left \in Int, ConsumesBudget(Choice(s, c, left))
  PROVE  left > 0
<1>1. ~ConsumesBudget(NoAction)
  BY DEF ConsumesBudget, NoAction, PaymentLink, ManualCharge
<1>2. CASE s \in {"naive", "rule_based"}
  BY <1>1, <1>2, PickNeedsASlot DEF Choice
<1>3. CASE s \notin {"naive", "rule_based"}
  BY <1>1, <1>3 DEF Choice
<1>4. QED
  BY <1>2, <1>3

-----------------------------------------------------------------------------
\* The choices made so far are of the strategy's universe and within policy, and
\* with the slots left they account for the budget.
ChoosingInv ==
  strategy # "none" =>
    /\ DOMAIN chosen \subseteq Universe(strategy)
    /\ \A c \in DOMAIN chosen : chosen[c] \in Allowed(strategy, c)
    /\ IsFiniteSet(Spent(chosen))
    /\ Cardinality(Spent(chosen)) + remaining = budget

NumbersInv == budget \in Nat /\ remaining \in Nat

NeverRaisesInv == NumbersInv /\ ChoosingInv /\ ~raised

LEMMA InitHolds == Init => NeverRaisesInv
BY ComparisonAssumption DEF Init, NeverRaisesInv, NumbersInv, ChoosingInv

LEMMA BeginPreserves ==
  ASSUME NeverRaisesInv, NEW s, Begin(s)
  PROVE  NeverRaisesInv'
<1>1. Spent(chosen') = {}
  BY DEF Begin, Spent
<1>2. IsFiniteSet(Spent(chosen')) /\ Cardinality(Spent(chosen')) = 0
  BY <1>1, FS_EmptySet
<1>3. NumbersInv' /\ ~raised'
  BY DEF Begin, fixed, NeverRaisesInv, NumbersInv
<1>4. ChoosingInv'
  BY <1>2, <1>3 DEF Begin, fixed, ChoosingInv, NumbersInv, Spent
<1>5. QED
  BY <1>3, <1>4 DEF NeverRaisesInv

\* The case chosen joins those that spend a slot exactly when a slot is taken.
LEMMA ChoosePreserves ==
  ASSUME NeverRaisesInv, NEW c \in Cases, Choose(c)
  PROVE  NeverRaisesInv'
<1> DEFINE action == Choice(strategy, c, remaining)
<1>1. /\ strategy # "none"
      /\ c \in Universe(strategy) /\ c \notin DOMAIN chosen
      /\ DOMAIN chosen \subseteq Universe(strategy)
      /\ \A d \in DOMAIN chosen : chosen[d] \in Allowed(strategy, d)
  BY DEF Choose, Undecided, NeverRaisesInv, ChoosingInv
<1>2. /\ DOMAIN chosen' = DOMAIN chosen \cup {c}
      /\ chosen'[c] = action
      /\ \A d \in DOMAIN chosen : chosen'[d] = chosen[d]
  BY <1>1 DEF Choose
<1>3. UNCHANGED <<kind, budget, setting, strategy, raised>>
  BY DEF Choose, fixed
<1>4. /\ DOMAIN chosen' \subseteq Universe(strategy)
      /\ \A d \in DOMAIN chosen' : chosen'[d] \in Allowed(strategy, d)
  BY <1>1, <1>2, ChoiceIsAllowed
<1>5. /\ IsFiniteSet(Spent(chosen))
      /\ Cardinality(Spent(chosen)) + remaining = budget
      /\ remaining \in Nat /\ budget \in Nat
  BY <1>1 DEF NeverRaisesInv, ChoosingInv, NumbersInv
<1>6. /\ IsFiniteSet(Spent(chosen'))
      /\ Cardinality(Spent(chosen')) + remaining' = budget
      /\ remaining' \in Nat
  <2>1. CASE ConsumesBudget(action)
    <3>1. Spent(chosen') = Spent(chosen) \cup {c}
      BY <1>2, <2>1 DEF Spent
    <3>2. c \notin Spent(chosen)
      BY <1>1 DEF Spent
    <3>3. /\ IsFiniteSet(Spent(chosen'))
          /\ Cardinality(Spent(chosen')) = Cardinality(Spent(chosen)) + 1
      BY <1>5, <3>1, <3>2, FS_AddElement
    <3>4. remaining' = remaining - 1 /\ remaining > 0
      BY <1>5, <2>1, ChoiceNeedsASlot DEF Choose
    <3>5. Cardinality(Spent(chosen)) \in Nat
      BY <1>5, FS_CardinalityType
    <3>6. QED
      BY <1>5, <3>3, <3>4, <3>5
  <2>2. CASE ~ConsumesBudget(action)
    <3>1. Spent(chosen') = Spent(chosen)
      BY <1>1, <1>2, <2>2 DEF Spent
    <3>2. remaining' = remaining
      BY <2>2 DEF Choose
    <3>3. QED
      BY <1>5, <3>1, <3>2
  <2>3. QED
    BY <2>1, <2>2
<1>7. Universe(strategy)' = Universe(strategy)
  BY <1>3 DEF Universe, Cases, BacklogIn, Ungated
<1>8. \A d : Allowed(strategy, d)' = Allowed(strategy, d)
  BY <1>3 DEF Allowed, Policy, BacklogIn, Ungated
<1>9. Spent(chosen)' = Spent(chosen')
  BY DEF Spent
<1>10. ChoosingInv'
  BY <1>3, <1>4, <1>6, <1>7, <1>8, <1>9 DEF ChoosingInv
<1>11. QED
  BY <1>3, <1>5, <1>6, <1>10 DEF NeverRaisesInv, NumbersInv

LEMMA ConcludePreserves ==
  ASSUME NeverRaisesInv, Conclude
  PROVE  NeverRaisesInv'
<1>1. Accepted(strategy, chosen)
  <2>1. DOMAIN chosen = Universe(strategy)
    BY DEF Conclude, Undecided, NeverRaisesInv, ChoosingInv
  <2>2. Cardinality(Spent(chosen)) <= budget
    <3>1. Cardinality(Spent(chosen)) \in Nat
      BY FS_CardinalityType DEF Conclude, NeverRaisesInv, ChoosingInv
    <3>2. QED
      BY <3>1 DEF Conclude, NeverRaisesInv, ChoosingInv, NumbersInv
  <2>3. QED
    BY <2>1, <2>2 DEF Accepted, Conclude, NeverRaisesInv, ChoosingInv
<1>2. QED
  BY <1>1 DEF Conclude, fixed, NeverRaisesInv, ChoosingInv, NumbersInv

\* Every strategy of every comparison passes the checks of run_strategies: the
\* identical case set, the intervention budget and policy.
THEOREM StrategiesNeverRaise == Spec => []NeverRaises
<1>1. Init => NeverRaisesInv
  BY InitHolds
<1>2. NeverRaisesInv /\ [Next]_comparisonVars => NeverRaisesInv'
  <2> SUFFICES ASSUME NeverRaisesInv, [Next]_comparisonVars
               PROVE  NeverRaisesInv'
    OBVIOUS
  <2>1. CASE \E s \in Strategies : Begin(s)
    BY <2>1, BeginPreserves
  <2>2. CASE \E c \in Cases : Choose(c)
    BY <2>2, ChoosePreserves
  <2>3. CASE Conclude
    BY <2>3, ConcludePreserves
  <2>4. CASE UNCHANGED comparisonVars
    BY <2>4 DEF comparisonVars, NeverRaisesInv, ChoosingInv, NumbersInv, Universe,
                Cases, BacklogIn, Ungated, Allowed, Policy, Spent
  <2>5. QED
    BY <2>1, <2>2, <2>3, <2>4 DEF Next
<1>3. NeverRaisesInv => NeverRaises
  BY DEF NeverRaisesInv, NeverRaises
<1>4. QED
  BY <1>1, <1>2, <1>3, PTL DEF Spec

-----------------------------------------------------------------------------
(* Sums over the cases of a run (FiniteSums).                              *)

\* Of values that are not negative, a set has the larger sum if what it lacks of the
\* other adds nothing, or if it has as many and nothing it lacks is worth more than
\* anything that it has.
LEMMA Exchange ==
  ASSUME NEW S, IsFiniteSet(S), NEW f \in [S -> Int], \A c \in S : f[c] >= 0,
         NEW g, Adds(f, S, g), NEW A \in SUBSET S, NEW G \in SUBSET S,
         \/ \A a \in A \ G : f[a] = 0
         \/ /\ Cardinality(A) <= Cardinality(G)
            /\ \A a \in A \ G, e \in G : f[a] <= f[e]
  PROVE  g[A] <= g[G]
<1> DEFINE Beaten(a, b) == \/ \A x \in a \ b : f[x] = 0
                           \/ /\ Cardinality(a) <= Cardinality(b)
                              /\ \A x \in a \ b, e \in b : f[x] <= f[e]
           Bad == {a \in SUBSET S : \E b \in SUBSET S : Beaten(a, b) /\ ~(g[a] <= g[b])}
<1> SUFFICES ASSUME Bad # {} PROVE FALSE
  OBVIOUS
<1>1. PICK a \in Bad : \A u \in Bad : ~(Cardinality(u) < Cardinality(a))
  BY SmallestOf
<1>2. PICK b \in SUBSET S : Beaten(a, b) /\ ~(g[a] <= g[b])
  BY <1>1
<1>3. a \in SUBSET S /\ IsFiniteSet(a) /\ IsFiniteSet(b)
  BY <1>1, <1>2, FS_Subset
<1>4. Cardinality(a) \in Nat /\ Cardinality(b) \in Nat
  BY <1>3, FS_CardinalityType
<1>5. g[a] \in Int /\ g[b] \in Int
  BY <1>3, SumIsInt
<1>6. a # {}
  <2> SUFFICES ASSUME a = {} PROVE FALSE
    OBVIOUS
  <2> DEFINE zero == [c \in S |-> 0]
  <2>1. PICK z : Adds(zero, S, z)
    <3>1. zero \in [S -> Int]
      OBVIOUS
    <3> HIDE DEF zero
    <3> QED
      BY <3>1, SumExists
  <2>2. g[a] = 0
    BY DEF Adds
  <2>3. z[b] = 0
    BY <2>1, SumOfNothing
  <2>4. z[b] <= g[b]
    <3>1. \A c \in b : zero[c] \in Int /\ f[c] \in Int /\ zero[c] <= f[c]
      OBVIOUS
    <3> HIDE DEF zero
    <3> QED
      BY <1>3, <2>1, <3>1, SumLeq
  <2> QED
    BY <1>2, <2>2, <2>3, <2>4
<1>7. \A x \in a : /\ a \ {x} \in SUBSET S
                   /\ Cardinality(a \ {x}) = Cardinality(a) - 1
                   /\ a \ {x} \notin Bad
  BY <1>1, <1>3, Smaller
<1>8. \A x \in b : b \ {x} \in SUBSET S /\ Cardinality(b \ {x}) = Cardinality(b) - 1
  BY <1>3, Smaller
<1>9. \A x \in a : g[a] = f[x] + g[a \ {x}] /\ f[x] \in Int /\ g[a \ {x}] \in Int
  BY <1>3, SumMinus
<1>10. \A x \in b : g[b] = f[x] + g[b \ {x}] /\ f[x] \in Int /\ g[b \ {x}] \in Int
  BY SumMinus
<1>11. \A x \in a, t \in SUBSET S : Beaten(a \ {x}, t) => g[a \ {x}] <= g[t]
  BY <1>7
<1> HIDE DEF Bad
<1>12. CASE a \cap b # {}
  <2>1. PICK x \in a : x \in b
    BY <1>12
  <2>2. Beaten(a \ {x}, b \ {x})
    <3>1. (a \ {x}) \ (b \ {x}) \subseteq a \ b
      OBVIOUS
    <3> QED
      BY <1>2, <1>4, <1>7, <1>8, <2>1, <3>1
  <2>3. b \ {x} \in SUBSET S
    BY <1>8, <2>1
  <2>4. g[a \ {x}] <= g[b \ {x}]
    BY <1>11, <2>2, <2>3
  <2>5. /\ g[a] = f[x] + g[a \ {x}] /\ g[a \ {x}] \in Int
        /\ g[b] = f[x] + g[b \ {x}] /\ g[b \ {x}] \in Int /\ f[x] \in Int
    BY <1>9, <1>10, <2>1
  <2> HIDE DEF Beaten
  <2> QED
    BY <1>2, <2>4, <2>5
<1>13. CASE a \cap b = {} /\ \A x \in a \ b : f[x] = 0
  <2>1. PICK x \in a : x \notin b
    BY <1>6, <1>13
  <2>2. f[x] = 0 /\ Beaten(a \ {x}, b)
    BY <1>13, <2>1
  <2>3. g[a \ {x}] <= g[b]
    BY <1>11, <2>1, <2>2
  <2>4. g[a] = 0 + g[a \ {x}] /\ g[a \ {x}] \in Int
    BY <1>9, <2>1, <2>2
  <2> HIDE DEF Beaten
  <2> QED
    BY <1>2, <2>3, <2>4
<1>14. CASE /\ a \cap b = {} /\ Cardinality(a) <= Cardinality(b)
            /\ \A x \in a \ b, e \in b : f[x] <= f[e]
  <2>1. PICK x \in a : x \notin b
    BY <1>6, <1>14
  <2>2. Cardinality(a) # 0 /\ b # {}
    BY <1>3, <1>4, <1>6, <1>14, FS_EmptySet
  <2>3. PICK e \in b : TRUE
    BY <2>2
  <2>4. f[x] <= f[e]
    BY <1>14, <2>1, <2>3
  <2>5. Beaten(a \ {x}, b \ {e})
    BY <1>4, <1>7, <1>8, <1>14, <2>1, <2>3
  <2>6. g[a \ {x}] <= g[b \ {e}]
    BY <1>8, <1>11, <2>1, <2>3, <2>5
  <2> QED
    BY <1>2, <1>9, <1>10, <2>1, <2>3, <2>4, <2>6
<1> QED
  BY <1>2, <1>12, <1>13, <1>14

-----------------------------------------------------------------------------
(* What an intervention is worth.                                          *)

LEMMA KindOfCase ==
  ASSUME kind \in Populations
  PROVE  /\ IsFiniteSet(Cases) /\ Cases \subseteq Nat
         /\ \A c \in Cases : kind[c] \in CaseKind
BY ComparisonAssumption DEF Cases

LEMMA KindFields ==
  ASSUME NEW k \in CaseKind
  PROVE  /\ k.collectible \in Nat /\ k.invalid \in Nat
         /\ k.latent \in Nat /\ k.success \in Nat
         /\ \A a \in Automated : k.estimate[a] \in Int
         /\ k.dispute \in BOOLEAN /\ k.opted_out \in BOOLEAN
<1>1. k.latent \in 0..100 /\ k.success \in 0..100
  BY DEF CaseKind
<1>2. k.estimate \in [Automated -> 0..Whole]
  BY DEF CaseKind
<1>3. \A a \in Automated : k.estimate[a] \in 0..Whole
  BY <1>2
<1>4. /\ k.collectible \in Nat /\ k.invalid \in Nat
      /\ k.dispute \in BOOLEAN /\ k.opted_out \in BOOLEAN
  BY DEF CaseKind
<1>5. \A n \in 0..100 : n \in Nat
  OBVIOUS
<1>6. \A n \in 0..Whole : n \in Int
  BY DEF Whole
<1> QED
  BY <1>1, <1>3, <1>4, <1>5, <1>6

LEMMA BacklogIsNat ==
  ASSUME kind \in Populations, NEW s, NEW c \in Cases
  PROVE  BacklogIn(s, c) \in Nat
BY KindOfCase, KindFields DEF BacklogIn

LEMMA ProbabilityIsInt ==
  ASSUME NEW k \in CaseKind, NEW action \in Automated
  PROVE  RecoveryProbability(action, k) \in Int
<1>1. k.latent \in Nat /\ k.success \in Nat /\ k.dispute \in BOOLEAN /\ k.opted_out \in BOOLEAN
  BY KindFields
<1> DEFINE base == 700 + 38 * k.latent + 18 * k.success
<1>2. base \in Int /\ 4 * k.latent \in Int
  BY <1>1
<1>3. base \div 2 \in Int /\ base + 1600 \in Int /\ base + 2000 \in Int
  BY <1>2
<1> HIDE DEF base
<1>4. \A p \in Int : Clip(p) \in Int
  BY DEF Clip, Whole
<1>5. /\ Clip(base \div 2) \in Int /\ Clip(base + 1600) \in Int /\ Clip(base + 2000) \in Int
  BY <1>3, <1>4
<1>6. action \in {NoAction, PaymentLink, ManualCharge} /\ action # Escalate
  BY DEF Automated, NoAction, PaymentLink, ManualCharge, Escalate
<1>7. PaymentLink # NoAction /\ ManualCharge # NoAction /\ PaymentLink # ManualCharge
  BY DEF NoAction, PaymentLink, ManualCharge
<1>8. RecoveryProbability(action, k) =
        CASE action = Escalate -> 0
          [] action # Escalate /\ k.dispute /\ action # NoAction -> 0
          [] ~k.dispute /\ k.opted_out /\ action = PaymentLink -> 4 * k.latent
          [] action = NoAction -> Clip(base \div 2)
          [] ~k.dispute /\ ~k.opted_out /\ action = PaymentLink -> Clip(base + 1600)
          [] ~k.dispute /\ action = ManualCharge -> Clip(base + 2000)
  BY DEF RecoveryProbability, base
<1>9. CASE action = NoAction
  BY <1>5, <1>6, <1>7, <1>8, <1>9
<1>10. CASE action = PaymentLink
  BY <1>1, <1>2, <1>5, <1>6, <1>7, <1>8, <1>10
<1>11. CASE action = ManualCharge
  BY <1>1, <1>5, <1>6, <1>7, <1>8, <1>11
<1> QED
  BY <1>6, <1>9, <1>10, <1>11

LEMMA EVIsInt ==
  ASSUME NEW backlog \in Int, NEW action \in Automated, NEW p \in Int, NEW q \in Int
  PROVE  IncrementalEV(backlog, action, p, q) \in Int
<1>1. CostOf(action) \in Int
  BY DEF CostOf, Automated, NoAction, PaymentLink, ManualCharge, Escalate
<1>2. backlog * (p - q) \in Int
  OBVIOUS
<1>3. \A n \in Int : n \div Whole \in Int
  BY DEF Whole
<1> QED
  BY <1>1, <1>2, <1>3 DEF IncrementalEV

LEMMA WorthIsInt ==
  ASSUME kind \in Populations, NEW s, NEW c \in Cases, NEW action \in Automated
  PROVE  /\ Worth(s, c, action) \in Int
         /\ EstimatedEV(s, c, action) \in Int /\ TrueEV(s, c, action) \in Int
         /\ Worth(s, c, NoAction) = 0
<1>1. BacklogIn(s, c) \in Int /\ kind[c] \in CaseKind
  BY BacklogIsNat, KindOfCase
<1>2. NoAction \in Automated
  BY DEF Automated
<1>3. EstimatedEV(s, c, action) \in Int
  BY <1>1, <1>2, KindFields, EVIsInt DEF EstimatedEV
<1>4. TrueEV(s, c, action) \in Int
  BY <1>1, <1>2, ProbabilityIsInt, EVIsInt DEF TrueEV
<1>5. Worth(s, c, NoAction) = 0
  BY DEF Worth, EstimatedEV, TrueEV, IncrementalEV
<1> QED
  BY <1>3, <1>4, <1>5 DEF Worth

LEMMA Interventions ==
  /\ {PaymentLink, ManualCharge} \subseteq Automated /\ NoAction \in Automated
  /\ \A a : ConsumesBudget(a) <=> a \in {PaymentLink, ManualCharge}
  /\ ~ConsumesBudget(NoAction) /\ ~ConsumesBudget(Escalate) /\ NoAction # Escalate
  /\ NoAction # PaymentLink /\ NoAction # ManualCharge /\ PaymentLink # ManualCharge
BY DEF Automated, ConsumesBudget, NoAction, PaymentLink, ManualCharge, Escalate

\* The best of the permitted interventions is permitted, and none of them is worth
\* more; doing nothing is the best of none of positive worth.
LEMMA BestIsBest ==
  ASSUME kind \in Populations, NEW s, NEW c \in Cases
  PROVE  /\ BestOf(s, c) \in Allowed(s, c) /\ BestOf(s, c) \in Automated
         /\ Worth(s, c, BestOf(s, c)) \in Int /\ Worth(s, c, BestOf(s, c)) >= 0
         /\ \A a \in Allowed(s, c) \cap {PaymentLink, ManualCharge} :
              Worth(s, c, a) <= Worth(s, c, BestOf(s, c))
<1> DEFINE W(a) == Worth(s, c, a)
           positive == {a \in Allowed(s, c) \cap {PaymentLink, ManualCharge} : W(a) > 0}
           best == BestOf(s, c)
<1>1. \A a \in Automated : W(a) \in Int /\ W(NoAction) = 0
  BY WorthIsInt
<1>2. W(PaymentLink) \in Int /\ W(ManualCharge) \in Int /\ W(NoAction) = 0
  BY <1>1, Interventions
<1>3. best = IF positive = {} THEN NoAction
             ELSE IF PaymentLink \in positive /\ \A a \in positive : W(a) <= W(PaymentLink)
                  THEN PaymentLink ELSE ManualCharge
  BY DEF BestOf
<1> HIDE DEF W, best
<1>4. CASE positive = {}
  BY <1>2, <1>3, <1>4, Interventions, NothingIsAllowed DEF best, W
<1>5. CASE positive # {} /\ best = PaymentLink
  <2>1. PaymentLink \in positive /\ \A a \in positive : W(a) <= W(PaymentLink)
    BY <1>3, <1>5, Interventions
  <2> QED
    BY <1>2, <1>5, <2>1, Interventions DEF best, W
<1>6. CASE positive # {} /\ best = ManualCharge
  <2>1. ~(PaymentLink \in positive /\ \A a \in positive : W(a) <= W(PaymentLink))
    BY <1>3, <1>6, Interventions
  <2>2. ManualCharge \in positive
    BY <1>2, <1>6, <2>1
  <2>3. PaymentLink \in positive => W(PaymentLink) <= W(ManualCharge)
    BY <1>2, <2>1
  <2> QED
    BY <1>2, <1>6, <2>2, <2>3, Interventions DEF best, W
<1> QED
  BY <1>3, <1>4, <1>5, <1>6

Ranking == {"reclaim", "oracle"}

\* What the two strategies that rank by worth prefer is permitted; a case's score is
\* its worth, and at least that of every permitted intervention, unless policy wants
\* the case escalated and the strategy does as it wants.
LEMMA ScoreIsWorth ==
  ASSUME kind \in Populations, NEW s \in Ranking, NEW c \in Cases
  PROVE  /\ Preferred(s, c) \in Allowed(s, c)
         /\ Score(s, c) \in Int /\ Score(s, c) >= 0
         /\ ConsumesBudget(Preferred(s, c)) => Score(s, c) = Worth(s, c, Preferred(s, c))
         /\ ~ConsumesBudget(Preferred(s, c)) => Score(s, c) = 0
         /\ s = "oracle" \/ ~Demanding(s, c) =>
              \A a \in Allowed(s, c) \cap {PaymentLink, ManualCharge} :
                Worth(s, c, a) <= Score(s, c)
<1> DEFINE best == BestOf(s, c)
<1>1. /\ best \in Allowed(s, c) /\ best \in Automated
      /\ Worth(s, c, best) \in Int /\ Worth(s, c, best) >= 0
      /\ \A a \in Allowed(s, c) \cap {PaymentLink, ManualCharge} :
           Worth(s, c, a) <= Worth(s, c, best)
      /\ Worth(s, c, NoAction) = 0
  BY BestIsBest, WorthIsInt, Interventions
<1>2. best # Escalate /\ (~ConsumesBudget(best) => best = NoAction)
  BY <1>1 DEF Automated, ConsumesBudget, NoAction, PaymentLink, ManualCharge, Escalate
<1>3. Score(s, c) = IF Preferred(s, c) = Escalate THEN 0 ELSE Worth(s, c, Preferred(s, c))
  BY DEF Score, Ranking
<1> HIDE DEF best
<1>4. CASE s = "oracle" \/ ~Demanding(s, c)
  <2>1. Preferred(s, c) = best
    BY <1>4 DEF Preferred, SelectLocal, best
  <2> QED
    BY <1>1, <1>2, <1>3, <2>1
<1>5. CASE s # "oracle" /\ Demanding(s, c)
  <2>1. Preferred(s, c) = IF Escalate \in Allowed(s, c) THEN Escalate ELSE NoAction
    BY <1>5 DEF Preferred, SelectLocal
  <2>2. Score(s, c) = 0
    BY <1>1, <1>3, <2>1
  <2> QED
    BY <1>5, <2>1, <2>2, Interventions, NothingIsAllowed
<1> QED
  BY <1>4, <1>5

-----------------------------------------------------------------------------
(* What a strategy has done when it has finished.                          *)

\* A ranking strategy does with each case what it prefers, unless no slot was left
\* and every slot went to a case of at least its score.
Greedy(s, acts, left) ==
  \A c \in DOMAIN acts :
    \/ acts[c] = Preferred(s, c)
    \/ /\ acts[c] = NoAction /\ left = 0
       /\ \A e \in Spent(acts) : Score(s, c) <= Score(s, e)

RankedInv ==
  strategy \in Ranking =>
    /\ \A c \in DOMAIN chosen, d \in Undecided :
         Score(strategy, d) <= Score(strategy, c)
    /\ Greedy(strategy, chosen, remaining)

Finished(s, acts) ==
  /\ s \in Strategies
  /\ DOMAIN acts = Universe(s)
  /\ \A c \in DOMAIN acts : acts[c] \in Allowed(s, c)
  /\ IsFiniteSet(Spent(acts)) /\ Cardinality(Spent(acts)) <= budget
  /\ s \in Ranking => Greedy(s, acts, budget - Cardinality(Spent(acts)))

ResultsInv == \A s \in DOMAIN results : Finished(s, results[s])

PlayersInv ==
  /\ kind \in Populations
  /\ strategy \in Strategies \cup {"none"}

FinishedInv == NeverRaisesInv /\ PlayersInv /\ RankedInv /\ ResultsInv

\* What a strategy thinks of a case depends on the case and the setting alone.
LEMMA ViewsAreFixed ==
  ASSUME UNCHANGED <<kind, budget, setting>>
  PROVE  /\ Cases' = Cases /\ Strategies' = Strategies
         /\ \A s : Universe(s)' = Universe(s)
         /\ \A s, c : /\ Allowed(s, c)' = Allowed(s, c)
                      /\ Preferred(s, c)' = Preferred(s, c)
                      /\ Score(s, c)' = Score(s, c)
<1>1. Cases' = Cases /\ Strategies' = Strategies
  BY DEF Cases, Strategies
<1>2. \A s, c : BacklogIn(s, c)' = BacklogIn(s, c)
  BY DEF BacklogIn, Ungated
<1>3. \A s, c : Policy(s, c)' = Policy(s, c)
  BY <1>2 DEF Policy
<1>4. \A s, c : Allowed(s, c)' = Allowed(s, c) /\ Demanding(s, c)' = Demanding(s, c)
  BY <1>3 DEF Allowed, Demanding
<1>5. \A s, c, a : Worth(s, c, a)' = Worth(s, c, a)
  BY <1>2 DEF Worth, EstimatedEV, TrueEV
<1>6. \A s, c : BestOf(s, c)' = BestOf(s, c)
  BY <1>4, <1>5 DEF BestOf
<1>7. \A s, c : Preferred(s, c)' = Preferred(s, c)
  BY <1>4, <1>6 DEF Preferred, SelectLocal
<1>8. \A s, c : Score(s, c)' = Score(s, c)
  BY <1>5, <1>7 DEF Score, RuleBasedScore
<1>9. \A s : Universe(s)' = Universe(s)
  BY <1>1, <1>2 DEF Universe
<1> QED
  BY <1>1, <1>4, <1>7, <1>8, <1>9

LEMMA FinishedInitially == Init => FinishedInv
<1> SUFFICES ASSUME Init PROVE FinishedInv
  OBVIOUS
<1>1. NeverRaisesInv
  BY InitHolds
<1>2. PlayersInv
  BY DEF Init, PlayersInv
<1>3. RankedInv
  BY DEF Init, RankedInv, Ranking
<1>4. ResultsInv
  BY DEF Init, ResultsInv
<1> QED
  BY <1>1, <1>2, <1>3, <1>4 DEF FinishedInv

\* What has finished stays as it was.
LEMMA ResultsStay ==
  ASSUME ResultsInv, UNCHANGED <<kind, budget, setting, results>>
  PROVE  ResultsInv'
<1>1. ASSUME NEW s, NEW acts, Finished(s, acts)
      PROVE  Finished(s, acts)'
  <2>1. Spent(acts)' = Spent(acts)
    BY DEF Spent
  <2>2. Greedy(s, acts, budget - Cardinality(Spent(acts)))' <=>
        Greedy(s, acts, budget - Cardinality(Spent(acts)))
    BY <2>1, ViewsAreFixed DEF Greedy
  <2> QED
    BY <1>1, <2>1, <2>2, ViewsAreFixed DEF Finished
<1> QED
  BY <1>1 DEF ResultsInv

LEMMA BeginFinishes ==
  ASSUME FinishedInv, NEW s \in Strategies, Begin(s)
  PROVE  FinishedInv'
<1>1. UNCHANGED <<kind, budget, setting, results>> /\ strategy' = s /\ DOMAIN chosen' = {}
  BY DEF Begin, fixed
<1>2. NeverRaisesInv'
  BY BeginPreserves DEF FinishedInv
<1>3. PlayersInv'
  BY <1>1, ViewsAreFixed DEF FinishedInv, PlayersInv
<1>4. RankedInv'
  BY <1>1 DEF RankedInv, Greedy
<1>5. ResultsInv'
  BY <1>1, ResultsStay DEF FinishedInv
<1> QED
  BY <1>2, <1>3, <1>4, <1>5 DEF FinishedInv

\* The case that is chosen next ranks below those chosen before it and above the rest.
LEMMA ChooseIsGreedy ==
  ASSUME FinishedInv, NEW c \in Cases, Choose(c), strategy \in Ranking
  PROVE  /\ \A d \in DOMAIN chosen', e \in Undecided' :
              Score(strategy, e) <= Score(strategy, d)
         /\ Greedy(strategy, chosen', remaining')
<1> DEFINE s == strategy
           action == Choice(s, c, remaining)
<1>1. /\ kind \in Populations /\ remaining \in Nat
      /\ \A d \in DOMAIN chosen, e \in Undecided : Score(s, e) <= Score(s, d)
      /\ Greedy(s, chosen, remaining)
  BY DEF FinishedInv, PlayersInv, RankedInv, NeverRaisesInv, NumbersInv
<1>2. UNCHANGED <<kind, budget, setting, strategy>>
  BY DEF Choose, fixed
<1>3. /\ c \in Undecided /\ c \notin DOMAIN chosen
      /\ \A e \in Undecided : RanksBefore(s, c, e)
  BY DEF Choose, Undecided
<1>4. /\ DOMAIN chosen' = DOMAIN chosen \cup {c} /\ chosen'[c] = action
      /\ \A d \in DOMAIN chosen : chosen'[d] = chosen[d]
      /\ remaining' = IF ConsumesBudget(action) THEN remaining - 1 ELSE remaining
  BY <1>3 DEF Choose
<1>5. Undecided' = Undecided \ {c} /\ Undecided \subseteq Cases
  BY <1>2, <1>4, ViewsAreFixed DEF Undecided, Universe
<1>6. \A e \in Undecided : Score(s, e) <= Score(s, c)
  <2> SUFFICES ASSUME NEW e \in Undecided PROVE Score(s, e) <= Score(s, c)
    OBVIOUS
  <2>1. Score(s, e) \in Int /\ Score(s, c) \in Int
    BY <1>1, <1>3, <1>5, ScoreIsWorth
  <2>2. Score(s, c) > Score(s, e) \/ Score(s, c) = Score(s, e)
    BY <1>3 DEF RanksBefore
  <2> QED
    BY <2>1, <2>2
<1>7. \A d \in DOMAIN chosen', e \in Undecided' : Score(s, e) <= Score(s, d)
  BY <1>1, <1>4, <1>5, <1>6
<1>8. \/ action = Preferred(s, c)
      \/ /\ action = NoAction /\ remaining <= 0
  <2>1. s \notin {"naive", "rule_based"}
    BY DEF Ranking
  <2>2. Preferred(s, c) \in Allowed(s, c)
    BY <1>1, ScoreIsWorth
  <2> QED
    BY <2>1, <2>2 DEF Choice
<1>9. remaining <= 0 => /\ remaining = 0 /\ ~ConsumesBudget(action)
                        /\ Spent(chosen') = Spent(chosen) /\ remaining' = 0
  <2> SUFFICES ASSUME remaining <= 0
               PROVE  /\ remaining = 0 /\ ~ConsumesBudget(action)
                      /\ Spent(chosen') = Spent(chosen) /\ remaining' = 0
    OBVIOUS
  <2>1. remaining = 0 /\ remaining \in Int
    BY <1>1
  <2>2. ~ConsumesBudget(action)
    BY <2>1, ChoiceNeedsASlot
  <2>3. Spent(chosen') = Spent(chosen)
    BY <1>3, <1>4, <2>2 DEF Spent
  <2> QED
    BY <1>4, <2>1, <2>2, <2>3
<1>10. Spent(chosen) \subseteq DOMAIN chosen
  BY DEF Spent
<1>11. Greedy(s, chosen', remaining')
  <2> SUFFICES ASSUME NEW d \in DOMAIN chosen', chosen'[d] # Preferred(s, d)
               PROVE  /\ chosen'[d] = NoAction /\ remaining' = 0
                      /\ \A e \in Spent(chosen') : Score(s, d) <= Score(s, e)
    BY DEF Greedy
  <2> HIDE DEF action, s
  <2>1. CASE d = c
    BY <1>1, <1>3, <1>4, <1>8, <1>9, <1>10, <2>1
  <2>2. CASE d # c
    <3>1. d \in DOMAIN chosen /\ chosen'[d] = chosen[d]
      BY <1>4, <2>2
    <3>2. /\ chosen[d] = NoAction /\ remaining = 0
          /\ \A e \in Spent(chosen) : Score(s, d) <= Score(s, e)
      BY <1>1, <3>1 DEF Greedy
    <3> QED
      BY <1>9, <3>1, <3>2
  <2> QED
    BY <2>1, <2>2
<1> QED
  BY <1>7, <1>11

LEMMA ChooseFinishes ==
  ASSUME FinishedInv, NEW c \in Cases, Choose(c)
  PROVE  FinishedInv'
<1>1. UNCHANGED <<kind, budget, setting, strategy, results>>
  BY DEF Choose, fixed
<1>2. NeverRaisesInv'
  BY ChoosePreserves DEF FinishedInv
<1>3. PlayersInv'
  BY <1>1, ViewsAreFixed DEF FinishedInv, PlayersInv
<1>4. RankedInv'
  <2> SUFFICES ASSUME strategy \in Ranking PROVE RankedInv'
    BY <1>1 DEF RankedInv
  <2>1. /\ \A d \in DOMAIN chosen', e \in Undecided' :
             Score(strategy, e) <= Score(strategy, d)
        /\ Greedy(strategy, chosen', remaining')
    BY ChooseIsGreedy
  <2>2. Spent(chosen)' = Spent(chosen')
    BY DEF Spent
  <2>3. Greedy(strategy, chosen, remaining)'
    BY <1>1, <2>1, <2>2, ViewsAreFixed DEF Greedy
  <2> QED
    BY <1>1, <2>1, <2>3, ViewsAreFixed DEF RankedInv
<1>5. ResultsInv'
  BY <1>1, ResultsStay DEF FinishedInv
<1> QED
  BY <1>2, <1>3, <1>4, <1>5 DEF FinishedInv

LEMMA ConcludeFinishes ==
  ASSUME FinishedInv, Conclude
  PROVE  FinishedInv'
<1>1. /\ UNCHANGED <<kind, budget, setting, remaining, chosen>>
      /\ strategy # "none" /\ strategy' = "none" /\ Undecided = {}
      /\ DOMAIN results' = DOMAIN results \cup {strategy}
      /\ results'[strategy] = chosen
      /\ \A s \in DOMAIN results \ {strategy} : results'[s] = results[s]
  BY DEF Conclude, fixed
<1>2. NeverRaisesInv'
  BY ConcludePreserves DEF FinishedInv
<1>3. PlayersInv'
  BY <1>1, ViewsAreFixed DEF FinishedInv, PlayersInv
<1>4. RankedInv'
  BY <1>1 DEF RankedInv, Ranking
<1>5. Finished(strategy, chosen)
  <2>1. /\ DOMAIN chosen \subseteq Universe(strategy)
        /\ \A c \in DOMAIN chosen : chosen[c] \in Allowed(strategy, c)
        /\ IsFiniteSet(Spent(chosen))
        /\ Cardinality(Spent(chosen)) + remaining = budget
        /\ remaining \in Nat /\ budget \in Nat
    BY <1>1 DEF FinishedInv, NeverRaisesInv, ChoosingInv, NumbersInv
  <2>2. Cardinality(Spent(chosen)) \in Nat
    BY <2>1, FS_CardinalityType
  <2>3. /\ Cardinality(Spent(chosen)) <= budget
        /\ budget - Cardinality(Spent(chosen)) = remaining
    BY <2>1, <2>2
  <2>4. DOMAIN chosen = Universe(strategy)
    BY <1>1, <2>1 DEF Undecided
  <2>5. strategy \in Strategies
    BY <1>1 DEF FinishedInv, PlayersInv
  <2>6. strategy \in Ranking => Greedy(strategy, chosen, remaining)
    BY DEF FinishedInv, RankedInv
  <2> QED
    BY <2>1, <2>3, <2>4, <2>5, <2>6 DEF Finished
<1>6. ASSUME NEW s, NEW acts, Finished(s, acts)
      PROVE  Finished(s, acts)'
  <2>1. Spent(acts)' = Spent(acts)
    BY DEF Spent
  <2>2. Greedy(s, acts, budget - Cardinality(Spent(acts)))' <=>
        Greedy(s, acts, budget - Cardinality(Spent(acts)))
    BY <1>1, <2>1, ViewsAreFixed DEF Greedy
  <2> QED
    BY <1>1, <1>6, <2>1, <2>2, ViewsAreFixed DEF Finished
<1>7. ResultsInv'
  BY <1>1, <1>5, <1>6 DEF FinishedInv, ResultsInv
<1> QED
  BY <1>2, <1>3, <1>4, <1>7 DEF FinishedInv

LEMMA FinishedInvariant == Spec => []FinishedInv
<1>1. FinishedInv /\ [Next]_comparisonVars => FinishedInv'
  <2> SUFFICES ASSUME FinishedInv, [Next]_comparisonVars
               PROVE  FinishedInv'
    OBVIOUS
  <2>1. CASE \E s \in Strategies : Begin(s)
    BY <2>1, BeginFinishes
  <2>2. CASE \E c \in Cases : Choose(c)
    BY <2>2, ChooseFinishes
  <2>3. CASE Conclude
    BY <2>3, ConcludeFinishes
  <2>4. CASE UNCHANGED comparisonVars
    <3>1. UNCHANGED <<kind, budget, setting, strategy, remaining, chosen, results, raised>>
      BY <2>4 DEF comparisonVars
    <3>2. NeverRaisesInv'
      BY <3>1, ViewsAreFixed DEF FinishedInv, NeverRaisesInv, ChoosingInv, NumbersInv, Spent
    <3>3. PlayersInv' /\ ResultsInv'
      BY <3>1, ViewsAreFixed, ResultsStay DEF FinishedInv, PlayersInv
    <3>4. Spent(chosen)' = Spent(chosen) /\ Undecided' = Undecided
      BY <3>1, ViewsAreFixed DEF Spent, Undecided
    <3>5. RankedInv'
      BY <3>1, <3>4, ViewsAreFixed DEF FinishedInv, RankedInv, Greedy
    <3> QED
      BY <3>2, <3>3, <3>5 DEF FinishedInv
  <2> QED
    BY <2>1, <2>2, <2>3, <2>4 DEF Next
<1> QED
  BY <1>1, FinishedInitially, PTL DEF Spec

-----------------------------------------------------------------------------
(* The greedy pass spends the budget best.                                 *)

LEMMA FinishedSpends ==
  ASSUME FinishedInv, NEW s, NEW acts, DOMAIN acts \subseteq Universe(s),
         \A c \in DOMAIN acts : acts[c] \in Allowed(s, c)
  PROVE  /\ kind \in Populations /\ budget \in Nat
         /\ Spent(acts) \subseteq Cases /\ IsFiniteSet(Spent(acts))
         /\ Cardinality(Spent(acts)) \in Nat
         /\ \A c \in Spent(acts) :
              /\ acts[c] \in Allowed(s, c) \cap {PaymentLink, ManualCharge}
              /\ acts[c] \in Automated
<1>1. kind \in Populations /\ budget \in Nat
  BY DEF FinishedInv, PlayersInv, NeverRaisesInv, NumbersInv
<1>2. Spent(acts) \subseteq Cases
  BY DEF Spent, Universe
<1>3. IsFiniteSet(Spent(acts))
  BY <1>1, <1>2, KindOfCase, FS_Subset
<1>4. Cardinality(Spent(acts)) \in Nat
  BY <1>3, FS_CardinalityType
<1>5. ASSUME NEW c \in Spent(acts)
      PROVE  /\ acts[c] \in Allowed(s, c) \cap {PaymentLink, ManualCharge}
             /\ acts[c] \in Automated
  <2>1. c \in DOMAIN acts /\ ConsumesBudget(acts[c])
    BY DEF Spent
  <2>2. acts[c] \in {PaymentLink, ManualCharge}
    BY <2>1, Interventions
  <2> QED
    BY <2>1, <2>2, Interventions
<1> QED
  BY <1>1, <1>2, <1>3, <1>4, <1>5

\* No choice of actions within budget and policy is worth more, to a strategy that
\* ranks by worth, than what it has done, unless it spends where the strategy does
\* as policy wants.
LEMMA RankingSpendsBest ==
  ASSUME FinishedInv, NEW s \in Ranking, NEW best, Finished(s, best),
         NEW acts, DOMAIN acts = Universe(s),
         \A c \in DOMAIN acts : acts[c] \in Allowed(s, c),
         Cardinality(Spent(acts)) <= budget,
         \A c \in Spent(acts) : s = "oracle" \/ ~Demanding(s, c),
         NEW f1, \A c \in Spent(acts) : f1[c] = Worth(s, c, acts[c]),
         NEW f2, \A c \in Spent(best) : f2[c] = Worth(s, c, best[c]),
         NEW g1, Adds(f1, Spent(acts), g1), NEW g2, Adds(f2, Spent(best), g2)
  PROVE  g1[Spent(acts)] <= g2[Spent(best)]
<1> DEFINE A == Spent(acts)
           B == Spent(best)
           f == [c \in Cases |-> Score(s, c)]
<1>1. /\ DOMAIN best = Universe(s)
      /\ \A c \in DOMAIN best : best[c] \in Allowed(s, c)
      /\ Cardinality(B) <= budget
      /\ Greedy(s, best, budget - Cardinality(B))
  BY DEF Finished
<1>2. /\ kind \in Populations /\ budget \in Nat
      /\ A \subseteq Cases /\ IsFiniteSet(A) /\ Cardinality(A) \in Nat
      /\ \A c \in A : /\ acts[c] \in Allowed(s, c) \cap {PaymentLink, ManualCharge}
                      /\ acts[c] \in Automated
  BY FinishedSpends
<1>3. /\ B \subseteq Cases /\ IsFiniteSet(B) /\ Cardinality(B) \in Nat
      /\ \A c \in B : /\ best[c] \in Allowed(s, c) \cap {PaymentLink, ManualCharge}
                      /\ best[c] \in Automated
  BY <1>1, FinishedSpends
<1>4. IsFiniteSet(Cases)
  BY <1>2, KindOfCase
<1>5. \A c \in Cases : Score(s, c) \in Int /\ Score(s, c) >= 0
  BY <1>2, ScoreIsWorth
<1>6. f \in [Cases -> Int] /\ \A c \in Cases : f[c] = Score(s, c) /\ f[c] >= 0
  BY <1>5
<1>7. \A c \in A : f1[c] \in Int /\ f1[c] <= f[c]
  <2> SUFFICES ASSUME NEW c \in A PROVE f1[c] \in Int /\ f1[c] <= f[c]
    OBVIOUS
  <2>1. f1[c] = Worth(s, c, acts[c]) /\ c \in Cases
    BY <1>2
  <2>2. Worth(s, c, acts[c]) \in Int
    BY <1>2, <2>1, WorthIsInt
  <2>3. Worth(s, c, acts[c]) <= Score(s, c)
    BY <1>2, <2>1, ScoreIsWorth
  <2> QED
    BY <1>6, <2>1, <2>2, <2>3
<1>8. \A c \in B : f2[c] = f[c] /\ f[c] \in Int
  <2> SUFFICES ASSUME NEW c \in B PROVE f2[c] = f[c] /\ f[c] \in Int
    OBVIOUS
  <2>1. f2[c] = Worth(s, c, best[c]) /\ c \in Cases /\ c \in DOMAIN best
    BY <1>3 DEF Spent
  <2>2. ConsumesBudget(best[c]) /\ best[c] # NoAction
    BY Interventions DEF Spent
  <2>3. best[c] = Preferred(s, c)
    BY <1>1, <2>1, <2>2 DEF Greedy
  <2>4. Score(s, c) = Worth(s, c, best[c])
    BY <1>2, <2>1, <2>2, <2>3, ScoreIsWorth
  <2> QED
    BY <1>5, <1>6, <2>1, <2>4
<1>9. \/ \A a \in A \ B : f[a] = 0
      \/ /\ Cardinality(A) <= Cardinality(B)
         /\ \A a \in A \ B, e \in B : f[a] <= f[e]
  <2>1. ASSUME NEW a \in A \ B
        PROVE  \/ f[a] = 0
               \/ /\ budget - Cardinality(B) = 0
                  /\ \A e \in B : f[a] <= f[e]
    <3>1. a \in DOMAIN best /\ a \in Cases /\ ~ConsumesBudget(best[a])
      BY <1>1, <1>2 DEF Spent
    <3>2. CASE best[a] = Preferred(s, a)
      BY <1>2, <1>6, <3>1, <3>2, ScoreIsWorth
    <3>3. CASE best[a] # Preferred(s, a)
      <4>1. /\ budget - Cardinality(B) = 0
            /\ \A e \in B : Score(s, a) <= Score(s, e)
        BY <1>1, <3>1, <3>3 DEF Greedy
      <4> QED
        BY <1>3, <1>6, <3>1, <4>1
    <3> QED
      BY <3>2, <3>3
  <2>2. \A a \in A \ B, e \in B : f[a] \in Int /\ f[e] \in Int /\ 0 <= f[e]
    BY <1>2, <1>3, <1>6
  <2> HIDE DEF f, A, B
  <2>3. ASSUME NEW a \in A \ B, f[a] # 0
        PROVE  Cardinality(A) <= Cardinality(B) /\ \A b \in A \ B, e \in B : f[b] <= f[e]
    <3>1. budget - Cardinality(B) = 0
      BY <2>1, <2>3
    <3>2. Cardinality(A) <= Cardinality(B)
      BY <1>2, <1>3, <3>1 DEF A
    <3>3. \A b \in A \ B, e \in B : f[b] <= f[e]
      BY <2>1, <2>2
    <3> QED
      BY <3>2, <3>3
  <2> QED
    BY <2>3
<1> HIDE DEF f
<1>10. PICK g : Adds(f, Cases, g)
  BY <1>4, <1>6, SumExists
<1>11. g1[A] <= g[A]
  <2>1. \A c \in A : f1[c] \in Int /\ f[c] \in Int /\ f1[c] <= f[c]
    BY <1>2, <1>6, <1>7
  <2> QED
    BY <1>2, <1>10, <2>1, SumLeq
<1>12. g[A] <= g[B]
  <2>1. \A c \in Cases : f[c] >= 0
    BY <1>6
  <2> HIDE DEF A, B
  <2> QED
    BY <1>2, <1>3, <1>4, <1>6, <1>9, <1>10, <2>1, Exchange
<1>13. g[B] = g2[B]
  BY <1>3, <1>8, <1>10, SumSame
<1>14. g1[A] \in Int /\ g[A] \in Int /\ g[B] \in Int
  BY <1>2, <1>3, <1>10, SumIsInt
<1> HIDE DEF A, B
<1>15. g1[A] <= g2[B]
  BY <1>11, <1>12, <1>13, <1>14
<1> QED
  BY <1>15 DEF A, B

\* The value of a choice of actions is a sum over the cases that it spends on.
LEMMA EstimatedValue ==
  ASSUME NEW s, NEW acts, NEW f, IsFiniteSet(Spent(acts)),
         f = [c \in Spent(acts) |-> EstimatedEV(s, c, acts[c])],
         f \in [Spent(acts) -> Int]
  PROVE  \E g : Adds(f, Spent(acts), g) /\ ValueOf(EstimatedEV, s, acts) = g[Spent(acts)]
<1> DEFINE T == Spent(acts)
           Is(h) == h = [t \in SUBSET T |-> IF t = {} THEN 0
                           ELSE EstimatedEV(s, Item(t), acts[Item(t)]) + h[t \ {Item(t)}]]
<1>1. \A h : Is(h) <=> Folds(f, T, h)
  <2>1. ASSUME NEW t \in SUBSET T, t # {}
        PROVE  f[Item(t)] = EstimatedEV(s, Item(t), acts[Item(t)])
    BY <2>1, ItemOf
  <2> QED
    BY <2>1 DEF Folds
<1>2. Is(CHOOSE h : Is(h))
  BY <1>1, FoldsExist
<1>3. ValueOf(EstimatedEV, s, acts) = (CHOOSE h : Is(h))[T]
  BY DEF ValueOf, Total, MapThenSumSet, MapThenFoldSet, Item
<1> QED
  BY <1>1, <1>2, <1>3, FoldsAdd

LEMMA TrueValue ==
  ASSUME NEW s, NEW acts, NEW f, IsFiniteSet(Spent(acts)),
         f = [c \in Spent(acts) |-> TrueEV(s, c, acts[c])],
         f \in [Spent(acts) -> Int]
  PROVE  \E g : Adds(f, Spent(acts), g) /\ ValueOf(TrueEV, s, acts) = g[Spent(acts)]
<1> DEFINE T == Spent(acts)
           Is(h) == h = [t \in SUBSET T |-> IF t = {} THEN 0
                           ELSE TrueEV(s, Item(t), acts[Item(t)]) + h[t \ {Item(t)}]]
<1>1. \A h : Is(h) <=> Folds(f, T, h)
  <2>1. ASSUME NEW t \in SUBSET T, t # {}
        PROVE  f[Item(t)] = TrueEV(s, Item(t), acts[Item(t)])
    BY <2>1, ItemOf
  <2> QED
    BY <2>1 DEF Folds
<1>2. Is(CHOOSE h : Is(h))
  BY <1>1, FoldsExist
<1>3. ValueOf(TrueEV, s, acts) = (CHOOSE h : Is(h))[T]
  BY DEF ValueOf, Total, MapThenSumSet, MapThenFoldSet, Item
<1> QED
  BY <1>1, <1>2, <1>3, FoldsAdd

LEMMA ReclaimIsBest == FinishedInv => ReclaimSpendsBest
<1> SUFFICES ASSUME FinishedInv, "reclaim" \in DOMAIN results,
                    NEW acts \in Feasible("reclaim"),
                    \A c \in Spent(acts) : ~Demanding("reclaim", c)
             PROVE  ValueOf(EstimatedEV, "reclaim", acts)
                      <= ValueOf(EstimatedEV, "reclaim", results["reclaim"])
  BY DEF ReclaimSpendsBest
<1> DEFINE s == "reclaim"
           best == results[s]
           f1 == [c \in Spent(acts) |-> EstimatedEV(s, c, acts[c])]
           f2 == [c \in Spent(best) |-> EstimatedEV(s, c, best[c])]
<1>1. s \in Ranking /\ s # "oracle"
  BY DEF Ranking
<1>2. Finished(s, best)
  BY DEF FinishedInv, ResultsInv
<1>3. /\ DOMAIN acts = Universe(s) /\ Cardinality(Spent(acts)) <= budget
      /\ \A c \in DOMAIN acts : acts[c] \in Allowed(s, c)
  BY DEF Feasible, Accepted
<1>4. /\ DOMAIN best = Universe(s)
      /\ \A c \in DOMAIN best : best[c] \in Allowed(s, c)
  BY <1>2 DEF Finished
<1> HIDE DEF best
<1>5. /\ kind \in Populations /\ IsFiniteSet(Spent(acts)) /\ IsFiniteSet(Spent(best))
      /\ Spent(acts) \subseteq Cases /\ Spent(best) \subseteq Cases
      /\ \A c \in Spent(acts) : acts[c] \in Automated
      /\ \A c \in Spent(best) : best[c] \in Automated
  BY <1>3, <1>4, FinishedSpends
<1>6. \A c, a : Worth(s, c, a) = EstimatedEV(s, c, a)
  BY DEF Worth
<1>7. f1 \in [Spent(acts) -> Int] /\ f2 \in [Spent(best) -> Int]
  BY <1>5, WorthIsInt
<1>8. PICK g1 : Adds(f1, Spent(acts), g1) /\ ValueOf(EstimatedEV, s, acts) = g1[Spent(acts)]
  BY <1>5, <1>7, EstimatedValue
<1>9. PICK g2 : Adds(f2, Spent(best), g2) /\ ValueOf(EstimatedEV, s, best) = g2[Spent(best)]
  BY <1>5, <1>7, EstimatedValue
<1>10. /\ \A c \in Spent(acts) : f1[c] = Worth(s, c, acts[c])
       /\ \A c \in Spent(best) : f2[c] = Worth(s, c, best[c])
  BY <1>6
<1> HIDE DEF f1, f2, s
<1>11. \A c \in Spent(acts) : s = "oracle" \/ ~Demanding(s, c)
  BY DEF s
<1>12. g1[Spent(acts)] <= g2[Spent(best)]
  BY <1>1, <1>2, <1>3, <1>8, <1>9, <1>10, <1>11, RankingSpendsBest
<1> QED
  BY <1>8, <1>9, <1>12 DEF s, best

LEMMA OracleIsBest == FinishedInv => OracleIsTheCeiling
<1> SUFFICES ASSUME FinishedInv, "oracle" \in DOMAIN results,
                    NEW s \in DOMAIN results, ~Ungated(s)
             PROVE  ValueOf(TrueEV, s, results[s])
                      <= ValueOf(TrueEV, "oracle", results["oracle"])
  BY DEF OracleIsTheCeiling
<1> DEFINE o == "oracle"
           best == results[o]
           acts == results[s]
           f1 == [c \in Spent(acts) |-> TrueEV(s, c, acts[c])]
           f2 == [c \in Spent(best) |-> TrueEV(o, c, best[c])]
<1>1. o \in Ranking /\ ~Ungated(o)
  BY DEF Ranking, Ungated
<1>2. Finished(o, best) /\ Finished(s, acts)
  BY DEF FinishedInv, ResultsInv
<1>3. \A c : BacklogIn(s, c) = BacklogIn(o, c)
  BY <1>1 DEF BacklogIn
<1>4. /\ Universe(s) = Universe(o) /\ \A c : Allowed(s, c) = Allowed(o, c)
      /\ \A c, a : TrueEV(s, c, a) = Worth(o, c, a)
  BY <1>3 DEF Universe, Allowed, Policy, TrueEV, Worth
<1>5. /\ DOMAIN acts = Universe(o) /\ Cardinality(Spent(acts)) <= budget
      /\ \A c \in DOMAIN acts : acts[c] \in Allowed(o, c)
  BY <1>2, <1>4 DEF Finished
<1>6. /\ DOMAIN best = Universe(o)
      /\ \A c \in DOMAIN best : best[c] \in Allowed(o, c)
  BY <1>2 DEF Finished
<1> HIDE DEF best, acts
<1>7. /\ kind \in Populations /\ IsFiniteSet(Spent(acts)) /\ IsFiniteSet(Spent(best))
      /\ Spent(acts) \subseteq Cases /\ Spent(best) \subseteq Cases
      /\ \A c \in Spent(acts) : acts[c] \in Automated
      /\ \A c \in Spent(best) : best[c] \in Automated
  BY <1>5, <1>6, FinishedSpends
<1>8. f1 \in [Spent(acts) -> Int] /\ f2 \in [Spent(best) -> Int]
  BY <1>7, WorthIsInt
<1>9. PICK g1 : Adds(f1, Spent(acts), g1) /\ ValueOf(TrueEV, s, acts) = g1[Spent(acts)]
  BY <1>7, <1>8, TrueValue
<1>10. PICK g2 : Adds(f2, Spent(best), g2) /\ ValueOf(TrueEV, o, best) = g2[Spent(best)]
  BY <1>7, <1>8, TrueValue
<1>11. \A c, a : TrueEV(o, c, a) = Worth(o, c, a)
  BY DEF Worth
<1>12. /\ \A c \in Spent(acts) : f1[c] = Worth(o, c, acts[c])
       /\ \A c \in Spent(best) : f2[c] = Worth(o, c, best[c])
  BY <1>4, <1>11
<1> HIDE DEF f1, f2, o
<1>13. \A c \in Spent(acts) : o = "oracle" \/ ~Demanding(o, c)
  BY DEF o
<1>14. g1[Spent(acts)] <= g2[Spent(best)]
  BY <1>1, <1>2, <1>5, <1>9, <1>10, <1>12, <1>13, RankingSpendsBest
<1> QED
  BY <1>9, <1>10, <1>14 DEF o, best, acts

\* The one greedy pass of the model's strategy spends the budget as well as it can be
\* spent, for every population of cases and every budget: no choice of actions within
\* budget and policy that leaves alone what policy wants escalated is worth more by
\* the model's own estimates.  By the exchange argument of Exchange, on FinishedInv.
THEOREM GreedySpendsBest == Spec => []ReclaimSpendsBest
BY FinishedInvariant, ReclaimIsBest, PTL

\* Regret is measured against a ceiling, for every population of cases and every
\* budget: no strategy that is shown the gated cases makes choices of a higher true
\* value than the reference strategy that knows the true probabilities.
THEOREM RegretHasACeiling == Spec => []OracleIsTheCeiling
BY FinishedInvariant, OracleIsBest, PTL

-----------------------------------------------------------------------------
(* The two scorecards.  Equal values have one sum, whatever they are.      *)

LEMMA SameRecovered ==
  ASSUME NEW s
  PROVE  AggregateMetrics(s).recovered = ScoreStrategy(s).recovered
<1> DEFINE T == DOMAIN results[s]
           Run(h) == h = [t \in SUBSET T |-> IF t = {} THEN 0
                            ELSE Outcome(s, Item(t)).amount
                                   + h[t \ {Item(t)}]]
           Bench(h) == h = [t \in SUBSET T |-> IF t = {} THEN 0
                              ELSE Contribution(s, Item(t)).recovered + h[t \ {Item(t)}]]
<1>1. AggregateMetrics(s).recovered = (CHOOSE h : Run(h))[T]
  BY DEF AggregateMetrics, Total, MapThenSumSet, MapThenFoldSet, Item
<1>2. ScoreStrategy(s).recovered = (CHOOSE h : Bench(h))[T]
  BY DEF ScoreStrategy, Total, MapThenSumSet, MapThenFoldSet, Item
<1>3. \A c : Contribution(s, c).recovered = Outcome(s, c).amount
  BY DEF Contribution
<1>4. \A h : Run(h) <=> Bench(h)
  BY <1>3
<1> HIDE DEF Run, Bench
<1>5. (CHOOSE h : Run(h)) = (CHOOSE h : Bench(h))
  BY <1>4
<1> QED
  BY <1>1, <1>2, <1>5

LEMMA SameIncremental ==
  ASSUME NEW s
  PROVE  AggregateMetrics(s).incremental = ScoreStrategy(s).incremental
<1> DEFINE T == DOMAIN results[s]
           Run(h) == h = [t \in SUBSET T |-> IF t = {} THEN 0
                            ELSE (Outcome(s, Item(t)).amount - Counterfactual(Item(t)).amount)
                                   + h[t \ {Item(t)}]]
           Bench(h) == h = [t \in SUBSET T |-> IF t = {} THEN 0
                              ELSE Contribution(s, Item(t)).incremental + h[t \ {Item(t)}]]
<1>1. AggregateMetrics(s).incremental = (CHOOSE h : Run(h))[T]
  BY DEF AggregateMetrics, Total, MapThenSumSet, MapThenFoldSet, Item
<1>2. ScoreStrategy(s).incremental = (CHOOSE h : Bench(h))[T]
  BY DEF ScoreStrategy, Total, MapThenSumSet, MapThenFoldSet, Item
<1>3. \A c : Contribution(s, c).incremental = (Outcome(s, c).amount - Counterfactual(c).amount)
  BY DEF Contribution
<1>4. \A h : Run(h) <=> Bench(h)
  BY <1>3
<1> HIDE DEF Run, Bench
<1>5. (CHOOSE h : Run(h)) = (CHOOSE h : Bench(h))
  BY <1>4
<1> QED
  BY <1>1, <1>2, <1>5

LEMMA SameCost ==
  ASSUME NEW s
  PROVE  AggregateMetrics(s).cost = ScoreStrategy(s).cost
<1> DEFINE T == DOMAIN results[s]
           Run(h) == h = [t \in SUBSET T |-> IF t = {} THEN 0
                            ELSE CostOf(results[s][Item(t)])
                                   + h[t \ {Item(t)}]]
           Bench(h) == h = [t \in SUBSET T |-> IF t = {} THEN 0
                              ELSE Contribution(s, Item(t)).cost + h[t \ {Item(t)}]]
<1>1. AggregateMetrics(s).cost = (CHOOSE h : Run(h))[T]
  BY DEF AggregateMetrics, Total, MapThenSumSet, MapThenFoldSet, Item
<1>2. ScoreStrategy(s).cost = (CHOOSE h : Bench(h))[T]
  BY DEF ScoreStrategy, Total, MapThenSumSet, MapThenFoldSet, Item
<1>3. \A c : Contribution(s, c).cost = CostOf(results[s][c])
  BY DEF Contribution
<1>4. \A h : Run(h) <=> Bench(h)
  BY <1>3
<1> HIDE DEF Run, Bench
<1>5. (CHOOSE h : Run(h)) = (CHOOSE h : Bench(h))
  BY <1>4
<1> QED
  BY <1>1, <1>2, <1>5

\* The runner and the harness count the same cases.
LEMMA SameCounts ==
  ASSUME NEW s
  PROVE  \A f \in {"used", "escalations", "unnecessary"} :
           AggregateMetrics(s)[f] = ScoreStrategy(s)[f]
<1> DEFINE T == DOMAIN results[s]
<1>1. AggregateMetrics(s).used = ScoreStrategy(s).used
  <2>1. {c \in T : ConsumesBudget(results[s][c])} = {c \in T : Contribution(s, c).intervened}
    BY DEF Contribution
  <2> QED
    BY <2>1 DEF AggregateMetrics, ScoreStrategy, Count
<1>2. AggregateMetrics(s).escalations = ScoreStrategy(s).escalations
  <2>1. {c \in T : results[s][c] = Escalate} = {c \in T : Contribution(s, c).escalated}
    BY DEF Contribution
  <2> QED
    BY <2>1 DEF AggregateMetrics, ScoreStrategy, Count
<1>3. AggregateMetrics(s).unnecessary = ScoreStrategy(s).unnecessary
  <2>1. {c \in T : ConsumesBudget(results[s][c]) /\ Counterfactual(c).amount > 0}
          = {c \in T : Contribution(s, c).unnecessary}
    BY DEF Contribution
  <2> QED
    BY <2>1 DEF AggregateMetrics, ScoreStrategy, Count
<1> QED
  BY <1>1, <1>2, <1>3

LEMMA InvalidAdds ==
  ASSUME NEW s, NEW f, IsFiniteSet(DOMAIN results[s]),
         f = [c \in DOMAIN results[s] |-> Contribution(s, c).invalid],
         f \in [DOMAIN results[s] -> Int]
  PROVE  \E g : /\ Adds(f, DOMAIN results[s], g)
                /\ ScoreStrategy(s).invalid = g[DOMAIN results[s]]
<1> DEFINE T == DOMAIN results[s]
           Is(h) == h = [t \in SUBSET T |-> IF t = {} THEN 0
                           ELSE Contribution(s, Item(t)).invalid + h[t \ {Item(t)}]]
<1>1. \A h : Is(h) <=> Folds(f, T, h)
  <2>1. ASSUME NEW t \in SUBSET T, t # {}
        PROVE  f[Item(t)] = Contribution(s, Item(t)).invalid
    BY <2>1, ItemOf
  <2> QED
    BY <2>1 DEF Folds
<1>2. Is(CHOOSE h : Is(h))
  BY <1>1, FoldsExist
<1>3. ScoreStrategy(s).invalid = (CHOOSE h : Is(h))[T]
  BY DEF ScoreStrategy, Total, MapThenSumSet, MapThenFoldSet, Item
<1> QED
  BY <1>1, <1>2, <1>3, FoldsAdd

LEMMA TargetedAdds ==
  ASSUME NEW s, NEW f, IsFiniteSet(DOMAIN results[s]),
         f = [c \in DOMAIN results[s] |-> Contribution(s, c).targeted],
         f \in [DOMAIN results[s] -> Int]
  PROVE  \E g : /\ Adds(f, DOMAIN results[s], g)
                /\ ScoreStrategy(s).targeted = g[DOMAIN results[s]]
<1> DEFINE T == DOMAIN results[s]
           Is(h) == h = [t \in SUBSET T |-> IF t = {} THEN 0
                           ELSE Contribution(s, Item(t)).targeted + h[t \ {Item(t)}]]
<1>1. \A h : Is(h) <=> Folds(f, T, h)
  <2>1. ASSUME NEW t \in SUBSET T, t # {}
        PROVE  f[Item(t)] = Contribution(s, Item(t)).targeted
    BY <2>1, ItemOf
  <2> QED
    BY <2>1 DEF Folds
<1>2. Is(CHOOSE h : Is(h))
  BY <1>1, FoldsExist
<1>3. ScoreStrategy(s).targeted = (CHOOSE h : Is(h))[T]
  BY DEF ScoreStrategy, Total, MapThenSumSet, MapThenFoldSet, Item
<1> QED
  BY <1>1, <1>2, <1>3, FoldsAdd

LEMMA MissedAdds ==
  ASSUME NEW s, NEW f, IsFiniteSet(DOMAIN results[s]),
         f = [c \in DOMAIN results[s] |-> Contribution(s, c).missed],
         f \in [DOMAIN results[s] -> Int]
  PROVE  \E g : /\ Adds(f, DOMAIN results[s], g)
                /\ ScoreStrategy(s).missed = g[DOMAIN results[s]]
<1> DEFINE T == DOMAIN results[s]
           Is(h) == h = [t \in SUBSET T |-> IF t = {} THEN 0
                           ELSE Contribution(s, Item(t)).missed + h[t \ {Item(t)}]]
<1>1. \A h : Is(h) <=> Folds(f, T, h)
  <2>1. ASSUME NEW t \in SUBSET T, t # {}
        PROVE  f[Item(t)] = Contribution(s, Item(t)).missed
    BY <2>1, ItemOf
  <2> QED
    BY <2>1 DEF Folds
<1>2. Is(CHOOSE h : Is(h))
  BY <1>1, FoldsExist
<1>3. ScoreStrategy(s).missed = (CHOOSE h : Is(h))[T]
  BY DEF ScoreStrategy, Total, MapThenSumSet, MapThenFoldSet, Item
<1> QED
  BY <1>1, <1>2, <1>3, FoldsAdd

LEMMA CollectibleAdds ==
  ASSUME NEW U, NEW f, IsFiniteSet(U),
         f = [c \in U |-> kind[c].collectible], f \in [U -> Int]
  PROVE  \E g : Adds(f, U, g) /\ Total(LAMBDA c : kind[c].collectible, U) = g[U]
<1> DEFINE Is(h) == h = [t \in SUBSET U |-> IF t = {} THEN 0
                           ELSE kind[Item(t)].collectible + h[t \ {Item(t)}]]
<1>1. \A h : Is(h) <=> Folds(f, U, h)
  <2>1. ASSUME NEW t \in SUBSET U, t # {}
        PROVE  f[Item(t)] = kind[Item(t)].collectible
    BY <2>1, ItemOf
  <2> QED
    BY <2>1 DEF Folds
<1>2. Is(CHOOSE h : Is(h))
  BY <1>1, FoldsExist
<1>3. Total(LAMBDA c : kind[c].collectible, U) = (CHOOSE h : Is(h))[U]
  BY DEF Total, MapThenSumSet, MapThenFoldSet, Item
<1> QED
  BY <1>1, <1>2, <1>3, FoldsAdd

\* A strategy that has finished has done nothing outside policy.
LEMMA NothingExecuted ==
  ASSUME FinishedInv, NEW s \in DOMAIN results
  PROVE  ScoreStrategy(s).executed = 0
<1>1. \A c \in DOMAIN results[s] : results[s][c] \in Allowed(s, c)
  BY DEF FinishedInv, ResultsInv, Finished
<1>2. {c \in DOMAIN results[s] : Contribution(s, c).executed} = {}
  BY <1>1 DEF Contribution
<1> QED
  BY <1>2, FS_EmptySet DEF ScoreStrategy, Count

LEMMA NothingInvalid ==
  ASSUME FinishedInv, NEW s \in DOMAIN results, ~Ungated(s)
  PROVE  ScoreStrategy(s).invalid = 0
<1> DEFINE T == DOMAIN results[s]
           f == [c \in T |-> Contribution(s, c).invalid]
<1>1. T \subseteq Cases /\ IsFiniteSet(T)
  BY KindOfCase, FS_Subset DEF FinishedInv, PlayersInv, ResultsInv, Finished, Universe
<1>2. \A c \in T : Contribution(s, c).invalid = 0
  BY DEF Contribution
<1>3. f \in [T -> Int] /\ \A c \in T : f[c] = 0
  BY <1>2
<1>4. PICK g : Adds(f, T, g) /\ ScoreStrategy(s).invalid = g[T]
  BY <1>1, <1>3, InvalidAdds
<1> HIDE DEF T, f
<1>5. g[T] = 0
  BY <1>1, <1>3, <1>4, SumOfNothing
<1> QED
  BY <1>4, <1>5

\* What policy let a strategy collect of a case is targeted or missed.
LEMMA NothingUnaccounted ==
  ASSUME FinishedInv, NEW s \in DOMAIN results
  PROVE  ScoreStrategy(s).targeted + ScoreStrategy(s).missed =
           Total(LAMBDA c : kind[c].collectible,
                 {c \in Universe(s) : \E a \in Allowed(s, c) : ConsumesBudget(a)})
<1> DEFINE T == DOMAIN results[s]
           U == {c \in Universe(s) : \E a \in Allowed(s, c) : ConsumesBudget(a)}
           f1 == [c \in T |-> Contribution(s, c).targeted]
           f2 == [c \in T |-> Contribution(s, c).missed]
           f3 == [c \in T |-> IF c \in U THEN kind[c].collectible ELSE 0]
           f4 == [c \in U |-> kind[c].collectible]
<1>1. /\ kind \in Populations /\ T = Universe(s)
      /\ \A c \in T : results[s][c] \in Allowed(s, c)
  BY DEF FinishedInv, PlayersInv, ResultsInv, Finished
<1>2. T \subseteq Cases /\ IsFiniteSet(T) /\ U \in SUBSET T /\ IsFiniteSet(U)
  BY <1>1, KindOfCase, FS_Subset DEF Universe
<1>3. \A c \in T : kind[c].collectible \in Int
  BY <1>1, <1>2, KindOfCase, KindFields
<1>4. ASSUME NEW c \in T
      PROVE  /\ Contribution(s, c).targeted \in Int /\ Contribution(s, c).missed \in Int
             /\ Contribution(s, c).targeted + Contribution(s, c).missed =
                  IF c \in U THEN kind[c].collectible ELSE 0
  <2> DEFINE k == kind[c].collectible
  <2>1. k \in Int /\ 0 \in Int /\ k + 0 = k /\ 0 + k = k /\ 0 + 0 = 0
    BY <1>3
  <2>2. /\ Contribution(s, c).targeted = IF ConsumesBudget(results[s][c]) THEN k ELSE 0
        /\ Contribution(s, c).missed = IF ConsumesBudget(results[s][c]) THEN 0
                                       ELSE IF c \in U THEN k ELSE 0
    BY <1>1 DEF Contribution, Missed
  <2>3. ConsumesBudget(results[s][c]) => c \in U
    BY <1>1
  <2> HIDE DEF k, U
  <2>4. CASE ConsumesBudget(results[s][c])
    BY <2>1, <2>2, <2>3, <2>4 DEF k
  <2>5. CASE ~ConsumesBudget(results[s][c])
    BY <2>1, <2>2, <2>5 DEF k
  <2> QED
    BY <2>4, <2>5
<1>5. f1 \in [T -> Int] /\ f2 \in [T -> Int] /\ f3 \in [T -> Int] /\ f4 \in [U -> Int]
  BY <1>2, <1>3, <1>4
<1>6. PICK g1 : Adds(f1, T, g1) /\ ScoreStrategy(s).targeted = g1[T]
  BY <1>2, <1>5, TargetedAdds
<1>7. PICK g2 : Adds(f2, T, g2) /\ ScoreStrategy(s).missed = g2[T]
  BY <1>2, <1>5, MissedAdds
<1>8. PICK g3 : Adds(f3, T, g3)
  BY <1>2, <1>5, SumExists
<1>9. PICK g4 : Adds(f4, U, g4) /\ Total(LAMBDA c : kind[c].collectible, U) = g4[U]
  BY <1>2, <1>5, CollectibleAdds
<1>10. \A c \in T : f1[c] \in Int /\ f2[c] \in Int /\ f3[c] = f1[c] + f2[c]
  BY <1>4
<1>11. /\ \A c \in T \ U : f3[c] = 0
       /\ \A c \in U : f4[c] \in Int /\ f4[c] = f3[c]
  BY <1>2, <1>3
<1> HIDE DEF T, U, f1, f2, f3, f4
<1>12. g3[T] = g1[T] + g2[T]
  <2>1. IsFiniteSet(T) /\ Adds(f1, T, g1) /\ Adds(f2, T, g2) /\ Adds(f3, T, g3)
    BY <1>2, <1>6, <1>7, <1>8
  <2> QED
    BY <1>10, <2>1, SumOfSums
<1>13. g3[T] = g3[U]
  BY <1>2, <1>8, <1>11, SumWhere
<1>14. g4[U] = g3[U]
  BY <1>2, <1>8, <1>9, <1>11, SumSame
<1> QED
  BY <1>6, <1>7, <1>9, <1>12, <1>13, <1>14 DEF U

LEMMA BothAgree == FinishedInv => ScorecardsAgree
<1> SUFFICES ASSUME FinishedInv, NEW s \in DOMAIN results
             PROVE  /\ \A f \in Shared : AggregateMetrics(s)[f] = ScoreStrategy(s)[f]
                    /\ ScoreStrategy(s).executed = 0
                    /\ ~Ungated(s) => ScoreStrategy(s).invalid = 0
                    /\ ScoreStrategy(s).targeted + ScoreStrategy(s).missed =
                         Total(LAMBDA c : kind[c].collectible,
                               {c \in Universe(s) :
                                  \E a \in Allowed(s, c) : ConsumesBudget(a)})
  BY DEF ScorecardsAgree
<1>1. \A f \in Shared : AggregateMetrics(s)[f] = ScoreStrategy(s)[f]
  BY SameCounts, SameRecovered, SameIncremental, SameCost DEF Shared
<1> QED
  BY <1>1, NothingExecuted, NothingInvalid, NothingUnaccounted

\* The runner's scorecard and the harness's, written separately, agree on every
\* strategy of every comparison; nothing is done outside policy, nothing that is not
\* collectible is charged behind the gate, and every paisa that policy let a strategy
\* collect is targeted or missed.  The sums are handled by SumWhere and SumOfSums.
THEOREM TwoScorecardsAgree == Spec => []ScorecardsAgree
BY FinishedInvariant, BothAgree, PTL
=============================================================================
