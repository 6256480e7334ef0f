------------------------------ MODULE Economics ------------------------------
(***************************************************************************)
(* What an action costs, how likely it is to recover a case, and what it   *)
(* is worth.  Money is in paise, a probability in hundredths of a percent  *)
(* and a trait (latent intent, past success) in percent, so that on the    *)
(* amounts the models use every product is exact and nothing is rounded.   *)
(***************************************************************************)
EXTENDS PolicyV1

Whole == 10000  \* the probability 1

CostOf(action) ==
  CASE action = NoAction     -> 0
    [] action = PaymentLink  -> 200
    [] action = ManualCharge -> 500
    [] action = Escalate     -> 5000

ConsumesBudget(action) == action \in {PaymentLink, ManualCharge}

Clip(p) == IF p > Whole THEN Whole ELSE p

\* recovery_probability: the hidden truth, of a case's trait record.
RecoveryProbability(action, c) ==
  LET base == 700 + 38 * c.latent + 18 * c.success
  IN  CASE action = Escalate -> 0
        [] action # Escalate /\ c.dispute /\ action # NoAction -> 0
        [] ~c.dispute /\ c.opted_out /\ action = PaymentLink -> 4 * c.latent
        [] action = NoAction -> Clip(base \div 2)
        [] ~c.dispute /\ ~c.opted_out /\ action = PaymentLink -> Clip(base + 1600)
        [] ~c.dispute /\ action = ManualCharge -> Clip(base + 2000)

\* incremental_ev_paise: doing nothing is worth nothing.
IncrementalEV(backlog, action, p, p_no_action) ==
  IF action = NoAction THEN 0
  ELSE (backlog * (p - p_no_action)) \div Whole - CostOf(action)

\* OutcomeOracle.decide: one draw for each case and action, which the strategy
\* that asks does not influence.  What is paid is the whole collectible backlog.
Decide(c, action) ==
  LET p == RecoveryProbability(action, c)
  IN  CASE action = Escalate -> [outcome |-> "escalated", amount |-> 0]
        [] action # Escalate /\ c.draw[action] < p ->
             [outcome |-> "paid", amount |-> c.collectible]
        [] action = PaymentLink /\ c.draw[action] \in p..(p + 799) ->
             [outcome |-> "pending", amount |-> 0]
        [] OTHER -> [outcome |-> "failed", amount |-> 0]
=============================================================================
