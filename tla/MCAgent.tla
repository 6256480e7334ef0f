------------------------------- MODULE MCAgent -------------------------------
(***************************************************************************)
(* A small instance of Agent: one case, its model and its oracle.           *)
(***************************************************************************)
EXTENDS Agent

Always(action, worth) ==
  [x \in Cases \X (0..MaxRecoveryAttempts - 1) |-> [action |-> action, worth |-> worth]]

\* No model; a model that insists on one action; one that finds it not worth.
AnyAdvice ==
  {Always("none", FALSE), Always(PaymentLink, TRUE), Always(ManualCharge, TRUE),
   Always(Escalate, TRUE), Always(PaymentLink, FALSE)}

LinkAdvice == {Always(PaymentLink, TRUE)}

AllFates(outcome) == [x \in Cases \X DefaultActions |-> outcome]

BothFates == {AllFates("paid"), AllFates("unpaid")}

Unpaid == {AllFates("unpaid")}
=============================================================================
