------------------------------- MODULE PolicyV1 -------------------------------
(***************************************************************************)
(* The policy engine: which actions a recovery case permits.  Every rule   *)
(* that applies subtracts actions, and may demand escalation or a stop;    *)
(* the evaluator intersects them all, whatever their order.                *)
(***************************************************************************)
EXTENDS Integers

NoAction == "no_action"
PaymentLink == "send_payment_link"
ManualCharge == "attempt_manual_charge"
Escalate == "escalate_to_merchant"

DefaultActions == {NoAction, PaymentLink, ManualCharge, Escalate}
AutomatedCollection == {PaymentLink, ManualCharge}
ContactActions == {PaymentLink}

NeverContacted == -1

\* A hit is what a rule that applies subtracts and demands.
RuleHit == [blocks : SUBSET DefaultActions, escalates : BOOLEAN, stops : BOOLEAN]

Blocks(actions) == [blocks |-> actions, escalates |-> FALSE, stops |-> FALSE]

Escalates(actions) == [Blocks(actions) EXCEPT !.escalates = TRUE]

MaxAttempts(c) ==
  IF c.attempts >= c.max_attempts THEN {Escalates(AutomatedCollection)} ELSE {}

ContactCooldown(c) ==
  IF c.last_contact # NeverContacted /\ c.now - c.last_contact < c.cooldown
  THEN {Blocks(ContactActions)} ELSE {}

\* The hits of RULES_V1 on a context.
RulesV1(c) ==
  (IF c.domestic THEN {Blocks({ManualCharge})} ELSE {}) \cup
  (IF c.backlog > c.mandate THEN {Blocks({ManualCharge})} ELSE {}) \cup
  (IF c.risk THEN {Escalates(AutomatedCollection)} ELSE {}) \cup
  (IF c.dispute
   THEN {[Escalates(AutomatedCollection) EXCEPT !.stops = TRUE]} ELSE {}) \cup
  (IF c.opted_out THEN {Escalates(ContactActions)} ELSE {}) \cup
  MaxAttempts(c) \cup
  ContactCooldown(c)

\* Doing nothing is always permitted, and escalating whenever a rule asked for
\* it; after a stop nothing automated is.
EvaluatePolicy(hits) ==
  LET escalates == \E h \in hits : h.escalates
      stops     == \E h \in hits : h.stops
      kept      == {NoAction} \cup (IF escalates THEN {Escalate} ELSE {})
      union     == UNION {h.blocks : h \in hits}
      blocked   == (union \ kept) \cup (IF stops THEN AutomatedCollection ELSE {})
  IN  [allowed   |-> DefaultActions \ blocked,
       blocked   |-> blocked,
       escalates |-> escalates,
       stops     |-> stops]

EvaluateV1(c) == EvaluatePolicy(RulesV1(c))
=============================================================================
