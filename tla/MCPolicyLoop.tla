----------------------------- MODULE MCPolicyLoop -----------------------------
(***************************************************************************)
(* The five different hits of the seven rules of policy v1, and three that *)
(* a careless rule could report.                                           *)
(***************************************************************************)
EXTENDS PolicyLoop

\* A case that meets every rule of v1 at once.
Worst == [domestic |-> TRUE, backlog |-> 2, mandate |-> 1, risk |-> TRUE,
          dispute |-> TRUE, opted_out |-> TRUE, attempts |-> 3,
          max_attempts |-> 3, now |-> 1, last_contact |-> 0, cooldown |-> 24]

Careless == {Blocks(DefaultActions), Escalates({Escalate}),
             [Blocks({NoAction}) EXCEPT !.stops = TRUE]}

WorstAndCareless == RulesV1(Worst) \cup Careless
=============================================================================
