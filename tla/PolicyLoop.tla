------------------------------ MODULE PolicyLoop ------------------------------
(***************************************************************************)
(* evaluate_policy as it runs: one rule after the other folds its hit into *)
(* the decision, none aborts the loop, and the last lines repair what a    *)
(* careless rule did.  Rules is any set of hits, in any order: PolicyV1    *)
(* gives the closed form the loop is to compute.                           *)
(***************************************************************************)
EXTENDS PolicyV1

CONSTANT Rules  \* the hits the rules may report

ASSUME RulesAssumption == Rules \subseteq RuleHit

VARIABLES
  allowed,
  blocked,
  escalates,
  stops,
  hits,    \* the hits folded in so far (ghost)
  done     \* the decision has been returned

policyVars == <<allowed, blocked, escalates, stops, hits, done>>

PolicyInit ==
  /\ allowed = DefaultActions
  /\ blocked = {}
  /\ escalates = FALSE
  /\ stops = FALSE
  /\ hits = {}
  /\ done = FALSE

\* Fault: the last rule decides about escalation.
ApplyLast(h) ==
  /\ ~done
  /\ h \notin hits
  /\ allowed' = allowed \ h.blocks
  /\ blocked' = blocked \cup h.blocks
  /\ escalates' = h.escalates
  /\ stops' = (stops \/ h.stops)
  /\ hits' = hits \cup {h}
  /\ UNCHANGED done

\* Fault: a rule's hit replaces what the rules before it blocked.
ApplyOverriding(h) ==
  /\ ~done
  /\ h \notin hits
  /\ allowed' = DefaultActions \ h.blocks
  /\ blocked' = h.blocks
  /\ escalates' = (escalates \/ h.escalates)
  /\ stops' = (stops \/ h.stops)
  /\ hits' = hits \cup {h}
  /\ UNCHANGED done

\* The loop body, for a rule that applies; one that does not is no step.
Apply(h) ==
  /\ ~done
  /\ h \notin hits
  /\ allowed' = allowed \ h.blocks
  /\ blocked' = blocked \cup h.blocks
  /\ escalates' = (escalates \/ h.escalates)
  /\ stops' = (stops \/ h.stops)
  /\ hits' = hits \cup {h}
  /\ UNCHANGED done

Kept == {NoAction} \cup (IF escalates THEN {Escalate} ELSE {})

Stopped == IF stops THEN AutomatedCollection ELSE {}

\* Fault: nothing is restored.
ConcludeForgetting ==
  /\ ~done
  /\ done' = TRUE
  /\ blocked' = blocked \cup Stopped
  /\ allowed' = allowed \ blocked'
  /\ UNCHANGED <<escalates, stops, hits>>

\* After the loop: restore what may not be blocked, apply the stop, and let the
\* blocked set have the last word.
Conclude ==
  /\ ~done
  /\ done' = TRUE
  /\ blocked' = ((blocked \ (Kept \ {NoAction})) \cup Stopped) \ {NoAction}
  /\ allowed' = ((allowed \cup Kept) \ Stopped) \ blocked'
  /\ UNCHANGED <<escalates, stops, hits>>

PolicyNext == (\E h \in Rules : Apply(h)) \/ Conclude

PolicySpec == PolicyInit /\ [][PolicyNext]_policyVars

-----------------------------------------------------------------------------
(* Correctness.                                                            *)

\* The decision depends on which rules hit and not on their order: it is the
\* closed form the other modules use.
DecisionIsClosedForm ==
  done => EvaluatePolicy(hits) =
    [allowed |-> allowed, blocked |-> blocked,
     escalates |-> escalates, stops |-> stops]

\* Nobody is left without a legal move, and what is demanded is legal, even if
\* a rule was careless about the set: doing nothing is always permitted,
\* escalating when any rule asked for it, collecting never after a stop.
AlwaysAWayOut ==
  done =>
    /\ NoAction \in allowed
    /\ escalates => Escalate \in allowed
    /\ stops => allowed \cap AutomatedCollection = {}

\* The two lists of a decision partition the actions.
DecisionIsTotal ==
  done => allowed \cap blocked = {} /\ allowed \cup blocked = DefaultActions

\* Rules only subtract: a collection that a decision permits is permitted by
\* the decision on any fewer hits.
MoreRulesPermitLess ==
  done => \A fewer \in SUBSET hits :
    allowed \cap AutomatedCollection \subseteq EvaluatePolicy(fewer).allowed
=============================================================================
