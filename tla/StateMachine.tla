---------------------------- MODULE StateMachine ----------------------------
(***************************************************************************)
(* The pure subscription state machine: which lifecycle events move a      *)
(* subscription from which status, and what an event decides in a status.  *)
(***************************************************************************)

Statuses == {"ACTIVE", "PENDING", "HALTED"}

Lifecycle == {"pending", "halted", "activated"}

\* The status each lifecycle event asserts the subscription is now in.
Target == [type \in Lifecycle |->
             CASE type = "pending"   -> "PENDING"
               [] type = "halted"    -> "HALTED"
               [] type = "activated" -> "ACTIVE"]

\* The complete set of permitted transitions, as <<status, event>> pairs; each
\* leads to the event's target.
Permitted == {<<"ACTIVE", "pending">>, <<"PENDING", "halted">>,
              <<"PENDING", "activated">>, <<"HALTED", "activated">>}

IsNoOp(status, type) == Target[type] = status

IsTransition(status, type) ==
  /\ ~IsNoOp(status, type)
  /\ <<status, type>> \in Permitted

IsIllegal(status, type) ==
  /\ ~IsNoOp(status, type)
  /\ <<status, type>> \notin Permitted

Opens(status, type) == IsTransition(status, type) /\ Target[type] = "HALTED"

\* Fault: a return that does not close the episode.
ClosesNever(status, type) == FALSE

Closes(status, type) ==
  /\ IsTransition(status, type)
  /\ status = "HALTED"
  /\ Target[type] = "ACTIVE"

\* The edges of the lifecycle graph, by status only.
Edges == {<<p[1], Target[p[2]]>> : p \in Permitted}
=============================================================================
