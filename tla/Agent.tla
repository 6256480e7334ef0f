-------------------------------- MODULE Agent --------------------------------
(***************************************************************************)
(* The recovery agent: requests to execute the next action of a case, any  *)
(* number at once.  A request reads case, customer and budget once, asks   *)
(* the model for an action, validates it on the copies it read, and then   *)
(* writes four collections one call at a time: the action row, guarded by  *)
(* its idempotency key, the budget of the simulation run, the case and its *)
(* own run row.  One action of this module per such call, with the pure    *)
(* code around it.                                                         *)
(***************************************************************************)
EXTENDS PolicyV1, FiniteSets

CONSTANTS
  Cases,        \* recovery cases of one simulation run, created open
  Requests,     \* calls of POST /agent/cases/{id}/execute, each made once
  ClientKeys,   \* idempotency keys clients choose themselves
  NoKey,        \* what a request without one carries
  Limit,        \* the intervention budget of the run
  MaxRecoveryAttempts,
  HardCap,
  Cooldown,     \* hours
  DecisionNow,  \* the frozen "now" of policy decisions
  Clock,        \* wall-clock times at which a contact may happen
  Domestic,     \* cases whose card is domestic
  Advices,      \* what the active model may say
  Fates,        \* what the outcome oracle may hold
  CustomerFlags

Flags == {"risk", "dispute", "opted_out"}

\* The model's choice for a case after n attempts, "none" without a model, and
\* whether it finds the choice worth its cost.
Advice == [action : DefaultActions \cup {"none"}, worth : BOOLEAN]

ASSUME AgentAssumption ==
  /\ Limit \in Nat /\ MaxRecoveryAttempts \in Nat \ {0} /\ HardCap \in Nat
  /\ Cases # {}
  /\ Cooldown \in Nat /\ DecisionNow \in Nat /\ Clock \subseteq Nat
  /\ NoKey \notin ClientKeys
  /\ CustomerFlags \subseteq Flags
  /\ Advices \subseteq [Cases \X (0..MaxRecoveryAttempts - 1) -> Advice]
  /\ Fates \subseteq [Cases \X DefaultActions -> {"paid", "unpaid"}]

VARIABLES
  cases,    \* recovery_cases: status, attempts and last contact
  flags,    \* the flags of each case's customer
  claimed,  \* slots claimed of the run's budget
  actions,  \* recovery_actions, by idempotency key
  runs,     \* the stored status of each request's agent run
  req,      \* what each request knows and where it is
  advice,   \* the model, fixed
  fate      \* the oracle, fixed: one answer per case and action

stores == <<cases, flags, claimed, actions, runs>>
agentVars == <<stores, req, advice, fate>>

\* run:case:action:attempt, unless the client brings a key.
Keys == ClientKeys \cup (Cases \X DefaultActions \X (1..MaxRecoveryAttempts))

NoRow == [status |-> "absent"]

\* by and seen are ghosts: the request that made the row, and the flags its
\* customer had in the copy it was validated on.
ActionRow == [status : {"validated", "executed", "blocked", "failed"},
              case : Cases, action : DefaultActions, claimed : BOOLEAN,
              outcome : {"none", "paid", "unpaid"}, by : Requests,
              seen : SUBSET CustomerFlags]

Reasons == {"none", "CASE_CLOSED", "MAX_ATTEMPTS_REACHED", "HARD_ITERATION_CAP",
            "NEGATIVE_OR_ZERO_EV", "ALREADY_EXECUTED", "ACTIVE_DISPUTE",
            "CUSTOMER_OPTED_OUT", "POLICY_BLOCKED", "CONTACT_COOLDOWN_ACTIVE",
            "BUDGET_EXHAUSTED", "SYSTEM_FAILURE", "RECOVERY_SUCCEEDED"}

CaseDoc == [status : {"open", "escalated", "closed"}, attempts : Nat,
            contact : Clock \cup {NeverContacted}]

NewCase == [status |-> "open", attempts |-> 0, contact |-> NeverContacted]

Places == {"idle", "customer", "budget", "plan", "lookup", "create", "claim",
           "claimed", "act", "record", "close", "escalate", "finish", "done"}

Request == [at : Places, case : Cases, key : Keys \cup {NoKey}, doc : CaseDoc,
            flags : SUBSET CustomerFlags, left : Nat, action : DefaultActions,
            reason : Reasons,
            status : {"planned", "executed", "stopped", "escalated", "failed"}]

ConsumesBudget(action) == action \in AutomatedCollection

-----------------------------------------------------------------------------
Idle == [at |-> "idle", case |-> CHOOSE c \in Cases : TRUE, key |-> NoKey,
         doc |-> NewCase, flags |-> {}, left |-> 0, action |-> NoAction,
         reason |-> "none", status |-> "planned"]

AgentInit ==
  /\ cases = [c \in Cases |-> NewCase]
  /\ flags \in [Cases -> SUBSET CustomerFlags]
  /\ claimed = 0
  /\ actions = [k \in Keys |-> NoRow]
  /\ runs = [r \in Requests |-> "absent"]
  /\ req = [r \in Requests |-> Idle]
  /\ advice \in Advices
  /\ fate \in Fates

At(r, place) == req[r].at = place

Goto(r, place) == req' = [req EXCEPT ![r].at = place]

\* What is left to do is to store the agent run with its status and reason.
Ends(r, status, reason) ==
  req' = [req EXCEPT ![r].at = "finish", ![r].status = status, ![r].reason = reason]

HandsOver(r, reason) ==
  req' = [req EXCEPT ![r].at = "escalate", ![r].reason = reason]

-----------------------------------------------------------------------------
(* Observe and propose.                                                    *)

\* _bundle: the case is read once.
Start(r) ==
  /\ At(r, "idle")
  /\ \E c \in Cases, k \in ClientKeys \cup {NoKey} :
       req' = [req EXCEPT ![r].at = "customer", ![r].case = c, ![r].key = k,
                          ![r].doc = cases[c]]
  /\ UNCHANGED <<stores, advice, fate>>

\* So is the customer; the subscription never changes what policy reads.
ReadCustomer(r) ==
  /\ At(r, "customer")
  /\ req' = [req EXCEPT ![r].at = "budget", ![r].flags = flags[req[r].case]]
  /\ UNCHANGED <<stores, advice, fate>>

ReadBudget(r) ==
  /\ At(r, "budget")
  /\ req' = [req EXCEPT ![r].at = "plan", ![r].left = Limit - claimed]
  /\ UNCHANGED <<stores, advice, fate>>

\* The policy of the copies a request holds, for the flags given; the mandate
\* never matters more than the card.
Policy(r, customer) ==
  EvaluateV1([domestic |-> req[r].case \in Domestic, backlog |-> 0, mandate |-> 0,
              risk |-> "risk" \in customer, dispute |-> "dispute" \in customer,
              opted_out |-> "opted_out" \in customer,
              attempts |-> req[r].doc.attempts, max_attempts |-> MaxRecoveryAttempts,
              now |-> DecisionNow, last_contact |-> req[r].doc.contact,
              cooldown |-> Cooldown])

\* The action is proposed as if the customer had no flags, so that a flag shows
\* as a blocked execution and not as another proposal.
Proposal(r) == Policy(r, {})

Said(r) == advice[<<req[r].case, req[r].doc.attempts>>]

\* recommend_action.
Recommended(r) ==
  LET allowed == Proposal(r).allowed IN
  IF Said(r).action \in allowed THEN Said(r).action
  ELSE IF Proposal(r).escalates THEN Escalate
  ELSE IF PaymentLink \in allowed THEN PaymentLink
  ELSE NoAction

\* stop_before_action, on the copies; the request goes on to the validator for
\* an exhausted budget.
StopReason(r) ==
  IF req[r].doc.status # "open" THEN "CASE_CLOSED"
  ELSE IF req[r].doc.attempts >= MaxRecoveryAttempts THEN "MAX_ATTEMPTS_REACHED"
  ELSE IF req[r].doc.attempts >= HardCap THEN "HARD_ITERATION_CAP"
  ELSE IF /\ Recommended(r) \in AutomatedCollection
          /\ Said(r).action # "none" /\ ~Said(r).worth THEN "NEGATIVE_OR_ZERO_EV"
  ELSE "none"

\* The agent run is stored as planned, before anything is decided.
StopEarly(r) ==
  /\ At(r, "plan")
  /\ StopReason(r) # "none"
  /\ runs' = [runs EXCEPT ![r] = "planned"]
  /\ Ends(r, "stopped", StopReason(r))
  /\ UNCHANGED <<cases, flags, claimed, actions, advice, fate>>

Propose(r) ==
  /\ At(r, "plan")
  /\ StopReason(r) = "none"
  /\ runs' = [runs EXCEPT ![r] = "planned"]
  /\ req' = [req EXCEPT ![r].at = "lookup", ![r].action = Recommended(r)]
  /\ UNCHANGED <<cases, flags, claimed, actions, advice, fate>>

-----------------------------------------------------------------------------
(* Validate.                                                               *)

KeyOf(r) ==
  IF req[r].key = NoKey
  THEN <<req[r].case, req[r].action, req[r].doc.attempts + 1>>
  ELSE req[r].key

RowOf(r) == actions[KeyOf(r)]

Verdict(r) == Policy(r, req[r].flags)

\* Fault: the flags are looked at for contacts only.
RefusalOfContacts(r) ==
  IF /\ req[r].flags \cap {"dispute", "opted_out"} # {}
     /\ req[r].action \in ContactActions THEN "CUSTOMER_OPTED_OUT"
  ELSE IF ConsumesBudget(req[r].action) /\ req[r].left <= 0 THEN "BUDGET_EXHAUSTED"
  ELSE "none"

\* ActionValidator.validate, from the dispute on: what comes before holds of
\* every request that gets here.
Refusal(r) ==
  IF "dispute" \in req[r].flags THEN "ACTIVE_DISPUTE"
  ELSE IF "opted_out" \in req[r].flags /\ req[r].action \notin Verdict(r).allowed
       THEN "CUSTOMER_OPTED_OUT"
  ELSE IF req[r].action \notin Verdict(r).allowed THEN "POLICY_BLOCKED"
  ELSE IF /\ req[r].action = PaymentLink
          /\ req[r].doc.contact # NeverContacted
          /\ DecisionNow < req[r].doc.contact + Cooldown
       THEN "CONTACT_COOLDOWN_ACTIVE"
  ELSE IF ConsumesBudget(req[r].action) /\ req[r].left <= 0 THEN "BUDGET_EXHAUSTED"
  ELSE "none"

\* get_by_key finds the action executed: the row is the answer.
Replay(r) ==
  /\ At(r, "lookup")
  /\ RowOf(r).status = "executed"
  /\ Ends(r, "executed", "ALREADY_EXECUTED")
  /\ UNCHANGED <<stores, advice, fate>>

Refuse(r) ==
  /\ At(r, "lookup")
  /\ RowOf(r).status # "executed"
  /\ Refusal(r) # "none"
  /\ IF Verdict(r).escalates \/ req[r].action = Escalate
     THEN HandsOver(r, Refusal(r))
     ELSE Ends(r, "stopped", Refusal(r))
  /\ UNCHANGED <<stores, advice, fate>>

Accept(r) ==
  /\ At(r, "lookup")
  /\ RowOf(r).status # "executed"
  /\ Refusal(r) = "none"
  /\ Goto(r, "create")
  /\ UNCHANGED <<stores, advice, fate>>

-----------------------------------------------------------------------------
(* Act.                                                                    *)

NewRow(r) ==
  [status |-> "validated", case |-> req[r].case, action |-> req[r].action,
   claimed |-> FALSE, outcome |-> "none", by |-> r, seen |-> req[r].flags]

\* Fault: no unique index on the key.
CreateAnyway(r) ==
  /\ At(r, "create")
  /\ actions' = [actions EXCEPT ![KeyOf(r)] = NewRow(r)]
  /\ Goto(r, IF ConsumesBudget(req[r].action) THEN "claim" ELSE "act")
  /\ UNCHANGED <<cases, flags, claimed, runs, advice, fate>>

\* actions.create_if_absent: the unique key is the mutex.
Create(r) ==
  /\ At(r, "create")
  /\ RowOf(r) = NoRow
  /\ actions' = [actions EXCEPT ![KeyOf(r)] = NewRow(r)]
  /\ Goto(r, IF ConsumesBudget(req[r].action) THEN "claim" ELSE "act")
  /\ UNCHANGED <<cases, flags, claimed, runs, advice, fate>>

FindCreated(r) ==
  /\ At(r, "create")
  /\ RowOf(r) # NoRow
  /\ Ends(r, IF RowOf(r).status = "executed" THEN "executed" ELSE "stopped",
          "ALREADY_EXECUTED")
  /\ UNCHANGED <<stores, advice, fate>>

\* Fault: the slot counted in the copy is taken to be still there.
ClaimByCopy(r) ==
  /\ At(r, "claim")
  /\ req[r].left > 0
  /\ claimed' = claimed + 1
  /\ Goto(r, "claimed")
  /\ UNCHANGED <<cases, flags, actions, runs, advice, fate>>

\* budgets.claim: one find_one_and_update that counts only below the limit.
Claim(r) ==
  /\ At(r, "claim")
  /\ claimed < Limit
  /\ claimed' = claimed + 1
  /\ Goto(r, "claimed")
  /\ UNCHANGED <<cases, flags, actions, runs, advice, fate>>

\* The claim is lost, and the row saved as blocked: it keeps its key.
LoseClaim(r) ==
  /\ At(r, "claim")
  /\ claimed >= Limit
  /\ actions' = [actions EXCEPT ![KeyOf(r)].status = "blocked"]
  /\ Ends(r, "stopped", "BUDGET_EXHAUSTED")
  /\ UNCHANGED <<cases, flags, claimed, runs, advice, fate>>

SaveClaim(r) ==
  /\ At(r, "claimed")
  /\ actions' = [actions EXCEPT ![KeyOf(r)].claimed = TRUE]
  /\ Goto(r, "act")
  /\ UNCHANGED <<cases, flags, claimed, runs, advice, fate>>

\* The oracle answers and the row is saved; escalation never recovers anything.
Act(r) ==
  /\ At(r, "act")
  /\ actions' = [actions EXCEPT
       ![KeyOf(r)].status = "executed",
       ![KeyOf(r)].outcome = IF req[r].action = Escalate THEN "unpaid"
                             ELSE fate[<<req[r].case, req[r].action>>]]
  /\ Goto(r, "record")
  /\ UNCHANGED <<cases, flags, claimed, runs, advice, fate>>

\* The oracle raises: nothing is recovered, and the slot is not given back.
ActFails(r) ==
  /\ At(r, "act")
  /\ actions' = [actions EXCEPT ![KeyOf(r)].status = "failed"]
  /\ Ends(r, "failed", "SYSTEM_FAILURE")
  /\ UNCHANGED <<cases, flags, claimed, runs, advice, fate>>

Counted(doc, contacts, now) ==
  [doc EXCEPT !.attempts = @ + 1, !.contact = IF contacts THEN now ELSE @]

\* Fault: the attempt bound is looked at before the outcome.
AfterAttemptBoundFirst(r) ==
  IF req[r].doc.attempts + 1 >= MaxRecoveryAttempts
  THEN Ends(r, "stopped", "MAX_ATTEMPTS_REACHED")
  ELSE IF RowOf(r).outcome = "paid" THEN Goto(r, "close")
  ELSE Ends(r, "executed", "none")

\* Where the outcome leads: closing, escalating, or the end of the request.
AfterAttempt(r) ==
  IF RowOf(r).outcome = "paid" THEN Goto(r, "close")
  ELSE IF req[r].action = Escalate THEN HandsOver(r, "POLICY_BLOCKED")
  ELSE IF req[r].doc.attempts + 1 >= MaxRecoveryAttempts
       THEN Ends(r, "stopped", "MAX_ATTEMPTS_REACHED")
  ELSE Ends(r, "executed", "none")

\* Fault: a replace of the document as it was read, where $inc is needed.
RecordFromCopy(r) ==
  /\ At(r, "record")
  /\ \E now \in Clock :
       cases' = [cases EXCEPT ![req[r].case] =
                   Counted(req[r].doc, req[r].action = PaymentLink, now)]
  /\ AfterAttempt(r)
  /\ UNCHANGED <<flags, claimed, actions, runs, advice, fate>>

\* cases.record_attempt, at the wall-clock time of the execution.
Record(r) ==
  /\ At(r, "record")
  /\ \E now \in Clock :
       cases' = [cases EXCEPT ![req[r].case] =
                   Counted(@, req[r].action = PaymentLink, now)]
  /\ AfterAttempt(r)
  /\ UNCHANGED <<flags, claimed, actions, runs, advice, fate>>

\* cases.close_recovered, whatever the status has become.
Close(r) ==
  /\ At(r, "close")
  /\ cases' = [cases EXCEPT ![req[r].case].status = "closed"]
  /\ Ends(r, "executed", "RECOVERY_SUCCEEDED")
  /\ UNCHANGED <<flags, claimed, actions, runs, advice, fate>>

\* _escalate, likewise.
EscalateCase(r) ==
  /\ At(r, "escalate")
  /\ cases' = [cases EXCEPT ![req[r].case].status = "escalated"]
  /\ Ends(r, "escalated", req[r].reason)
  /\ UNCHANGED <<flags, claimed, actions, runs, advice, fate>>

\* agent_runs.save, and the answer.
Finish(r) ==
  /\ At(r, "finish")
  /\ runs' = [runs EXCEPT ![r] = req[r].status]
  /\ Goto(r, "done")
  /\ UNCHANGED <<cases, flags, claimed, actions, advice, fate>>

\* The process dies between two calls; nobody resumes the request.
Dies(r) ==
  /\ req[r].at \notin {"idle", "done"}
  /\ Goto(r, "done")
  /\ UNCHANGED <<stores, advice, fate>>

\* set_flags, by the extraction endpoint: see RecoveryWindow.
SetFlags(c) ==
  /\ \E set \in SUBSET CustomerFlags, clear \in SUBSET (CustomerFlags \ {"risk"}) :
       /\ set # {} /\ set \cap clear = {}
       /\ flags' = [flags EXCEPT ![c] = (@ \ clear) \cup set]
  /\ UNCHANGED <<cases, claimed, actions, runs, req, advice, fate>>

Plans(r) == ReadCustomer(r) \/ ReadBudget(r) \/ StopEarly(r) \/ Propose(r)

Validates(r) == Replay(r) \/ Refuse(r) \/ Accept(r)

Acts(r) ==
  \/ Create(r) \/ FindCreated(r) \/ Claim(r) \/ LoseClaim(r) \/ SaveClaim(r)
  \/ Act(r) \/ ActFails(r) \/ Record(r) \/ Close(r) \/ EscalateCase(r)

Step(r) == Plans(r) \/ Validates(r) \/ Acts(r) \/ Finish(r)

AgentNext ==
  \/ \E r \in Requests : Start(r) \/ Step(r) \/ Dies(r)
  \/ \E c \in Cases : SetFlags(c)

AgentSpec == AgentInit /\ [][AgentNext]_agentVars

\* A request that has executed its action is scheduled until the case is written;
\* nobody need make one, and of what comes before nothing is assumed.
AgentFairSpec == AgentSpec /\ \A r \in Requests : WF_agentVars(Record(r) \/ Close(r))

-----------------------------------------------------------------------------
(* Correctness.                                                            *)

Rows == {actions[k] : k \in Keys} \ {NoRow}

Executed(c) ==
  {k \in Keys : actions[k].status = "executed" /\ actions[k].case = c}

Collections ==
  {k \in Keys : actions[k].status = "executed" /\ ConsumesBudget(actions[k].action)}

\* The documents and the requests' locals keep their shapes, and a request that
\* writes an action row owns the row of its key.
AgentTypeOK ==
  /\ cases \in [Cases -> CaseDoc]
  /\ flags \in [Cases -> SUBSET CustomerFlags]
  /\ claimed \in Nat
  /\ actions \in [Keys -> ActionRow \cup {NoRow}]
  /\ runs \in [Requests ->
       {"absent", "planned", "executed", "stopped", "escalated", "failed"}]
  /\ req \in [Requests -> Request]
  /\ advice \in Advices /\ fate \in Fates
  /\ \A r \in Requests : req[r].at \in {"claim", "claimed", "act", "record"} =>
       RowOf(r) # NoRow /\ RowOf(r).by = r

\* The budget is never overspent: every collection that was executed has a slot
\* of its own, although remaining budget is read long before and a request may
\* die between its claim and its action, or lose the row it works on.
SpentWithinLimit ==
  /\ claimed <= Limit
  /\ Cardinality(Collections) <= claimed
  /\ \A k \in Collections : actions[k].claimed

\* One outcome per idempotency key: an executed row is final, so every retry of
\* its key finds the same row, whoever retries and whatever died.
ExecutedIsFinal ==
  [][\A k \in Keys : actions[k].status = "executed" => actions'[k] = actions[k]]_agentVars

\* The request ended without storing its end: it died.
Died(r) == At(r, "done") /\ runs[r] \in {"absent", "planned"}

\* The attempts counted on a case are the executions there were, but for those
\* whose request has still to count them or died before: none is lost to a
\* concurrent count, none is counted twice.
AttemptsAreExecutions ==
  \A c \in Cases :
    LET due == {k \in Executed(c) : At(actions[k].by, "record")} IN
    /\ cases[c].attempts + Cardinality(due) <= Cardinality(Executed(c))
    /\ (\A r \in Requests : ~Died(r)) =>
         cases[c].attempts + Cardinality(due) = Cardinality(Executed(c))

\* The flags a request read decide: nobody is contacted who had opted out, and
\* nothing is collected under a dispute or a risk, though the action was
\* proposed as if there were no flags.
FlagsBlockCollection ==
  \A row \in Rows :
    /\ row.action \in AutomatedCollection => row.seen \cap {"dispute", "risk"} = {}
    /\ row.action \in ContactActions => "opted_out" \notin row.seen

\* Money that came in is written off the case: a request that has stored a paid
\* action closes its case, whatever others do to it meanwhile, unless it dies.
PaidIsClosed ==
  \A r \in Requests :
    (req[r].at \in {"record", "close"} /\ RowOf(r).outcome = "paid")
      ~> (cases[req[r].case].status = "closed" \/ Died(r))

-----------------------------------------------------------------------------
(* What the documentation and the tests say and the code does not do.      *)

\* docs/agent.md, Validator and TOCTOU: immediately before the simulation the
\* flags are as the validator needs them.
NothingCollectsInDispute ==
  [][\A k \in Keys :
       /\ actions'[k].status = "executed" /\ actions[k].status # "executed"
       /\ actions[k].action \in AutomatedCollection
       => "dispute" \notin flags[actions[k].case]]_agentVars

=============================================================================
