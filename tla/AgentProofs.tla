------------------------------ MODULE AgentProofs ------------------------------
(***************************************************************************)
(* Theorems about Agent, for any number of cases and requests, any budget, *)
(* model and oracle.                                                       *)
(***************************************************************************)
EXTENDS Agent, FiniteSetTheorems, TLAPS

-----------------------------------------------------------------------------
(* The inductive invariant.                                                *)

\* A request works on the row of its key: it made it, and no other request
\* writes it; the slot it claimed is on it when it acts.
InFlight(r) ==
  /\ req[r].at \in {"lookup", "create", "claim", "claimed", "act", "record"} =>
       req[r].doc.attempts < MaxRecoveryAttempts
  /\ req[r].at \in {"claim", "claimed", "act", "record"} =>
       RowOf(r) # NoRow /\ RowOf(r).by = r
  /\ req[r].at \in {"claim", "claimed", "act"} =>
       RowOf(r).status = "validated" /\ RowOf(r).action = req[r].action
  /\ req[r].at = "act" /\ ConsumesBudget(req[r].action) => RowOf(r).claimed

\* The rows a slot was saved on, and the requests that hold one unsaved.
Slots == {k \in Keys : actions[k] # NoRow /\ actions[k].claimed}

Holders == {r \in Requests : req[r].at = "claimed"}

SlotsAreClaimed ==
  /\ claimed \in Nat /\ claimed <= Limit
  /\ IsFiniteSet(Slots) /\ IsFiniteSet(Holders)
  /\ Cardinality(Slots) + Cardinality(Holders) <= claimed

CollectionsHaveSlots == \A k \in Collections : actions[k].claimed

AgentInv ==
  /\ AgentTypeOK
  /\ \A r \in Requests : InFlight(r)
  /\ SlotsAreClaimed
  /\ CollectionsHaveSlots

-----------------------------------------------------------------------------
(* Types.                                                                  *)

LEMMA RequestFields ==
  ASSUME NEW x \in Request
  PROVE  /\ x.at \in Places /\ x.case \in Cases /\ x.key \in Keys \cup {NoKey}
         /\ x.doc \in CaseDoc /\ x.flags \in SUBSET CustomerFlags /\ x.left \in Nat
         /\ x.action \in DefaultActions /\ x.reason \in Reasons
         /\ x.doc.attempts \in Nat
BY DEF Request, CaseDoc

LEMMA RequestAt ==
  ASSUME NEW x \in Request, NEW place \in Places
  PROVE  LET y == [x EXCEPT !.at = place] IN
         /\ y \in Request /\ y.at = place /\ y.case = x.case /\ y.key = x.key
         /\ y.doc = x.doc /\ y.flags = x.flags /\ y.left = x.left
         /\ y.action = x.action /\ y.reason = x.reason /\ y.status = x.status
BY DEF Request

RunStatuses == {"planned", "executed", "stopped", "escalated", "failed"}

LEMMA RequestEnds ==
  ASSUME NEW x \in Request, NEW place \in Places, NEW status \in RunStatuses,
         NEW reason \in Reasons
  PROVE  LET y == [x EXCEPT !.at = place, !.status = status, !.reason = reason] IN
         /\ y \in Request /\ y.at = place /\ y.case = x.case /\ y.key = x.key
         /\ y.doc = x.doc /\ y.action = x.action
BY DEF Request, RunStatuses

LEMMA RowFields ==
  ASSUME NEW row \in ActionRow
  PROVE  /\ row # NoRow
         /\ row.status \in {"validated", "executed", "blocked", "failed"}
         /\ row.claimed \in BOOLEAN /\ row.action \in DefaultActions
         /\ row.outcome \in {"none", "paid", "unpaid"}
BY DEF ActionRow, NoRow

LEMMA RowStatus ==
  ASSUME NEW row \in ActionRow, NEW status \in {"validated", "executed", "blocked", "failed"}
  PROVE  LET new == [row EXCEPT !.status = status] IN
         /\ new \in ActionRow /\ new.status = status /\ new.by = row.by
         /\ new.claimed = row.claimed /\ new.action = row.action
BY DEF ActionRow

LEMMA RowClaimed ==
  ASSUME NEW row \in ActionRow
  PROVE  LET new == [row EXCEPT !.claimed = TRUE] IN
         /\ new \in ActionRow /\ new.status = row.status /\ new.by = row.by
         /\ new.claimed = TRUE /\ new.action = row.action
BY DEF ActionRow

LEMMA RowExecuted ==
  ASSUME NEW row \in ActionRow, NEW outcome \in {"none", "paid", "unpaid"}
  PROVE  LET new == [row EXCEPT !.status = "executed", !.outcome = outcome] IN
         /\ new \in ActionRow /\ new.status = "executed" /\ new.by = row.by
         /\ new.claimed = row.claimed /\ new.action = row.action
BY DEF ActionRow

\* What policy allows is an action, and nothing a model cannot name.
LEMMA PolicyAllows ==
  ASSUME NEW r, NEW customer
  PROVE  Policy(r, customer).allowed \subseteq DefaultActions
BY DEF Policy, EvaluateV1, EvaluatePolicy

LEMMA RecommendedIsAction ==
  ASSUME NEW r PROVE Recommended(r) \in DefaultActions
<1>1. Proposal(r).allowed \subseteq DefaultActions
  BY PolicyAllows DEF Proposal
<1> QED
  BY <1>1 DEF Recommended, DefaultActions

LEMMA KeyInKeys ==
  ASSUME AgentTypeOK, NEW r \in Requests, req[r].doc.attempts < MaxRecoveryAttempts
  PROVE  KeyOf(r) \in Keys
<1>1. req[r] \in Request
  BY DEF AgentTypeOK
<1>2. /\ req[r].case \in Cases /\ req[r].action \in DefaultActions
      /\ req[r].key \in Keys \cup {NoKey} /\ req[r].doc.attempts \in Nat
  BY <1>1, RequestFields
<1>3. req[r].doc.attempts + 1 \in 1..MaxRecoveryAttempts
  BY <1>2, AgentAssumption
<1> QED
  BY <1>2, <1>3 DEF KeyOf, Keys

LEMMA StopReasons ==
  ASSUME NEW r PROVE StopReason(r) \in Reasons
BY DEF StopReason, Reasons

LEMMA RefusalReasons ==
  ASSUME NEW r PROVE Refusal(r) \in Reasons
BY DEF Refusal, Reasons

LEMMA AttemptsBelow ==
  ASSUME AgentTypeOK, NEW r \in Requests, StopReason(r) = "none"
  PROVE  req[r].doc.attempts < MaxRecoveryAttempts
<1>1. req[r].doc.attempts \in Nat
  BY RequestFields DEF AgentTypeOK
<1> QED
  BY <1>1, AgentAssumption DEF StopReason

LEMMA UpdatedCase ==
  ASSUME NEW doc \in CaseDoc, NEW n \in Nat, NEW moment \in Clock \cup {NeverContacted}
  PROVE  [doc EXCEPT !.attempts = n, !.contact = moment] \in CaseDoc
BY DEF CaseDoc

LEMMA CountedCase ==
  ASSUME NEW doc \in CaseDoc, NEW contacts \in BOOLEAN, NEW now \in Clock
  PROVE  Counted(doc, contacts, now) \in CaseDoc
<1>1. /\ doc.attempts + 1 \in Nat
      /\ doc.contact \in Clock \cup {NeverContacted} /\ now \in Clock \cup {NeverContacted}
  BY DEF CaseDoc
<1>2. CASE contacts
  <2> DEFINE n == doc.attempts + 1
  <2>1. Counted(doc, contacts, now) = [doc EXCEPT !.attempts = n, !.contact = now]
    BY <1>2, Zenon DEF Counted
  <2>2. n \in Nat /\ now \in Clock \cup {NeverContacted}
    BY <1>1
  <2> HIDE DEF n
  <2>3. [doc EXCEPT !.attempts = n, !.contact = now] \in CaseDoc
    BY <2>2, UpdatedCase
  <2> QED
    BY <2>1, <2>3
<1>3. CASE ~contacts
  <2> DEFINE n    == doc.attempts + 1
             last == doc.contact
  <2>1. Counted(doc, contacts, now) = [doc EXCEPT !.attempts = n, !.contact = last]
    BY <1>3, Zenon DEF Counted
  <2>2. n \in Nat /\ last \in Clock \cup {NeverContacted}
    BY <1>1
  <2> HIDE DEF n, last
  <2>3. [doc EXCEPT !.attempts = n, !.contact = last] \in CaseDoc
    BY <2>2, UpdatedCase
  <2> QED
    BY <2>1, <2>3, Zenon
<1> QED
  BY <1>2, <1>3

-----------------------------------------------------------------------------
(* Three kinds of step.                                                    *)

\* The documents that no action row or slot depends on.
OthersTyped ==
  /\ cases \in [Cases -> CaseDoc]
  /\ flags \in [Cases -> SUBSET CustomerFlags]
  /\ runs \in [Requests -> RunStatuses \cup {"absent"}]
  /\ advice \in Advices /\ fate \in Fates

\* A request goes where it works on no row.
LEMMA LocalStep ==
  ASSUME AgentInv, NEW r \in Requests, NEW x \in Request,
         req' = [req EXCEPT ![r] = x], UNCHANGED <<actions, claimed>>, OthersTyped',
         x.at \notin {"claim", "claimed", "act", "record"},
         x.at \in {"lookup", "create"} => x.doc.attempts < MaxRecoveryAttempts
  PROVE  AgentInv'
<1>1. req' \in [Requests -> Request] /\ req'[r] = x
      /\ \A q \in Requests : q # r => req'[q] = req[q]
  BY DEF AgentInv, AgentTypeOK
<1>2. \A q \in Requests : q # r => RowOf(q)' = RowOf(q)
  BY <1>1 DEF RowOf, KeyOf
<1>3. \A q \in Requests : InFlight(q)'
  <2>1. InFlight(r)'
    BY <1>1 DEF InFlight
  <2>2. ASSUME NEW q \in Requests, q # r PROVE InFlight(q)'
    BY <1>1, <1>2, <2>2 DEF AgentInv, InFlight
  <2> QED
    BY <2>1, <2>2
<1>4. AgentTypeOK'
  <2>1. \A q \in Requests : req'[q].at \in {"claim", "claimed", "act", "record"} =>
          RowOf(q)' # NoRow /\ RowOf(q)'.by = q
    BY <1>3 DEF InFlight
  <2> QED
    BY <1>1, <2>1 DEF AgentInv, AgentTypeOK, OthersTyped, RunStatuses
<1>5. SlotsAreClaimed'
  <2>1. Slots' = Slots
    BY DEF Slots
  <2>2. Holders' = Holders \ {r}
    BY <1>1 DEF Holders
  <2>3. /\ IsFiniteSet(Holders) /\ Cardinality(Holders) \in Nat
        /\ Cardinality(Slots) \in Nat
    BY FS_CardinalityType DEF AgentInv, SlotsAreClaimed
  <2>4. Holders \ {r} \in SUBSET Holders
    OBVIOUS
  <2>5. /\ IsFiniteSet(Holders \ {r}) /\ Cardinality(Holders \ {r}) \in Nat
        /\ Cardinality(Holders \ {r}) <= Cardinality(Holders)
    BY <2>3, <2>4, FS_Subset, FS_CardinalityType
  <2> QED
    BY <2>1, <2>2, <2>3, <2>5 DEF AgentInv, SlotsAreClaimed
<1>6. CollectionsHaveSlots'
  BY DEF AgentInv, CollectionsHaveSlots, Collections
<1> QED
  BY <1>3, <1>4, <1>5, <1>6 DEF AgentInv

\* A request writes the row of its key, which was free or its own.
LEMMA RowStep ==
  ASSUME AgentInv, NEW r \in Requests, NEW x \in Request, NEW row \in ActionRow,
         req[r].doc.attempts < MaxRecoveryAttempts,
         RowOf(r) = NoRow \/ RowOf(r).by = r, row.by = r,
         actions' = [actions EXCEPT ![KeyOf(r)] = row],
         req' = [req EXCEPT ![r] = x], UNCHANGED claimed, OthersTyped',
         x.case = req[r].case /\ x.key = req[r].key /\ x.doc = req[r].doc,
         x.action = req[r].action, x.at # "claimed",
         x.at \in {"claim", "act"} => row.status = "validated" /\ row.action = x.action,
         x.at = "act" /\ ConsumesBudget(x.action) => row.claimed,
         row.claimed => \/ RowOf(r) # NoRow /\ RowOf(r).claimed
                        \/ r \in Holders,
         row.status = "executed" /\ ConsumesBudget(row.action) => row.claimed
  PROVE  AgentInv'
<1>1. req' \in [Requests -> Request] /\ req'[r] = x
      /\ \A q \in Requests : q # r => req'[q] = req[q]
  BY DEF AgentInv, AgentTypeOK
<1>2. KeyOf(r) \in Keys
  BY KeyInKeys DEF AgentInv
<1>3. /\ actions' \in [Keys -> ActionRow \cup {NoRow}] /\ actions'[KeyOf(r)] = row
      /\ \A k \in Keys : k # KeyOf(r) => actions'[k] = actions[k]
  BY <1>2 DEF AgentInv, AgentTypeOK
<1>4. /\ KeyOf(r)' = KeyOf(r)
      /\ \A q \in Requests : q # r => KeyOf(q)' = KeyOf(q)
  BY <1>1 DEF KeyOf
<1>5. \A q \in Requests : InFlight(q)'
  <2>1. InFlight(r)'
    <3>1. RowOf(r)' = row /\ row # NoRow
      BY <1>3, <1>4, RowFields DEF RowOf
    <3> QED
      BY <1>1, <3>1 DEF InFlight
  <2>2. ASSUME NEW q \in Requests, q # r PROVE InFlight(q)'
    <3>1. InFlight(q) /\ req'[q] = req[q]
      BY <1>1, <2>2 DEF AgentInv
    <3>2. CASE req[q].at \notin {"claim", "claimed", "act", "record"}
      BY <3>1, <3>2 DEF InFlight
    <3>3. CASE req[q].at \in {"claim", "claimed", "act", "record"}
      <4>1. RowOf(q) # NoRow /\ RowOf(q).by = q /\ KeyOf(q) \in Keys
        BY <3>1, <3>3, KeyInKeys DEF InFlight, AgentInv
      <4>2. KeyOf(q) # KeyOf(r)
        BY <2>2, <4>1 DEF RowOf
      <4>3. RowOf(q)' = RowOf(q)
        BY <1>3, <1>4, <2>2, <4>1, <4>2 DEF RowOf
      <4> QED
        BY <3>1, <4>3 DEF InFlight
    <3> QED
      BY <3>2, <3>3
  <2> QED
    BY <2>1, <2>2
<1>6. AgentTypeOK'
  <2>1. \A q \in Requests : req'[q].at \in {"claim", "claimed", "act", "record"} =>
          RowOf(q)' # NoRow /\ RowOf(q)'.by = q
    BY <1>5 DEF InFlight
  <2> QED
    BY <1>1, <1>3, <2>1 DEF AgentInv, AgentTypeOK, OthersTyped, RunStatuses
<1>7. /\ Cardinality(Slots) \in Nat /\ Cardinality(Holders) \in Nat
      /\ IsFiniteSet(Slots) /\ IsFiniteSet(Holders)
  BY FS_CardinalityType DEF AgentInv, SlotsAreClaimed
<1>8. Holders' = Holders \ {r}
  BY <1>1 DEF Holders
<1>9. /\ IsFiniteSet(Holders \ {r}) /\ Cardinality(Holders \ {r}) \in Nat
      /\ Cardinality(Holders \ {r}) =
           IF r \in Holders THEN Cardinality(Holders) - 1 ELSE Cardinality(Holders)
  BY <1>7, FS_RemoveElement, FS_CardinalityType
<1>10. SlotsAreClaimed'
  <2>1. CASE r \in Holders
    <3>1. Slots' \in SUBSET (Slots \cup {KeyOf(r)})
      BY <1>3 DEF Slots
    <3>2. /\ IsFiniteSet(Slots \cup {KeyOf(r)})
          /\ Cardinality(Slots \cup {KeyOf(r)}) \in Nat
          /\ Cardinality(Slots \cup {KeyOf(r)}) <= Cardinality(Slots) + 1
      BY <1>7, FS_AddElement, FS_CardinalityType
    <3>3. /\ IsFiniteSet(Slots') /\ Cardinality(Slots') \in Nat
          /\ Cardinality(Slots') <= Cardinality(Slots \cup {KeyOf(r)})
      BY <3>1, <3>2, FS_Subset, FS_CardinalityType
    <3>4. Cardinality(Slots') + Cardinality(Holders \ {r}) <= claimed
      BY <1>7, <1>9, <2>1, <3>2, <3>3 DEF AgentInv, SlotsAreClaimed
    <3> QED
      BY <1>8, <1>9, <3>3, <3>4 DEF AgentInv, SlotsAreClaimed
  <2>2. CASE r \notin Holders
    <3>1. Slots' \in SUBSET Slots
      BY <1>2, <1>3, <2>2 DEF Slots, RowOf
    <3>2. /\ IsFiniteSet(Slots') /\ Cardinality(Slots') \in Nat
          /\ Cardinality(Slots') <= Cardinality(Slots)
      BY <1>7, <3>1, FS_Subset, FS_CardinalityType
    <3>3. Cardinality(Slots') + Cardinality(Holders \ {r}) <= claimed
      BY <1>7, <1>9, <2>2, <3>2 DEF AgentInv, SlotsAreClaimed
    <3> QED
      BY <1>8, <1>9, <3>2, <3>3 DEF AgentInv, SlotsAreClaimed
  <2> QED
    BY <2>1, <2>2
<1>11. CollectionsHaveSlots'
  BY <1>3 DEF AgentInv, CollectionsHaveSlots, Collections
<1> QED
  BY <1>5, <1>6, <1>10, <1>11 DEF AgentInv

\* A slot is claimed.
LEMMA ClaimStep ==
  ASSUME AgentInv, NEW r \in Requests, Claim(r)
  PROVE  AgentInv'
<1> DEFINE x == [req[r] EXCEPT !.at = "claimed"]
<1>1. req[r] \in Request /\ req[r].at = "claim" /\ InFlight(r)
  BY DEF Claim, At, AgentInv, AgentTypeOK
<1>2. /\ x \in Request /\ x.at = "claimed" /\ x.case = req[r].case
      /\ x.key = req[r].key /\ x.doc = req[r].doc /\ x.action = req[r].action
  BY <1>1, RequestAt DEF Places
<1>3. req' = [req EXCEPT ![r] = x] /\ claimed' = claimed + 1 /\ claimed < Limit
      /\ UNCHANGED <<cases, flags, actions, runs, advice, fate>>
  BY DEF Claim, Goto
<1> HIDE DEF x
<1>4. req' \in [Requests -> Request] /\ req'[r] = x
      /\ \A q \in Requests : q # r => req'[q] = req[q]
  BY <1>2, <1>3 DEF AgentInv, AgentTypeOK
<1>5. \A q \in Requests : RowOf(q)' = RowOf(q)
  BY <1>2, <1>3, <1>4 DEF RowOf, KeyOf
<1>6. \A q \in Requests : InFlight(q)'
  BY <1>1, <1>2, <1>4, <1>5 DEF AgentInv, InFlight
<1>7. AgentTypeOK'
  <2>1. \A q \in Requests : req'[q].at \in {"claim", "claimed", "act", "record"} =>
          RowOf(q)' # NoRow /\ RowOf(q)'.by = q
    BY <1>6 DEF InFlight
  <2> QED
    BY <1>3, <1>4, <2>1 DEF AgentInv, AgentTypeOK
<1>8. SlotsAreClaimed'
  <2>1. Slots' = Slots /\ Holders' = Holders \cup {r} /\ r \notin Holders
    BY <1>1, <1>2, <1>3, <1>4 DEF Slots, Holders
  <2>2. /\ Cardinality(Slots) \in Nat /\ Cardinality(Holders) \in Nat
        /\ IsFiniteSet(Holders \cup {r})
        /\ Cardinality(Holders \cup {r}) = Cardinality(Holders) + 1
    BY <2>1, FS_AddElement, FS_CardinalityType DEF AgentInv, SlotsAreClaimed
  <2> QED
    BY <1>3, <2>1, <2>2, AgentAssumption DEF AgentInv, SlotsAreClaimed
<1>9. CollectionsHaveSlots'
  BY <1>3 DEF AgentInv, CollectionsHaveSlots, Collections
<1> QED
  BY <1>6, <1>7, <1>8, <1>9 DEF AgentInv

-----------------------------------------------------------------------------
(* Every step is of one of the kinds.                                      *)

LEMMA PlanSteps ==
  ASSUME AgentInv, NEW r \in Requests, Start(r) \/ Plans(r)
  PROVE  AgentInv'
<1>1. req[r] \in Request
  BY DEF AgentInv, AgentTypeOK
<1>2. CASE Start(r)
  <2>1. PICK c \in Cases, k \in ClientKeys \cup {NoKey} :
          req' = [req EXCEPT ![r].at = "customer", ![r].case = c, ![r].key = k,
                             ![r].doc = cases[c]]
    BY <1>2 DEF Start
  <2> DEFINE x == [req[r] EXCEPT !.at = "customer", !.case = c, !.key = k, !.doc = cases[c]]
  <2>2. cases[c] \in CaseDoc /\ k \in Keys \cup {NoKey}
    BY DEF AgentInv, AgentTypeOK, Keys
  <2>3. x \in Request /\ x.at = "customer"
    BY <1>1, <2>2 DEF Request, Places
  <2>4. req' = [req EXCEPT ![r] = x]
    BY <2>1
  <2>5. OthersTyped' /\ UNCHANGED <<actions, claimed>>
    BY <1>2 DEF Start, stores, OthersTyped, AgentInv, AgentTypeOK, RunStatuses
  <2> HIDE DEF x
  <2> QED
    BY <2>3, <2>4, <2>5, LocalStep
<1>3. CASE ReadCustomer(r)
  <2> DEFINE x == [req[r] EXCEPT !.at = "budget", !.flags = flags[req[r].case]]
  <2>1. flags[req[r].case] \in SUBSET CustomerFlags
    BY <1>1, RequestFields DEF AgentInv, AgentTypeOK
  <2>2. x \in Request /\ x.at = "budget"
    BY <1>1, <2>1 DEF Request, Places
  <2>3. req' = [req EXCEPT ![r] = x]
    BY <1>3 DEF ReadCustomer
  <2>4. OthersTyped' /\ UNCHANGED <<actions, claimed>>
    BY <1>3 DEF ReadCustomer, stores, OthersTyped, AgentInv, AgentTypeOK, RunStatuses
  <2> HIDE DEF x
  <2> QED
    BY <2>2, <2>3, <2>4, LocalStep
<1>4. CASE ReadBudget(r)
  <2> DEFINE x == [req[r] EXCEPT !.at = "plan", !.left = Limit - claimed]
  <2>1. Limit - claimed \in Nat
    BY AgentAssumption DEF AgentInv, SlotsAreClaimed
  <2>2. x \in Request /\ x.at = "plan"
    BY <1>1, <2>1 DEF Request, Places
  <2>3. req' = [req EXCEPT ![r] = x]
    BY <1>4 DEF ReadBudget
  <2>4. OthersTyped' /\ UNCHANGED <<actions, claimed>>
    BY <1>4 DEF ReadBudget, stores, OthersTyped, AgentInv, AgentTypeOK, RunStatuses
  <2> HIDE DEF x
  <2> QED
    BY <2>2, <2>3, <2>4, LocalStep
<1>5. CASE StopEarly(r)
  <2> DEFINE x == [req[r] EXCEPT !.at = "finish", !.status = "stopped",
                                 !.reason = StopReason(r)]
  <2>1. x \in Request /\ x.at = "finish"
    <3>1. StopReason(r) \in Reasons /\ "stopped" \in RunStatuses /\ "finish" \in Places
      BY StopReasons DEF RunStatuses, Places
    <3> QED
      BY <1>1, <3>1, RequestEnds, Zenon
  <2>2. req' = [req EXCEPT ![r] = x]
    BY <1>5 DEF StopEarly, Ends
  <2>3. OthersTyped' /\ UNCHANGED <<actions, claimed>>
    BY <1>5 DEF StopEarly, OthersTyped, AgentInv, AgentTypeOK, RunStatuses
  <2> HIDE DEF x
  <2> QED
    BY <2>1, <2>2, <2>3, LocalStep
<1>6. CASE Propose(r)
  <2> DEFINE x == [req[r] EXCEPT !.at = "lookup", !.action = Recommended(r)]
  <2>1. Recommended(r) \in DefaultActions
    BY RecommendedIsAction
  <2>2. x \in Request /\ x.at = "lookup" /\ x.doc = req[r].doc
    BY <1>1, <2>1 DEF Request, Places
  <2>3. req' = [req EXCEPT ![r] = x]
    BY <1>6 DEF Propose
  <2>4. req[r].doc.attempts < MaxRecoveryAttempts
    BY <1>6, AttemptsBelow DEF Propose, AgentInv
  <2>5. OthersTyped' /\ UNCHANGED <<actions, claimed>>
    BY <1>6 DEF Propose, OthersTyped, AgentInv, AgentTypeOK, RunStatuses
  <2> HIDE DEF x
  <2> QED
    BY <2>2, <2>3, <2>4, <2>5, LocalStep
<1> QED
  BY <1>2, <1>3, <1>4, <1>5, <1>6 DEF Plans

\* The ends of a request.
LEMMA EndsLocally ==
  ASSUME AgentInv, NEW r \in Requests, NEW status \in RunStatuses,
         NEW reason \in Reasons, Ends(r, status, reason),
         UNCHANGED <<actions, claimed>>, OthersTyped'
  PROVE  AgentInv'
<1> DEFINE x == [req[r] EXCEPT !.at = "finish", !.status = status, !.reason = reason]
<1>1. x \in Request /\ x.at = "finish"
  <2>1. req[r] \in Request /\ "finish" \in Places
    BY DEF AgentInv, AgentTypeOK, Places
  <2> QED
    BY <2>1, RequestEnds, Zenon
<1>2. req' = [req EXCEPT ![r] = x]
  BY DEF Ends
<1> HIDE DEF x
<1> QED
  BY <1>1, <1>2, LocalStep

LEMMA HandsOverLocally ==
  ASSUME AgentInv, NEW r \in Requests, NEW reason \in Reasons, HandsOver(r, reason),
         UNCHANGED <<actions, claimed>>, OthersTyped'
  PROVE  AgentInv'
<1> DEFINE x == [req[r] EXCEPT !.at = "escalate", !.reason = reason]
<1>1. x \in Request /\ x.at = "escalate"
  <2>1. req[r] \in Request
    BY DEF AgentInv, AgentTypeOK
  <2> QED
    BY <2>1 DEF Request, Places
<1>2. req' = [req EXCEPT ![r] = x]
  BY DEF HandsOver
<1> HIDE DEF x
<1> QED
  BY <1>1, <1>2, LocalStep

LEMMA GoesLocally ==
  ASSUME AgentInv, NEW r \in Requests, NEW place \in {"create", "close", "done"},
         Goto(r, place), place = "create" => req[r].at = "lookup",
         UNCHANGED <<actions, claimed>>, OthersTyped'
  PROVE  AgentInv'
<1> DEFINE x == [req[r] EXCEPT !.at = place]
<1>1. req[r] \in Request /\ InFlight(r)
  BY DEF AgentInv, AgentTypeOK
<1>2. x \in Request /\ x.at = place /\ x.doc = req[r].doc
  <2>1. place \in Places
    BY DEF Places
  <2> QED
    BY <1>1, <2>1, RequestAt, Zenon
<1>3. req' = [req EXCEPT ![r] = x]
  BY DEF Goto
<1> HIDE DEF x
<1>4. x.at = "create" => x.doc.attempts < MaxRecoveryAttempts
  BY <1>1, <1>2 DEF InFlight
<1> QED
  BY <1>2, <1>3, <1>4, LocalStep

LEMMA Untouched ==
  ASSUME AgentInv, UNCHANGED <<cases, flags, runs, advice, fate>>
  PROVE  OthersTyped'
BY DEF OthersTyped, AgentInv, AgentTypeOK, RunStatuses

LEMMA ValidateSteps ==
  ASSUME AgentInv, NEW r \in Requests, Validates(r)
  PROVE  AgentInv'
<1>1. UNCHANGED <<actions, claimed>> /\ OthersTyped'
  BY Untouched DEF Validates, Replay, Refuse, Accept, stores
<1>2. CASE Replay(r)
  BY <1>1, <1>2, EndsLocally DEF Replay, RunStatuses, Reasons
<1>3. CASE Refuse(r)
  <2>1. Refusal(r) \in Reasons
    BY RefusalReasons
  <2>2. HandsOver(r, Refusal(r)) \/ Ends(r, "stopped", Refusal(r))
    BY <1>3 DEF Refuse
  <2> QED
    BY <1>1, <2>1, <2>2, EndsLocally, HandsOverLocally DEF RunStatuses
<1>4. CASE Accept(r)
  BY <1>1, <1>4, GoesLocally DEF Accept, At
<1> QED
  BY <1>2, <1>3, <1>4 DEF Validates

\* A request at work on its row, and the row.
LEMMA AtWork ==
  ASSUME AgentInv, NEW r \in Requests, req[r].at \in {"create", "claim", "claimed", "act"}
  PROVE  /\ req[r] \in Request /\ req[r].doc.attempts < MaxRecoveryAttempts
         /\ KeyOf(r) \in Keys
         /\ req[r].at # "create" =>
              /\ RowOf(r) \in ActionRow /\ RowOf(r) # NoRow /\ RowOf(r).by = r
              /\ RowOf(r).status = "validated" /\ RowOf(r).action = req[r].action
<1>1. req[r] \in Request /\ InFlight(r) /\ AgentTypeOK
  BY DEF AgentInv, AgentTypeOK
<1>2. req[r].doc.attempts < MaxRecoveryAttempts
  BY <1>1 DEF InFlight
<1>3. KeyOf(r) \in Keys
  BY <1>1, <1>2, KeyInKeys
<1>4. RowOf(r) \in ActionRow \cup {NoRow}
  BY <1>1, <1>3 DEF AgentTypeOK, RowOf
<1> QED
  BY <1>1, <1>2, <1>3, <1>4 DEF InFlight

LEMMA CreateStep ==
  ASSUME AgentInv, NEW r \in Requests, Create(r)
  PROVE  AgentInv'
<1> DEFINE place == IF ConsumesBudget(req[r].action) THEN "claim" ELSE "act"
           x == [req[r] EXCEPT !.at = place]
<1>1. /\ req[r].at = "create" /\ RowOf(r) = NoRow /\ UNCHANGED claimed
      /\ actions' = [actions EXCEPT ![KeyOf(r)] = NewRow(r)]
      /\ req' = [req EXCEPT ![r] = x]
  BY DEF Create, At, Goto
<1>2. req[r] \in Request /\ req[r].doc.attempts < MaxRecoveryAttempts
  BY <1>1, AtWork
<1>3. place \in Places /\ place \in {"claim", "act"}
  BY DEF Places
<1>4. place = "act" => ~ConsumesBudget(req[r].action)
  OBVIOUS
<1> HIDE DEF place
<1>5. /\ x \in Request /\ x.at = place /\ x.case = req[r].case /\ x.key = req[r].key
      /\ x.doc = req[r].doc /\ x.action = req[r].action
  BY <1>2, <1>3, RequestAt, Zenon
<1>6. /\ NewRow(r) \in ActionRow /\ NewRow(r).by = r /\ NewRow(r).claimed = FALSE
      /\ NewRow(r).status = "validated" /\ NewRow(r).action = req[r].action
  BY <1>2, RequestFields DEF NewRow, ActionRow
<1>7. OthersTyped'
  BY Untouched DEF Create
<1> HIDE DEF x
<1> QED
  BY <1>1, <1>2, <1>3, <1>4, <1>5, <1>6, <1>7, RowStep

LEMMA SaveClaimStep ==
  ASSUME AgentInv, NEW r \in Requests, SaveClaim(r)
  PROVE  AgentInv'
<1> DEFINE x == [req[r] EXCEPT !.at = "act"]
           row == [RowOf(r) EXCEPT !.claimed = TRUE]
<1>1. /\ req[r].at = "claimed" /\ UNCHANGED claimed
      /\ req' = [req EXCEPT ![r] = x] /\ actions' = [actions EXCEPT ![KeyOf(r)] = row]
  BY DEF SaveClaim, At, Goto, RowOf
<1>2. /\ req[r] \in Request /\ req[r].doc.attempts < MaxRecoveryAttempts
      /\ RowOf(r) \in ActionRow /\ RowOf(r) # NoRow /\ RowOf(r).by = r
      /\ RowOf(r).status = "validated" /\ RowOf(r).action = req[r].action
  BY <1>1, AtWork
<1>3. /\ x \in Request /\ x.at = "act" /\ x.case = req[r].case /\ x.key = req[r].key
      /\ x.doc = req[r].doc /\ x.action = req[r].action
  <2>1. "act" \in Places
    BY DEF Places
  <2> QED
    BY <1>2, <2>1, RequestAt, Zenon
<1>4. /\ row \in ActionRow /\ row.by = r /\ row.claimed = TRUE
      /\ row.status = "validated" /\ row.action = req[r].action
  BY <1>2, RowClaimed, Zenon
<1>5. r \in Holders
  BY <1>1 DEF Holders
<1>6. OthersTyped'
  BY Untouched DEF SaveClaim
<1> HIDE DEF x, row
<1> QED
  BY <1>1, <1>2, <1>3, <1>4, <1>5, <1>6, RowStep

LEMMA GivesUp ==
  ASSUME AgentInv, NEW r \in Requests, req[r].at \in {"claim", "act"},
         NEW kept \in {"blocked", "failed"}, NEW status \in RunStatuses,
         NEW reason \in Reasons, Ends(r, status, reason),
         actions' = [actions EXCEPT ![KeyOf(r)].status = kept],
         UNCHANGED claimed, OthersTyped'
  PROVE  AgentInv'
<1> DEFINE x == [req[r] EXCEPT !.at = "finish", !.status = status, !.reason = reason]
           row == [RowOf(r) EXCEPT !.status = kept]
<1>1. req' = [req EXCEPT ![r] = x] /\ actions' = [actions EXCEPT ![KeyOf(r)] = row]
  BY DEF Ends, RowOf
<1>2. /\ req[r] \in Request /\ req[r].doc.attempts < MaxRecoveryAttempts
      /\ RowOf(r) \in ActionRow /\ RowOf(r) # NoRow /\ RowOf(r).by = r
  BY AtWork
<1>3. /\ x \in Request /\ x.at = "finish" /\ x.case = req[r].case
      /\ x.key = req[r].key /\ x.doc = req[r].doc /\ x.action = req[r].action
  BY <1>2 DEF Request, Places, RunStatuses
<1>4. /\ row \in ActionRow /\ row.by = r /\ row.status = kept
      /\ row.claimed = RowOf(r).claimed
  <2>1. kept \in {"validated", "executed", "blocked", "failed"}
    OBVIOUS
  <2> QED
    BY <1>2, <2>1, RowStatus, Zenon
<1> HIDE DEF x, row
<1>5. row.status # "executed"
  BY <1>4
<1> QED
  BY <1>1, <1>2, <1>3, <1>4, <1>5, RowStep

LEMMA LostStep ==
  ASSUME AgentInv, NEW r \in Requests, LoseClaim(r) \/ ActFails(r)
  PROVE  AgentInv'
<1>1. OthersTyped'
  BY Untouched DEF LoseClaim, ActFails
<1>2. CASE LoseClaim(r)
  BY <1>1, <1>2, GivesUp DEF LoseClaim, At, RunStatuses, Reasons
<1>3. CASE ActFails(r)
  BY <1>1, <1>3, GivesUp DEF ActFails, At, RunStatuses, Reasons
<1> QED
  BY <1>2, <1>3

LEMMA ActStep ==
  ASSUME AgentInv, NEW r \in Requests, Act(r)
  PROVE  AgentInv'
<1> DEFINE outcome == IF req[r].action = Escalate THEN "unpaid"
                      ELSE fate[<<req[r].case, req[r].action>>]
           x == [req[r] EXCEPT !.at = "record"]
           row == [RowOf(r) EXCEPT !.status = "executed", !.outcome = outcome]
<1>1. /\ req[r].at = "act" /\ UNCHANGED claimed
      /\ req' = [req EXCEPT ![r] = x] /\ actions' = [actions EXCEPT ![KeyOf(r)] = row]
  BY DEF Act, At, Goto, RowOf
<1>2. /\ req[r] \in Request /\ req[r].doc.attempts < MaxRecoveryAttempts
      /\ RowOf(r) \in ActionRow /\ RowOf(r) # NoRow /\ RowOf(r).by = r
      /\ RowOf(r).action = req[r].action
  BY <1>1, AtWork
<1>3. outcome \in {"none", "paid", "unpaid"}
  <2>1. fate \in [Cases \X DefaultActions -> {"paid", "unpaid"}]
    BY AgentAssumption DEF AgentInv, AgentTypeOK
  <2>2. req[r].case \in Cases /\ req[r].action \in DefaultActions
    BY <1>2, RequestFields
  <2> QED
    BY <2>1, <2>2
<1>4. /\ x \in Request /\ x.at = "record" /\ x.case = req[r].case
      /\ x.key = req[r].key /\ x.doc = req[r].doc /\ x.action = req[r].action
  <2>1. "record" \in Places
    BY DEF Places
  <2> QED
    BY <1>2, <2>1, RequestAt, Zenon
<1> HIDE DEF outcome
<1>5. /\ row \in ActionRow /\ row.by = r /\ row.status = "executed"
      /\ row.claimed = RowOf(r).claimed /\ row.action = RowOf(r).action
  BY <1>2, <1>3, RowExecuted, Zenon
<1>6. ConsumesBudget(req[r].action) => RowOf(r).claimed
  BY <1>1 DEF AgentInv, InFlight
<1>7. OthersTyped'
  BY Untouched DEF Act
<1> HIDE DEF x, row
<1> QED
  BY <1>1, <1>2, <1>4, <1>5, <1>6, <1>7, RowStep

LEMMA RecordStep ==
  ASSUME AgentInv, NEW r \in Requests, Record(r)
  PROVE  AgentInv'
<1>1. OthersTyped' /\ UNCHANGED <<actions, claimed>>
  <2>1. req[r].case \in Cases /\ cases \in [Cases -> CaseDoc]
    BY RequestFields DEF AgentInv, AgentTypeOK
  <2>2. PICK now \in Clock :
          cases' = [cases EXCEPT ![req[r].case] =
                      Counted(cases[req[r].case], req[r].action = PaymentLink, now)]
    BY DEF Record
  <2>3. (req[r].action = PaymentLink) \in BOOLEAN
    OBVIOUS
  <2>4. Counted(cases[req[r].case], req[r].action = PaymentLink, now) \in CaseDoc
    BY <2>1, <2>3, CountedCase, Zenon
  <2>5. cases' \in [Cases -> CaseDoc]
    BY <2>1, <2>2, <2>4
  <2> QED
    BY <2>5 DEF Record, OthersTyped, AgentInv, AgentTypeOK, RunStatuses
<1>2. \/ Goto(r, "close")
      \/ HandsOver(r, "POLICY_BLOCKED")
      \/ Ends(r, "stopped", "MAX_ATTEMPTS_REACHED")
      \/ Ends(r, "executed", "none")
  BY DEF Record, AfterAttempt
<1> QED
  BY <1>1, <1>2, GoesLocally, HandsOverLocally, EndsLocally DEF RunStatuses, Reasons

\* The rest writes the case, its own run row or nothing.
LEMMA ClosingSteps ==
  ASSUME AgentInv, NEW r \in Requests,
         FindCreated(r) \/ Close(r) \/ EscalateCase(r) \/ Finish(r) \/ Dies(r)
  PROVE  AgentInv'
<1>1. req[r] \in Request /\ req[r].case \in Cases /\ cases \in [Cases -> CaseDoc]
      /\ req[r].reason \in Reasons /\ req[r].status \in RunStatuses
  BY RequestFields DEF AgentInv, AgentTypeOK, Request, RunStatuses
<1>2. CASE FindCreated(r)
  <2>1. \E status \in RunStatuses : Ends(r, status, "ALREADY_EXECUTED")
    BY <1>2 DEF FindCreated, RunStatuses
  <2>2. OthersTyped' /\ UNCHANGED <<actions, claimed>>
    BY <1>2, Untouched DEF FindCreated, stores
  <2> QED
    BY <2>1, <2>2, EndsLocally DEF Reasons
<1>3. CASE Close(r) \/ EscalateCase(r)
  <2>1. cases' \in [Cases -> CaseDoc]
    BY <1>1, <1>3 DEF Close, EscalateCase, CaseDoc
  <2>2. OthersTyped' /\ UNCHANGED <<actions, claimed>>
    BY <1>3, <2>1 DEF Close, EscalateCase, OthersTyped, AgentInv, AgentTypeOK, RunStatuses
  <2>3. \E status \in RunStatuses, reason \in Reasons : Ends(r, status, reason)
    BY <1>1, <1>3 DEF Close, EscalateCase, RunStatuses, Reasons
  <2> QED
    BY <2>2, <2>3, EndsLocally
<1>4. CASE Finish(r)
  <2>1. OthersTyped' /\ UNCHANGED <<actions, claimed>>
    BY <1>1, <1>4 DEF Finish, OthersTyped, AgentInv, AgentTypeOK, RunStatuses
  <2> QED
    BY <1>4, <2>1, GoesLocally DEF Finish
<1>5. CASE Dies(r)
  <2>1. OthersTyped' /\ UNCHANGED <<actions, claimed>>
    BY <1>5, Untouched DEF Dies, stores
  <2> QED
    BY <1>5, <2>1, GoesLocally DEF Dies
<1> QED
  BY <1>2, <1>3, <1>4, <1>5

-----------------------------------------------------------------------------
(* The theorems.                                                           *)

LEMMA AgentInvInit == AgentInit => AgentInv
<1> SUFFICES ASSUME AgentInit PROVE AgentInv
  OBVIOUS
<1>1. Idle \in Request /\ Idle.at = "idle"
  <2>1. (CHOOSE c \in Cases : TRUE) \in Cases
    BY AgentAssumption
  <2>2. NewCase \in CaseDoc
    BY DEF NewCase, CaseDoc
  <2> QED
    BY <2>1, <2>2 DEF Idle, Request, Places, Reasons, NoAction, DefaultActions
<1>2. \A c \in Cases : NewCase \in CaseDoc
  BY DEF NewCase, CaseDoc
<1>3. \A r \in Requests : req[r] = Idle
  BY DEF AgentInit
<1>4. AgentTypeOK
  BY <1>1, <1>2, <1>3 DEF AgentInit, AgentTypeOK
<1>5. \A r \in Requests : InFlight(r)
  BY <1>1, <1>3 DEF InFlight
<1>6. Slots = {} /\ Holders = {}
  BY <1>1, <1>3 DEF Slots, Holders, AgentInit
<1>7. SlotsAreClaimed
  BY <1>6, FS_EmptySet, AgentAssumption DEF SlotsAreClaimed, AgentInit
<1>8. CollectionsHaveSlots
  BY DEF CollectionsHaveSlots, Collections, AgentInit, NoRow
<1> QED
  BY <1>4, <1>5, <1>7, <1>8 DEF AgentInv

LEMMA AgentInvStep == AgentInv /\ [AgentNext]_agentVars => AgentInv'
<1> SUFFICES ASSUME AgentInv, [AgentNext]_agentVars PROVE AgentInv'
  OBVIOUS
<1>1. ASSUME NEW r \in Requests, Start(r) \/ Step(r) \/ Dies(r)
      PROVE  AgentInv'
  BY <1>1, PlanSteps, ValidateSteps, CreateStep, ClaimStep, LostStep, SaveClaimStep,
     ActStep, RecordStep, ClosingSteps
  DEF Step, Acts
<1>2. ASSUME NEW c \in Cases, SetFlags(c)
      PROVE  AgentInv'
  <2>1. UNCHANGED <<cases, claimed, actions, runs, req, advice, fate>>
    BY <1>2 DEF SetFlags
  <2>2. flags' \in [Cases -> SUBSET CustomerFlags]
    BY <1>2 DEF SetFlags, AgentInv, AgentTypeOK
  <2>3. AgentTypeOK'
    BY <2>1, <2>2 DEF AgentInv, AgentTypeOK, RowOf, KeyOf
  <2> QED
    BY <2>1, <2>3 DEF AgentInv, InFlight, RowOf, KeyOf, SlotsAreClaimed, Slots, Holders,
                      CollectionsHaveSlots, Collections
<1>3. CASE UNCHANGED agentVars
  <2>1. UNCHANGED <<cases, flags, claimed, actions, runs, req, advice, fate>>
    BY <1>3 DEF agentVars, stores
  <2> QED
    BY <2>1 DEF AgentInv, AgentTypeOK, InFlight, RowOf, KeyOf, SlotsAreClaimed, Slots,
                Holders, CollectionsHaveSlots, Collections
<1> QED
  BY <1>1, <1>2, <1>3 DEF AgentNext

LEMMA AgentInvariant == AgentSpec => []AgentInv
BY AgentInvInit, AgentInvStep, PTL DEF AgentSpec

\* The documents and the requests' locals keep their shapes, and who writes a row
\* owns it.
THEOREM AgentTypes == AgentSpec => []AgentTypeOK
<1>1. AgentInv => AgentTypeOK
  BY DEF AgentInv
<1> QED
  BY <1>1, AgentInvariant, PTL

\* The budget is never overspent, whatever remaining budget a request read: the
\* slots on rows and the slots in hand are never more than were claimed, a claim
\* never takes the last slot twice, and nothing is collected without one.
THEOREM BudgetHolds == AgentSpec => []SpentWithinLimit
<1>1. AgentInv => SpentWithinLimit
  <2> SUFFICES ASSUME AgentInv PROVE SpentWithinLimit
    OBVIOUS
  <2>1. \A k \in Collections : actions[k].claimed
    BY DEF AgentInv, CollectionsHaveSlots
  <2>2. Collections \in SUBSET Slots
    BY <2>1 DEF Collections, Slots, NoRow
  <2>3. /\ Cardinality(Slots) \in Nat /\ Cardinality(Holders) \in Nat
        /\ Cardinality(Collections) \in Nat
        /\ Cardinality(Collections) <= Cardinality(Slots)
    BY <2>2, FS_Subset, FS_CardinalityType DEF AgentInv, SlotsAreClaimed
  <2> QED
    BY <2>1, <2>3, AgentAssumption DEF AgentInv, SlotsAreClaimed, SpentWithinLimit
<1> QED
  BY <1>1, AgentInvariant, PTL

\* One outcome per idempotency key: an executed row is final, whoever retries and
\* whatever died, since a row is written only while it is validated, by the request
\* that made it.
THEOREM OutcomesAreFinal == AgentSpec => ExecutedIsFinal
<1>1. ASSUME AgentInv, [AgentNext]_agentVars, NEW k \in Keys,
             actions[k].status = "executed"
      PROVE  actions'[k] = actions[k]
  <2>1. CASE UNCHANGED actions
    BY <2>1
  <2>2. ASSUME NEW r \in Requests, NEW row, actions' = [actions EXCEPT ![KeyOf(r)] = row],
               RowOf(r).status # "executed"
        PROVE  actions'[k] = actions[k]
    <3>1. k # KeyOf(r)
      BY <1>1, <2>2 DEF RowOf
    <3> QED
      BY <1>1, <2>2, <3>1 DEF AgentInv, AgentTypeOK
  <2>3. ASSUME NEW r \in Requests, Create(r)
        PROVE  actions'[k] = actions[k]
    <3>1. RowOf(r).status # "executed"
      BY <2>3 DEF Create, NoRow
    <3>2. \E row : actions' = [actions EXCEPT ![KeyOf(r)] = row]
      BY <2>3 DEF Create
    <3> QED
      BY <2>2, <3>1, <3>2
  <2>4. ASSUME NEW r \in Requests, LoseClaim(r) \/ SaveClaim(r) \/ Act(r) \/ ActFails(r)
        PROVE  actions'[k] = actions[k]
    <3>1. RowOf(r).status # "executed"
      BY <1>1, <2>4, AtWork DEF LoseClaim, SaveClaim, Act, ActFails, At
    <3>2. \E row : actions' = [actions EXCEPT ![KeyOf(r)] = row]
      BY <2>4 DEF LoseClaim, SaveClaim, Act, ActFails
    <3> QED
      BY <2>2, <3>1, <3>2
  <2>5. ASSUME NEW r \in Requests,
               \/ Start(r) \/ Plans(r) \/ Validates(r) \/ FindCreated(r) \/ Claim(r)
               \/ Record(r) \/ Close(r) \/ EscalateCase(r) \/ Finish(r) \/ Dies(r)
        PROVE  UNCHANGED actions
    BY <2>5 DEF Start, Plans, ReadCustomer, ReadBudget, StopEarly, Propose, Validates,
                Replay, Refuse, Accept, FindCreated, Claim, Record, Close, EscalateCase,
                Finish, Dies, stores
  <2>6. ASSUME NEW c \in Cases, SetFlags(c)
        PROVE  UNCHANGED actions
    BY <2>6 DEF SetFlags
  <2> QED
    BY <1>1, <2>1, <2>3, <2>4, <2>5, <2>6 DEF AgentNext, Step, Acts, agentVars, stores
<1>2. AgentInv /\ [AgentNext]_agentVars =>
        [\A k \in Keys : actions[k].status = "executed" => actions'[k] = actions[k]]_agentVars
  BY <1>1
<1> QED
  BY <1>2, AgentInvariant, PTL DEF ExecutedIsFinal, AgentSpec

-----------------------------------------------------------------------------
(* Flags.                                                                  *)

Obeys(action, customer) ==
  /\ action \in AutomatedCollection => customer \cap {"dispute", "risk"} = {}
  /\ action \in ContactActions => "opted_out" \notin customer

\* What was validated obeys the flags it was validated on.
FlagsInv ==
  /\ \A k \in Keys : actions[k] # NoRow => Obeys(actions[k].action, actions[k].seen)
  /\ \A r \in Requests : req[r].at = "create" => Obeys(req[r].action, req[r].flags)

\* What a hit blocks and no guard keeps is not allowed.
LEMMA HitsBlock ==
  ASSUME NEW hits, NEW h \in hits, NEW action \in h.blocks \cap AutomatedCollection
  PROVE  action \notin EvaluatePolicy(hits).allowed
<1>1. action \in UNION {g.blocks : g \in hits}
  OBVIOUS
<1>2. action # NoAction /\ action # Escalate
  BY DEF AutomatedCollection, NoAction, PaymentLink, ManualCharge, Escalate
<1> QED
  BY <1>1, <1>2 DEF EvaluatePolicy

\* The rules of the flags, in whatever company they apply.
LEMMA PolicyObeys ==
  ASSUME NEW r, NEW customer, NEW action \in Policy(r, customer).allowed
  PROVE  Obeys(action, customer)
<1> DEFINE c == [domestic |-> req[r].case \in Domestic, backlog |-> 0, mandate |-> 0,
                 risk |-> "risk" \in customer, dispute |-> "dispute" \in customer,
                 opted_out |-> "opted_out" \in customer,
                 attempts |-> req[r].doc.attempts, max_attempts |-> MaxRecoveryAttempts,
                 now |-> DecisionNow, last_contact |-> req[r].doc.contact,
                 cooldown |-> Cooldown]
           stop == [Escalates(AutomatedCollection) EXCEPT !.stops = TRUE]
<1>1. action \in EvaluatePolicy(RulesV1(c)).allowed
  BY DEF Policy, EvaluateV1
<1>2. /\ c.risk = ("risk" \in customer) /\ c.dispute = ("dispute" \in customer)
      /\ c.opted_out = ("opted_out" \in customer)
  OBVIOUS
<1> HIDE DEF c
<1>3. /\ Escalates(AutomatedCollection).blocks = AutomatedCollection
      /\ Escalates(ContactActions).blocks = ContactActions
      /\ stop.blocks = AutomatedCollection
  BY DEF Escalates, Blocks
<1>4. /\ "risk" \in customer => Escalates(AutomatedCollection) \in RulesV1(c)
      /\ "dispute" \in customer => stop \in RulesV1(c)
      /\ "opted_out" \in customer => Escalates(ContactActions) \in RulesV1(c)
  BY <1>2 DEF RulesV1
<1> HIDE DEF stop
<1>5. ContactActions \subseteq AutomatedCollection
  BY DEF ContactActions, AutomatedCollection
<1>6. action \in AutomatedCollection => "risk" \notin customer /\ "dispute" \notin customer
  BY <1>1, <1>3, <1>4, HitsBlock
<1>7. action \in ContactActions => "opted_out" \notin customer
  BY <1>1, <1>3, <1>4, <1>5, HitsBlock
<1> QED
  BY <1>6, <1>7 DEF Obeys

\* Only Create adds a row; whoever else writes one leaves its action and flags.
LEMMA RowsKeepFlags ==
  ASSUME AgentInv, NEW r \in Requests, Step(r), ~Create(r), NEW k \in Keys,
         actions'[k] # NoRow
  PROVE  /\ actions[k] # NoRow
         /\ actions'[k].action = actions[k].action /\ actions'[k].seen = actions[k].seen
<1>1. CASE UNCHANGED actions
  BY <1>1
<1>2. CASE LoseClaim(r) \/ SaveClaim(r) \/ Act(r) \/ ActFails(r)
  <2>1. RowOf(r) \in ActionRow /\ KeyOf(r) \in Keys /\ RowOf(r) # NoRow
    BY <1>2, AtWork DEF LoseClaim, SaveClaim, Act, ActFails, At
  <2>2. CASE k = KeyOf(r)
    BY <1>2, <2>1, <2>2
    DEF LoseClaim, SaveClaim, Act, ActFails, RowOf, ActionRow, AgentInv, AgentTypeOK
  <2>3. CASE k # KeyOf(r)
    BY <1>2, <2>1, <2>3 DEF LoseClaim, SaveClaim, Act, ActFails, AgentInv, AgentTypeOK
  <2> QED
    BY <2>2, <2>3
<1> QED
  BY <1>1, <1>2 DEF Step, Plans, ReadCustomer, ReadBudget, StopEarly, Propose, Validates,
     Replay, Refuse, Accept, Acts, FindCreated, Claim, Record, Close, EscalateCase, Finish,
     stores

\* A request comes to "create" by way of Accept, and stays there with what it knows.
LEMMA ComesByAccept ==
  ASSUME AgentInv, NEW r \in Requests, Start(r) \/ Step(r) \/ Dies(r),
         NEW q \in Requests, req'[q].at = "create"
  PROVE  \/ req'[q] = req[q]
         \/ q = r /\ Accept(r)
<1>1. q # r => req'[q] = req[q]
  BY DEF AgentInv, AgentTypeOK, Start, Step, Dies, Plans, ReadCustomer, ReadBudget, StopEarly,
     Propose, Validates, Replay, Refuse, Accept, Acts, Create, FindCreated, Claim, LoseClaim,
     SaveClaim, Act, ActFails, Record, AfterAttempt, Close, EscalateCase, Finish, Goto, Ends,
     HandsOver
<1>2. q = r => Accept(r)
  <2> SUFFICES ASSUME q = r, ~Accept(r) PROVE FALSE
    OBVIOUS
  <2>1. req \in [Requests -> Request]
    BY DEF AgentInv, AgentTypeOK
  <2>2. CASE Start(r)
    <3>1. PICK c \in Cases, k \in ClientKeys \cup {NoKey} :
            req' = [req EXCEPT ![r].at = "customer", ![r].case = c, ![r].key = k,
                               ![r].doc = cases[c]]
      BY <2>2 DEF Start
    <3> QED
      BY <2>1, <3>1 DEF Request
  <2>8. CASE ReadCustomer(r) \/ ReadBudget(r)
    BY <2>1, <2>8 DEF ReadCustomer, ReadBudget, Request
  <2>3. CASE StopEarly(r) \/ Propose(r)
    BY <2>1, <2>3 DEF StopEarly, Propose, Ends, Request
  <2>4. CASE Replay(r) \/ Refuse(r)
    BY <2>1, <2>4 DEF Replay, Refuse, Ends, HandsOver, Request
  <2>5. CASE Create(r) \/ FindCreated(r) \/ Claim(r) \/ LoseClaim(r) \/ SaveClaim(r)
    BY <2>1, <2>5 DEF Create, FindCreated, Claim, LoseClaim, SaveClaim, Ends, Goto, Request
  <2>6. CASE Act(r) \/ ActFails(r) \/ Record(r) \/ Close(r) \/ EscalateCase(r)
    BY <2>1, <2>6
    DEF Act, ActFails, Record, AfterAttempt, Close, EscalateCase, Ends, HandsOver, Goto, Request
  <2>7. CASE Finish(r) \/ Dies(r)
    BY <2>1, <2>7 DEF Finish, Dies, Goto, Request
  <2> QED
    BY <2>2, <2>3, <2>4, <2>5, <2>6, <2>7, <2>8 DEF Step, Plans, Validates, Acts
<1> QED
  BY <1>1, <1>2

LEMMA FlagsInvStep ==
  ASSUME AgentInv, FlagsInv, [AgentNext]_agentVars
  PROVE  FlagsInv'
<1>1. ASSUME NEW r \in Requests, Start(r) \/ Step(r) \/ Dies(r)
      PROVE  FlagsInv'
  <2>1. ASSUME NEW k \in Keys, actions'[k] # NoRow
        PROVE  Obeys(actions'[k].action, actions'[k].seen)
    <3>1. CASE Create(r)
      <4>1. /\ actions' = [actions EXCEPT ![KeyOf(r)] = NewRow(r)]
            /\ Obeys(NewRow(r).action, NewRow(r).seen)
        BY <3>1 DEF Create, At, NewRow, FlagsInv
      <4>2. actions'[k] = actions[k] \/ actions'[k] = NewRow(r)
        BY <4>1 DEF AgentInv, AgentTypeOK
      <4> QED
        BY <2>1, <4>1, <4>2 DEF FlagsInv
    <3>2. CASE Step(r) /\ ~Create(r)
      BY <2>1, <3>2, RowsKeepFlags DEF FlagsInv
    <3>3. CASE Start(r) \/ Dies(r)
      BY <2>1, <3>3 DEF Start, Dies, stores, FlagsInv
    <3> QED
      BY <1>1, <3>1, <3>2, <3>3
  <2>2. ASSUME NEW q \in Requests, req'[q].at = "create"
        PROVE  Obeys(req'[q].action, req'[q].flags)
    <3>1. CASE req'[q] = req[q]
      BY <2>2, <3>1 DEF FlagsInv
    <3>2. CASE q = r /\ Accept(r)
      <4>1. req[r].action \in Policy(r, req[r].flags).allowed
        BY <3>2 DEF Accept, Refusal, Verdict
      <4>2. req'[r].action = req[r].action /\ req'[r].flags = req[r].flags
        BY <3>2 DEF Accept, Goto, AgentInv, AgentTypeOK, Request
      <4> QED
        BY <3>2, <4>1, <4>2, PolicyObeys
    <3> QED
      BY <1>1, <2>2, <3>1, <3>2, ComesByAccept
  <2> QED
    BY <2>1, <2>2 DEF FlagsInv
<1>2. CASE UNCHANGED <<actions, req>>
  BY <1>2 DEF FlagsInv
<1> QED
  BY <1>1, <1>2 DEF AgentNext, SetFlags, agentVars, stores

\* The flags a request read decide, though the action was proposed as if there were
\* none: the rules of the flags subtract in any company of other rules, and nothing
\* between validation and the row changes what was validated.
THEOREM FlagsAreObeyed == AgentSpec => []FlagsBlockCollection
<1>1. AgentInit => FlagsInv
  <2> SUFFICES ASSUME AgentInit PROVE FlagsInv
    OBVIOUS
  <2>1. \A q \in Requests : req[q].at = "idle"
    BY DEF AgentInit, Idle
  <2>2. \A k \in Keys : actions[k] = NoRow
    BY DEF AgentInit
  <2> QED
    BY <2>1, <2>2 DEF FlagsInv
<1>2. AgentInv /\ FlagsInv /\ [AgentNext]_agentVars => FlagsInv'
  BY FlagsInvStep
<1>3. FlagsInv => FlagsBlockCollection
  BY DEF FlagsInv, FlagsBlockCollection, Rows, Obeys
<1> QED
  BY <1>1, <1>2, <1>3, AgentInvariant, PTL DEF AgentSpec

-----------------------------------------------------------------------------
(* Attempts.                                                               *)

Early == {"idle", "customer", "budget", "plan", "lookup", "create"}
Working == {"claim", "claimed", "act", "record"}

\* A request has made no row before it works on one, and works on the one it made.
Owns(r, k, c) ==
  /\ req[r].at \notin Early
  /\ req[r].at \in Working => k = KeyOf(r) /\ c = req[r].case

OwnRows ==
  \A k \in Keys : actions[k] # NoRow => Owns(actions[k].by, k, actions[k].case)

\* A request that has executed its action knows it, and has not ended.
Unfinished ==
  \A r \in Requests :
    /\ req[r].at = "record" => RowOf(r).status = "executed"
    /\ req[r].at \in {"lookup", "create"} \cup Working => runs[r] = "planned"

Uncounted(c) == {k \in Executed(c) : At(actions[k].by, "record")}

AllCounted(c) ==
  /\ IsFiniteSet(Executed(c))
  /\ cases[c].attempts + Cardinality(Uncounted(c)) <= Cardinality(Executed(c))
  /\ (\A r \in Requests : ~Died(r)) =>
       cases[c].attempts + Cardinality(Uncounted(c)) = Cardinality(Executed(c))

AttemptsInv == OwnRows /\ Unfinished /\ \A c \in Cases : AllCounted(c)

\* Where the three ways to move a request take it.
LEMMA Goes ==
  ASSUME AgentTypeOK, NEW r \in Requests, NEW place \in Places, Goto(r, place)
  PROVE  /\ req'[r].at = place /\ req'[r].case = req[r].case /\ req'[r].key = req[r].key
         /\ req'[r].doc = req[r].doc /\ req'[r].action = req[r].action
         /\ \A q \in Requests : q # r => req'[q] = req[q]
<1> DEFINE x == [req[r] EXCEPT !.at = place]
<1>1. req \in [Requests -> Request] /\ req' = [req EXCEPT ![r] = x]
  BY DEF AgentTypeOK, Goto
<1>2. /\ x.at = place /\ x.case = req[r].case /\ x.key = req[r].key
      /\ x.doc = req[r].doc /\ x.action = req[r].action
  BY <1>1, RequestAt, Zenon
<1> HIDE DEF x
<1> QED
  BY <1>1, <1>2

LEMMA GoesToEnd ==
  ASSUME AgentTypeOK, NEW r \in Requests, NEW status, NEW reason,
         Ends(r, status, reason) \/ HandsOver(r, reason)
  PROVE  /\ req'[r].at \in {"finish", "escalate"}
         /\ \A q \in Requests : q # r => req'[q] = req[q]
BY DEF AgentTypeOK, Ends, HandsOver, Request

\* A request goes forward, to work on a row by way of Create only and to count it
\* by way of Act only.
LEMMA Forward ==
  ASSUME AgentTypeOK, NEW r \in Requests, Start(r) \/ Step(r) \/ Dies(r)
  PROVE  /\ \A q \in Requests : q # r => req'[q] = req[q]
         /\ req[r].at # "done"
         /\ req[r].at \notin Early => req'[r].at \notin Early
         /\ req'[r].at \in Working =>
              /\ req[r].at \in Working \/ Create(r)
              /\ req'[r].case = req[r].case /\ req'[r].key = req[r].key
              /\ req'[r].doc = req[r].doc /\ req'[r].action = req[r].action
         /\ Create(r) => req'[r].at \in {"claim", "act"}
         /\ req'[r].at = "record" => Act(r)
         /\ req[r].at = "record" => Record(r) \/ Dies(r)
         /\ req'[r].at \in {"lookup", "create"} \cup Working =>
              \/ Propose(r)
              \/ req[r].at \in {"lookup", "create"} \cup Working
<1> USE DEF Early, Working
<1>1. req \in [Requests -> Request]
  BY DEF AgentTypeOK
<1>2. CASE Start(r)
  <2>1. PICK c \in Cases, k \in ClientKeys \cup {NoKey} :
          req' = [req EXCEPT ![r].at = "customer", ![r].case = c, ![r].key = k,
                             ![r].doc = cases[c]]
    BY <1>2 DEF Start
  <2>2. req'[r].at = "customer" /\ \A q \in Requests : q # r => req'[q] = req[q]
    BY <1>1, <2>1 DEF Request
  <2> QED
    BY <1>2, <2>2 DEF Start, At, Create
<1>3. CASE ReadCustomer(r) \/ ReadBudget(r) \/ StopEarly(r) \/ Propose(r)
  <2>1. /\ req'[r].at \in {"budget", "plan", "finish", "lookup"}
        /\ req'[r].at = "lookup" => Propose(r)
        /\ \A q \in Requests : q # r => req'[q] = req[q]
    BY <1>1, <1>3 DEF ReadCustomer, ReadBudget, StopEarly, Propose, Ends, Request
  <2> QED
    BY <1>3, <2>1 DEF ReadCustomer, ReadBudget, StopEarly, Propose, At, Create
<1>4. CASE Replay(r) \/ Refuse(r) \/ FindCreated(r)
  <2>1. \E status, reason : Ends(r, status, reason) \/ HandsOver(r, reason)
    BY <1>4 DEF Replay, Refuse, FindCreated
  <2>2. req[r].at \in {"lookup", "create"} /\ ~Create(r)
    BY <1>4 DEF Replay, Refuse, FindCreated, At, Create
  <2> QED
    BY <2>1, <2>2, GoesToEnd
<1>5. CASE Accept(r)
  <2>1. Goto(r, "create") /\ req[r].at = "lookup" /\ "create" \in Places
    BY <1>5 DEF Accept, At, Places
  <2>2. req'[r].at = "create" /\ \A q \in Requests : q # r => req'[q] = req[q]
    BY <2>1, Goes, Zenon
  <2> QED
    BY <2>1, <2>2 DEF Create, At
<1>6. CASE Create(r)
  <2>1. PICK place \in {"claim", "act"} : Goto(r, place)
    BY <1>6 DEF Create
  <2>2. place \in Places /\ req[r].at = "create"
    BY <1>6 DEF Places, Create, At
  <2>3. /\ req'[r].at = place /\ req'[r].case = req[r].case /\ req'[r].key = req[r].key
        /\ req'[r].doc = req[r].doc /\ req'[r].action = req[r].action
        /\ \A q \in Requests : q # r => req'[q] = req[q]
    BY <2>1, <2>2, Goes, Zenon
  <2> QED
    BY <1>6, <2>2, <2>3
<1>7. CASE Claim(r) \/ SaveClaim(r) \/ Act(r)
  <2>1. PICK place \in {"claimed", "act", "record"} :
          /\ Goto(r, place)
          /\ place = "record" => Act(r)
          /\ req[r].at \in {"claim", "claimed", "act"}
    BY <1>7 DEF Claim, SaveClaim, Act, At
  <2>2. place \in Places /\ ~Create(r)
    BY <2>1 DEF Places, Create, At
  <2>3. Goto(r, place)
    BY <2>1
  <2>4. /\ req'[r].at = place /\ req'[r].case = req[r].case /\ req'[r].key = req[r].key
        /\ req'[r].doc = req[r].doc /\ req'[r].action = req[r].action
        /\ \A q \in Requests : q # r => req'[q] = req[q]
    BY <2>2, <2>3, Goes, Zenon
  <2>5. place \notin Early /\ place \notin {"lookup", "create"} /\ req[r].at \in Working
    BY <2>1
  <2> QED
    BY <2>1, <2>2, <2>4, <2>5
<1>8. CASE LoseClaim(r) \/ ActFails(r) \/ Close(r) \/ EscalateCase(r)
  <2>1. \E status, reason : Ends(r, status, reason)
    BY <1>8 DEF LoseClaim, ActFails, Close, EscalateCase
  <2>2. req[r].at \in {"claim", "act", "close", "escalate"} /\ ~Create(r)
    BY <1>8 DEF LoseClaim, ActFails, Close, EscalateCase, At, Create
  <2> QED
    BY <2>1, <2>2, GoesToEnd
<1>9. CASE Record(r)
  <2>1. \/ Goto(r, "close")
        \/ \E status, reason : Ends(r, status, reason) \/ HandsOver(r, reason)
    BY <1>9 DEF Record, AfterAttempt
  <2>2. "close" \in Places /\ req[r].at = "record"
    BY <1>9 DEF Places, Record, At
  <2>3. /\ req'[r].at \in {"close", "finish", "escalate"}
        /\ \A q \in Requests : q # r => req'[q] = req[q]
    BY <2>1, <2>2, Goes, GoesToEnd
  <2> QED
    BY <1>9, <2>2, <2>3 DEF Create, At
<1>10. CASE Finish(r) \/ Dies(r)
  <2>1. Goto(r, "done") /\ "done" \in Places
    BY <1>10 DEF Finish, Dies, Places
  <2>2. req'[r].at = "done" /\ \A q \in Requests : q # r => req'[q] = req[q]
    BY <2>1, Goes, Zenon
  <2>3. req[r].at # "done" /\ (req[r].at = "record" => Dies(r))
    BY <1>10 DEF Finish, Dies, At
  <2>4. ~Create(r)
    <3>1. "claim" \in Places /\ "act" \in Places
      BY DEF Places
    <3>2. Create(r) => Goto(r, "claim") \/ Goto(r, "act")
      BY DEF Create
    <3>3. Create(r) => req'[r].at \in {"claim", "act"}
      BY <3>1, <3>2, Goes
    <3> QED
      BY <2>2, <3>3
  <2> QED
    BY <2>2, <2>3, <2>4
<1> QED
  BY <1>2, <1>3, <1>4, <1>5, <1>6, <1>7, <1>8, <1>9, <1>10
  DEF Step, Plans, Validates, Acts

\* What a step does to the rows.
LEMMA RowWrites ==
  ASSUME AgentInv, NEW r \in Requests, Start(r) \/ Step(r) \/ Dies(r), NEW k \in Keys
  PROVE  \/ actions'[k] = actions[k]
         \/ k = KeyOf(r) /\ Create(r) /\ actions[k] = NoRow /\ actions'[k] = NewRow(r)
         \/ /\ k = KeyOf(r) /\ req[r].at \in {"claim", "claimed", "act"}
            /\ actions[k] \in ActionRow /\ actions[k] # NoRow
            /\ actions[k].by = r /\ actions[k].status = "validated"
            /\ actions'[k].by = r /\ actions'[k].case = actions[k].case
            /\ actions'[k].status = IF Act(r) THEN "executed" ELSE actions'[k].status
            /\ actions'[k].status = "executed" => Act(r)
<1>1. CASE UNCHANGED actions
  BY <1>1
<1>2. CASE Create(r)
  BY <1>2 DEF Create, RowOf, AgentInv, AgentTypeOK
<1>3. CASE LoseClaim(r) \/ SaveClaim(r) \/ Act(r) \/ ActFails(r)
  <2>1. /\ RowOf(r) \in ActionRow /\ KeyOf(r) \in Keys /\ RowOf(r) # NoRow /\ RowOf(r).by = r
        /\ RowOf(r).status = "validated" /\ req[r].at \in {"claim", "claimed", "act"}
    BY <1>3, AtWork DEF LoseClaim, SaveClaim, Act, ActFails, At
  <2>2. CASE k # KeyOf(r)
    BY <1>3, <2>1, <2>2 DEF LoseClaim, SaveClaim, Act, ActFails, AgentInv, AgentTypeOK
  <2>3. ASSUME k = KeyOf(r)
        PROVE  /\ actions'[k].by = RowOf(r).by /\ actions'[k].case = RowOf(r).case
               /\ Act(r) => actions'[k].status = "executed"
               /\ actions'[k].status = "executed" => Act(r)
    <3>1. CASE LoseClaim(r)
      BY <2>1, <2>3, <3>1 DEF LoseClaim, RowOf, ActionRow, AgentInv, AgentTypeOK, Act, At
    <3>2. CASE SaveClaim(r)
      BY <2>1, <2>3, <3>2 DEF SaveClaim, RowOf, ActionRow, AgentInv, AgentTypeOK, Act, At
    <3>3. CASE Act(r)
      BY <2>1, <2>3, <3>3 DEF Act, RowOf, ActionRow, AgentInv, AgentTypeOK
    <3>4. CASE ActFails(r)
      <4>1. actions' = [actions EXCEPT ![KeyOf(r)].status = "failed"]
        BY <3>4 DEF ActFails
      <4>2. ~Act(r)
        <5>1. ActFails(r) => req'[r].at \in {"finish", "escalate"}
          BY GoesToEnd DEF ActFails, AgentInv
        <5>2. Act(r) => req'[r].at = "record"
          BY Goes DEF Act, Places, AgentInv
        <5> QED
          BY <3>4, <5>1, <5>2
      <4> QED
        BY <2>1, <2>3, <4>1, <4>2 DEF RowOf, ActionRow, AgentInv, AgentTypeOK
    <3> QED
      BY <1>3, <3>1, <3>2, <3>3, <3>4
  <2> QED
    BY <2>1, <2>2, <2>3 DEF RowOf
<1> QED
  BY <1>1, <1>2, <1>3 DEF Start, Dies, Step, Plans, ReadCustomer, ReadBudget, StopEarly, Propose,
     Validates, Replay, Refuse, Accept, Acts, FindCreated, Claim, Record, Close, EscalateCase,
     Finish, stores

\* Only Record counts.
LEMMA AttemptWrites ==
  ASSUME AgentInv, NEW r \in Requests, Start(r) \/ Step(r) \/ Dies(r), NEW c \in Cases
  PROVE  cases'[c].attempts = IF Record(r) /\ c = req[r].case THEN cases[c].attempts + 1
                              ELSE cases[c].attempts
<1>1. cases \in [Cases -> CaseDoc]
  BY DEF AgentInv, AgentTypeOK
<1>2. CASE Record(r)
  <2>1. PICK now \in Clock :
          cases' = [cases EXCEPT ![req[r].case] =
                      Counted(cases[req[r].case], req[r].action = PaymentLink, now)]
    BY <1>2 DEF Record
  <2>2. req[r].case \in Cases
    BY RequestFields DEF AgentInv, AgentTypeOK
  <2>3. Counted(cases[req[r].case], req[r].action = PaymentLink, now).attempts
          = cases[req[r].case].attempts + 1
    BY <1>1, <2>2 DEF Counted, CaseDoc
  <2> QED
    BY <1>1, <1>2, <2>1, <2>2, <2>3
<1>3. CASE Close(r) \/ EscalateCase(r)
  <2>1. ~Record(r)
    BY <1>3 DEF Close, EscalateCase, Record, At
  <2> QED
    BY <1>1, <1>3, <2>1 DEF Close, EscalateCase, CaseDoc
<1>4. CASE ~Record(r) /\ ~Close(r) /\ ~EscalateCase(r)
  BY <1>4 DEF Start, Dies, Step, Plans, ReadCustomer, ReadBudget, StopEarly, Propose,
     Validates, Replay, Refuse, Accept, Acts, Create, FindCreated, Claim, LoseClaim, SaveClaim,
     Act, ActFails, Finish, stores
<1> QED
  BY <1>2, <1>3, <1>4

LEMMA RunWrites ==
  ASSUME AgentInv, NEW r \in Requests, Start(r) \/ Step(r) \/ Dies(r)
  PROVE  /\ \A q \in Requests : q # r => runs'[q] = runs[q]
         /\ Propose(r) => runs'[r] = "planned"
         /\ runs'[r] = runs[r] \/ Propose(r) \/ StopEarly(r) \/ Finish(r)
<1>1. CASE Propose(r) \/ StopEarly(r) \/ Finish(r)
  BY <1>1 DEF Propose, StopEarly, Finish, AgentInv, AgentTypeOK
<1>2. CASE ~Propose(r) /\ ~StopEarly(r) /\ ~Finish(r)
  BY <1>2 DEF Start, Dies, Step, Plans, ReadCustomer, ReadBudget,
     Validates, Replay, Refuse, Accept, Acts, Create, FindCreated, Claim, LoseClaim, SaveClaim,
     Act, ActFails, Record, Close, EscalateCase, stores
<1> QED
  BY <1>1, <1>2

-----------------------------------------------------------------------------
LEMMA SameKey ==
  ASSUME NEW r, req'[r].case = req[r].case, req'[r].key = req[r].key,
         req'[r].doc = req[r].doc, req'[r].action = req[r].action
  PROVE  KeyOf(r)' = KeyOf(r)
BY DEF KeyOf

\* A request at work has a row of its own on the case it works on.
LEMMA OwnRowsStep ==
  ASSUME AgentInv, OwnRows, Unfinished, NEW r \in Requests, Start(r) \/ Step(r) \/ Dies(r)
  PROVE  OwnRows'
<1> SUFFICES ASSUME NEW k \in Keys, actions'[k] # NoRow, NEW q, q = actions'[k].by,
                    NEW c, c = actions'[k].case
             PROVE  Owns(q, k, c)'
  BY DEF OwnRows, Owns
<1>1. CASE k = KeyOf(r) /\ Create(r) /\ actions[k] = NoRow /\ actions'[k] = NewRow(r)
  <2>1. q = r /\ c = req[r].case
    BY <1>1 DEF NewRow
  <2>2. req'[r].at \in {"claim", "act"}
    BY <1>1, Forward DEF AgentInv
  <2>3. /\ req'[r].case = req[r].case /\ req'[r].key = req[r].key
        /\ req'[r].doc = req[r].doc /\ req'[r].action = req[r].action
    BY <2>2, Forward DEF AgentInv, Working
  <2>4. KeyOf(r)' = KeyOf(r)
    BY <2>3, SameKey, Zenon
  <2> QED
    BY <1>1, <2>1, <2>2, <2>3, <2>4 DEF Owns, Early
<1>2. CASE /\ actions'[k].by = actions[k].by /\ actions'[k].case = actions[k].case
           /\ actions[k] # NoRow
  <2>1. q \in Requests
    BY <1>2 DEF AgentInv, AgentTypeOK, ActionRow
  <2>2. /\ req[q].at \notin Early
        /\ req[q].at \in Working => k = KeyOf(q) /\ c = req[q].case
    BY <1>2 DEF OwnRows, Owns
  <2>3. CASE q # r
    <3>1. req'[q] = req[q]
      BY <2>1, <2>3, Forward DEF AgentInv
    <3>2. KeyOf(q)' = KeyOf(q)
      BY <3>1, SameKey, Zenon
    <3> QED
      BY <2>2, <3>1, <3>2 DEF Owns
  <2>4. CASE q = r
    <3>1. req'[r].at \notin Early
      BY <2>2, <2>4, Forward DEF AgentInv
    <3>2. ASSUME req'[r].at \in Working
          PROVE  k = KeyOf(r)' /\ c = req'[r].case
      <4>1. /\ req[r].at \in Working \/ Create(r)
            /\ req'[r].case = req[r].case /\ req'[r].key = req[r].key
            /\ req'[r].doc = req[r].doc /\ req'[r].action = req[r].action
        BY <3>2, Forward DEF AgentInv
      <4>2. ~Create(r)
        BY <2>2, <2>4 DEF Create, At, Early
      <4>3. KeyOf(r)' = KeyOf(r)
        BY <4>1, SameKey, Zenon
      <4> QED
        BY <2>2, <2>4, <4>1, <4>2, <4>3
    <3> QED
      BY <2>4, <3>1, <3>2 DEF Owns
  <2> QED
    BY <2>3, <2>4
<1>3. \/ actions'[k] = actions[k]
      \/ k = KeyOf(r) /\ Create(r) /\ actions[k] = NoRow /\ actions'[k] = NewRow(r)
      \/ actions'[k].by = actions[k].by /\ actions'[k].case = actions[k].case /\ actions[k] # NoRow
  BY RowWrites
<1> QED
  BY <1>1, <1>2, <1>3

LEMMA UnfinishedStep ==
  ASSUME AgentInv, OwnRows, Unfinished, NEW r \in Requests, Start(r) \/ Step(r) \/ Dies(r)
  PROVE  Unfinished'
<1> SUFFICES ASSUME NEW q \in Requests
             PROVE  /\ req'[q].at = "record" => RowOf(q)'.status = "executed"
                    /\ req'[q].at \in {"lookup", "create"} \cup Working => runs'[q] = "planned"
  BY DEF Unfinished
<1>1. ASSUME req'[q].at \in {"lookup", "create"} \cup Working
      PROVE  runs'[q] = "planned"
  <2>1. CASE q = r
    <3>1. Propose(r) \/ req[r].at \in {"lookup", "create"} \cup Working
      BY <1>1, <2>1, Forward DEF AgentInv
    <3>2. CASE Propose(r)
      BY <2>1, <3>2, RunWrites
    <3>3. CASE ~Propose(r) /\ req[r].at \in {"lookup", "create"} \cup Working
      <4>1. runs[r] = "planned"
        BY <3>3 DEF Unfinished
      <4>2. ~StopEarly(r) /\ ~Finish(r)
        BY <3>3 DEF StopEarly, Finish, At, Working
      <4> QED
        BY <2>1, <3>3, <4>1, <4>2, RunWrites
    <3> QED
      BY <3>1, <3>2, <3>3
  <2>2. CASE q # r
    <3>1. req'[q] = req[q] /\ runs'[q] = runs[q]
      BY <2>2, Forward, RunWrites DEF AgentInv
    <3> QED
      BY <1>1, <3>1 DEF Unfinished
  <2> QED
    BY <2>1, <2>2
<1>2. ASSUME req'[q].at = "record"
      PROVE  RowOf(q)'.status = "executed"
  <2>1. CASE q = r
    <3>1. Act(r)
      BY <1>2, <2>1, Forward DEF AgentInv
    <3>2. RowOf(r) \in ActionRow /\ KeyOf(r) \in Keys
      BY <3>1, AtWork DEF Act, At
    <3>3. KeyOf(r)' = KeyOf(r)
      <4>1. "record" \in Working
        BY DEF Working
      <4> QED
        BY <1>2, <2>1, <4>1, Forward, SameKey DEF AgentInv
    <3>4. actions'[KeyOf(r)].status = "executed"
      BY <3>1, <3>2 DEF Act, RowOf, ActionRow, AgentInv, AgentTypeOK
    <3> QED
      BY <2>1, <3>3, <3>4 DEF RowOf
  <2>2. CASE q # r
    <3>1. req'[q] = req[q]
      BY <2>2, Forward DEF AgentInv
    <3>2. req[q].at = "record" /\ RowOf(q).status = "executed"
      BY <1>2, <3>1 DEF Unfinished
    <3>3. KeyOf(q)' = KeyOf(q)
      BY <3>1, SameKey
    <3>4. KeyOf(q) \in Keys
      BY <3>2, KeyInKeys DEF AgentInv, InFlight
    <3>5. actions'[KeyOf(q)] = actions[KeyOf(q)]
      BY <3>2, <3>4, RowWrites DEF RowOf, NoRow
    <3> QED
      BY <3>2, <3>3, <3>5 DEF RowOf
  <2> QED
    BY <2>1, <2>2
<1> QED
  BY <1>1, <1>2

LEMMA DeathIsFinal ==
  ASSUME AgentInv, NEW r \in Requests, Start(r) \/ Step(r) \/ Dies(r), NEW q \in Requests,
         Died(q)
  PROVE  Died(q)'
<1>1. q # r
  BY Forward DEF Died, At, AgentInv
<1>2. req'[q] = req[q] /\ runs'[q] = runs[q]
  BY <1>1, Forward, RunWrites DEF AgentInv
<1> QED
  BY <1>2 DEF Died, At

\* Executing adds a row that its own request has still to count.
LEMMA ExecutesOne ==
  ASSUME AgentInv, OwnRows, NEW r \in Requests, Act(r), NEW c \in Cases
  PROVE  IF c = req[r].case
         THEN /\ KeyOf(r) \notin Executed(c)
              /\ Executed(c)' = Executed(c) \cup {KeyOf(r)}
              /\ Uncounted(c)' = Uncounted(c) \cup {KeyOf(r)}
         ELSE Executed(c)' = Executed(c) /\ Uncounted(c)' = Uncounted(c)
<1> DEFINE K == KeyOf(r)
<1>1. /\ K \in Keys /\ actions[K] \in ActionRow /\ actions[K] # NoRow /\ actions[K].by = r
      /\ actions[K].status = "validated"
  BY AtWork DEF Act, At, RowOf
<1>2. actions[K].case = req[r].case
  BY <1>1 DEF OwnRows, Owns, Act, At, Working
<1>3. Step(r)
  BY DEF Step, Acts
<1>4. /\ actions'[K].status = "executed" /\ actions'[K].by = r
      /\ actions'[K].case = req[r].case
      /\ \A k \in Keys : k # K => actions'[k] = actions[k]
  BY <1>1, <1>2 DEF Act, RowOf, ActionRow, AgentInv, AgentTypeOK
<1>5. req'[r].at = "record" /\ \A q \in Requests : q # r => req'[q] = req[q]
  BY Goes DEF Act, Places, AgentInv
<1>6. ASSUME NEW k \in Keys, k # K, actions[k].status = "executed"
      PROVE  actions[k].by \in Requests /\ actions[k].by # r
  <2>1. actions[k] # NoRow /\ actions[k].by \in Requests
    BY <1>6 DEF NoRow, AgentInv, AgentTypeOK, ActionRow
  <2>2. actions[k].by = r => k = K
    BY <2>1 DEF OwnRows, Owns, Act, At, Working
  <2> QED
    BY <1>6, <2>1, <2>2
<1> HIDE DEF K
<1>7. ASSUME NEW k \in Keys, k # K
      PROVE  /\ (k \in Executed(c)') <=> (k \in Executed(c))
             /\ (k \in Uncounted(c)') <=> (k \in Uncounted(c))
  <2>1. actions'[k] = actions[k]
    BY <1>4, <1>7
  <2>2. (k \in Executed(c)') <=> (k \in Executed(c))
    BY <2>1 DEF Executed
  <2>3. k \in Executed(c) => req'[actions[k].by] = req[actions[k].by]
    BY <1>5, <1>6, <1>7 DEF Executed
  <2> QED
    BY <2>1, <2>2, <2>3 DEF Uncounted, At
<1>8. /\ K \notin Executed(c) /\ K \notin Uncounted(c)
      /\ (K \in Executed(c)') <=> (c = req[r].case)
      /\ (K \in Uncounted(c)') <=> (c = req[r].case)
  BY <1>1, <1>4, <1>5 DEF Executed, Uncounted, At
<1>9. /\ Executed(c) \subseteq Keys /\ Executed(c)' \subseteq Keys
      /\ Uncounted(c) \subseteq Keys /\ Uncounted(c)' \subseteq Keys
  BY DEF Executed, Uncounted, Keys
<1>10. CASE c = req[r].case
  <2>1. Executed(c)' = Executed(c) \cup {K}
    BY <1>1, <1>7, <1>8, <1>9, <1>10
  <2>2. Uncounted(c)' = Uncounted(c) \cup {K}
    BY <1>1, <1>7, <1>8, <1>9, <1>10
  <2> QED
    BY <1>8, <1>10, <2>1, <2>2 DEF K
<1>11. CASE c # req[r].case
  <2>1. Executed(c)' = Executed(c) /\ Uncounted(c)' = Uncounted(c)
    BY <1>1, <1>7, <1>8, <1>9, <1>11
  <2> QED
    BY <1>11, <2>1
<1> QED
  BY <1>10, <1>11

\* No other step executes; one that leaves "record" counts, or forgets, its own row.
LEMMA ExecutesNone ==
  ASSUME AgentInv, OwnRows, Unfinished, NEW r \in Requests, Start(r) \/ Step(r) \/ Dies(r),
         ~Act(r), NEW c \in Cases
  PROVE  /\ Executed(c)' = Executed(c)
         /\ IF req[r].at = "record" /\ req[r].case = c
            THEN /\ KeyOf(r) \in Uncounted(c)
                 /\ Uncounted(c)' = Uncounted(c) \ {KeyOf(r)}
            ELSE Uncounted(c)' = Uncounted(c)
<1> DEFINE K == KeyOf(r)
<1>1. ASSUME NEW k \in Keys
      PROVE  /\ (k \in Executed(c)') <=> (k \in Executed(c))
             /\ k \in Executed(c) => actions'[k] = actions[k]
  <2>1. CASE actions'[k] = actions[k]
    BY <2>1 DEF Executed
  <2>2. CASE actions[k] = NoRow /\ actions'[k] = NewRow(r)
    BY <2>2 DEF Executed, NoRow, NewRow
  <2>3. CASE actions[k].status = "validated" /\ actions'[k].status # "executed"
    BY <2>3 DEF Executed
  <2> QED
    BY <2>1, <2>2, <2>3, RowWrites
<1>2. Executed(c)' = Executed(c)
  BY <1>1 DEF Executed
<1>3. req'[r].at # "record" /\ \A q \in Requests : q # r => req'[q] = req[q]
  BY Forward DEF AgentInv
<1>4. ASSUME NEW k \in Executed(c)
      PROVE  /\ k \in Keys /\ actions[k] # NoRow /\ actions[k].by \in Requests
             /\ actions[k].case = c /\ actions'[k] = actions[k]
  <2>1. k \in Keys /\ actions[k].status = "executed" /\ actions[k].case = c
    BY DEF Executed
  <2> QED
    BY <1>1, <2>1 DEF NoRow, AgentInv, AgentTypeOK, ActionRow
<1>5. ASSUME NEW k \in Executed(c)
      PROVE  (k \in Uncounted(c)') <=> (k \in Uncounted(c) /\ actions[k].by # r)
  <2>1. CASE actions[k].by = r
    BY <1>2, <1>3, <1>4, <2>1 DEF Uncounted, At
  <2>2. CASE actions[k].by # r
    BY <1>2, <1>3, <1>4, <2>2 DEF Uncounted, At
  <2> QED
    BY <2>1, <2>2
<1>6. Uncounted(c) \subseteq Executed(c) /\ Uncounted(c)' \subseteq Executed(c)
  BY <1>2 DEF Uncounted
<1>7. ASSUME NEW k \in Uncounted(c), actions[k].by = r
      PROVE  req[r].at = "record" /\ k = K /\ req[r].case = c
  <2>1. req[r].at = "record"
    BY <1>7 DEF Uncounted, At
  <2>2. Owns(r, k, c)
    BY <1>4, <1>6, <1>7 DEF OwnRows
  <2> QED
    BY <2>1, <2>2 DEF Owns, Working
<1>8. CASE req[r].at = "record" /\ req[r].case = c
  <2>1. K \in Keys
    BY <1>8, KeyInKeys DEF AgentInv, InFlight
  <2>2. actions[K].status = "executed" /\ actions[K] # NoRow /\ actions[K].by = r
    BY <1>8 DEF Unfinished, RowOf, AgentInv, InFlight
  <2>3. actions[K].case = c
    BY <1>8, <2>1, <2>2 DEF OwnRows, Owns, Working
  <2>4. K \in Uncounted(c)
    BY <1>8, <2>1, <2>2, <2>3 DEF Uncounted, Executed, At
  <2> HIDE DEF K
  <2>5. Uncounted(c)' = Uncounted(c) \ {K}
    BY <1>5, <1>6, <1>7, <2>2, <2>4
  <2> QED
    BY <1>2, <1>8, <2>4, <2>5 DEF K
<1>9. CASE ~(req[r].at = "record" /\ req[r].case = c)
  <2>1. Uncounted(c)' = Uncounted(c)
    BY <1>5, <1>6, <1>7, <1>9
  <2> QED
    BY <1>2, <1>9, <2>1
<1> QED
  BY <1>8, <1>9

LEMMA CountStep ==
  ASSUME AgentInv, OwnRows, Unfinished, NEW r \in Requests, Start(r) \/ Step(r) \/ Dies(r),
         NEW c \in Cases, AllCounted(c)
  PROVE  AllCounted(c)'
<1> DEFINE E == Executed(c)
           U == Uncounted(c)
           n == cases[c].attempts
           alive == \A q \in Requests : ~Died(q)
<1>1. /\ IsFiniteSet(E) /\ n + Cardinality(U) <= Cardinality(E)
      /\ alive => n + Cardinality(U) = Cardinality(E)
  BY DEF AllCounted
<1>2. IsFiniteSet(U) /\ Cardinality(U) \in Nat /\ Cardinality(E) \in Nat
  <2>1. U \subseteq E
    BY DEF Uncounted
  <2> QED
    BY <1>1, <2>1, FS_Subset, FS_CardinalityType
<1>3. n \in Nat
  BY DEF AgentInv, AgentTypeOK, CaseDoc
<1>4. alive' => alive
  BY DeathIsFinal
<1>5. n' = IF Record(r) /\ c = req[r].case THEN n + 1 ELSE n
  BY AttemptWrites
<1>6. U \subseteq E
  BY DEF Uncounted
<1>7. AllCounted(c)' <=>
        /\ IsFiniteSet(E') /\ n' + Cardinality(U') <= Cardinality(E')
        /\ alive' => n' + Cardinality(U') = Cardinality(E')
  BY DEF AllCounted
<1>8. CASE Act(r)
  <2>1. n' = n
    BY <1>5, <1>8 DEF Act, Record, At
  <2>2. CASE c = req[r].case
    <3>1. KeyOf(r) \notin E /\ E' = E \cup {KeyOf(r)} /\ U' = U \cup {KeyOf(r)}
      BY <1>8, <2>2, ExecutesOne
    <3> HIDE DEF E, U, n, alive
    <3>2. KeyOf(r) \notin U
      BY <1>6, <3>1
    <3>3. /\ IsFiniteSet(E') /\ Cardinality(E') = Cardinality(E) + 1
          /\ Cardinality(U') = Cardinality(U) + 1
      BY <1>1, <1>2, <3>1, <3>2, FS_AddElement
    <3> QED
      BY <1>1, <1>2, <1>3, <1>4, <1>7, <2>1, <3>3
  <2>3. CASE c # req[r].case
    <3>1. E' = E /\ U' = U
      BY <1>8, <2>3, ExecutesOne
    <3> HIDE DEF E, U, n, alive
    <3> QED
      BY <1>1, <1>4, <1>7, <2>1, <3>1
  <2> QED
    BY <2>2, <2>3
<1>9. CASE ~Act(r)
  <2>1. E' = E
    BY <1>9, ExecutesNone
  <2>2. CASE req[r].at = "record" /\ req[r].case = c
    <3>1. KeyOf(r) \in U /\ U' = U \ {KeyOf(r)}
      BY <1>9, <2>2, ExecutesNone
    <3>2. Record(r) \/ Dies(r)
      BY <2>2, Forward DEF AgentInv
    <3>3. Dies(r) => ~alive'
      <4>1. Dies(r) => req'[r].at = "done"
        BY Goes DEF Dies, Places, AgentInv
      <4>2. Dies(r) => runs'[r] = "planned"
        BY <2>2 DEF Dies, stores, Unfinished, Working
      <4> QED
        BY <4>1, <4>2 DEF Died, At
    <3> HIDE DEF E, U, n, alive
    <3>4. Cardinality(U') = Cardinality(U) - 1
      BY <1>2, <3>1, FS_RemoveElement
    <3> QED
      BY <1>1, <1>2, <1>3, <1>4, <1>5, <1>7, <2>1, <2>2, <3>2, <3>3, <3>4
  <2>3. CASE ~(req[r].at = "record" /\ req[r].case = c)
    <3>1. U' = U
      BY <1>9, <2>3, ExecutesNone
    <3>2. n' = n
      BY <1>5, <2>3 DEF Record, At
    <3> HIDE DEF E, U, n, alive
    <3> QED
      BY <1>1, <1>4, <1>7, <2>1, <3>1, <3>2
  <2> QED
    BY <2>2, <2>3
<1> QED
  BY <1>8, <1>9

LEMMA AttemptsStep ==
  ASSUME AgentInv, AttemptsInv, [AgentNext]_agentVars
  PROVE  AttemptsInv'
<1>1. CASE \E r \in Requests : Start(r) \/ Step(r) \/ Dies(r)
  BY <1>1, OwnRowsStep, UnfinishedStep, CountStep DEF AttemptsInv
<1>2. CASE (\E c \in Cases : SetFlags(c)) \/ UNCHANGED agentVars
  <2>1. UNCHANGED <<cases, actions, runs, req>>
    BY <1>2 DEF SetFlags, agentVars, stores
  <2> QED
    BY <2>1 DEF AttemptsInv, OwnRows, Owns, Unfinished, AllCounted, Uncounted, Executed, At,
       Died, KeyOf, RowOf
<1> QED
  BY <1>1, <1>2 DEF AgentNext

LEMMA AttemptsInit ==
  ASSUME AgentInit
  PROVE  AttemptsInv
<1>1. \A k \in Keys : actions[k] = NoRow
  BY DEF AgentInit
<1>2. \A r \in Requests : req[r].at = "idle"
  BY DEF AgentInit, Idle
<1>3. OwnRows /\ Unfinished
  BY <1>1, <1>2 DEF OwnRows, Unfinished, Working
<1>4. ASSUME NEW c \in Cases
      PROVE  AllCounted(c)
  <2>1. Executed(c) = {} /\ Uncounted(c) = {}
    BY <1>1 DEF Executed, Uncounted, NoRow
  <2>2. cases[c].attempts = 0
    BY DEF AgentInit, NewCase
  <2> QED
    BY <2>1, <2>2, FS_EmptySet DEF AllCounted
<1> QED
  BY <1>3, <1>4 DEF AttemptsInv

\* Attempts are counted: in every interleaving of any number of requests, deaths
\* included, the attempts of a case plus the executions still to be counted are at
\* most its executions, and exactly those while no request has died.
THEOREM AttemptsAreCounted == AgentSpec => []AttemptsAreExecutions
<1>1. AgentInit => AttemptsInv
  BY AttemptsInit
<1>2. AgentInv /\ AttemptsInv /\ [AgentNext]_agentVars => AttemptsInv'
  BY AttemptsStep
<1>3. AttemptsInv => AttemptsAreExecutions
  BY DEF AttemptsInv, AllCounted, Uncounted, AttemptsAreExecutions
<1> QED
  BY <1>1, <1>2, <1>3, AgentInvariant, PTL DEF AgentSpec
=============================================================================
