---------------------------- MODULE LedgerProofs ----------------------------
(***************************************************************************)
(* Theorems about Ledger, and about AuditTrail, which writes the lines of  *)
(* what Ledger does, for any set of subscriptions, any feed of events and  *)
(* any number of workers.                                                  *)
(***************************************************************************)
EXTENDS AuditTrail, TLAPS, WellFoundedInduction, SequenceTheorems

-----------------------------------------------------------------------------
(* Lemmas about the operators.                                             *)

\* `next(...)` over a list returns its first match: First is well defined.
LEMMA FirstOf ==
  ASSUME NEW S \in SUBSET Nat, S # {}
  PROVE  First(S) \in S /\ \A j \in S : First(S) <= j
<1> DEFINE R == OpToRel(<, Nat)
<1>1. \E x \in S : \A y \in S : ~ (<<y, x>> \in R)
  <2>1. IsWellFoundedOn(R, Nat)
    BY NatLessThanWellFounded
  <2> HIDE DEF R
  <2> QED
    BY <2>1, WFMin
<1>2. PICK x \in S : \A y \in S : ~ (<<y, x>> \in R)
  BY <1>1
<1>3. \A y \in S : <<y, x>> \in R <=> y < x
  BY DEF OpToRel
<1> HIDE DEF R
<1>4. ASSUME NEW y \in S PROVE x <= y
  <2>1. ~ (y < x)
    BY <1>2, <1>3
  <2>2. x \in Nat /\ y \in Nat
    OBVIOUS
  <2> QED
    BY <2>1, <2>2
<1> QED
  BY <1>4 DEF First

LEMMA TimesNat == Times \subseteq Nat
BY FeedAssumption DEF Times

\* A list of episodes is a function on an initial segment of the numbers.
LEMMA EpisodeAt ==
  ASSUME NEW sub \in Subscription
  PROVE  /\ Len(sub.eps) \in Nat
         /\ DOMAIN sub.eps = 1..Len(sub.eps)
         /\ \A i \in DOMAIN sub.eps : sub.eps[i] \in Episode
<1>1. sub.eps \in Seq(Episode)
  BY DEF Subscription
<1> QED
  BY <1>1, LenProperties, ElementOfSeq

LEMMA EpisodeList ==
  ASSUME NEW n \in Nat, NEW f \in [1..n -> Episode]
  PROVE  f \in Seq(Episode) /\ Len(f) = n
<1>1. f \in Seq(Episode)
  BY SeqDef
<1>2. DOMAIN f = 1..Len(f) /\ Len(f) \in Nat
  BY <1>1, LenProperties
<1>3. 1..n = 1..Len(f)
  BY <1>2
<1> QED
  BY <1>1, <1>2, <1>3

\* The two single-episode updates.
LEMMA ClosedEpisode ==
  ASSUME NEW e \in Episode, NEW at \in Times
  PROVE  /\ [e EXCEPT !.react = at] \in Episode
         /\ [e EXCEPT !.react = at].id = e.id
         /\ [e EXCEPT !.react = at].halted = e.halted
         /\ [e EXCEPT !.react = at].react = at
BY DEF Episode

LEMMA ListedEpisode ==
  ASSUME NEW e \in Episode, NEW inv \in InvoiceIds
  PROVE  /\ [e EXCEPT !.invs = @ \cup {inv}] \in Episode
         /\ [e EXCEPT !.invs = @ \cup {inv}].id = e.id
         /\ [e EXCEPT !.invs = @ \cup {inv}].halted = e.halted
         /\ [e EXCEPT !.invs = @ \cup {inv}].react = e.react
BY DEF Episode

\* find_episode_containing answers None, or the id of an episode that contains
\* the moment.
LEMMA Lineage ==
  ASSUME NEW sub \in Subscription, NEW moment \in Nat
  PROVE  /\ FindEpisodeContaining(sub, moment) \in Nat
         /\ FindEpisodeContaining(sub, moment) # NoEpisode =>
              \E i \in DOMAIN sub.eps :
                /\ sub.eps[i].id = FindEpisodeContaining(sub, moment)
                /\ sub.eps[i].halted <= moment
<1> DEFINE hits == {i \in DOMAIN sub.eps : Contains(sub.eps[i], moment)}
<1>1. sub.eps \in Seq(Episode)
  BY DEF Subscription
<1>2. hits \in SUBSET Nat
  BY <1>1
<1>3. CASE hits = {}
  BY <1>3 DEF FindEpisodeContaining, NoEpisode
<1>4. CASE hits # {}
  <2>1. First(hits) \in hits
    BY <1>2, <1>4, FirstOf
  <2>2. FindEpisodeContaining(sub, moment) = sub.eps[First(hits)].id
    BY <1>4 DEF FindEpisodeContaining
  <2>3. sub.eps[First(hits)] \in Episode
    BY <2>1, EpisodeAt
  <2>4. sub.eps[First(hits)].halted <= moment
    BY <2>1 DEF Contains
  <2> QED
    BY <2>1, <2>2, <2>3, <2>4 DEF Episode
<1> QED
  BY <1>3, <1>4

\* `new` is `old` with every open episode closed at `at` if `closing`, and the
\* episodes of `opened` after the old ones.
Rewrites(old, new, to, at, opened, closing) ==
  /\ new \in Subscription
  /\ new.status = to /\ new.last = at
  /\ Len(new.eps) = Len(old.eps) + Len(opened)
  /\ \A i \in 1..Len(old.eps) :
       new.eps[i] = IF closing /\ IsOpen(old.eps[i])
                    THEN [old.eps[i] EXCEPT !.react = at]
                    ELSE old.eps[i]
  /\ \A i \in 1..Len(opened) : new.eps[Len(old.eps) + i] = opened[i]

\* What apply_transition does to the episode list.
LEMMA TransitionedShape ==
  ASSUME NEW sub \in Subscription, NEW to \in Statuses, NEW at \in Times,
         NEW opened \in Seq(Episode), NEW closing \in BOOLEAN
  PROVE  Rewrites(sub, Transitioned(sub, to, at, opened, closing),
                  to, at, opened, closing)
<1> DEFINE kept == [i \in DOMAIN sub.eps |->
                      IF closing /\ IsOpen(sub.eps[i])
                      THEN [sub.eps[i] EXCEPT !.react = at]
                      ELSE sub.eps[i]]
           t == Transitioned(sub, to, at, opened, closing)
<1>1. sub.eps \in Seq(Episode)
  BY DEF Subscription
<1>2. \A i \in DOMAIN sub.eps : kept[i] \in Episode
  BY EpisodeAt, ClosedEpisode
<1>3. kept \in Seq(Episode) /\ Len(kept) = Len(sub.eps)
  <2>1. kept \in [1..Len(sub.eps) -> Episode]
    BY <1>2, EpisodeAt
  <2> QED
    BY <2>1, EpisodeAt, EpisodeList
<1>4. t = [status |-> to, last |-> at, eps |-> kept \o opened]
  BY DEF Transitioned
<1> HIDE DEF t
<1>5. /\ kept \o opened \in Seq(Episode)
      /\ Len(kept \o opened) = Len(sub.eps) + Len(opened)
      /\ \A i \in 1..Len(sub.eps) : (kept \o opened)[i] = kept[i]
      /\ \A i \in 1..Len(opened) :
           (kept \o opened)[Len(sub.eps) + i] = opened[i]
  <2> HIDE DEF kept
  <2>1. /\ kept \o opened \in Seq(Episode)
        /\ Len(kept \o opened) = Len(kept) + Len(opened)
        /\ \A i \in 1..(Len(kept) + Len(opened)) :
             (kept \o opened)[i] = IF i <= Len(kept) THEN kept[i]
                                  ELSE opened[i - Len(kept)]
    BY <1>3, ConcatProperties
  <2>2. Len(kept) \in Nat /\ Len(opened) \in Nat
    BY <1>3, LenProperties
  <2> QED
    BY <1>3, <2>1, <2>2
<1>6. t \in Subscription
  BY <1>4, <1>5 DEF Subscription
<1>7. \A i \in 1..Len(sub.eps) : i \in DOMAIN sub.eps
  BY <1>1, LenProperties
<1> QED
  BY <1>4, <1>5, <1>6, <1>7 DEF t, Rewrites

\* Attaching an invoice changes nothing but the invoice lists.
LEMMA AttachedShape ==
  ASSUME NEW sub \in Subscription, NEW episode, NEW inv \in InvoiceIds
  PROVE  LET a == Attached(sub, episode, inv) IN
         /\ a \in Subscription
         /\ a.status = sub.status /\ a.last = sub.last
         /\ DOMAIN a.eps = DOMAIN sub.eps
         /\ Len(a.eps) = Len(sub.eps)
         /\ \A i \in DOMAIN sub.eps :
              /\ a.eps[i].id = sub.eps[i].id
              /\ a.eps[i].halted = sub.eps[i].halted
              /\ a.eps[i].react = sub.eps[i].react
<1> DEFINE eps == [i \in DOMAIN sub.eps |->
                     IF sub.eps[i].id = episode
                     THEN [sub.eps[i] EXCEPT !.invs = @ \cup {inv}]
                     ELSE sub.eps[i]]
           a == Attached(sub, episode, inv)
<1>1. sub.eps \in Seq(Episode)
  BY DEF Subscription
<1>2. \A i \in DOMAIN sub.eps :
        /\ eps[i] \in Episode
        /\ eps[i].id = sub.eps[i].id
        /\ eps[i].halted = sub.eps[i].halted
        /\ eps[i].react = sub.eps[i].react
  BY EpisodeAt, ListedEpisode
<1>3. eps \in Seq(Episode) /\ Len(eps) = Len(sub.eps)
  <2>1. eps \in [1..Len(sub.eps) -> Episode]
    BY <1>2, EpisodeAt
  <2> QED
    BY <2>1, EpisodeAt, EpisodeList
<1>4. a = [sub EXCEPT !.eps = eps]
  BY DEF Attached
<1> HIDE DEF eps, a
<1>5. a \in Subscription /\ a.eps = eps
  BY <1>3, <1>4 DEF Subscription
<1>6. DOMAIN eps = DOMAIN sub.eps
  BY DEF eps
<1> QED
  BY <1>2, <1>3, <1>4, <1>5, <1>6 DEF Subscription, a
-----------------------------------------------------------------------------
(* Type correctness.                                                       *)

\* A received event has the fields the handlers read.
LEMMA EventFields ==
  ASSUME NEW e \in Feed
  PROVE  /\ e.id \in EventIds /\ e.sub \in Subs /\ e.type \in EventTypes
         /\ e.at \in Times /\ e.at \in Nat
         /\ e.inv \in InvoiceIds /\ e.cycle \in Cycles
BY FeedAssumption DEF EventIds, Times, InvoiceIds, Cycles

LEMMA AbsentIsSubscription == Absent \in Subscription
<1>1. <<>> \in Seq(Episode)
  BY EmptySeq
<1> QED
  BY <1>1 DEF Absent, Subscription

\* What a worker about to make a transition knows: whom it is about, and the
\* shape of the document it writes.
LEMMA TransitionWrites ==
  ASSUME TypeOK, NEW w \in Workers, WantsTransition(w)
  PROVE  /\ ev[w] \in Feed
         /\ snap[w].status \in Statuses
         /\ Target[ev[w].type] \in Statuses
         /\ <<snap[w].status, Target[ev[w].type]>> \in Edges
         /\ NewEpisode(w) \in Seq(Episode)
         /\ Len(NewEpisode(w)) =
              IF Target[ev[w].type] = "HALTED" THEN 1 ELSE 0
         /\ \A i \in 1..Len(NewEpisode(w)) : IsOpen(NewEpisode(w)[i])
         /\ Closes(snap[w].status, ev[w].type) = (snap[w].status = "HALTED")
         /\ Updated(w) \in Subscription
<1>1. ev[w] \in Feed /\ ev[w].type \in Lifecycle
  BY DEF TypeOK, WantsTransition, HandlesLifecycle, At
<1>2. <<snap[w].status, ev[w].type>> \in Permitted
  BY DEF WantsTransition, IsTransition
<1>3. /\ snap[w].status \in Statuses
      /\ Target[ev[w].type] \in Statuses
      /\ <<snap[w].status, Target[ev[w].type]>> \in Edges
  BY <1>1, <1>2 DEF Permitted, Target, Lifecycle, Statuses, Edges
<1>4. /\ Opens(snap[w].status, ev[w].type) = (Target[ev[w].type] = "HALTED")
      /\ Closes(snap[w].status, ev[w].type) = (snap[w].status = "HALTED")
  BY <1>1, <1>2 DEF WantsTransition, Opens, Closes, IsTransition, Permitted,
                    Target, Lifecycle
<1>5. Closes(snap[w].status, ev[w].type) \in BOOLEAN
  BY <1>4
<1>6. /\ NewEpisode(w) \in Seq(Episode)
      /\ Len(NewEpisode(w)) =
           IF Target[ev[w].type] = "HALTED" THEN 1 ELSE 0
      /\ \A i \in 1..Len(NewEpisode(w)) : IsOpen(NewEpisode(w)[i])
  <2> DEFINE new == [id |-> Len(snap[w].eps) + 1, halted |-> ev[w].at,
                     react |-> NoTime, invs |-> {}]
  <2>1. Len(snap[w].eps) \in Nat
    BY EpisodeAt DEF TypeOK
  <2>2. new \in Episode /\ IsOpen(new)
    BY <1>1, <2>1, EventFields DEF Episode, IsOpen
  <2>3. NewEpisode(w) = IF Target[ev[w].type] = "HALTED" THEN <<new>> ELSE <<>>
    BY <1>4 DEF NewEpisode
  <2> HIDE DEF new
  <2> QED
    BY <2>2, <2>3
<1>7. Updated(w) \in Subscription
  <2>1. subs[ev[w].sub] \in Subscription
    BY <1>1, EventFields DEF TypeOK
  <2> QED
    BY <1>1, <1>3, <1>5, <1>6, <2>1, EventFields, TransitionedShape
    DEF Updated, Rewrites
<1> QED
  BY <1>1, <1>3, <1>4, <1>6, <1>7

\* The rows keep their shape when one is inserted or settled.
LEMMA RowsInserted ==
  ASSUME TypeOK, NEW w \in Workers, InsertInvoice(w)
  PROVE  invoices' \subseteq Row
<1>1. ev[w] \in Feed
  BY DEF TypeOK, InsertInvoice, HandlesInvoice, At
<1>2. LineageOf(w) \in Nat
  BY <1>1, EventFields, Lineage DEF TypeOK, LineageOf
<1> QED
  BY <1>1, <1>2, EventFields DEF TypeOK, InsertInvoice, Row

LEMMA RowsSettled ==
  ASSUME NEW inv, NEW rows \in SUBSET Row
  PROVE  Settled(rows, inv) \subseteq Row
BY DEF Settled, Row

LEMMA NamedAreSubs == ASSUME TypeOK PROVE Named \subseteq Subs
BY FeedAssumption DEF Named, Feed, TypeOK

LEMMA TypeInit == Init => TypeOK
<1>1. <<>> \in Seq(Move)
  BY EmptySeq
<1> QED
  BY <1>1, AbsentIsSubscription DEF Init, TypeOK, Verdicts, Processed

LEMMA TypeStep == TypeOK /\ [Next]_vars => TypeOK'
<1> SUFFICES ASSUME TypeOK, [Next]_vars PROVE TypeOK'
  OBVIOUS
<1>1. ASSUME NEW s \in Subs, NEW status \in Statuses, Create(s, status)
      PROVE  TypeOK'
  <2>1. [Absent EXCEPT !.status = status] \in Subscription
    BY AbsentIsSubscription DEF Subscription
  <2>2. subs' \in [Subs -> Subscription]
    BY <1>1, <2>1 DEF Create, TypeOK
  <2> QED
    BY <1>1, <2>2 DEF Create, TypeOK, locals
<1>2. ASSUME NEW w \in Workers, NEW e \in Feed, Receive(w, e)
      PROVE  TypeOK'
  BY <1>2, EventFields DEF Receive, TypeOK, Goto, At
<1>3. ASSUME NEW w \in Workers, Claim(w) PROVE TypeOK'
  BY <1>3, EventFields DEF Claim, TypeOK, Goto, At
<1>4. ASSUME NEW w \in Workers, Leave(w), UNCHANGED <<db, history, feed>>,
             store' \in [EventIds -> {"unseen", "received"} \cup Verdicts]
      PROVE  TypeOK'
  BY <1>4, AbsentIsSubscription
  DEF Leave, TypeOK, Goto, db, Verdicts, Processed
<1>5. ASSUME NEW w \in Workers, NEW reason \in Verdicts, pc[w] # "idle",
             Answer(w, reason)
      PROVE  TypeOK'
  BY <1>5 DEF Answer, TypeOK, Goto
<1>6. ASSUME NEW w \in Workers, Transition(w) PROVE TypeOK'
  <2>1. WantsTransition(w) /\ pc[w] # "idle"
    BY <1>6 DEF Transition, WantsTransition, HandlesLifecycle, At
  <2>2. ev[w].sub \in Subs /\ ev[w].id \in EventIds /\ ev[w].at \in Times
    BY <2>1, TransitionWrites, EventFields
  <2> DEFINE move == [id |-> ev[w].id, from |-> snap[w].status,
                      to |-> Target[ev[w].type], at |-> ev[w].at]
  <2>3. move \in Move
    BY <2>1, <2>2, TransitionWrites DEF Move
  <2>4. history' \in [Subs -> Seq(Move)]
    <3>1. history' = [history EXCEPT ![ev[w].sub] = Append(@, move)]
      BY <1>6 DEF Transition
    <3>2. Append(history[ev[w].sub], move) \in Seq(Move)
      BY <2>2, <2>3, AppendProperties DEF TypeOK
    <3> HIDE DEF move
    <3> QED
      BY <3>1, <3>2 DEF TypeOK
  <2>5. /\ subs' \in [Subs -> Subscription]
        /\ snap' \in [Workers -> Subscription]
    BY <1>6, <2>1, TransitionWrites DEF Transition, TypeOK
  <2> QED
    BY <1>6, <2>1, <2>4, <2>5
    DEF Transition, TypeOK, Goto, Verdicts, Processed
<1>7. ASSUME NEW w \in Workers, HookReturns(w) PROVE TypeOK'
  BY <1>7 DEF HookReturns, TypeOK, Goto, At, db
<1>8. ASSUME NEW w \in Workers, InsertInvoice(w) PROVE TypeOK'
  <2>1. invoices' \subseteq Row
    BY <1>8, RowsInserted
  <2> QED
    BY <1>8, <2>1 DEF InsertInvoice, HandlesInvoice, TypeOK, Goto, At
<1>9. ASSUME NEW w \in Workers, AttachInvoice(w) PROVE TypeOK'
  <2>1. ev[w] \in Feed
    BY <1>9 DEF AttachInvoice, TypeOK, At
  <2>2. Attached(subs[ev[w].sub], LineageOf(w), ev[w].inv) \in Subscription
    BY <2>1, EventFields, AttachedShape DEF TypeOK
  <2>3. subs' \in [Subs -> Subscription]
    BY <1>9, <2>2 DEF AttachInvoice, TypeOK
  <2> QED
    BY <1>9, <2>3 DEF AttachInvoice, TypeOK, Goto, At
<1>10. ASSUME NEW w \in Workers, SettleInvoice(w) PROVE TypeOK'
  <2>1. invoices' \subseteq Row
    BY <1>10, RowsSettled DEF SettleInvoice, TypeOK
  <2> QED
    BY <1>10, <2>1 DEF SettleInvoice, TypeOK, Goto, At
<1>11. ASSUME NEW w \in Workers, Duplicate(w) \/ Crash(w) PROVE TypeOK'
  BY <1>4, <1>11 DEF Duplicate, Crash, TypeOK, db
<1>12. ASSUME NEW w \in Workers, Mark(w) PROVE TypeOK'
  <2>1. ev[w].id \in EventIds /\ res[w] \in Verdicts
    BY <1>12, EventFields DEF Mark, At, TypeOK
  <2>2. store' \in [EventIds -> {"unseen", "received"} \cup Verdicts]
    BY <1>12, <2>1 DEF Mark, TypeOK
  <2> QED
    BY <1>4, <1>12, <2>2 DEF Mark
<1>13. ASSUME NEW w \in Workers,
              \/ RejectStale(w) \/ RejectIllegal(w) \/ NoOp(w)
              \/ TransitionLost(w) \/ RefuseInvoice(w) \/ InvoiceNotFound(w)
              \/ NoteOrRefusePayload(w)
       PROVE  TypeOK'
  <2>1. pc[w] # "idle"
    BY <1>13 DEF RejectStale, RejectIllegal, NoOp, TransitionLost,
         WantsTransition, HandlesLifecycle, RefuseInvoice, HandlesInvoice,
         InvoiceNotFound, NoteOrRefusePayload, At
  <2>2. \E reason \in Verdicts : Answer(w, reason)
    BY <1>13 DEF RejectStale, RejectIllegal, NoOp, TransitionLost,
         RefuseInvoice, InvoiceNotFound, NoteOrRefusePayload, Verdicts,
         Processed, Rejected
  <2> QED
    BY <1>5, <2>1, <2>2
<1>14. CASE UNCHANGED vars
  BY <1>14 DEF vars, TypeOK
<1> QED
  BY NamedAreSubs, <1>1, <1>2, <1>3, <1>6, <1>7, <1>8, <1>9, <1>10, <1>11, <1>12, <1>13, <1>14
  DEF Next, Arrive, Step, Serve, Lifecycles, InvoicesAndPayments

\* The documents keep their shapes: for any feed, workers and subscriptions.
THEOREM TypeCorrect == Spec => []TypeOK
BY TypeInit, TypeStep, PTL DEF Spec
-----------------------------------------------------------------------------
(* The halt cycle.                                                         *)

\* The only steps that touch a subscription: creation, a transition whose CAS
\* matched, and the listing of an invoice.
LEMMA SubscriptionSteps ==
  ASSUME TypeOK, [Next]_vars
  PROVE  \/ UNCHANGED <<subs, history>>
         \/ \E s \in Subs, status \in Statuses : Create(s, status)
         \/ \E w \in Workers : Transition(w)
         \/ \E w \in Workers : AttachInvoice(w)
BY NamedAreSubs DEF Next, Arrive, Step, Serve, Lifecycles, InvoicesAndPayments, Create,
   Receive, Claim, Duplicate, RejectStale, RejectIllegal, NoOp, TransitionLost,
   Answer, HookReturns, InsertInvoice, RefuseInvoice, SettleInvoice,
   InvoiceNotFound, NoteOrRefusePayload, Mark, Crash, db, vars

\* What a transition does to the subscription it is about, given that its CAS
\* matched: the status moves along an edge, what was open is closed if it
\* leaves HALTED, and one open episode follows if it enters.
LEMMA TransitionEffect ==
  ASSUME TypeOK, NEW w \in Workers, Transition(w)
  PROVE  LET s == ev[w].sub
             old == subs[s]
             new == subs'[s]
         IN  /\ s \in Subs
             /\ subs' = [subs EXCEPT ![s] = new]
             /\ old \in Subscription /\ new \in Subscription
             /\ <<old.status, new.status>> \in Edges
             /\ new.status = "HALTED" => Len(new.eps) = Len(old.eps) + 1
             /\ new.status # "HALTED" => Len(new.eps) = Len(old.eps)
             /\ \A i \in 1..Len(old.eps) :
                  IF old.status = "HALTED"
                  THEN ~ IsOpen(new.eps[i])
                  ELSE new.eps[i] = old.eps[i]
             /\ new.status = "HALTED" => IsOpen(new.eps[Len(old.eps) + 1])
             /\ history' = [history EXCEPT ![s] =
                  Append(@, [id |-> ev[w].id, from |-> old.status,
                             to |-> new.status, at |-> ev[w].at])]
<1> DEFINE s == ev[w].sub
           old == subs[s]
           closing == Closes(snap[w].status, ev[w].type)
<1>1. WantsTransition(w) /\ Swappable(w)
  BY DEF Transition
<1>2. /\ s \in Subs /\ ev[w].at \in Times /\ ev[w].at \in Nat
      /\ old \in Subscription
  BY <1>1, TransitionWrites, EventFields DEF TypeOK
<1>3. /\ old.status = snap[w].status
      /\ closing = (old.status = "HALTED")
      /\ <<old.status, Target[ev[w].type]>> \in Edges
  BY <1>1, TransitionWrites DEF Swappable
<1>4. /\ subs' = [subs EXCEPT ![s] = Updated(w)]
      /\ subs'[s] = Updated(w)
  BY <1>2 DEF Transition, TypeOK
<1>5. closing \in BOOLEAN
  BY <1>3
<1>6. /\ Updated(w) \in Subscription
      /\ Updated(w).status = Target[ev[w].type]
      /\ Len(Updated(w).eps) = Len(old.eps) + Len(NewEpisode(w))
      /\ \A i \in 1..Len(old.eps) :
           Updated(w).eps[i] = IF closing /\ IsOpen(old.eps[i])
                               THEN [old.eps[i] EXCEPT !.react = ev[w].at]
                               ELSE old.eps[i]
      /\ \A i \in 1..Len(NewEpisode(w)) :
           Updated(w).eps[Len(old.eps) + i] = NewEpisode(w)[i]
  <2>1. Target[ev[w].type] \in Statuses /\ NewEpisode(w) \in Seq(Episode)
    BY <1>1, TransitionWrites
  <2>2. Updated(w) = Transitioned(old, Target[ev[w].type], ev[w].at,
                                  NewEpisode(w), closing)
    BY DEF Updated
  <2>3. Rewrites(old, Updated(w), Target[ev[w].type], ev[w].at,
                 NewEpisode(w), closing)
    BY <1>2, <1>5, <2>1, <2>2, TransitionedShape
  <2> HIDE DEF closing, old
  <2> QED
    BY <2>3 DEF Rewrites
<1>7. /\ Len(NewEpisode(w)) =
           IF Target[ev[w].type] = "HALTED" THEN 1 ELSE 0
      /\ \A i \in 1..Len(NewEpisode(w)) : IsOpen(NewEpisode(w)[i])
  BY <1>1, TransitionWrites
<1>8. ASSUME NEW i \in 1..Len(old.eps)
      PROVE  IF old.status = "HALTED"
             THEN ~ IsOpen(Updated(w).eps[i])
             ELSE Updated(w).eps[i] = old.eps[i]
  <2>1. old.eps[i] \in Episode
    BY <1>2, EpisodeAt
  <2>2. [old.eps[i] EXCEPT !.react = ev[w].at].react = ev[w].at
    BY <1>2, <2>1, ClosedEpisode
  <2>3. ev[w].at # NoTime
    BY <1>2 DEF NoTime
  <2> QED
    BY <1>3, <1>6, <2>2, <2>3 DEF IsOpen
<1>9. Updated(w).status = "HALTED" => IsOpen(Updated(w).eps[Len(old.eps) + 1])
  BY <1>6, <1>7
<1>10. history' = [history EXCEPT ![s] =
         Append(@, [id |-> ev[w].id, from |-> old.status,
                    to |-> Updated(w).status, at |-> ev[w].at])]
  BY <1>3, <1>6 DEF Transition
<1>11. /\ Updated(w).status = "HALTED" =>
            Len(Updated(w).eps) = Len(old.eps) + 1
       /\ Updated(w).status # "HALTED" =>
            Len(Updated(w).eps) = Len(old.eps)
  <2>1. Len(old.eps) \in Nat
    BY <1>2, EpisodeAt
  <2>2. /\ Updated(w).status = Target[ev[w].type]
        /\ Len(Updated(w).eps) = Len(old.eps) + Len(NewEpisode(w))
    BY <1>6
  <2>3. Len(NewEpisode(w)) = IF Target[ev[w].type] = "HALTED" THEN 1 ELSE 0
    BY <1>7
  <2>4. CASE Updated(w).status = "HALTED"
    <3>1. Len(NewEpisode(w)) = 1
      BY <2>2, <2>3, <2>4
    <3> QED
      BY <2>2, <2>4, <3>1
  <2>5. CASE Updated(w).status # "HALTED"
    <3>1. Len(NewEpisode(w)) = 0
      BY <2>2, <2>3, <2>5
    <3>2. Len(Updated(w).eps) = Len(old.eps)
      BY <2>1, <2>2, <3>1
    <3> QED
      BY <2>5, <3>2
  <2> QED
    BY <2>4, <2>5
<1>12. subs' = [subs EXCEPT ![s] = subs'[s]]
  BY <1>4
<1> QED
  BY <1>2, <1>3, <1>4, <1>6, <1>8, <1>9, <1>10, <1>11, <1>12, Zenon

\* The clause of OpenOnlyWhileHalted about one subscription.
OpenIsLast(sub) ==
  \A i \in DOMAIN sub.eps :
    IsOpen(sub.eps[i]) => sub.status = "HALTED" /\ i = Len(sub.eps)

LEMMA OpenStep ==
  TypeOK /\ OpenOnlyWhileHalted /\ [Next]_vars => OpenOnlyWhileHalted'
<1> SUFFICES ASSUME TypeOK, OpenOnlyWhileHalted, [Next]_vars
             PROVE  \A t \in Subs : OpenIsLast(subs'[t])
  BY DEF OpenOnlyWhileHalted, OpenIsLast
<1>1. \A t \in Subs : OpenIsLast(subs[t])
  BY DEF OpenOnlyWhileHalted, OpenIsLast
<1>2. CASE UNCHANGED <<subs, history>>
  BY <1>1, <1>2
<1>3. ASSUME NEW s \in Subs, NEW status \in Statuses, Create(s, status)
      PROVE  \A t \in Subs : OpenIsLast(subs'[t])
  <2>1. subs'[s] = [Absent EXCEPT !.status = status]
    BY <1>3 DEF Create, TypeOK
  <2>2. DOMAIN subs'[s].eps = {}
    BY <2>1 DEF Absent
  <2>3. \A t \in Subs \ {s} : subs'[t] = subs[t]
    BY <1>3 DEF Create, TypeOK
  <2> QED
    BY <1>1, <2>2, <2>3 DEF OpenIsLast
<1>4. ASSUME NEW w \in Workers, Transition(w)
      PROVE  \A t \in Subs : OpenIsLast(subs'[t])
  <2> DEFINE s == ev[w].sub
             old == subs[s]
             new == subs'[s]
  <2>1. /\ s \in Subs /\ old \in Subscription /\ new \in Subscription
        /\ subs' = [subs EXCEPT ![s] = new]
        /\ new.status = "HALTED" => Len(new.eps) = Len(old.eps) + 1
        /\ new.status # "HALTED" => Len(new.eps) = Len(old.eps)
        /\ \A i \in 1..Len(old.eps) :
             IF old.status = "HALTED"
             THEN ~ IsOpen(new.eps[i])
             ELSE new.eps[i] = old.eps[i]
    BY <1>4, TransitionEffect
  <2>2. \A t \in Subs \ {s} : subs'[t] = subs[t]
    BY <2>1 DEF TypeOK
  <2>3. /\ DOMAIN old.eps = 1..Len(old.eps) /\ Len(old.eps) \in Nat
        /\ DOMAIN new.eps = 1..Len(new.eps) /\ Len(new.eps) \in Nat
    BY <2>1, EpisodeAt
  <2>4. \A i \in 1..Len(old.eps) : ~ IsOpen(new.eps[i])
    BY <1>1, <2>1, <2>3 DEF OpenIsLast
  <2>5. OpenIsLast(new)
    <3> SUFFICES ASSUME NEW i \in DOMAIN new.eps, IsOpen(new.eps[i])
                 PROVE  new.status = "HALTED" /\ i = Len(new.eps)
      BY DEF OpenIsLast
    <3>1. i \notin 1..Len(old.eps) /\ i \in 1..Len(new.eps)
      BY <2>3, <2>4
    <3>2. new.status = "HALTED"
      BY <2>1, <3>1
    <3>3. Len(new.eps) = Len(old.eps) + 1
      BY <2>1, <3>2
    <3> HIDE DEF new, old
    <3> QED
      BY <2>3, <3>1, <3>2, <3>3
  <2> QED
    BY <1>1, <2>2, <2>5
<1>5. ASSUME NEW w \in Workers, AttachInvoice(w)
      PROVE  \A t \in Subs : OpenIsLast(subs'[t])
  <2> DEFINE s == ev[w].sub
             new == Attached(subs[s], LineageOf(w), ev[w].inv)
  <2>1. ev[w] \in Feed
    BY <1>5 DEF AttachInvoice, TypeOK, At
  <2>2. s \in Subs /\ subs[s] \in Subscription /\ ev[w].inv \in InvoiceIds
    BY <2>1, EventFields DEF TypeOK
  <2>3. subs' = [subs EXCEPT ![s] = new]
    BY <1>5 DEF AttachInvoice
  <2>4. /\ new.status = subs[s].status
        /\ DOMAIN new.eps = DOMAIN subs[s].eps
        /\ Len(new.eps) = Len(subs[s].eps)
        /\ \A i \in DOMAIN new.eps : new.eps[i].react = subs[s].eps[i].react
    BY <2>2, AttachedShape
  <2>5. OpenIsLast(new)
    BY <1>1, <2>2, <2>4 DEF OpenIsLast, IsOpen
  <2> QED
    BY <1>1, <2>2, <2>3, <2>5 DEF TypeOK
<1> QED
  BY <1>2, <1>3, <1>4, <1>5, SubscriptionSteps

\* At most one halt episode is open, and only while the subscription is
\* HALTED, for any number of concurrent workers: apply_transition's CAS on the
\* status is enough for it.
THEOREM OneOpenEpisode == Spec => []OpenOnlyWhileHalted
<1>1. Init => OpenOnlyWhileHalted
  BY DEF Init, Absent, OpenOnlyWhileHalted
<1>2. TypeOK /\ OpenOnlyWhileHalted /\ [Next]_vars => OpenOnlyWhileHalted'
  BY OpenStep
<1> QED
  BY <1>1, <1>2, TypeCorrect, PTL DEF Spec

-----------------------------------------------------------------------------
(* Each event moves once.                                                  *)

HasMoved(id) == \E s \in Subs : \E i \in DOMAIN history[s] : history[s][i].id = id

\* A worker past its claim owns its event: the event is marked received and no
\* other worker past its claim has it.
Owns(w) == pc[w] \in {"handle", "attach", "window", "mark"}

OwnersDiffer ==
  \A v, w \in Workers : Owns(v) /\ Owns(w) /\ ev[v].id = ev[w].id => v = w

OwnedIsReceived == \A w \in Workers : Owns(w) => store[ev[w].id] = "received"

\* What it owns has moved nothing while it is to be handled, nor when it is to be
\* rejected.
YetToMove ==
  \A w \in Workers :
    pc[w] = "handle" \/ (pc[w] = "mark" /\ res[w] \in Rejected) => ~HasMoved(ev[w].id)

AnswersOK == \A w \in Workers : pc[w] # "mark" => res[w] = "OK"

MovedIsReceived ==
  \A s \in Subs : \A i \in DOMAIN history[s] :
    store[history[s][i].id] # "unseen" /\ store[history[s][i].id] \notin Rejected

OneMovePerEvent ==
  \A s, t \in Subs : \A i \in DOMAIN history[s], j \in DOMAIN history[t] :
    history[s][i].id = history[t][j].id => s = t /\ i = j

OnceInv ==
  /\ OwnersDiffer /\ OwnedIsReceived /\ YetToMove /\ AnswersOK
  /\ MovedIsReceived /\ OneMovePerEvent

\* The history names events that there are.
LEMMA MovesAreTyped ==
  ASSUME TypeOK, NEW s \in Subs
  PROVE  /\ Len(history[s]) \in Nat /\ DOMAIN history[s] = 1..Len(history[s])
         /\ \A i \in DOMAIN history[s] : history[s][i].id \in EventIds
<1>1. history[s] \in Seq(Move)
  BY DEF TypeOK
<1>2. \A i \in 1..Len(history[s]) : history[s][i] \in Move
  BY <1>1, ElementOfSeq
<1> QED
  BY <1>1, <1>2, LenProperties DEF Move

\* A step that leaves events and history alone and takes w, which owns its event
\* or does not come to own one, to another place.
LEMMA QuietStep ==
  ASSUME TypeOK, OnceInv, NEW w \in Workers, UNCHANGED <<store, history, ev>>,
         NEW place, pc' = [pc EXCEPT ![w] = place],
         NEW reason, res' = [res EXCEPT ![w] = reason],
         Owns(w), place # "handle",
         place # "mark" => reason = "OK",
         pc[w] = "handle" \/ reason \notin Rejected
  PROVE  OnceInv'
<1>1. \A v \in Workers : /\ pc'[v] = IF v = w THEN place ELSE pc[v]
                         /\ res'[v] = IF v = w THEN reason ELSE res[v]
  BY DEF TypeOK
<1>2. \A v \in Workers : Owns(v)' => Owns(v)
  BY <1>1 DEF Owns
<1>3. \A id : HasMoved(id)' = HasMoved(id)
  BY DEF HasMoved
<1>4. OwnersDiffer' /\ OwnedIsReceived'
  BY <1>2 DEF OnceInv, OwnersDiffer, OwnedIsReceived
<1>5. YetToMove'
  BY <1>1, <1>3 DEF OnceInv, YetToMove
<1>6. AnswersOK'
  BY <1>1 DEF OnceInv, AnswersOK
<1>7. MovedIsReceived' /\ OneMovePerEvent'
  BY DEF OnceInv, MovedIsReceived, OneMovePerEvent
<1> QED
  BY <1>4, <1>5, <1>6, <1>7 DEF OnceInv

\* A worker that leaves, its verdict stored or not.
LEMMA LeavingStep ==
  ASSUME TypeOK, OnceInv, NEW w \in Workers, Leave(w), UNCHANGED history,
         \/ UNCHANGED store
         \/ /\ pc[w] = "mark" /\ store' = [store EXCEPT ![ev[w].id] = res[w]]
  PROVE  OnceInv'
<1>1. \A v \in Workers :
        /\ pc'[v] = IF v = w THEN "idle" ELSE pc[v]
        /\ res'[v] = IF v = w THEN "OK" ELSE res[v]
        /\ v # w => ev'[v] = ev[v]
  BY DEF Leave, Goto, TypeOK
<1>2. \A v \in Workers : Owns(v)' => v # w /\ Owns(v)
  BY <1>1 DEF Owns
<1>3. \A id : HasMoved(id)' = HasMoved(id)
  BY DEF HasMoved
<1>4. OwnersDiffer'
  BY <1>1, <1>2 DEF OnceInv, OwnersDiffer
<1>5. OwnedIsReceived'
  <2>1. CASE UNCHANGED store
    BY <1>1, <1>2, <2>1 DEF OnceInv, OwnedIsReceived
  <2>2. CASE pc[w] = "mark" /\ store' = [store EXCEPT ![ev[w].id] = res[w]]
    <3>1. \A v \in Workers : Owns(v)' => ev[v].id # ev[w].id
      BY <1>2, <2>2 DEF OnceInv, OwnersDiffer, Owns
    <3> QED
      BY <1>1, <1>2, <2>2, <3>1 DEF OnceInv, OwnedIsReceived
  <2> QED
    BY <2>1, <2>2
<1>6. YetToMove'
  BY <1>1, <1>3 DEF OnceInv, YetToMove
<1>7. AnswersOK'
  BY <1>1 DEF OnceInv, AnswersOK
<1>8. MovedIsReceived'
  <2>1. CASE UNCHANGED store
    BY <2>1 DEF OnceInv, MovedIsReceived
  <2>2. CASE pc[w] = "mark" /\ store' = [store EXCEPT ![ev[w].id] = res[w]]
    <3>1. ev[w].id \in EventIds /\ res[w] \in Verdicts /\ "unseen" \notin Verdicts
      BY <2>2, EventFields DEF TypeOK, Verdicts, Processed, Rejected
    <3>2. HasMoved(ev[w].id) => res[w] \notin Rejected /\ res[w] # "unseen"
      BY <2>2, <3>1 DEF OnceInv, YetToMove
    <3>3. \A id \in EventIds : store'[id] = IF id = ev[w].id THEN res[w] ELSE store[id]
      BY <2>2, <3>1 DEF TypeOK
    <3> QED
      BY <3>2, <3>3, MovesAreTyped DEF OnceInv, MovedIsReceived, HasMoved
  <2> QED
    BY <2>1, <2>2
<1>9. OneMovePerEvent'
  BY DEF OnceInv, OneMovePerEvent
<1> QED
  BY <1>4, <1>5, <1>6, <1>7, <1>8, <1>9 DEF OnceInv

\* The event is received by nobody else when it is claimed, and has not moved.
LEMMA ClaimingStep ==
  ASSUME TypeOK, OnceInv, NEW w \in Workers, Claim(w)
  PROVE  OnceInv'
<1>1. /\ ev[w].id \in EventIds /\ ev' = ev /\ history' = history /\ res' = res
      /\ store[ev[w].id] = "unseen" /\ pc[w] = "claim"
  BY EventFields DEF Claim, At, TypeOK
<1>2. /\ \A v \in Workers : pc'[v] = IF v = w THEN "handle" ELSE pc[v]
      /\ \A id \in EventIds : store'[id] = IF id = ev[w].id THEN "received" ELSE store[id]
  BY <1>1 DEF Claim, Goto, TypeOK
<1>3. \A v \in Workers : Owns(v)' <=> v = w \/ Owns(v)
  BY <1>1, <1>2 DEF Owns
<1>4. \A v \in Workers : Owns(v) => ev[v].id \in EventIds /\ ev[v].id # ev[w].id
  <2>1. ASSUME NEW v \in Workers, Owns(v)
        PROVE  ev[v].id \in EventIds /\ ev[v].id # ev[w].id
    BY <1>1, <2>1, EventFields DEF Owns, OnceInv, OwnedIsReceived, TypeOK
  <2> QED
    BY <2>1
<1>5. ~HasMoved(ev[w].id)
  BY <1>1 DEF HasMoved, OnceInv, MovedIsReceived
<1>6. \A id : HasMoved(id)' = HasMoved(id)
  BY <1>1 DEF HasMoved
<1>7. OwnersDiffer'
  BY <1>1, <1>3, <1>4 DEF OnceInv, OwnersDiffer
<1>8. OwnedIsReceived'
  BY <1>1, <1>2, <1>3, <1>4 DEF OnceInv, OwnedIsReceived
<1>9. YetToMove' /\ AnswersOK'
  BY <1>1, <1>2, <1>5, <1>6 DEF OnceInv, YetToMove, AnswersOK
<1>10. MovedIsReceived'
  BY <1>1, <1>2, MovesAreTyped DEF OnceInv, MovedIsReceived, Rejected
<1>11. OneMovePerEvent'
  BY <1>1 DEF OnceInv, OneMovePerEvent
<1> QED
  BY <1>7, <1>8, <1>9, <1>10, <1>11 DEF OnceInv

\* The one step that makes a move: of an event that had made none.
LEMMA MovingStep ==
  ASSUME TypeOK, OnceInv, NEW w \in Workers, Transition(w)
  PROVE  OnceInv'
<1>1. /\ pc[w] = "handle" /\ ev[w] \in Feed /\ store' = store /\ ev' = ev
      /\ ev[w].sub \in Subs /\ ev[w].id \in EventIds
  BY EventFields DEF Transition, WantsTransition, HandlesLifecycle, At, TypeOK
<1> DEFINE id == ev[w].id
           t == ev[w].sub
           move == [id |-> id, from |-> snap[w].status, to |-> Target[ev[w].type],
                    at |-> ev[w].at]
<1>2. history' = [history EXCEPT ![t] = Append(@, move)] /\ move.id = id
  BY DEF Transition
<1>3. PICK place \in {"window", "mark"} : pc' = [pc EXCEPT ![w] = place]
  BY DEF Transition, Goto
<1>4. res' = [res EXCEPT ![w] = "OK"]
  BY DEF Transition
<1>5. ~HasMoved(id) /\ store[id] = "received"
  BY <1>1 DEF OnceInv, YetToMove, OwnedIsReceived, Owns
<1> HIDE DEF move
<1>6. /\ DOMAIN history'[t] = DOMAIN history[t] \cup {Len(history[t]) + 1}
      /\ \A i \in DOMAIN history[t] : history'[t][i] = history[t][i]
      /\ history'[t][Len(history[t]) + 1] = move
      /\ Len(history[t]) + 1 \notin DOMAIN history[t]
      /\ \A s \in Subs : s # t => history'[s] = history[s]
  BY <1>1, <1>2, MovesAreTyped DEF TypeOK
<1>7. \A s \in Subs : \A i \in DOMAIN history'[s] :
        \/ s = t /\ i = Len(history[t]) + 1 /\ history'[s][i].id = id
        \/ i \in DOMAIN history[s] /\ history'[s][i] = history[s][i]
                                  /\ history[s][i].id # id
  BY <1>1, <1>2, <1>5, <1>6 DEF HasMoved
<1> HIDE DEF id, t
<1>8. \A x : HasMoved(x)' => HasMoved(x) \/ x = id
  BY <1>7 DEF HasMoved
<1>9. \A v \in Workers : /\ pc'[v] = IF v = w THEN place ELSE pc[v]
                         /\ res'[v] = IF v = w THEN "OK" ELSE res[v]
  BY <1>3, <1>4 DEF TypeOK
<1>10. \A v \in Workers : Owns(v)' => Owns(v)
  BY <1>1, <1>9 DEF Owns
<1>11. OwnersDiffer' /\ OwnedIsReceived'
  BY <1>1, <1>10 DEF OnceInv, OwnersDiffer, OwnedIsReceived
<1>12. YetToMove'
  <2>1. ASSUME NEW v \in Workers,
               pc'[v] = "handle" \/ (pc'[v] = "mark" /\ res'[v] \in Rejected)
        PROVE  ~HasMoved(ev[v].id)'
    <3>1. v # w
      BY <1>9, <2>1 DEF Rejected
    <3>2. Owns(v) /\ Owns(w) /\ ~HasMoved(ev[v].id)
      BY <1>1, <1>9, <2>1, <3>1 DEF Owns, OnceInv, YetToMove
    <3>3. ev[v].id # id
      BY <3>1, <3>2 DEF OnceInv, OwnersDiffer, id
    <3> QED
      BY <1>1, <1>8, <3>2, <3>3
  <2> QED
    BY <1>1, <2>1 DEF YetToMove
<1>13. AnswersOK'
  BY <1>9 DEF OnceInv, AnswersOK
<1>14. MovedIsReceived'
  BY <1>1, <1>5, <1>7 DEF OnceInv, MovedIsReceived, Rejected, id
<1>15. OneMovePerEvent'
  BY <1>7 DEF OnceInv, OneMovePerEvent
<1> QED
  BY <1>11, <1>12, <1>13, <1>14, <1>15 DEF OnceInv

LEMMA OnceStep ==
  ASSUME TypeOK, OnceInv, [Next]_vars
  PROVE  OnceInv'
<1>1. ASSUME UNCHANGED <<store, history, pc, ev, res>>
      PROVE  OnceInv'
  BY <1>1 DEF OnceInv, OwnersDiffer, OwnedIsReceived, YetToMove, AnswersOK, MovedIsReceived,
              OneMovePerEvent, HasMoved, Owns
<1>2. ASSUME NEW w \in Workers, NEW e \in Feed, Receive(w, e)
      PROVE  OnceInv'
  <2>1. /\ \A v \in Workers : /\ pc'[v] = IF v = w THEN "claim" ELSE pc[v]
                              /\ v # w => ev'[v] = ev[v]
        /\ pc[w] = "idle" /\ store' = store /\ history' = history /\ res' = res
    BY <1>2 DEF Receive, Goto, At, TypeOK
  <2> QED
    BY <2>1 DEF OnceInv, OwnersDiffer, OwnedIsReceived, YetToMove, AnswersOK,
                MovedIsReceived, OneMovePerEvent, HasMoved, Owns
<1>3. ASSUME NEW w \in Workers, NEW reason \in Verdicts, pc[w] = "handle", Answer(w, reason)
      PROVE  OnceInv'
  BY <1>3, QuietStep DEF Answer, Goto, Owns
<1>4. ASSUME NEW w \in Workers,
             \/ RejectStale(w) \/ RejectIllegal(w) \/ NoOp(w)
             \/ TransitionLost(w) \/ RefuseInvoice(w) \/ InvoiceNotFound(w)
             \/ NoteOrRefusePayload(w)
      PROVE  OnceInv'
  <2>1. pc[w] = "handle"
    BY <1>4 DEF RejectStale, RejectIllegal, NoOp, TransitionLost,
         WantsTransition, HandlesLifecycle, RefuseInvoice, HandlesInvoice,
         InvoiceNotFound, NoteOrRefusePayload, At
  <2>2. \E reason \in Verdicts : Answer(w, reason)
    BY <1>4 DEF RejectStale, RejectIllegal, NoOp, TransitionLost,
         RefuseInvoice, InvoiceNotFound, NoteOrRefusePayload, Verdicts,
         Processed, Rejected
  <2> QED
    BY <1>3, <2>1, <2>2
<1>5. ASSUME NEW w \in Workers,
             InsertInvoice(w) \/ AttachInvoice(w) \/ SettleInvoice(w) \/ HookReturns(w)
      PROVE  OnceInv'
  <2>1. /\ UNCHANGED <<store, history, ev>> /\ res' = [res EXCEPT ![w] = res[w]]
        /\ pc[w] \in {"handle", "attach", "window"}
    BY <1>5 DEF InsertInvoice, AttachInvoice, SettleInvoice, HookReturns, HandlesInvoice, At,
         TypeOK
  <2>2. \E place \in {"mark", "attach"} : pc' = [pc EXCEPT ![w] = place]
    BY <1>5 DEF InsertInvoice, AttachInvoice, SettleInvoice, HookReturns, Goto
  <2>3. res[w] = "OK" /\ "OK" \notin Rejected
    BY <2>1 DEF OnceInv, AnswersOK, Rejected
  <2> QED
    BY <2>1, <2>2, <2>3, QuietStep DEF Owns
<1>6. ASSUME NEW w \in Workers, Duplicate(w) \/ Mark(w) \/ Crash(w)
      PROVE  OnceInv'
  BY <1>6, LeavingStep DEF Duplicate, Mark, Crash, At
<1>7. ASSUME NEW s \in Subs, NEW status \in Statuses, Create(s, status)
      PROVE  OnceInv'
  BY <1>1, <1>7 DEF Create, locals
<1>8. CASE UNCHANGED vars
  BY <1>1, <1>8 DEF vars
<1> QED
  BY NamedAreSubs, <1>2, <1>4, <1>5, <1>6, <1>7, <1>8, ClaimingStep, MovingStep
  DEF Next, Arrive, Step, Serve, Lifecycles, InvoicesAndPayments

LEMMA OnceInvariant == Spec => []OnceInv
<1>1. Init => OnceInv
  BY DEF Init, OnceInv, OwnersDiffer, OwnedIsReceived, YetToMove, AnswersOK,
         MovedIsReceived, OneMovePerEvent, HasMoved, Owns
<1>2. TypeOK /\ OnceInv /\ [Next]_vars => OnceInv'
  BY OnceStep
<1> QED
  BY <1>1, <1>2, TypeCorrect, PTL DEF Spec

\* However often an event is delivered and whoever crashes, it moves at most one
\* subscription, once, and none if it was rejected: the unique insert makes one
\* worker its owner, and the owner moves before it answers or not at all.
THEOREM MovesOnce == Spec => []EachEventMovesOnce
<1>1. OnceInv => EachEventMovesOnce
  BY DEF OnceInv, MovedIsReceived, OneMovePerEvent, EachEventMovesOnce
<1> QED
  BY <1>1, OnceInvariant, PTL

-----------------------------------------------------------------------------
(* Episodes.                                                               *)

\* `new` has the episodes of `old` under their numbers, with a return time where
\* there was none, and perhaps others.
Continues(old, new) ==
  \A i \in DOMAIN old.eps :
    /\ i \in DOMAIN new.eps
    /\ new.eps[i].id = old.eps[i].id /\ new.eps[i].halted = old.eps[i].halted
    /\ new.eps[i].react \in
         {old.eps[i].react} \cup (IF IsOpen(old.eps[i]) THEN Times ELSE {})

\* A transition lists no invoice.
LEMMA TransitionContinues ==
  ASSUME TypeOK, NEW w \in Workers, Transition(w)
  PROVE  LET s == ev[w].sub IN
         /\ s \in Subs /\ subs' = [subs EXCEPT ![s] = Updated(w)]
         /\ Continues(subs[s], Updated(w))
         /\ \A i \in DOMAIN Updated(w).eps :
              Updated(w).eps[i].invs = IF i \in DOMAIN subs[s].eps
                                       THEN subs[s].eps[i].invs ELSE {}
<1> DEFINE old == subs[ev[w].sub]
           new == Updated(w)
           closing == Closes(snap[w].status, ev[w].type)
<1>1. WantsTransition(w)
  BY DEF Transition
<1>2. /\ ev[w].sub \in Subs /\ ev[w].at \in Times
      /\ old \in Subscription /\ new \in Subscription
      /\ Target[ev[w].type] \in Statuses /\ NewEpisode(w) \in Seq(Episode)
      /\ closing = (snap[w].status = "HALTED")
  BY <1>1, TransitionWrites, EventFields DEF TypeOK
<1>3. Rewrites(old, new, Target[ev[w].type], ev[w].at, NewEpisode(w), closing)
  BY <1>2, TransitionedShape DEF Updated
<1>4. /\ DOMAIN old.eps = 1..Len(old.eps) /\ Len(old.eps) \in Nat
      /\ DOMAIN new.eps = 1..Len(new.eps)
      /\ \A i \in DOMAIN old.eps : old.eps[i] \in Episode
      /\ Len(NewEpisode(w)) \in Nat
  BY <1>2, EpisodeAt, LenProperties
<1>5. \A i \in 1..Len(NewEpisode(w)) : NewEpisode(w)[i].invs = {}
  BY DEF NewEpisode
<1> HIDE DEF old, new, closing
<1>6. /\ Len(new.eps) = Len(old.eps) + Len(NewEpisode(w))
      /\ \A i \in 1..Len(old.eps) :
           new.eps[i] = IF closing /\ IsOpen(old.eps[i])
                        THEN [old.eps[i] EXCEPT !.react = ev[w].at] ELSE old.eps[i]
      /\ \A i \in 1..Len(NewEpisode(w)) : new.eps[Len(old.eps) + i] = NewEpisode(w)[i]
  BY <1>3 DEF Rewrites
<1>7. ASSUME NEW i \in DOMAIN old.eps
      PROVE  /\ i \in DOMAIN new.eps
             /\ new.eps[i].id = old.eps[i].id /\ new.eps[i].halted = old.eps[i].halted
             /\ new.eps[i].invs = old.eps[i].invs
             /\ new.eps[i].react \in
                  {old.eps[i].react} \cup (IF IsOpen(old.eps[i]) THEN Times ELSE {})
  <2>1. i \in DOMAIN new.eps
    BY <1>4, <1>6
  <2>2. CASE closing /\ IsOpen(old.eps[i])
    <3>1. new.eps[i] = [old.eps[i] EXCEPT !.react = ev[w].at] /\ old.eps[i] \in Episode
      BY <1>4, <1>6, <2>2
    <3> QED
      BY <1>2, <2>1, <2>2, <3>1 DEF Episode
  <2>3. CASE ~(closing /\ IsOpen(old.eps[i]))
    BY <1>4, <1>6, <2>1, <2>3
  <2> QED
    BY <2>2, <2>3
<1>8. ASSUME NEW i \in DOMAIN new.eps, i \notin DOMAIN old.eps
      PROVE  new.eps[i].invs = {}
  <2>1. i - Len(old.eps) \in 1..Len(NewEpisode(w)) /\ i = Len(old.eps) + (i - Len(old.eps))
    BY <1>4, <1>6, <1>8
  <2> QED
    BY <1>5, <1>6, <2>1
<1>9. subs' = [subs EXCEPT ![ev[w].sub] = new]
  BY DEF Transition, new
<1> QED
  BY <1>2, <1>7, <1>8, <1>9 DEF Continues, old, new

LEMMA AttachContinues ==
  ASSUME TypeOK, NEW w \in Workers, AttachInvoice(w)
  PROVE  LET s == ev[w].sub
             new == Attached(subs[s], LineageOf(w), ev[w].inv)
         IN  /\ s \in Subs /\ subs' = [subs EXCEPT ![s] = new]
             /\ DOMAIN new.eps = DOMAIN subs[s].eps
             /\ Continues(subs[s], new)
             /\ \A i \in DOMAIN new.eps : \A inv \in new.eps[i].invs :
                  \/ inv \in subs[s].eps[i].invs
                  \/ inv = ev[w].inv /\ new.eps[i].id = LineageOf(w)
<1>1. ev[w] \in Feed
  BY DEF AttachInvoice, TypeOK, At
<1>2. /\ ev[w].sub \in Subs /\ subs[ev[w].sub] \in Subscription
      /\ ev[w].inv \in InvoiceIds
  BY <1>1, EventFields DEF TypeOK
<1> DEFINE old == subs[ev[w].sub]
           new == Attached(old, LineageOf(w), ev[w].inv)
<1>3. /\ DOMAIN new.eps = DOMAIN old.eps
      /\ \A i \in DOMAIN old.eps :
           /\ new.eps[i].id = old.eps[i].id
           /\ new.eps[i].halted = old.eps[i].halted
           /\ new.eps[i].react = old.eps[i].react
  BY <1>2, AttachedShape
<1>4. ASSUME NEW i \in DOMAIN new.eps, NEW inv \in new.eps[i].invs
      PROVE  inv \in old.eps[i].invs \/ (inv = ev[w].inv /\ new.eps[i].id = LineageOf(w))
  <2>1. old.eps[i] \in Episode
    BY <1>2, <1>3, EpisodeAt
  <2>2. new.eps[i] = IF old.eps[i].id = LineageOf(w)
                     THEN [old.eps[i] EXCEPT !.invs = @ \cup {ev[w].inv}] ELSE old.eps[i]
    BY <1>2, <1>3 DEF Attached, Subscription
  <2> HIDE DEF old, new
  <2> QED
    BY <1>2, <1>4, <2>1, <2>2, ListedEpisode DEF Episode
<1>5. subs' = [subs EXCEPT ![ev[w].sub] = new]
  BY DEF AttachInvoice
<1> QED
  BY <1>2, <1>3, <1>4, <1>5 DEF Continues

LEMMA SubscriptionsContinue ==
  ASSUME TypeOK, [Next]_vars, NEW s \in Subs
  PROVE  Continues(subs[s], subs'[s])
<1>1. Continues(subs[s], subs[s])
  BY DEF Continues
<1>2. CASE UNCHANGED <<subs, history>>
  BY <1>1, <1>2
<1>3. ASSUME NEW t \in Subs, NEW status \in Statuses, Create(t, status)
      PROVE  Continues(subs[s], subs'[s])
  <2>1. CASE s = t
    BY <1>3, <2>1 DEF Create, Absent, Continues
  <2>2. CASE s # t
    BY <1>1, <1>3, <2>2 DEF Create, TypeOK
  <2> QED
    BY <2>1, <2>2
<1>4. ASSUME NEW w \in Workers, Transition(w)
      PROVE  Continues(subs[s], subs'[s])
  BY <1>1, <1>4, TransitionContinues DEF TypeOK
<1>5. ASSUME NEW w \in Workers, AttachInvoice(w)
      PROVE  Continues(subs[s], subs'[s])
  BY <1>1, <1>5, AttachContinues DEF TypeOK
<1> QED
  BY <1>2, <1>3, <1>4, <1>5, SubscriptionSteps

\* The list of halts is append-only and a closed window never moves, whatever late,
\* equal and refused events there are.
THEOREM HaltsAreFinal == Spec => EpisodesAreFinal
<1>1. TypeOK /\ [Next]_vars =>
        [\A s \in Subs : \A i \in DOMAIN subs[s].eps :
           /\ i \in DOMAIN subs'[s].eps
           /\ subs'[s].eps[i].id = subs[s].eps[i].id
           /\ subs'[s].eps[i].halted = subs[s].eps[i].halted
           /\ subs'[s].eps[i].react \in {subs[s].eps[i].react}
                \cup (IF IsOpen(subs[s].eps[i]) THEN Times ELSE {})]_vars
  BY SubscriptionsContinue DEF Continues
<1> QED
  BY <1>1, TypeCorrect, PTL DEF Spec, EpisodesAreFinal

-----------------------------------------------------------------------------
(* Lineage.                                                                *)

\* A worker's copy, however old, is a beginning of the document.
Remembers ==
  \A w \in Workers : pc[w] # "idle" =>
    \A i \in DOMAIN snap[w].eps :
      /\ i \in DOMAIN subs[ev[w].sub].eps
      /\ subs[ev[w].sub].eps[i].id = snap[w].eps[i].id
      /\ subs[ev[w].sub].eps[i].halted = snap[w].eps[i].halted

\* The row of an invoice that is about to be listed.
IsRowOf(r, inv, s, episode) == r.id = inv /\ r.sub = s /\ r.ep = episode

ListsARow ==
  \A w \in Workers : pc[w] = "attach" =>
    \E r \in invoices : IsRowOf(r, ev[w].inv, ev[w].sub, LineageOf(w))

RowsNameHalts ==
  \A r \in invoices : r.ep # NoEpisode =>
    \E i \in DOMAIN subs[r.sub].eps :
      subs[r.sub].eps[i].id = r.ep /\ subs[r.sub].eps[i].halted <= r.at

ListingsHaveRows ==
  \A s \in Subs : \A i \in DOMAIN subs[s].eps : \A inv \in subs[s].eps[i].invs :
    \E r \in invoices : IsRowOf(r, inv, s, subs[s].eps[i].id)

LineageInv == Remembers /\ ListsARow /\ RowsNameHalts /\ ListingsHaveRows

\* Rows are inserted under an id that is free, and settled in place.
LEMMA RowChange ==
  ASSUME TypeOK, [Next]_vars
  PROVE  \/ UNCHANGED invoices
         \/ \E w \in Workers : InsertInvoice(w)
         \/ \E inv : invoices' = Settled(invoices, inv)
BY NamedAreSubs DEF Next, Arrive, Step, Serve, Lifecycles, InvoicesAndPayments, Create,
   Receive, Claim, Duplicate, RejectStale, RejectIllegal, NoOp, TransitionLost,
   Transition, Answer, HookReturns, AttachInvoice, RefuseInvoice, SettleInvoice,
   InvoiceNotFound, NoteOrRefusePayload, Mark, Crash, db, vars

LEMMA SettledRow ==
  ASSUME NEW r \in Row
  PROVE  LET q == [r EXCEPT !.status = "PAID"]
         IN  q.id = r.id /\ q.sub = r.sub /\ q.ep = r.ep /\ q.at = r.at
BY DEF Row

SameInvoice(q, r) == q.id = r.id /\ q.sub = r.sub /\ q.ep = r.ep /\ q.at = r.at

\* A row is as it was but for its status, or has just been inserted.
LEMMA RowsStay ==
  ASSUME TypeOK, [Next]_vars
  PROVE  /\ \A r \in invoices : \E q \in invoices' : SameInvoice(q, r)
         /\ \A q \in invoices' :
              \/ \E r \in invoices : SameInvoice(q, r)
              \/ \E w \in Workers :
                   /\ InsertInvoice(w)
                   /\ q.sub = ev[w].sub /\ q.at = ev[w].at /\ q.ep = LineageOf(w)
<1>1. CASE UNCHANGED invoices
  BY <1>1 DEF SameInvoice
<1>2. ASSUME NEW w \in Workers, InsertInvoice(w)
      PROVE  /\ \A r \in invoices : r \in invoices'
             /\ \A q \in invoices' :
                  \/ q \in invoices
                  \/ q.sub = ev[w].sub /\ q.at = ev[w].at /\ q.ep = LineageOf(w)
  BY <1>2 DEF InsertInvoice
<1>3. ASSUME NEW inv, invoices' = Settled(invoices, inv)
      PROVE  /\ \A r \in invoices : \E q \in invoices' : SameInvoice(q, r)
             /\ \A q \in invoices' : \E r \in invoices : SameInvoice(q, r)
  <2> DEFINE Now(r) == IF r.id = inv THEN [r EXCEPT !.status = "PAID"] ELSE r
  <2>1. \A r \in invoices : SameInvoice(Now(r), r)
    BY SettledRow DEF TypeOK, SameInvoice
  <2>2. invoices' = {Now(r) : r \in invoices}
    BY <1>3 DEF Settled
  <2> HIDE DEF Now
  <2> QED
    BY <2>1, <2>2
<1> QED
  BY <1>1, <1>2, <1>3, RowChange DEF SameInvoice

\* What a step does to the request of each worker.
LEMMA RequestSteps ==
  ASSUME TypeOK, [Next]_vars, NEW w \in Workers, pc'[w] # "idle"
  PROVE  \/ /\ pc[w] # "idle" /\ ev'[w] = ev[w] /\ snap'[w] = snap[w]
            /\ pc'[w] = "attach" => pc[w] = "attach" \/ InsertInvoice(w)
         \/ /\ pc'[w] = "claim" /\ ev'[w].sub \in Subs
            /\ snap'[w] = subs[ev'[w].sub] /\ subs' = subs
         \/ /\ Transition(w) /\ ev'[w] = ev[w] /\ snap'[w] = Updated(w)
            /\ pc'[w] # "attach"
<1>1. ASSUME NEW v \in Workers, NEW e \in Feed, Receive(v, e)
      PROVE  \/ pc'[w] = pc[w] /\ ev'[w] = ev[w] /\ snap'[w] = snap[w]
             \/ /\ pc'[w] = "claim" /\ ev'[w].sub \in Subs
                /\ snap'[w] = subs[ev'[w].sub] /\ subs' = subs
  BY <1>1, EventFields DEF Receive, Goto, At, TypeOK
<1>2. ASSUME NEW v \in Workers, Transition(v)
      PROVE  \/ pc'[w] = pc[w] /\ ev'[w] = ev[w] /\ snap'[w] = snap[w]
             \/ /\ v = w /\ ev'[w] = ev[w] /\ snap'[w] = Updated(w)
                /\ pc'[w] # "attach"
  BY <1>2 DEF Transition, Goto, TypeOK
<1>3. ASSUME NEW v \in Workers, Leave(v)
      PROVE  pc'[w] = pc[w] /\ ev'[w] = ev[w] /\ snap'[w] = snap[w]
  BY <1>3 DEF Leave, Goto, TypeOK
<1>4. ASSUME NEW v \in Workers, NEW reason, Answer(v, reason), pc[v] # "idle"
      PROVE  /\ pc[w] # "idle" /\ ev'[w] = ev[w] /\ snap'[w] = snap[w]
             /\ pc'[w] = "attach" => pc[w] = "attach"
  BY <1>4 DEF Answer, Goto, TypeOK
<1>5. ASSUME NEW v \in Workers,
             Claim(v) \/ InsertInvoice(v) \/ AttachInvoice(v) \/ SettleInvoice(v)
               \/ HookReturns(v)
      PROVE  /\ pc[w] # "idle" /\ ev'[w] = ev[w] /\ snap'[w] = snap[w]
             /\ pc'[w] = "attach" => pc[w] = "attach" \/ InsertInvoice(w)
  BY <1>5 DEF Claim, InsertInvoice, AttachInvoice, SettleInvoice, HookReturns, HandlesInvoice,
       At, Goto, TypeOK
<1>6. ASSUME NEW v \in Workers,
             \/ RejectStale(v) \/ RejectIllegal(v) \/ NoOp(v)
             \/ TransitionLost(v) \/ RefuseInvoice(v) \/ InvoiceNotFound(v)
             \/ NoteOrRefusePayload(v)
      PROVE  /\ pc[w] # "idle" /\ ev'[w] = ev[w] /\ snap'[w] = snap[w]
             /\ pc'[w] = "attach" => pc[w] = "attach"
  <2>1. pc[v] # "idle" /\ \E reason : Answer(v, reason)
    BY <1>6 DEF RejectStale, RejectIllegal, NoOp, TransitionLost,
         WantsTransition, HandlesLifecycle, RefuseInvoice, HandlesInvoice,
         InvoiceNotFound, NoteOrRefusePayload, At
  <2> QED
    BY <1>4, <2>1
<1>7. ASSUME UNCHANGED locals
      PROVE  pc'[w] = pc[w] /\ ev'[w] = ev[w] /\ snap'[w] = snap[w]
  BY <1>7 DEF locals
<1>8. \A s \in Subs, status \in Statuses : Create(s, status) => UNCHANGED locals
  BY DEF Create
<1>9. UNCHANGED vars => UNCHANGED locals
  BY DEF vars, locals
<1>10. \A v \in Workers : Duplicate(v) \/ Mark(v) \/ Crash(v) => Leave(v)
  BY DEF Duplicate, Mark, Crash
<1> QED
  BY NamedAreSubs, <1>1, <1>2, <1>3, <1>5, <1>6, <1>7, <1>8, <1>9, <1>10
  DEF Next, Arrive, Step, Serve, Lifecycles, InvoicesAndPayments

\* The listings survive a step: an episode lists what it listed, and what has
\* just been attached has its row.
LEMMA ListingStep ==
  ASSUME TypeOK, LineageInv, [Next]_vars
  PROVE  ListingsHaveRows'
<1>1. SUFFICES ASSUME NEW s \in Subs, NEW i \in DOMAIN subs'[s].eps,
                      NEW inv \in subs'[s].eps[i].invs
               PROVE  \E r \in invoices : IsRowOf(r, inv, s, subs'[s].eps[i].id)
  <2>1. \A r \in invoices : \A n, t, e :
          IsRowOf(r, n, t, e) => \E q \in invoices' : IsRowOf(q, n, t, e)
    <3>1. SUFFICES ASSUME NEW r \in invoices, NEW n, NEW t, NEW e, IsRowOf(r, n, t, e)
                   PROVE  \E q \in invoices' : IsRowOf(q, n, t, e)
      OBVIOUS
    <3>2. PICK q \in invoices' : SameInvoice(q, r)
      BY RowsStay
    <3> QED
      BY <3>1, <3>2 DEF SameInvoice, IsRowOf
  <2> QED
    BY <2>1 DEF ListingsHaveRows
<1>2. CASE /\ i \in DOMAIN subs[s].eps
           /\ subs'[s].eps[i].id = subs[s].eps[i].id
           /\ inv \in subs[s].eps[i].invs
  BY <1>2 DEF LineageInv, ListingsHaveRows
<1>3. CASE subs'[s] = subs[s]
  BY <1>1, <1>2, <1>3
<1>4. ASSUME NEW t \in Subs, NEW status \in Statuses, Create(t, status)
      PROVE  subs'[s] = subs[s] \/ subs'[s].eps = <<>>
  BY <1>4 DEF Create, Absent, TypeOK
<1>5. ASSUME NEW w \in Workers, Transition(w), subs'[s] # subs[s]
      PROVE  /\ i \in DOMAIN subs[s].eps
             /\ subs'[s].eps[i].id = subs[s].eps[i].id
             /\ inv \in subs[s].eps[i].invs
  <2>1. /\ s = ev[w].sub /\ subs'[s] = Updated(w)
    BY <1>5, TransitionContinues DEF TypeOK
  <2>2. Updated(w).eps[i].invs = IF i \in DOMAIN subs[s].eps
                                 THEN subs[s].eps[i].invs ELSE {}
    BY <1>5, <2>1, TransitionContinues
  <2>3. i \in DOMAIN subs[s].eps /\ inv \in subs[s].eps[i].invs
    BY <2>1, <2>2
  <2> QED
    BY <1>5, <2>1, <2>3, TransitionContinues DEF Continues
<1>6. ASSUME NEW w \in Workers, AttachInvoice(w), subs'[s] # subs[s]
      PROVE  /\ i \in DOMAIN subs[s].eps
             /\ subs'[s].eps[i].id = subs[s].eps[i].id
             /\ \/ inv \in subs[s].eps[i].invs
                \/ /\ pc[w] = "attach" /\ s = ev[w].sub /\ inv = ev[w].inv
                   /\ subs[s].eps[i].id = LineageOf(w)
  <2> DEFINE new == Attached(subs[s], LineageOf(w), ev[w].inv)
  <2>1. s = ev[w].sub /\ subs'[s] = new
    BY <1>6, AttachContinues DEF TypeOK
  <2>2. /\ i \in DOMAIN subs[s].eps
        /\ Continues(subs[s], new)
        /\ inv \in subs[s].eps[i].invs
             \/ (inv = ev[w].inv /\ new.eps[i].id = LineageOf(w))
    BY <1>6, <2>1, AttachContinues
  <2>3. pc[w] = "attach"
    BY <1>6 DEF AttachInvoice, At
  <2> HIDE DEF new
  <2> QED
    BY <2>1, <2>2, <2>3 DEF Continues
<1>7. ASSUME NEW w \in Workers, pc[w] = "attach", s = ev[w].sub, inv = ev[w].inv,
             subs'[s].eps[i].id = LineageOf(w)
      PROVE  \E r \in invoices : IsRowOf(r, inv, s, subs'[s].eps[i].id)
  BY <1>7 DEF LineageInv, ListsARow
<1>8. DOMAIN <<>> = {}
  OBVIOUS
<1> QED
  BY <1>2, <1>3, <1>4, <1>5, <1>6, <1>7, <1>8, SubscriptionSteps

\* A halt that was found in a copy is one of the document.
LEMMA LineageIsKnown ==
  ASSUME TypeOK, Remembers, NEW w \in Workers, InsertInvoice(w), LineageOf(w) # NoEpisode
  PROVE  \E i \in DOMAIN subs[ev[w].sub].eps :
           /\ subs[ev[w].sub].eps[i].id = LineageOf(w)
           /\ subs[ev[w].sub].eps[i].halted <= ev[w].at
<1>1. pc[w] # "idle" /\ ev[w] \in Feed
  BY DEF InsertInvoice, HandlesInvoice, At, TypeOK
<1>2. snap[w] \in Subscription /\ ev[w].at \in Nat
  BY <1>1, EventFields DEF TypeOK
<1>3. PICK i \in DOMAIN snap[w].eps :
        snap[w].eps[i].id = LineageOf(w) /\ snap[w].eps[i].halted <= ev[w].at
  BY <1>2, Lineage DEF LineageOf
<1> QED
  BY <1>1, <1>3 DEF Remembers

LEMMA LineageStep ==
  ASSUME TypeOK, LineageInv, [Next]_vars
  PROVE  LineageInv'
<1>1. Remembers'
  <2>1. SUFFICES ASSUME NEW w \in Workers, pc'[w] # "idle", NEW i \in DOMAIN snap'[w].eps
                 PROVE  LET s == ev'[w].sub IN
                        /\ i \in DOMAIN subs'[s].eps
                        /\ subs'[s].eps[i].id = snap'[w].eps[i].id
                        /\ subs'[s].eps[i].halted = snap'[w].eps[i].halted
    BY DEF Remembers
  <2>2. CASE pc[w] # "idle" /\ ev'[w] = ev[w] /\ snap'[w] = snap[w]
    <3>1. ev[w].sub \in Subs
      BY <2>2, EventFields DEF TypeOK
    <3>2. Continues(subs[ev[w].sub], subs'[ev[w].sub])
      BY <3>1, SubscriptionsContinue
    <3> QED
      BY <2>1, <2>2, <3>2 DEF LineageInv, Remembers, Continues
  <2>3. CASE snap'[w] = subs[ev'[w].sub] /\ subs' = subs
    BY <2>1, <2>3
  <2>4. CASE Transition(w) /\ ev'[w] = ev[w] /\ snap'[w] = Updated(w)
    <3>1. subs'[ev[w].sub] = Updated(w)
      BY <2>4, TransitionContinues DEF TypeOK
    <3> QED
      BY <2>1, <2>4, <3>1
  <2> QED
    BY <2>1, <2>2, <2>3, <2>4, RequestSteps
<1>2. ListsARow'
  <2>1. SUFFICES ASSUME NEW w \in Workers, pc'[w] = "attach"
                 PROVE  \E r \in invoices' : IsRowOf(r, ev'[w].inv, ev'[w].sub, LineageOf(w)')
    BY DEF ListsARow
  <2>2. /\ ev'[w] = ev[w] /\ snap'[w] = snap[w]
        /\ pc[w] = "attach" \/ InsertInvoice(w)
    BY <2>1, RequestSteps
  <2>3. LineageOf(w)' = LineageOf(w)
    BY <2>2 DEF LineageOf
  <2>4. CASE pc[w] = "attach"
    <3>1. PICK r \in invoices : IsRowOf(r, ev[w].inv, ev[w].sub, LineageOf(w))
      BY <2>4 DEF LineageInv, ListsARow
    <3>2. PICK q \in invoices' : SameInvoice(q, r)
      BY RowsStay
    <3> QED
      BY <2>2, <2>3, <3>1, <3>2 DEF SameInvoice, IsRowOf
  <2>5. CASE InsertInvoice(w)
    <3> DEFINE row == [id |-> ev[w].inv, sub |-> ev[w].sub, cycle |-> ev[w].cycle,
                       at |-> ev[w].at, ep |-> LineageOf(w), status |-> "UNPAID"]
    <3>1. row \in invoices'
      BY <2>5 DEF InsertInvoice
    <3>2. row.id = ev[w].inv /\ row.sub = ev[w].sub /\ row.ep = LineageOf(w)
      OBVIOUS
    <3> HIDE DEF row
    <3> QED
      BY <2>2, <2>3, <3>1, <3>2 DEF IsRowOf
  <2> QED
    BY <2>2, <2>4, <2>5
<1>3. RowsNameHalts'
  <2>1. SUFFICES ASSUME NEW q \in invoices', q.ep # NoEpisode
                 PROVE  \E i \in DOMAIN subs'[q.sub].eps :
                          /\ subs'[q.sub].eps[i].id = q.ep
                          /\ subs'[q.sub].eps[i].halted <= q.at
    BY DEF RowsNameHalts
  <2>2. \A s \in Subs : \A i \in DOMAIN subs[s].eps :
          /\ i \in DOMAIN subs'[s].eps
          /\ subs'[s].eps[i].id = subs[s].eps[i].id
          /\ subs'[s].eps[i].halted = subs[s].eps[i].halted
    BY SubscriptionsContinue DEF Continues
  <2>3. ASSUME NEW r \in invoices, SameInvoice(q, r)
        PROVE  \E i \in DOMAIN subs'[q.sub].eps :
                 /\ subs'[q.sub].eps[i].id = q.ep
                 /\ subs'[q.sub].eps[i].halted <= q.at
    <3>1. r.sub \in Subs
      BY DEF TypeOK, Row
    <3>2. PICK i \in DOMAIN subs[r.sub].eps :
            subs[r.sub].eps[i].id = r.ep /\ subs[r.sub].eps[i].halted <= r.at
      BY <2>1, <2>3 DEF LineageInv, RowsNameHalts, SameInvoice
    <3> QED
      BY <2>2, <2>3, <3>1, <3>2 DEF SameInvoice
  <2>4. ASSUME NEW w \in Workers, InsertInvoice(w), q.sub = ev[w].sub,
               q.at = ev[w].at, q.ep = LineageOf(w)
        PROVE  \E i \in DOMAIN subs'[q.sub].eps :
                 /\ subs'[q.sub].eps[i].id = q.ep
                 /\ subs'[q.sub].eps[i].halted <= q.at
    <3>1. subs' = subs
      BY <2>4 DEF InsertInvoice
    <3> QED
      BY <2>1, <2>4, <3>1, LineageIsKnown DEF LineageInv
  <2> QED
    BY <2>3, <2>4, RowsStay
<1> QED
  BY <1>1, <1>2, <1>3, ListingStep DEF LineageInv

LEMMA LineageInvariant == Spec => []LineageInv
<1>1. Init => LineageInv
  BY DEF Init, LineageInv, Remembers, ListsARow, RowsNameHalts, ListingsHaveRows, Absent
<1>2. TypeOK /\ LineageInv /\ [Next]_vars => LineageInv'
  BY LineageStep
<1> QED
  BY <1>1, <1>2, TypeCorrect, PTL DEF Spec

\* The lineage of every invoice row is real, and a halt lists only the invoices
\* whose rows say so, though rows and listings are written by two calls from a
\* copy that may be old.
THEOREM LineageIsReal == Spec => []LineageNamesAHalt
<1>1. LineageInv => LineageNamesAHalt
  BY DEF LineageInv, RowsNameHalts, ListingsHaveRows, IsRowOf, LineageNamesAHalt
<1> QED
  BY <1>1, LineageInvariant, PTL

-----------------------------------------------------------------------------
(* The abstract halt cycle.                                                *)

\* The abstract machine walks the same graph.
LEMMA SameGraph == Cycle!Edges = Edges /\ Cycle!Statuses = Statuses
BY DEF Cycle!Edges, Edges, Cycle!Permitted, Permitted, Cycle!Target, Target, Cycle!Lifecycle,
       Lifecycle, Cycle!Statuses, Statuses

HasOpen(sub) == \E i \in DOMAIN sub.eps : IsOpen(sub.eps[i])

\* What the abstract machine sees.
StatusNow == [s \in Subs |-> subs[s].status]
HaltsNow == [s \in Subs |-> Len(subs[s].eps)]
OpenNow == [s \in Subs |-> HasOpen(subs[s])]

\* It sees a change of one subscription as a change of that one.
LEMMA SeenOfOne ==
  ASSUME TypeOK, NEW s \in Subs, NEW new, subs' = [subs EXCEPT ![s] = new]
  PROVE  /\ StatusNow' = [StatusNow EXCEPT ![s] = new.status]
         /\ HaltsNow' = [HaltsNow EXCEPT ![s] = Len(new.eps)]
         /\ OpenNow' = [OpenNow EXCEPT ![s] = HasOpen(new)]
<1>1. \A t \in Subs : subs'[t] = IF t = s THEN new ELSE subs[t]
  BY DEF TypeOK
<1>2. /\ \A t \in Subs : StatusNow'[t] = IF t = s THEN new.status ELSE StatusNow[t]
      /\ \A t \in Subs : HaltsNow'[t] = IF t = s THEN Len(new.eps) ELSE HaltsNow[t]
  BY <1>1 DEF StatusNow, HaltsNow
<1>3. \A t \in Subs : OpenNow'[t] = IF t = s THEN HasOpen(new) ELSE OpenNow[t]
  BY <1>1 DEF OpenNow, HasOpen
<1>4. /\ StatusNow = [t \in Subs |-> StatusNow[t]]
      /\ StatusNow' = [t \in Subs |-> StatusNow'[t]]
      /\ HaltsNow = [t \in Subs |-> HaltsNow[t]]
      /\ HaltsNow' = [t \in Subs |-> HaltsNow'[t]]
      /\ OpenNow = [t \in Subs |-> OpenNow[t]]
      /\ OpenNow' = [t \in Subs |-> OpenNow'[t]]
  BY DEF StatusNow, HaltsNow, OpenNow
<1>5. StatusNow' = [StatusNow EXCEPT ![s] = new.status]
  BY <1>2, <1>4
<1>6. HaltsNow' = [HaltsNow EXCEPT ![s] = Len(new.eps)]
  BY <1>2, <1>4
<1>7. OpenNow' = [OpenNow EXCEPT ![s] = HasOpen(new)]
  BY <1>3, <1>4
<1> QED
  BY <1>5, <1>6, <1>7

LEMMA SeenTransition ==
  ASSUME TypeOK, OpenOnlyWhileHalted, NEW w \in Workers, Transition(w)
  PROVE  LET s == ev[w].sub IN
         /\ s \in Subs
         /\ <<StatusNow[s], StatusNow'[s]>> \in Edges
         /\ StatusNow' = [StatusNow EXCEPT ![s] = StatusNow'[s]]
         /\ StatusNow'[s] = "HALTED" =>
              /\ HaltsNow' = [HaltsNow EXCEPT ![s] = @ + 1]
              /\ OpenNow' = [OpenNow EXCEPT ![s] = TRUE]
         /\ StatusNow'[s] # "HALTED" =>
              /\ HaltsNow' = HaltsNow
              /\ OpenNow' = [OpenNow EXCEPT ![s] = FALSE]
         /\ StatusNow[s] # "HALTED" => OpenNow[s] = FALSE
<1> DEFINE s == ev[w].sub
           old == subs[s]
           new == subs'[s]
<1>1. /\ s \in Subs /\ old \in Subscription /\ new \in Subscription
      /\ subs' = [subs EXCEPT ![s] = new]
      /\ <<old.status, new.status>> \in Edges
      /\ new.status = "HALTED" => Len(new.eps) = Len(old.eps) + 1
      /\ new.status # "HALTED" => Len(new.eps) = Len(old.eps)
      /\ \A i \in 1..Len(old.eps) :
           IF old.status = "HALTED" THEN ~ IsOpen(new.eps[i]) ELSE new.eps[i] = old.eps[i]
      /\ new.status = "HALTED" => IsOpen(new.eps[Len(old.eps) + 1])
  BY TransitionEffect
<1>2. /\ StatusNow' = [StatusNow EXCEPT ![s] = new.status]
      /\ HaltsNow' = [HaltsNow EXCEPT ![s] = Len(new.eps)]
      /\ OpenNow' = [OpenNow EXCEPT ![s] = HasOpen(new)]
  BY <1>1, SeenOfOne
<1>3. /\ DOMAIN old.eps = 1..Len(old.eps) /\ Len(old.eps) \in Nat
      /\ DOMAIN new.eps = 1..Len(new.eps) /\ Len(new.eps) \in Nat
  BY <1>1, EpisodeAt
<1>4. old.status # "HALTED" => \A i \in DOMAIN old.eps : ~ IsOpen(old.eps[i])
  BY <1>1 DEF OpenOnlyWhileHalted
<1>5. StatusNow[s] = old.status /\ HaltsNow[s] = Len(old.eps) /\ OpenNow[s] = HasOpen(old)
  BY <1>1 DEF StatusNow, HaltsNow, OpenNow
<1>6. StatusNow'[s] = new.status
  BY <1>1, <1>2 DEF StatusNow
<1>7. /\ DOMAIN StatusNow = Subs /\ DOMAIN HaltsNow = Subs /\ DOMAIN OpenNow = Subs
      /\ HaltsNow = [HaltsNow EXCEPT ![s] = Len(old.eps)]
  BY <1>5 DEF StatusNow, HaltsNow, OpenNow
<1> HIDE DEF new, old
<1>8. new.status = "HALTED" => HasOpen(new)
  <2>1. SUFFICES ASSUME new.status = "HALTED"
                 PROVE  Len(old.eps) + 1 \in DOMAIN new.eps /\ IsOpen(new.eps[Len(old.eps) + 1])
    BY DEF HasOpen
  <2> QED
    BY <1>1, <1>3, <2>1
<1>9. new.status # "HALTED" => ~HasOpen(new)
  <2>1. SUFFICES ASSUME new.status # "HALTED", NEW i \in 1..Len(old.eps)
                 PROVE  ~IsOpen(new.eps[i])
    BY <1>1, <1>3 DEF HasOpen
  <2> QED
    BY <1>1, <1>3, <1>4, <2>1
<1>10. old.status # "HALTED" => ~HasOpen(old)
  BY <1>4 DEF HasOpen
<1>11. HasOpen(new) \in BOOLEAN /\ HasOpen(old) \in BOOLEAN
  BY DEF HasOpen
<1> QED
  BY <1>1, <1>2, <1>5, <1>6, <1>7, <1>8, <1>9, <1>10, <1>11

LEMMA CycleStep ==
  ASSUME TypeOK, OpenOnlyWhileHalted, [Next]_vars
  PROVE  [Cycle!HCNext]_(Cycle!hcVars)
<1>1. CASE UNCHANGED <<subs, history>>
  BY <1>1 DEF Cycle!hcVars
<1>2. ASSUME NEW s \in Subs, NEW status \in Statuses, Create(s, status)
      PROVE  Cycle!Begin(s)
  <2> DEFINE new == [Absent EXCEPT !.status = status]
  <2>1. subs' = [subs EXCEPT ![s] = new] /\ new.status = status /\ new.eps = Absent.eps
    BY <1>2 DEF Create, TypeOK, Absent
  <2>2. subs[s] = Absent /\ Absent.status = "absent"
    BY <1>2 DEF Create, Absent
  <2> HIDE DEF new
  <2>3. /\ StatusNow' = [StatusNow EXCEPT ![s] = status]
        /\ HaltsNow' = HaltsNow
        /\ OpenNow' = OpenNow
    <3>1. HasOpen(new) = HasOpen(subs[s]) /\ Len(new.eps) = Len(subs[s].eps)
      BY <2>1, <2>2 DEF HasOpen
    <3>2. /\ HaltsNow = [HaltsNow EXCEPT ![s] = Len(new.eps)]
          /\ OpenNow = [OpenNow EXCEPT ![s] = HasOpen(new)]
      BY <3>1 DEF HaltsNow, OpenNow
    <3>3. /\ StatusNow' = [StatusNow EXCEPT ![s] = new.status]
          /\ HaltsNow' = [HaltsNow EXCEPT ![s] = Len(new.eps)]
          /\ OpenNow' = [OpenNow EXCEPT ![s] = HasOpen(new)]
      BY <2>1, SeenOfOne
    <3> QED
      BY <2>1, <3>2, <3>3
  <2> QED
    BY <2>2, <2>3, SameGraph DEF Cycle!Begin, StatusNow, HaltsNow, OpenNow, HasOpen
<1>3. ASSUME NEW w \in Workers, Transition(w)
      PROVE  Cycle!HCNext
  <2> SUFFICES ASSUME NEW s \in Subs, s = ev[w].sub
               PROVE  Cycle!HCNext
    BY <1>3, SeenTransition
  <2>1. /\ <<StatusNow[s], StatusNow'[s]>> \in Edges
        /\ StatusNow' = [StatusNow EXCEPT ![s] = StatusNow'[s]]
        /\ StatusNow'[s] = "HALTED" =>
             /\ HaltsNow' = [HaltsNow EXCEPT ![s] = @ + 1]
             /\ OpenNow' = [OpenNow EXCEPT ![s] = TRUE]
        /\ StatusNow'[s] # "HALTED" =>
             /\ HaltsNow' = HaltsNow
             /\ OpenNow' = [OpenNow EXCEPT ![s] = FALSE]
        /\ StatusNow[s] # "HALTED" => OpenNow[s] = FALSE
    BY <1>3, SeenTransition
  <2>2. /\ StatusNow'[s] \in Statuses
        /\ StatusNow[s] = "HALTED" => StatusNow'[s] = "ACTIVE"
    BY <2>1 DEF Edges, Permitted, Target, Lifecycle, Statuses
  <2>3. OpenNow[s] = FALSE => OpenNow = [OpenNow EXCEPT ![s] = FALSE]
    BY DEF OpenNow
  <2>4. ASSUME StatusNow'[s] = "HALTED" PROVE Cycle!Halt(s)
    BY <2>1, <2>4, SameGraph DEF Cycle!Halt, StatusNow, HaltsNow, OpenNow, HasOpen
  <2>5. ASSUME StatusNow[s] = "HALTED" PROVE Cycle!Return(s)
    BY <2>1, <2>2, <2>5 DEF Cycle!Return, StatusNow, HaltsNow, OpenNow, HasOpen
  <2>6. ASSUME StatusNow[s] # "HALTED", StatusNow'[s] # "HALTED" PROVE Cycle!MoveOn(s)
    BY <2>1, <2>2, <2>3, <2>6, SameGraph
    DEF Cycle!MoveOn, StatusNow, HaltsNow, OpenNow, HasOpen
  <2>7. Cycle!Halt(s) \/ Cycle!Return(s) \/ Cycle!MoveOn(s)
    BY <2>4, <2>5, <2>6
  <2> QED
    BY <2>7 DEF Cycle!HCNext
<1>4. ASSUME NEW w \in Workers, AttachInvoice(w)
      PROVE  UNCHANGED Cycle!hcVars
  <2> DEFINE s == ev[w].sub
             new == Attached(subs[s], LineageOf(w), ev[w].inv)
  <2>1. ev[w] \in Feed
    BY <1>4 DEF AttachInvoice, TypeOK, At
  <2>2. s \in Subs /\ subs[s] \in Subscription /\ ev[w].inv \in InvoiceIds
    BY <2>1, EventFields DEF TypeOK
  <2>3. subs' = [subs EXCEPT ![s] = new]
    BY <1>4 DEF AttachInvoice
  <2>4. /\ new.status = subs[s].status
        /\ DOMAIN new.eps = DOMAIN subs[s].eps
        /\ Len(new.eps) = Len(subs[s].eps)
        /\ \A i \in DOMAIN new.eps : new.eps[i].react = subs[s].eps[i].react
    BY <2>2, AttachedShape
  <2>5. HasOpen(new) = HasOpen(subs[s])
    BY <2>4 DEF HasOpen, IsOpen
  <2> HIDE DEF new
  <2>6. StatusNow' = StatusNow /\ HaltsNow' = HaltsNow /\ OpenNow' = OpenNow
    BY <2>2, <2>3, <2>4, <2>5, SeenOfOne DEF StatusNow, HaltsNow, OpenNow
  <2> QED
    BY <2>6 DEF Cycle!hcVars, StatusNow, HaltsNow, OpenNow, HasOpen
<1>5. ASSUME NEW s \in Subs, NEW status \in Statuses, Create(s, status)
      PROVE  Cycle!HCNext
  BY <1>2, <1>5 DEF Cycle!HCNext
<1> QED
  BY <1>1, <1>3, <1>4, <1>5, SubscriptionSteps

\* Ingestion implements the halt cycle, for any number of workers and crashes: a
\* halt is begun and ended with the status that means it.
THEOREM ImplementsTheHaltCycle == Spec => KeepsTheHaltCycle
<1>1. Init => Cycle!HCInit
  BY DEF Init, Cycle!HCInit, Absent
<1>2. TypeOK /\ OpenOnlyWhileHalted /\ [Next]_vars => [Cycle!HCNext]_(Cycle!hcVars)
  BY CycleStep
<1> QED
  BY <1>1, <1>2, TypeCorrect, OneOpenEpisode, PTL DEF Spec, KeepsTheHaltCycle, Cycle!HCSpec

-----------------------------------------------------------------------------
(* The audit trail.                                                        *)

TrailStep == [TrailNext]_allVars

LEMMA TrailStepIsLedgerStep ==
  ASSUME TrailStep
  PROVE  [Next]_vars
<1>1. CASE \E s \in Named, status \in Statuses : Create(s, status)
  BY <1>1 DEF Next, Arrive
<1>2. ASSUME NEW w \in Workers,
             Takes(w) \/ Work(w) \/ Number(w) \/ AppendLine(w) \/ Dies(w)
      PROVE  [Next]_vars
  <2>1. CASE Takes(w)
    BY <2>1 DEF Takes, Next, Arrive
  <2>2. CASE Work(w)
    <3>1. CASE Silent(w)
      BY <3>1 DEF Silent, Next, Step, Serve, Lifecycles, InvoicesAndPayments
    <3>2. CASE Telling(w)
      BY <3>2 DEF Telling, Next, Step, Serve, Lifecycles, InvoicesAndPayments
    <3> QED
      BY <2>2, <3>1, <3>2 DEF Work
  <2>3. CASE Number(w) \/ AppendLine(w) \/ Dies(w)
    BY <2>3 DEF Number, AppendLine, Dies, Next
  <2> QED
    BY <1>2, <2>1, <2>2, <2>3
<1>3. CASE UNCHANGED allVars
  BY <1>3 DEF allVars
<1> QED
  BY <1>1, <1>2, <1>3 DEF TrailStep, TrailNext

\* Telling what was done changes nothing of what is done: with its trail ingestion
\* is still a behaviour of Ledger, so that all that is proved of Ledger holds here.
THEOREM TellingIsHarmless == TrailSpec => Spec
<1>1. TrailInit => Init
  BY DEF TrailInit
<1>2. [TrailNext]_allVars => [Next]_vars
  BY TrailStepIsLedgerStep DEF TrailStep
<1> QED
  BY <1>1, <1>2, PTL DEF TrailSpec, Spec

-----------------------------------------------------------------------------
(* One line per number.                                                    *)

TrailShape ==
  /\ seq \in [Subs -> Nat]
  /\ trail \subseteq Line
  /\ due \in [Workers -> Seq(Entry)]
  /\ held \in [Workers -> Nat]

\* What is numbered has been counted, and who holds a number has a line for it.
Counted ==
  /\ \A l \in trail : l.seq <= seq[l.entry.sub]
  /\ \A w \in Workers : held[w] # 0 =>
       due[w] # <<>> /\ held[w] <= seq[Head(due[w]).sub]

TrailInv == TrailShape /\ Counted /\ OneLinePerNumber

\* What a worker owes is about the event it is at work on.
LEMMA AboutIsEntry ==
  ASSUME TypeOK, NEW w \in Workers, pc[w] # "idle", NEW type \in LineTypes,
         NEW ep \in Nat
  PROVE  About(w, type, ep) \in Entry
<1>1. ev[w] \in Feed
  BY DEF TypeOK
<1> QED
  BY <1>1, EventFields DEF About, Entry

\* The episode ingestion believes it closed is one of the subscription's.
LEMMA JustClosedIsThere ==
  ASSUME NEW sub \in Subscription, sub.eps # <<>>, NEW at
  PROVE  \E i \in DOMAIN sub.eps : JustClosed(sub, at) = sub.eps[i]
<1> DEFINE hits == {i \in DOMAIN sub.eps : sub.eps[i].react = at}
<1>1. Len(sub.eps) \in Nat /\ DOMAIN sub.eps = 1..Len(sub.eps)
  BY EpisodeAt
<1>2. Len(sub.eps) \in DOMAIN sub.eps
  <2>1. sub.eps \in Seq(Episode)
    BY DEF Subscription
  <2>2. Len(sub.eps) # 0
    BY <2>1, EmptySeq
  <2> QED
    BY <1>1, <2>2
<1>3. CASE hits = {}
  <2>1. JustClosed(sub, at) = sub.eps[Len(sub.eps)]
    BY <1>3 DEF JustClosed
  <2> QED
    BY <1>2, <2>1
<1>4. CASE hits # {}
  <2>1. hits \in SUBSET Nat
    BY <1>1
  <2>2. First(hits) \in hits
    BY <1>4, <2>1, FirstOf
  <2>3. JustClosed(sub, at) = sub.eps[First(hits)]
    BY <1>4 DEF JustClosed
  <2> QED
    BY <2>2, <2>3
<1> QED
  BY <1>3, <1>4

LEMMA JustClosedId ==
  ASSUME NEW sub \in Subscription, sub.eps # <<>>, NEW at
  PROVE  JustClosed(sub, at).id \in Nat
<1>1. \A i \in DOMAIN sub.eps : sub.eps[i] \in Episode
  BY EpisodeAt
<1> QED
  BY <1>1, JustClosedIsThere DEF Episode

\* A worker that takes a step of its own owes lines about its event.
LEMMA MovedLines ==
  ASSUME TypeOK, NEW w \in Workers, Transition(w)
  PROVE  Moved(w) \in Seq(Entry)
<1>1. WantsTransition(w) /\ pc[w] # "idle"
  BY DEF Transition, WantsTransition, HandlesLifecycle, At
<1>2. Updated(w) \in Subscription
  BY <1>1, TransitionWrites
<1> DEFINE moved == Tell(w, "STATE_TRANSITION")
           opened == About(w, "HALT_EPISODE_OPENED", NewEpisode(w)[1].id)
           ep == IF Updated(w).eps = <<>> THEN NoEpisode
                 ELSE JustClosed(Updated(w), ev[w].at).id
           closed == About(w, "HALT_EPISODE_CLOSED", ep)
<1>3. moved \in Entry
  BY <1>1, AboutIsEntry DEF Tell, LineTypes, NoEpisode
<1>4. Opens(snap[w].status, ev[w].type) => opened \in Entry
  <2>1. Len(snap[w].eps) + 1 \in Nat
    BY EpisodeAt DEF TypeOK
  <2>2. Opens(snap[w].status, ev[w].type) => NewEpisode(w)[1].id = Len(snap[w].eps) + 1
    BY DEF NewEpisode
  <2> QED
    BY <1>1, <2>1, <2>2, AboutIsEntry DEF LineTypes
<1>5. closed \in Entry
  <2>1. ep \in Nat
    BY <1>2, JustClosedId DEF NoEpisode
  <2> HIDE DEF ep
  <2> QED
    BY <1>1, <2>1, AboutIsEntry DEF LineTypes
<1>6. Moved(w) =
        <<moved>> \o
        (IF Opens(snap[w].status, ev[w].type) THEN <<opened>> ELSE <<>>) \o
        (IF Closes(snap[w].status, ev[w].type) THEN <<closed>> ELSE <<>>)
  BY DEF Moved
<1> HIDE DEF moved, opened, closed
<1> QED
  BY <1>3, <1>4, <1>5, <1>6

LEMMA WorkOwes ==
  ASSUME TypeOK, NEW w \in Workers, Work(w)
  PROVE  \E entries \in Seq(Entry) : Owes(w, entries)
<1>1. pc[w] # "idle" => \A type \in LineTypes : <<Tell(w, type)>> \in Seq(Entry)
  BY AboutIsEntry DEF Tell, NoEpisode
<1>2. CASE Silent(w)
  BY <1>2, EmptySeq DEF Silent
<1>3. CASE Telling(w)
  <2>1. ASSUME pc[w] # "idle", NEW type \in LineTypes, Owes(w, <<Tell(w, type)>>)
        PROVE  \E entries \in Seq(Entry) : Owes(w, entries)
    BY <1>1, <2>1
  <2>2. CASE Claim(w) /\ Owes(w, <<Tell(w, "EVENT_RECEIVED")>>)
    BY <2>1, <2>2 DEF Claim, At, LineTypes
  <2>3. CASE Duplicate(w) /\ Owes(w, <<Tell(w, "EVENT_DUPLICATE")>>)
    BY <2>1, <2>3 DEF Duplicate, At, LineTypes
  <2>4. CASE NoOp(w) /\ Owes(w, <<Tell(w, "STATE_NO_OP")>>)
    BY <2>1, <2>4 DEF NoOp, HandlesLifecycle, At, LineTypes
  <2>5. CASE Transition(w) /\ Owes(w, Moved(w))
    BY <2>5, MovedLines
  <2>6. CASE HandlesInvoice(w) \/ At(w, "attach")
    <3>1. pc[w] # "idle" /\ ev[w] \in Feed
      BY <2>6 DEF HandlesInvoice, At, TypeOK
    <3>2. LineageOf(w) \in Nat
      BY <3>1, EventFields, Lineage DEF LineageOf, TypeOK
    <3>3. Recorded(w) \in Seq(Entry)
      BY <3>1, <3>2, AboutIsEntry DEF Recorded, LineTypes
    <3> QED
      BY <1>1, <1>3, <2>1, <2>2, <2>3, <2>4, <2>5, <3>1, <3>3, EmptySeq
      DEF Telling, SettleInvoice, Mark, LineTypes
  <2>7. CASE InsertInvoice(w) \/ AttachInvoice(w)
    BY <2>6, <2>7 DEF InsertInvoice, AttachInvoice
  <2>8. CASE SettleInvoice(w) /\ Owes(w, IF invoices' = invoices THEN <<>>
                                        ELSE <<Tell(w, "INVOICE_PAID")>>)
    <3>1. pc[w] # "idle"
      BY <2>8 DEF SettleInvoice, At
    <3> QED
      BY <1>1, <2>8, <3>1, EmptySeq DEF LineTypes
  <2>9. CASE Mark(w) /\ Owes(w, <<Tell(w, IF res[w] \in Processed THEN "EVENT_PROCESSED"
                                          ELSE "EVENT_REJECTED")>>)
    BY <2>1, <2>9 DEF Mark, At, LineTypes
  <2> QED
    BY <1>3, <2>2, <2>3, <2>4, <2>5, <2>7, <2>8, <2>9 DEF Telling
<1> QED
  BY <1>2, <1>3 DEF Work

LEMMA FirstOwed ==
  ASSUME TrailShape, NEW w \in Workers, due[w] # <<>>
  PROVE  /\ Head(due[w]) = due[w][1] /\ Head(due[w]) \in Entry
         /\ due[w][1].sub \in Subs
         /\ Tail(due[w]) \in Seq(Entry)
<1>1. due[w] \in Seq(Entry)
  BY DEF TrailShape
<1>2. Head(due[w]) = due[w][1] /\ Head(due[w]) \in Entry /\ Tail(due[w]) \in Seq(Entry)
  BY <1>1
<1> QED
  BY <1>2 DEF Entry

LEMMA TrailInvStep ==
  ASSUME TypeOK, TrailInv, TrailStep
  PROVE  TrailInv'
<1>1. ASSUME UNCHANGED trailVars
      PROVE  TrailInv'
  BY <1>1 DEF TrailInv, TrailShape, Counted, OneLinePerNumber, trailVars
<1>2. ASSUME NEW w \in Workers, Work(w)
      PROVE  TrailInv'
  <2>1. PICK entries \in Seq(Entry) : Owes(w, entries)
    BY <1>2, WorkOwes
  <2>2. due[w] = <<>> /\ held[w] = 0
    BY <1>2 DEF Work, TrailInv, Counted
  <2>3. /\ due' = [due EXCEPT ![w] = entries]
        /\ seq' = seq /\ trail' = trail /\ held' = held
    BY <2>1 DEF Owes
  <2>4. \A v \in Workers : v # w => due'[v] = due[v]
    BY <2>3 DEF TrailInv, TrailShape
  <2>5. TrailShape'
    BY <2>3 DEF TrailInv, TrailShape
  <2>6. Counted'
    BY <2>2, <2>3, <2>4 DEF TrailInv, Counted
  <2>7. OneLinePerNumber'
    BY <2>2, <2>3, <2>4 DEF TrailInv, OneLinePerNumber
  <2> QED
    BY <2>5, <2>6, <2>7 DEF TrailInv
<1>3. ASSUME NEW w \in Workers, Number(w)
      PROVE  TrailInv'
  <2> DEFINE s == Head(due[w]).sub
             n == seq[s] + 1
  <2>1. /\ due[w] # <<>> /\ Head(due[w]) = due[w][1]
        /\ s \in Subs /\ seq[s] \in Nat /\ n \in Nat \ {0}
    <3>1. due[w] # <<>> /\ Head(due[w]) = due[w][1] /\ due[w][1].sub \in Subs
      BY <1>3, FirstOwed DEF Number, TrailInv
    <3> QED
      BY <3>1 DEF TrailInv, TrailShape
  <2>2. /\ seq' = [seq EXCEPT ![s] = n] /\ held' = [held EXCEPT ![w] = n]
        /\ trail' = trail /\ due' = due
    BY <1>3 DEF Number
  <2> HIDE DEF s, n
  <2>3. /\ seq'[s] = n /\ held'[w] = n
        /\ \A t \in Subs : t # s => seq'[t] = seq[t]
        /\ \A v \in Workers : v # w => held'[v] = held[v]
        /\ \A t \in Subs : seq[t] \in Nat /\ seq[t] <= seq'[t]
    BY <2>1, <2>2 DEF TrailInv, TrailShape, n
  <2>4. TrailShape'
    BY <2>1, <2>2 DEF TrailInv, TrailShape
  <2>5. \A l \in trail : l.seq \in Nat /\ l.entry.sub \in Subs /\ l.seq <= seq[l.entry.sub]
    BY DEF TrailInv, TrailShape, Counted, Line, Entry
  <2>6. \A v \in Workers : held[v] # 0 =>
          /\ held[v] \in Nat /\ due[v] # <<>> /\ Head(due[v]) = due[v][1]
          /\ due[v][1].sub \in Subs /\ held[v] <= seq[due[v][1].sub]
    BY FirstOwed DEF TrailInv, TrailShape, Counted
  <2>7. Counted'
    <3>1. \A l \in trail : l.seq <= seq'[l.entry.sub]
      BY <2>3, <2>4, <2>5 DEF TrailShape
    <3>2. ASSUME NEW v \in Workers, held'[v] # 0
          PROVE  due[v] # <<>> /\ held'[v] <= seq'[Head(due[v]).sub]
      <4>1. CASE v = w
        BY <2>1, <2>3, <4>1 DEF s, n
      <4>2. CASE v # w
        <5>1. held'[v] = held[v] /\ held[v] # 0
          BY <2>3, <3>2, <4>2
        <5>2. /\ held[v] \in Nat /\ due[v] # <<>> /\ Head(due[v]) = due[v][1]
              /\ due[v][1].sub \in Subs /\ held[v] <= seq[due[v][1].sub]
          BY <2>6, <5>1
        <5>3. /\ seq[due[v][1].sub] \in Nat /\ seq'[due[v][1].sub] \in Nat
              /\ seq[due[v][1].sub] <= seq'[due[v][1].sub]
          BY <2>3, <2>4, <5>2 DEF TrailShape
        <5> QED
          BY <5>1, <5>2, <5>3
      <4> QED
        BY <4>1, <4>2
    <3> QED
      BY <2>2, <3>1, <3>2 DEF Counted
  <2>8. OneLinePerNumber'
    <3>1. \A l \in trail : l.entry.sub = s => l.seq # n
      BY <2>1, <2>5 DEF n
    <3>2. \A v \in Workers : v # w /\ held[v] = n => due[v][1].sub # s
      BY <2>1, <2>6 DEF n
    <3>3. due[w][1].sub = s
      BY <2>1 DEF s
    <3> QED
      BY <2>1, <2>2, <2>3, <3>1, <3>2, <3>3 DEF TrailInv, OneLinePerNumber
  <2> QED
    BY <2>4, <2>7, <2>8 DEF TrailInv
<1>4. ASSUME NEW w \in Workers, AppendLine(w)
      PROVE  TrailInv'
  <2> DEFINE line == [seq |-> held[w], entry |-> Head(due[w])]
  <2>1. /\ held[w] \in Nat \ {0} /\ due[w] \in Seq(Entry) /\ due[w] # <<>>
        /\ Head(due[w]) \in Entry /\ Head(due[w]) = due[w][1]
        /\ held[w] <= seq[Head(due[w]).sub]
    BY <1>4 DEF AppendLine, TrailInv, TrailShape, Counted
  <2>2. Tail(due[w]) \in Seq(Entry)
    BY <2>1, FirstOwed DEF TrailInv
  <2>3. /\ trail' = trail \cup {line} /\ seq' = seq
        /\ due' = [due EXCEPT ![w] = Tail(@)] /\ held' = [held EXCEPT ![w] = 0]
    BY <1>4 DEF AppendLine
  <2>4. /\ held'[w] = 0
        /\ \A v \in Workers : v # w => held'[v] = held[v] /\ due'[v] = due[v]
    BY <2>3 DEF TrailInv, TrailShape
  <2>5. line \in Line /\ line.seq = held[w] /\ line.entry = due[w][1]
    BY <2>1 DEF Line
  <2> HIDE DEF line
  <2>6. TrailShape'
    BY <2>2, <2>3, <2>5 DEF TrailInv, TrailShape
  <2>7. Counted'
    BY <2>1, <2>3, <2>4, <2>5 DEF TrailInv, Counted
  <2>8. OneLinePerNumber'
    <3>1. \A l \in trail : l.entry.sub = line.entry.sub => l.seq # line.seq
      BY <2>1, <2>5 DEF TrailInv, OneLinePerNumber
    <3>2. \A v \in Workers :
            v # w /\ held[v] # 0 /\ line.entry.sub = due[v][1].sub => line.seq # held[v]
      BY <2>1, <2>5 DEF TrailInv, OneLinePerNumber
    <3> QED
      BY <2>3, <2>4, <3>1, <3>2 DEF TrailInv, OneLinePerNumber
  <2> QED
    BY <2>6, <2>7, <2>8 DEF TrailInv
<1>5. ASSUME NEW w \in Workers, Dies(w)
      PROVE  TrailInv'
  <2>1. /\ due' = [due EXCEPT ![w] = <<>>] /\ held' = [held EXCEPT ![w] = 0]
        /\ seq' = seq /\ trail' = trail
    BY <1>5 DEF Dies
  <2>2. /\ held'[w] = 0
        /\ \A v \in Workers : v # w => held'[v] = held[v] /\ due'[v] = due[v]
    BY <2>1 DEF TrailInv, TrailShape
  <2>3. TrailShape'
    BY <2>1, EmptySeq DEF TrailInv, TrailShape
  <2> QED
    BY <2>1, <2>2, <2>3 DEF TrailInv, Counted, OneLinePerNumber
<1> QED
  BY <1>1, <1>2, <1>3, <1>4, <1>5 DEF TrailStep, TrailNext, Takes, allVars

LEMMA TrailInvariant == TrailSpec => []TrailInv
<1>1. TrailInit => TrailInv
  BY EmptySeq DEF TrailInit, TrailInv, TrailShape, Counted, OneLinePerNumber
<1>2. TrailSpec => []TypeOK
  BY TellingIsHarmless, TypeCorrect, PTL
<1>3. TypeOK /\ TrailInv /\ [TrailNext]_allVars => TrailInv'
  BY TrailInvStep DEF TrailStep
<1> QED
  BY <1>1, <1>2, <1>3, PTL DEF TrailSpec

LEMMA LedgerInvariants == TrailSpec => [](TypeOK /\ OnceInv /\ LineageInv)
BY TellingIsHarmless, TypeCorrect, OnceInvariant, LineageInvariant, PTL

\* No two lines claim one place, neither written nor about to be: the number is
\* taken by $inc, so it is past every number that was ever given out, and a crash
\* only leaves a gap.
THEOREM NumbersAreUnique == TrailSpec => []OneLinePerNumber
BY TrailInvariant, PTL DEF TrailInv

-----------------------------------------------------------------------------
(* What the lines say.                                                     *)

\* A line of the trail, or one that a worker has still to write, tells what
\* happened.
TrueEntry(e) ==
  /\ e.type = "STATE_TRANSITION" =>
       \E i \in DOMAIN history[e.sub] : history[e.sub][i].id = e.event
  /\ e.type = "HALT_EPISODE_OPENED" =>
       \E i \in DOMAIN subs[e.sub].eps : subs[e.sub].eps[i].id = e.ep
  /\ e.type = "HALT_EPISODE_CLOSED" /\ e.ep # NoEpisode =>
       \E i \in DOMAIN subs[e.sub].eps :
         subs[e.sub].eps[i].id = e.ep /\ ~IsOpen(subs[e.sub].eps[i])
  /\ e.type = "INVOICE_RECORDED" =>
       \E r \in invoices : r.sub = e.sub /\ r.ep = e.ep
  /\ e.type = "EVENT_PROCESSED" => store[e.event] \in Processed
  /\ e.type = "EVENT_REJECTED" => store[e.event] \in Rejected

Truthful ==
  /\ \A l \in trail : TrueEntry(l.entry)
  /\ \A w \in Workers : \A k \in DOMAIN due[w] : TrueEntry(due[w][k])

\* The steps that write events: a claim of an unseen one and the verdict of its
\* owner.
LEMMA StoreSteps ==
  ASSUME TypeOK, OnceInv, [Next]_vars
  PROVE  \/ UNCHANGED store
         \/ \E w \in Workers :
              /\ ev[w].id \in EventIds
              /\ \/ store[ev[w].id] = "unseen"
                    /\ store' = [store EXCEPT ![ev[w].id] = "received"]
                 \/ /\ Mark(w) /\ store[ev[w].id] = "received"
                    /\ store' = [store EXCEPT ![ev[w].id] = res[w]]
<1>1. ASSUME NEW w \in Workers, Claim(w)
      PROVE  /\ ev[w].id \in EventIds
             /\ store[ev[w].id] = "unseen"
             /\ store' = [store EXCEPT ![ev[w].id] = "received"]
  BY <1>1, EventFields DEF Claim, At, TypeOK
<1>2. ASSUME NEW w \in Workers, Mark(w)
      PROVE  /\ ev[w].id \in EventIds
             /\ Mark(w) /\ store[ev[w].id] = "received"
             /\ store' = [store EXCEPT ![ev[w].id] = res[w]]
  BY <1>2, EventFields DEF Mark, At, TypeOK, OnceInv, OwnedIsReceived, Owns
<1>3. \/ UNCHANGED store
      \/ \E w \in Workers : Claim(w) \/ Mark(w)
  BY NamedAreSubs DEF Next, Arrive, Step, Serve, Lifecycles, InvoicesAndPayments, Create,
   Receive, Duplicate, RejectStale, RejectIllegal, NoOp, TransitionLost, Transition,
   Answer, HookReturns, InsertInvoice, AttachInvoice, RefuseInvoice, SettleInvoice,
   InvoiceNotFound, NoteOrRefusePayload, Crash, db, vars
<1> QED
  BY <1>1, <1>2, <1>3

\* A verdict is final, and no event is forgotten.
LEMMA VerdictsStay ==
  ASSUME TypeOK, OnceInv, [Next]_vars, NEW i \in EventIds
  PROVE  /\ store[i] \in Verdicts => store'[i] = store[i]
         /\ store[i] # "unseen" => store'[i] # "unseen"
<1>1. "unseen" \notin Verdicts /\ "received" \notin Verdicts
  BY DEF Verdicts, Processed, Rejected
<1>2. \A w \in Workers : res[w] \in Verdicts
  BY DEF TypeOK
<1> QED
  BY <1>1, <1>2, StoreSteps DEF TypeOK

\* The moves of a subscription are never taken back.
LEMMA HistoryGrows ==
  ASSUME TypeOK, [Next]_vars, NEW s \in Subs
  PROVE  \A i \in DOMAIN history[s] :
           i \in DOMAIN history'[s] /\ history'[s][i] = history[s][i]
<1>1. CASE history' = history
  BY <1>1
<1>2. ASSUME NEW w \in Workers, Transition(w)
      PROVE  \A i \in DOMAIN history[s] :
               i \in DOMAIN history'[s] /\ history'[s][i] = history[s][i]
  <2> DEFINE move == [id |-> ev[w].id, from |-> snap[w].status,
                      to |-> Target[ev[w].type], at |-> ev[w].at]
  <2>1. history' = [history EXCEPT ![ev[w].sub] = Append(@, move)]
    BY <1>2 DEF Transition
  <2> HIDE DEF move
  <2>2. history[s] \in Seq(Move)
    BY DEF TypeOK
  <2>3. history'[s] = history[s] \/ history'[s] = Append(history[s], move)
    BY <2>1 DEF TypeOK
  <2> QED
    BY <2>2, <2>3, MovesAreTyped
<1> QED
  BY <1>1, <1>2, SubscriptionSteps DEF Create, AttachInvoice

LEMMA TruthStays ==
  ASSUME TypeOK, OnceInv, [Next]_vars, NEW e \in Entry, TrueEntry(e)
  PROVE  TrueEntry(e)'
<1>1. e.sub \in Subs /\ e.event \in EventIds
  BY DEF Entry
<1>2. /\ Continues(subs[e.sub], subs'[e.sub])
      /\ \A i \in DOMAIN history[e.sub] :
           i \in DOMAIN history'[e.sub] /\ history'[e.sub][i] = history[e.sub][i]
      /\ store[e.event] \in Verdicts => store'[e.event] = store[e.event]
      /\ \A r \in invoices : \E q \in invoices' : SameInvoice(q, r)
  BY <1>1, SubscriptionsContinue, HistoryGrows, VerdictsStay, RowsStay
<1>3. /\ e.type = "STATE_TRANSITION" =>
           \E i \in DOMAIN history'[e.sub] : history'[e.sub][i].id = e.event
      /\ e.type = "INVOICE_RECORDED" =>
           \E r \in invoices' : r.sub = e.sub /\ r.ep = e.ep
      /\ e.type = "EVENT_PROCESSED" => store'[e.event] \in Processed
      /\ e.type = "EVENT_REJECTED" => store'[e.event] \in Rejected
  BY <1>2 DEF TrueEntry, SameInvoice, Verdicts
<1>4. e.type = "HALT_EPISODE_OPENED" =>
        \E i \in DOMAIN subs'[e.sub].eps : subs'[e.sub].eps[i].id = e.ep
  BY <1>2 DEF TrueEntry, Continues
<1>5. ASSUME e.type = "HALT_EPISODE_CLOSED", e.ep # NoEpisode
      PROVE  \E i \in DOMAIN subs'[e.sub].eps :
               subs'[e.sub].eps[i].id = e.ep /\ ~IsOpen(subs'[e.sub].eps[i])
  <2>1. PICK i \in DOMAIN subs[e.sub].eps :
          subs[e.sub].eps[i].id = e.ep /\ ~IsOpen(subs[e.sub].eps[i])
    BY <1>5 DEF TrueEntry
  <2> QED
    BY <1>2, <2>1 DEF Continues, IsOpen
<1> QED
  BY <1>3, <1>4, <1>5 DEF TrueEntry

\* Where the lines of the next state come from.
LEMMA LinesFromDue ==
  ASSUME TrailShape, Counted, TrailStep
  PROVE  /\ \A l \in trail' : l \in trail \/
              \E w \in Workers : due[w] # <<>> /\ 1 \in DOMAIN due[w] /\ l.entry = due[w][1]
         /\ \A w \in Workers : Work(w) \/
              \A k \in DOMAIN due'[w] : \E j \in DOMAIN due[w] : due'[w][k] = due[w][j]
<1>1. CASE UNCHANGED <<trail, due>>
  BY <1>1
<1>2. ASSUME NEW w \in Workers, Work(w)
      PROVE  trail' = trail /\ \A v \in Workers : v # w => due'[v] = due[v]
  BY <1>2 DEF Work, Silent, Telling, Owes, TrailShape
<1>3. ASSUME NEW w \in Workers, Dies(w)
      PROVE  trail' = trail /\ due'[w] = <<>> /\ \A v \in Workers : v # w => due'[v] = due[v]
  BY <1>3 DEF Dies, TrailShape
<1>4. ASSUME NEW w \in Workers, AppendLine(w)
      PROVE  /\ \A l \in trail' : l \in trail \/
                  (due[w] # <<>> /\ 1 \in DOMAIN due[w] /\ l.entry = due[w][1])
             /\ \A v \in Workers : v # w => due'[v] = due[v]
             /\ \A k \in DOMAIN due'[w] : \E j \in DOMAIN due[w] : due'[w][k] = due[w][j]
  <2>1. due[w] \in Seq(Entry) /\ due[w] # <<>>
    BY <1>4 DEF AppendLine, TrailShape, Counted
  <2>2. due'[w] = Tail(due[w]) /\ \A v \in Workers : v # w => due'[v] = due[v]
    BY <1>4 DEF AppendLine, TrailShape
  <2>3. trail' = trail \cup {[seq |-> held[w], entry |-> Head(due[w])]}
    BY <1>4 DEF AppendLine
  <2>4. \A k \in DOMAIN Tail(due[w]) :
          k + 1 \in DOMAIN due[w] /\ Tail(due[w])[k] = due[w][k + 1]
    BY <2>1
  <2>5. 1 \in DOMAIN due[w] /\ Head(due[w]) = due[w][1]
    BY <2>1
  <2> QED
    BY <2>1, <2>2, <2>3, <2>4, <2>5
<1>5. ASSUME NEW w \in Workers, Takes(w) \/ Number(w)
      PROVE  UNCHANGED <<trail, due>>
  BY <1>5 DEF Takes, Number, trailVars
<1>6. DOMAIN <<>> = {}
  OBVIOUS
<1>7. ASSUME NEW w \in Workers, Work(w) \/ Dies(w) \/ AppendLine(w)
      PROVE  /\ \A l \in trail' : l \in trail \/
                  \E v \in Workers : due[v] # <<>> /\ 1 \in DOMAIN due[v] /\ l.entry = due[v][1]
             /\ \A v \in Workers : Work(v) \/
                  \A k \in DOMAIN due'[v] : \E j \in DOMAIN due[v] : due'[v][k] = due[v][j]
  BY <1>2, <1>3, <1>4, <1>6, <1>7
<1> QED
  BY <1>1, <1>5, <1>7 DEF TrailStep, TrailNext, allVars, trailVars

\* A transition tells its move, and the episode that its write opened or closed.
LEMMA MovedIsTrue ==
  ASSUME TypeOK, NEW w \in Workers, Transition(w),
         NEW e \in Entry, NEW k \in DOMAIN Moved(w), e = Moved(w)[k]
  PROVE  TrueEntry(e)'
<1> DEFINE s == ev[w].sub
           old == subs[s]
           new == Updated(w)
           opens == Opens(snap[w].status, ev[w].type)
           closes == Closes(snap[w].status, ev[w].type)
           move == [id |-> ev[w].id, from |-> snap[w].status,
                    to |-> Target[ev[w].type], at |-> ev[w].at]
           moved == Tell(w, "STATE_TRANSITION")
           opened == About(w, "HALT_EPISODE_OPENED", NewEpisode(w)[1].id)
           ep == IF new.eps = <<>> THEN NoEpisode ELSE JustClosed(new, ev[w].at).id
           closed == About(w, "HALT_EPISODE_CLOSED", ep)
<1>1. WantsTransition(w) /\ Swappable(w)
  BY DEF Transition
<1>2. /\ s \in Subs /\ ev[w].at \in Times
      /\ old \in Subscription /\ new \in Subscription
      /\ Target[ev[w].type] \in Statuses /\ NewEpisode(w) \in Seq(Episode)
      /\ closes = (old.status = "HALTED")
  BY <1>1, TransitionWrites, EventFields DEF TypeOK, Swappable
<1>3. subs'[s] = new
  BY <1>2, TransitionContinues DEF TypeOK
<1>4. CASE e = moved
  <2>1. history' = [history EXCEPT ![s] = Append(@, move)] /\ move.id = ev[w].id
    BY DEF Transition
  <2> HIDE DEF move
  <2>2. /\ Len(history[s]) + 1 \in DOMAIN history'[s]
        /\ history'[s][Len(history[s]) + 1] = move
    BY <1>2, <2>1, MovesAreTyped DEF TypeOK
  <2>3. e.type = "STATE_TRANSITION" /\ e.event = ev[w].id /\ e.sub = s
    BY <1>4 DEF Tell, About
  <2> HIDE DEF s
  <2> QED
    BY <2>1, <2>2, <2>3 DEF TrueEntry
<1>5. CASE opens /\ e = opened
  <2>1. e.type = "HALT_EPISODE_OPENED" /\ e.ep = NewEpisode(w)[1].id /\ e.sub = s
    BY <1>5 DEF About
  <2>2. Len(NewEpisode(w)) = 1
    BY <1>5 DEF NewEpisode
  <2>3. Rewrites(old, new, Target[ev[w].type], ev[w].at, NewEpisode(w), closes)
    BY <1>2, TransitionedShape DEF Updated
  <2>4. /\ Len(old.eps) \in Nat /\ Len(new.eps) \in Nat
        /\ DOMAIN new.eps = 1..Len(new.eps)
    BY <1>2, EpisodeAt
  <2> HIDE DEF s, old, new, closes, opens
  <2>5. Len(old.eps) + 1 \in DOMAIN new.eps /\ new.eps[Len(old.eps) + 1] = NewEpisode(w)[1]
    BY <2>2, <2>3, <2>4 DEF Rewrites
  <2> QED
    BY <1>3, <2>1, <2>5 DEF TrueEntry
<1>6. CASE closes /\ e = closed
  <2>1. e.type = "HALT_EPISODE_CLOSED" /\ e.ep = ep /\ e.sub = s
    BY <1>6 DEF About
  <2>2. ASSUME ep # NoEpisode
        PROVE  \E i \in DOMAIN new.eps : new.eps[i].id = ep /\ ~IsOpen(new.eps[i])
    <3>1. new.eps # <<>> /\ ep = JustClosed(new, ev[w].at).id
      BY <2>2
    <3>2. PICK i \in DOMAIN new.eps : JustClosed(new, ev[w].at) = new.eps[i]
      BY <1>2, <3>1, JustClosedIsThere
    <3>3. ~IsOpen(new.eps[i])
      <4>1. /\ subs'[s] \in Subscription
            /\ subs'[s].status # "HALTED" => Len(subs'[s].eps) = Len(old.eps)
            /\ <<old.status, subs'[s].status>> \in Edges
            /\ \A j \in 1..Len(old.eps) :
                 old.status = "HALTED" => ~IsOpen(subs'[s].eps[j])
        BY TransitionEffect
      <4>2. old.status = "HALTED"
        BY <1>2, <1>6
      <4>3. subs'[s].status # "HALTED"
        BY <4>1, <4>2 DEF Edges, Permitted, Target, Lifecycle
      <4>4. DOMAIN new.eps = 1..Len(new.eps)
        BY <1>2, EpisodeAt
      <4> QED
        BY <1>3, <3>2, <4>1, <4>2, <4>3, <4>4
    <3> QED
      BY <3>1, <3>2, <3>3
  <2> HIDE DEF s, new, ep, closes
  <2> QED
    BY <1>3, <2>1, <2>2 DEF TrueEntry
<1>7. e = moved \/ (opens /\ e = opened) \/ (closes /\ e = closed)
  <2>1. Moved(w) = <<moved>> \o (IF opens THEN <<opened>> ELSE <<>>) \o
                   (IF closes THEN <<closed>> ELSE <<>>)
    BY DEF Moved
  <2> HIDE DEF moved, opened, closed, opens, closes
  <2>3. CASE ~opens /\ ~closes
    BY <2>1, <2>3
  <2>4. CASE opens /\ ~closes
    BY <2>1, <2>4
  <2>5. CASE ~opens /\ closes
    BY <2>1, <2>5
  <2>6. CASE opens /\ closes
    BY <2>1, <2>6
  <2> QED
    BY <2>3, <2>4, <2>5, <2>6
<1> QED
  BY <1>4, <1>5, <1>6, <1>7

\* Whatever a worker owes after a step of its own is true.
LEMMA WorkIsTrue ==
  ASSUME TypeOK, OnceInv, LineageInv, TrailShape, NEW w \in Workers, Work(w),
         NEW e \in Entry, NEW k \in DOMAIN due'[w], e = due'[w][k]
  PROVE  TrueEntry(e)'
<1>1. ASSUME NEW entries, Owes(w, entries)
      PROVE  due'[w] = entries
  BY <1>1 DEF Owes, TrailShape
<1>2. ASSUME NEW type \in {"EVENT_RECEIVED", "EVENT_DUPLICATE", "STATE_NO_OP", "INVOICE_PAID"},
             due'[w] = <<Tell(w, type)>>
      PROVE  TrueEntry(e)'
  <2>1. e.type = type
    BY <1>2 DEF Tell, About
  <2> QED
    BY <2>1 DEF TrueEntry
<1>3. CASE due'[w] = <<>>
  BY <1>3
<1>4. CASE Transition(w) /\ Owes(w, Moved(w))
  BY <1>1, <1>4, MovedIsTrue
<1>5. ASSUME due'[w] = Recorded(w), pc[w] # "idle",
             \E r \in invoices' : r.sub = ev[w].sub /\ r.ep = LineageOf(w)
      PROVE  TrueEntry(e)'
  <2>1. e.type = "INVOICE_RECORDED" /\ e.sub = ev[w].sub /\ e.ep = LineageOf(w)
    BY <1>5 DEF Recorded, About
  <2> QED
    BY <1>5, <2>1 DEF TrueEntry
<1>6. CASE InsertInvoice(w) /\ Owes(w, IF LineageOf(w) = NoEpisode THEN Recorded(w) ELSE <<>>)
  <2> DEFINE row == [id |-> ev[w].inv, sub |-> ev[w].sub, cycle |-> ev[w].cycle,
                     at |-> ev[w].at, ep |-> LineageOf(w), status |-> "UNPAID"]
  <2>1. row \in invoices' /\ pc[w] # "idle"
    BY <1>6 DEF InsertInvoice, HandlesInvoice, At
  <2>2. row.sub = ev[w].sub /\ row.ep = LineageOf(w)
    OBVIOUS
  <2> HIDE DEF row
  <2> QED
    BY <1>1, <1>3, <1>5, <1>6, <2>1, <2>2
<1>7. CASE AttachInvoice(w) /\ Owes(w, Recorded(w))
  <2>1. pc[w] = "attach" /\ invoices' = invoices
    BY <1>7 DEF AttachInvoice, At
  <2>2. \E r \in invoices : IsRowOf(r, ev[w].inv, ev[w].sub, LineageOf(w))
    BY <2>1 DEF LineageInv, ListsARow
  <2> QED
    BY <1>1, <1>5, <1>7, <2>1, <2>2 DEF IsRowOf
<1>8. CASE Mark(w) /\ Owes(w, <<Tell(w, IF res[w] \in Processed THEN "EVENT_PROCESSED"
                                        ELSE "EVENT_REJECTED")>>)
  <2>1. /\ ev[w].id \in EventIds /\ res[w] \in Verdicts
        /\ store'[ev[w].id] = res[w]
    BY <1>8, EventFields DEF Mark, At, TypeOK
  <2>2. /\ e.event = ev[w].id
        /\ e.type = IF res[w] \in Processed THEN "EVENT_PROCESSED" ELSE "EVENT_REJECTED"
    BY <1>1, <1>8 DEF Tell, About
  <2> QED
    BY <2>1, <2>2 DEF TrueEntry, Verdicts
<1>9. CASE \/ Claim(w) /\ Owes(w, <<Tell(w, "EVENT_RECEIVED")>>)
           \/ Duplicate(w) /\ Owes(w, <<Tell(w, "EVENT_DUPLICATE")>>)
           \/ NoOp(w) /\ Owes(w, <<Tell(w, "STATE_NO_OP")>>)
           \/ SettleInvoice(w) /\ Owes(w, IF invoices' = invoices THEN <<>>
                                          ELSE <<Tell(w, "INVOICE_PAID")>>)
  BY <1>1, <1>2, <1>3, <1>9
<1>10. CASE Silent(w)
  BY <1>1, <1>3, <1>10 DEF Silent
<1> QED
  BY <1>4, <1>6, <1>7, <1>8, <1>9, <1>10 DEF Work, Telling

LEMMA TruthStep ==
  ASSUME TypeOK, OnceInv, LineageInv, TrailInv, TrailInv', Truthful, TrailStep
  PROVE  Truthful'
<1>1. [Next]_vars
  BY TrailStepIsLedgerStep
<1>2. \A e \in Entry : TrueEntry(e) => TrueEntry(e)'
  BY <1>1, TruthStays
<1>3. ASSUME NEW w \in Workers, NEW k \in DOMAIN due[w]
      PROVE  due[w][k] \in Entry /\ TrueEntry(due[w][k])
  BY <1>3 DEF TrailInv, TrailShape, Truthful
<1>4. ASSUME NEW l \in trail'
      PROVE  TrueEntry(l.entry)'
  <2>1. CASE l \in trail
    BY <1>2, <2>1 DEF TrailInv, TrailShape, Line, Truthful
  <2>2. ASSUME NEW w \in Workers, 1 \in DOMAIN due[w], l.entry = due[w][1]
        PROVE  TrueEntry(l.entry)'
    BY <1>2, <1>3, <2>2
  <2> QED
    BY <2>1, <2>2, LinesFromDue DEF TrailInv
<1>5. ASSUME NEW w \in Workers, NEW k \in DOMAIN due'[w], NEW e \in Entry, e = due'[w][k]
      PROVE  TrueEntry(e)'
  <2>1. CASE Work(w)
    BY <1>5, <2>1, WorkIsTrue DEF TrailInv
  <2>2. ASSUME NEW j \in DOMAIN due[w], due'[w][k] = due[w][j]
        PROVE  TrueEntry(e)'
    BY <1>2, <1>3, <1>5, <2>2
  <2> QED
    BY <1>5, <2>1, <2>2, LinesFromDue DEF TrailInv
<1>6. \A w \in Workers : \A k \in DOMAIN due'[w] : due'[w][k] \in Entry
  BY DEF TrailInv, TrailShape
<1>7. \A w \in Workers : \A k \in DOMAIN due'[w] : TrueEntry(due[w][k])'
  BY <1>5, <1>6
<1> QED
  BY <1>4, <1>7 DEF Truthful

\* A line says only what happened: the move it tells was committed, its episode
\* and its lineage are in the ledger and its verdict is the one stored, because a
\* worker tells what its own step wrote and no step takes any of it back.
THEOREM TrailIsTrue == TrailSpec => []LinesAreTrue
<1>1. TrailInit => Truthful
  BY DEF TrailInit, Truthful
<1>2. /\ TypeOK /\ OnceInv /\ LineageInv /\ TrailInv /\ TrailInv' /\ Truthful
      /\ [TrailNext]_allVars
      => Truthful'
  BY TruthStep DEF TrailStep
<1>3. Truthful => LinesAreTrue
  BY DEF Truthful, TrueEntry, LinesAreTrue
<1> QED
  BY <1>1, <1>2, <1>3, TrailInvariant, LedgerInvariants, PTL DEF TrailSpec

-----------------------------------------------------------------------------
(* What is told before the verdict.                                        *)

ToldOrDue(w, type) ==
  \/ \E l \in trail : l.entry.event = ev[w].id /\ l.entry.type = type
  \/ \E k \in DOMAIN due[w] : due[w][k].event = ev[w].id /\ due[w][k].type = type

\* Who owns an event has written, or has still to write, that it was received
\* and, if it has moved, that it has.
OwnersTell ==
  \A w \in Workers : Owns(w) =>
    /\ ToldOrDue(w, "EVENT_RECEIVED")
    /\ HasMoved(ev[w].id) => ToldOrDue(w, "STATE_TRANSITION")

\* What one step may do to another worker's request, to the events and to the
\* moves that have been made.
LEMMA OthersKeep ==
  ASSUME TypeOK, NEW v \in Workers, NEW w \in Workers, v # w, 
         Takes(w) \/ Work(w) \/ Number(w) \/ AppendLine(w) \/ Dies(w)
  PROVE  pc'[v] = pc[v] /\ ev'[v] = ev[v]
<1>1. ASSUME NEW place, Goto(w, place)
      PROVE  pc'[v] = pc[v]
  BY <1>1 DEF Goto, TypeOK
<1>2. ASSUME Leave(w)
      PROVE  pc'[v] = pc[v] /\ ev'[v] = ev[v]
  BY <1>2 DEF Leave, Goto, TypeOK
<1>3. CASE Takes(w)
  <2>1. PICK e \in Feed : Receive(w, e)
    BY <1>3 DEF Takes
  <2> QED
    BY <1>1, <2>1 DEF Receive, TypeOK
<1>4. CASE Number(w) \/ AppendLine(w) \/ Dies(w)
  BY <1>2, <1>4 DEF Number, AppendLine, Dies, Crash, vars
<1>5. CASE Work(w)
  <2>1. Leave(w) \/ (ev' = ev /\ \E place : Goto(w, place))
    BY <1>5 DEF Work, Silent, Telling, Claim, Duplicate, RejectStale, RejectIllegal, NoOp,
      TransitionLost, Transition, Answer, HookReturns, InsertInvoice, AttachInvoice,
      RefuseInvoice, SettleInvoice, InvoiceNotFound, NoteOrRefusePayload, Mark
  <2> QED
    BY <1>1, <1>2, <2>1
<1> QED
  BY <1>3, <1>4, <1>5

\* The place a step of a worker takes it to, and what it has told on the way.
LEMMA WorkSteps ==
  ASSUME TypeOK, TrailShape, NEW w \in Workers, Work(w)
  PROVE  /\ due[w] = <<>> /\ pc[w] # "idle" /\ ev[w] \in Feed /\ trail' = trail
         /\ \/ /\ pc[w] = "claim" /\ pc'[w] = "handle" /\ ev'[w] = ev[w] /\ history' = history
               /\ store[ev[w].id] = "unseen" /\ store' = [store EXCEPT ![ev[w].id] = "received"]
               /\ due'[w] = <<Tell(w, "EVENT_RECEIVED")>>
            \/ /\ pc[w] = "claim" /\ pc'[w] = "idle" /\ UNCHANGED <<store, history>>
               /\ due'[w] = <<Tell(w, "EVENT_DUPLICATE")>>
            \/ /\ pc[w] = "handle" /\ pc'[w] = "mark" /\ ev'[w] = ev[w]
               /\ UNCHANGED <<store, history>>
               /\ due'[w] = <<Tell(w, "STATE_NO_OP")>>
            \/ /\ Transition(w) /\ pc[w] = "handle" /\ pc'[w] \in {"window", "mark"}
               /\ ev'[w] = ev[w] /\ store' = store
               /\ due'[w] = Moved(w)
            \/ /\ pc[w] \in {"handle", "attach"} /\ pc'[w] = "mark" /\ ev'[w] = ev[w]
               /\ UNCHANGED <<store, history>>
               /\ due'[w] \in {Recorded(w), <<Tell(w, "INVOICE_PAID")>>}
            \/ /\ pc[w] \in {"handle", "attach", "window"}
               /\ pc'[w] = "mark" \/ (pc[w] = "handle" /\ pc'[w] = "attach")
               /\ ev'[w] = ev[w] /\ UNCHANGED <<store, history>>
               /\ due'[w] = <<>>
            \/ /\ pc[w] = "mark" /\ pc'[w] = "idle" /\ history' = history
               /\ store' = [store EXCEPT ![ev[w].id] = res[w]]
               /\ due'[w] \in {<<Tell(w, "EVENT_PROCESSED")>>, <<Tell(w, "EVENT_REJECTED")>>}
<1>1. ASSUME NEW entries, Owes(w, entries)
      PROVE  due'[w] = entries /\ trail' = trail
  BY <1>1 DEF Owes, TrailShape
<1>2. ASSUME NEW place, Goto(w, place)
      PROVE  pc'[w] = place
  BY <1>2 DEF Goto, TypeOK
<1>3. ASSUME Leave(w)
      PROVE  pc'[w] = "idle"
  BY <1>2, <1>3 DEF Leave
<1>4. ASSUME NEW reason, Answer(w, reason)
      PROVE  pc'[w] = "mark" /\ ev'[w] = ev[w] /\ UNCHANGED <<store, history>>
  BY <1>2, <1>4 DEF Answer
<1>5. due[w] = <<>>
  BY DEF Work
<1>6. CASE Silent(w)
  <2>1. CASE HookReturns(w)
    BY <1>1, <1>2, <1>5, <1>6, <2>1 DEF Silent, HookReturns, At, TypeOK
  <2>2. CASE \/ RejectStale(w) \/ RejectIllegal(w) \/ TransitionLost(w)
             \/ RefuseInvoice(w) \/ InvoiceNotFound(w) \/ NoteOrRefusePayload(w)
    <3>1. pc[w] = "handle" /\ \E reason : Answer(w, reason)
      BY <2>2 DEF RejectStale, RejectIllegal, TransitionLost, WantsTransition, HandlesLifecycle,
           RefuseInvoice, HandlesInvoice, InvoiceNotFound, NoteOrRefusePayload, At
    <3> QED
      BY <1>1, <1>4, <1>5, <1>6, <3>1 DEF Silent, TypeOK
  <2> QED
    BY <1>6, <2>1, <2>2 DEF Silent
<1>7. CASE Claim(w) /\ Owes(w, <<Tell(w, "EVENT_RECEIVED")>>)
  BY <1>1, <1>2, <1>5, <1>7 DEF Claim, At, TypeOK
<1>8. CASE Duplicate(w) /\ Owes(w, <<Tell(w, "EVENT_DUPLICATE")>>)
  BY <1>1, <1>3, <1>5, <1>8 DEF Duplicate, At, TypeOK
<1>9. CASE NoOp(w) /\ Owes(w, <<Tell(w, "STATE_NO_OP")>>)
  BY <1>1, <1>4, <1>5, <1>9 DEF NoOp, HandlesLifecycle, At, TypeOK
<1>10. CASE Transition(w) /\ Owes(w, Moved(w))
  BY <1>1, <1>2, <1>5, <1>10 DEF Transition, WantsTransition, HandlesLifecycle, At, TypeOK
<1>11. CASE InsertInvoice(w) /\ Owes(w, IF LineageOf(w) = NoEpisode THEN Recorded(w) ELSE <<>>)
  <2>1. CASE LineageOf(w) = NoEpisode
    BY <1>1, <1>2, <1>5, <1>11, <2>1 DEF InsertInvoice, HandlesInvoice, At, TypeOK
  <2>2. CASE LineageOf(w) # NoEpisode
    BY <1>1, <1>2, <1>5, <1>11, <2>2 DEF InsertInvoice, HandlesInvoice, At, TypeOK
  <2> QED
    BY <2>1, <2>2
<1>12. CASE AttachInvoice(w) /\ Owes(w, Recorded(w))
  BY <1>1, <1>2, <1>5, <1>12 DEF AttachInvoice, At, TypeOK
<1>13. CASE SettleInvoice(w) /\ Owes(w, IF invoices' = invoices THEN <<>>
                                        ELSE <<Tell(w, "INVOICE_PAID")>>)
  <2>1. /\ pc[w] = "handle" /\ pc'[w] = "mark" /\ ev'[w] = ev[w] /\ ev[w] \in Feed
        /\ UNCHANGED <<store, history>>
    BY <1>2, <1>13 DEF SettleInvoice, At, TypeOK
  <2>2. trail' = trail /\ (due'[w] = <<>> \/ due'[w] = <<Tell(w, "INVOICE_PAID")>>)
    BY <1>1, <1>13
  <2> QED
    BY <1>5, <2>1, <2>2
<1>14. CASE Mark(w) /\ Owes(w, <<Tell(w, IF res[w] \in Processed THEN "EVENT_PROCESSED"
                                        ELSE "EVENT_REJECTED")>>)
  BY <1>1, <1>3, <1>5, <1>14 DEF Mark, At, TypeOK
<1> QED
  BY <1>6, <1>7, <1>8, <1>9, <1>10, <1>11, <1>12, <1>13, <1>14 DEF Work, Telling

\* What a step does to the lines of one worker: it takes them as they are, writes
\* the first or, when the worker works or dies, replaces them.
LEMMA DueSteps ==
  ASSUME TrailShape, Counted, TrailStep, NEW v \in Workers
  PROVE  \/ due'[v] = due[v] /\ held'[v] = held[v]
         \/ due'[v] = due[v] /\ Number(v)
         \/ AppendLine(v)
         \/ Work(v) \/ Dies(v)
<1>1. CASE UNCHANGED <<due, held>>
  BY <1>1
<1>2. ASSUME NEW w \in Workers, w # v, Number(w) \/ AppendLine(w) \/ Work(w) \/ Dies(w)
      PROVE  due'[v] = due[v] /\ held'[v] = held[v]
  BY <1>2 DEF Number, AppendLine, Work, Silent, Telling, Owes, Dies, TrailShape
<1>3. CASE Number(v)
  BY <1>3 DEF Number
<1> QED
  BY <1>1, <1>2, <1>3 DEF TrailStep, TrailNext, Takes, trailVars, allVars

LEMMA Appends ==
  ASSUME TrailShape, Counted, NEW w \in Workers, AppendLine(w)
  PROVE  /\ held[w] # 0 /\ held'[w] = 0 /\ UNCHANGED vars
         /\ 1 \in DOMAIN due[w] /\ Len(due[w]) \in Nat
         /\ trail' = trail \cup {[seq |-> held[w], entry |-> due[w][1]]}
         /\ \A k \in DOMAIN due'[w] : k + 1 \in DOMAIN due[w] /\ due'[w][k] = due[w][k + 1]
         /\ \A k \in DOMAIN due[w] : k # 1 =>
              k - 1 \in DOMAIN due'[w] /\ due'[w][k - 1] = due[w][k]
         /\ \A v \in Workers : v # w => due'[v] = due[v] /\ held'[v] = held[v]
<1>1. due[w] \in Seq(Entry) /\ due[w] # <<>>
  BY DEF AppendLine, TrailShape, Counted
<1>2. /\ due'[w] = Tail(due[w]) /\ held'[w] = 0
      /\ \A v \in Workers : v # w => due'[v] = due[v] /\ held'[v] = held[v]
  BY DEF AppendLine, TrailShape
<1>3. /\ held[w] # 0 /\ UNCHANGED vars
      /\ trail' = trail \cup {[seq |-> held[w], entry |-> Head(due[w])]}
  BY DEF AppendLine
<1>4. \A k \in DOMAIN Tail(due[w]) :
        k + 1 \in DOMAIN due[w] /\ Tail(due[w])[k] = due[w][k + 1]
  BY <1>1
<1>5. \A k \in DOMAIN due[w] : k # 1 =>
        k - 1 \in DOMAIN Tail(due[w]) /\ Tail(due[w])[k - 1] = due[w][k]
  BY <1>1
<1>6. 1 \in DOMAIN due[w] /\ Head(due[w]) = due[w][1] /\ Len(due[w]) \in Nat
  BY <1>1
<1> QED
  BY <1>2, <1>3, <1>4, <1>5, <1>6

\* The trail only grows.
LEMMA TrailGrows == ASSUME TrailShape, TrailStep PROVE trail \subseteq trail'
<1>1. ASSUME NEW w \in Workers, Work(w)
      PROVE  trail' = trail
  BY <1>1 DEF Work, Silent, Telling, Owes
<1>2. ASSUME NEW w \in Workers, AppendLine(w)
      PROVE  trail \subseteq trail'
  BY <1>2 DEF AppendLine
<1> QED
  BY <1>1, <1>2 DEF TrailStep, TrailNext, Takes, Number, Dies, trailVars, allVars

\* What a worker has to tell stays due until it is told, unless the worker dies.
LEMMA ToldStays ==
  ASSUME TrailShape, Counted, TrailStep, NEW v \in Workers, ev'[v] = ev[v],
         NEW type, ToldOrDue(v, type), ~Work(v), ~Dies(v)
  PROVE  ToldOrDue(v, type)'
<1>1. trail \subseteq trail'
  BY TrailGrows
<1>2. CASE \E l \in trail : l.entry.event = ev[v].id /\ l.entry.type = type
  BY <1>1, <1>2 DEF ToldOrDue
<1>3. ASSUME NEW k \in DOMAIN due[v], due[v][k].event = ev[v].id, due[v][k].type = type
      PROVE  ToldOrDue(v, type)'
  <2>1. CASE due'[v] = due[v]
    BY <1>3, <2>1 DEF ToldOrDue
  <2>2. CASE AppendLine(v)
    <3> DEFINE line == [seq |-> held[v], entry |-> due[v][1]]
    <3>1. line \in trail' /\ line.entry = due[v][1]
      BY <2>2, Appends
    <3> HIDE DEF line
    <3>2. CASE k = 1
      BY <1>3, <3>1, <3>2 DEF ToldOrDue
    <3>3. CASE k # 1
      BY <1>3, <2>2, <3>3, Appends DEF ToldOrDue
    <3> QED
      BY <3>2, <3>3
  <2> QED
    BY <2>1, <2>2, DueSteps
<1> QED
  BY <1>2, <1>3 DEF ToldOrDue

\* The moves that are made are those of the event a worker owns.
LEMMA MovesOfOthers ==
  ASSUME TypeOK, NEW w \in Workers, Transition(w), NEW id, id # ev[w].id
  PROVE  HasMoved(id)' => HasMoved(id)
<1> DEFINE move == [id |-> ev[w].id, from |-> snap[w].status,
                    to |-> Target[ev[w].type], at |-> ev[w].at]
<1>1. history' = [history EXCEPT ![ev[w].sub] = Append(@, move)] /\ move.id = ev[w].id
  BY DEF Transition
<1> HIDE DEF move
<1>2. \A s \in Subs : history[s] \in Seq(Move)
  BY DEF TypeOK
<1>3. \A s \in Subs : history'[s] = history[s] \/ history'[s] = Append(history[s], move)
  BY <1>1 DEF TypeOK
<1>4. ASSUME NEW s \in Subs, NEW i \in DOMAIN history'[s], history'[s][i].id = id
      PROVE  i \in DOMAIN history[s] /\ history[s][i].id = id
  BY <1>1, <1>2, <1>3, <1>4
<1> QED
  BY <1>4 DEF HasMoved

LEMMA OwnersTellStep ==
  ASSUME TypeOK, OnceInv, TrailInv, OwnersTell, TrailStep
  PROVE  OwnersTell'
<1> SUFFICES ASSUME NEW v \in Workers, Owns(v)'
             PROVE  /\ ToldOrDue(v, "EVENT_RECEIVED")'
                    /\ HasMoved(ev[v].id)' => ToldOrDue(v, "STATE_TRANSITION")'
  BY DEF OwnersTell
<1>1. /\ TrailShape /\ Counted /\ ~Dies(v)
  <2>1. Dies(v) => pc'[v] = "idle"
    BY DEF Dies, Crash, Leave, Goto, TypeOK, vars
  <2> QED
    BY <2>1 DEF TrailInv, Owns
<1>2. ASSUME ~Work(v), pc'[v] = pc[v], ev'[v] = ev[v],
             HasMoved(ev[v].id)' => HasMoved(ev[v].id)
      PROVE  /\ ToldOrDue(v, "EVENT_RECEIVED")'
             /\ HasMoved(ev[v].id)' => ToldOrDue(v, "STATE_TRANSITION")'
  <2>1. Owns(v)
    BY <1>2 DEF Owns
  <2> QED
    BY <1>1, <1>2, <2>1, ToldStays DEF OwnersTell
<1>3. CASE ~Work(v) /\ UNCHANGED <<pc, ev, history>>
  BY <1>2, <1>3 DEF HasMoved
<1>4. ASSUME NEW w \in Workers, w # v, ~Work(v),
             Takes(w) \/ Work(w) \/ Number(w) \/ AppendLine(w) \/ Dies(w)
      PROVE  /\ ToldOrDue(v, "EVENT_RECEIVED")'
             /\ HasMoved(ev[v].id)' => ToldOrDue(v, "STATE_TRANSITION")'
  <2>1. pc'[v] = pc[v] /\ ev'[v] = ev[v]
    BY <1>4, OthersKeep
  <2>2. history' = history \/ Transition(w)
    <3>1. Takes(w) => history' = history
      BY DEF Takes, Receive
    <3>2. Number(w) \/ AppendLine(w) \/ Dies(w) => history' = history
      BY DEF Number, AppendLine, Dies, Crash, vars
    <3> QED
      BY <1>1, <1>4, <3>1, <3>2, WorkSteps
  <2>3. Transition(w) => ev[w].id # ev[v].id
    <3>1. Transition(w) => Owns(w)
      BY DEF Transition, WantsTransition, HandlesLifecycle, At, Owns
    <3>2. Owns(v)
      BY <2>1 DEF Owns
    <3> QED
      BY <1>4, <3>1, <3>2 DEF OnceInv, OwnersDiffer
  <2>4. HasMoved(ev[v].id)' => HasMoved(ev[v].id)
    <3>1. CASE history' = history
      BY <2>1, <3>1 DEF HasMoved
    <3>2. CASE Transition(w)
      BY <2>1, <2>3, <3>2, MovesOfOthers
    <3> QED
      BY <2>2, <3>1, <3>2
  <2> QED
    BY <1>2, <1>4, <2>1, <2>4
<1>5. CASE Takes(v)
  <2>1. pc'[v] = "claim"
    BY <1>5 DEF Takes, Receive, Goto, TypeOK
  <2> QED
    BY <2>1 DEF Owns
<1>6. CASE Work(v)
  <2>1. trail' = trail /\ due[v] = <<>>
    BY <1>1, <1>6, WorkSteps
  <2>2. CASE pc[v] = "claim"
    <3>1. /\ ev'[v] = ev[v] /\ due'[v] = <<Tell(v, "EVENT_RECEIVED")>>
          /\ history' = history /\ store[ev[v].id] = "unseen"
      BY <1>1, <1>6, <2>2, WorkSteps DEF Owns, Transition, WantsTransition, HandlesLifecycle, At
    <3>2. ~HasMoved(ev[v].id)
      BY <3>1 DEF HasMoved, OnceInv, MovedIsReceived
    <3>3. ToldOrDue(v, "EVENT_RECEIVED")'
      BY <3>1 DEF ToldOrDue, Tell, About
    <3> QED
      BY <3>1, <3>2, <3>3 DEF HasMoved
  <2>3. ASSUME pc[v] # "claim"
        PROVE  /\ Owns(v) /\ ev'[v] = ev[v] /\ (history' = history \/ due'[v] = Moved(v))
               /\ Transition(v) \/ history' = history
    BY <1>1, <1>6, <2>3, WorkSteps DEF Owns
  <2>4. ASSUME pc[v] # "claim", NEW type, ToldOrDue(v, type)
        PROVE  ToldOrDue(v, type)'
    BY <2>1, <2>3, <2>4 DEF ToldOrDue
  <2>5. CASE pc[v] # "claim" /\ history' = history
    BY <2>3, <2>4, <2>5 DEF OwnersTell, HasMoved
  <2>6. CASE pc[v] # "claim" /\ due'[v] = Moved(v)
    <3>1. 1 \in DOMAIN Moved(v) /\ Moved(v)[1] = Tell(v, "STATE_TRANSITION")
      BY DEF Moved
    <3>2. ToldOrDue(v, "STATE_TRANSITION")'
      BY <2>3, <2>6, <3>1 DEF ToldOrDue, Tell, About
    <3> QED
      BY <2>3, <2>4, <2>6, <3>2 DEF OwnersTell
  <2> QED
    BY <2>2, <2>3, <2>5, <2>6
<1>7. ASSUME NEW w \in Workers, Number(w) \/ AppendLine(w)
      PROVE  UNCHANGED <<pc, ev, history>>
  BY <1>7 DEF Number, AppendLine, vars
<1> QED
  BY <1>1, <1>3, <1>4, <1>5, <1>6, <1>7
  DEF TrailStep, TrailNext, Create, locals, allVars, vars

LEMMA AccountStep ==
  ASSUME TypeOK, OnceInv, TrailInv, OwnersTell, VerdictsAreAccountedFor, TrailStep
  PROVE  VerdictsAreAccountedFor'
<1> SUFFICES ASSUME NEW i \in EventIds, store'[i] \in Verdicts
             PROVE  /\ \E l \in trail' : l.entry.event = i /\ l.entry.type = "EVENT_RECEIVED"
                    /\ HasMoved(i)' =>
                         \E l \in trail' : l.entry.event = i /\ l.entry.type = "STATE_TRANSITION"
  BY DEF VerdictsAreAccountedFor, HasMoved
<1>1. TrailShape /\ trail \subseteq trail' /\ [Next]_vars
  BY TrailGrows, TrailStepIsLedgerStep DEF TrailInv
<1>2. "unseen" \notin Verdicts /\ "received" \notin Verdicts
  BY DEF Verdicts, Processed, Rejected
<1>3. CASE store[i] \in Verdicts
  <2>1. HasMoved(i)' => HasMoved(i)
    <3>1. CASE history' = history
      BY <3>1 DEF HasMoved
    <3>2. ASSUME NEW w \in Workers, Transition(w)
          PROVE  HasMoved(i)' => HasMoved(i)
      <4>1. store[ev[w].id] = "received"
        BY <3>2 DEF Transition, WantsTransition, HandlesLifecycle, At, Owns, OnceInv,
                    OwnedIsReceived
      <4>2. i # ev[w].id
        BY <1>2, <1>3, <4>1
      <4> QED
        BY <3>2, <4>2, MovesOfOthers
    <3> QED
      BY <1>1, <3>1, <3>2, SubscriptionSteps DEF Create, AttachInvoice
  <2>2. \E l \in trail : l.entry.event = i /\ l.entry.type = "EVENT_RECEIVED"
    BY <1>3 DEF VerdictsAreAccountedFor
  <2>3. HasMoved(i) => \E l \in trail : l.entry.event = i /\ l.entry.type = "STATE_TRANSITION"
    BY <1>3 DEF VerdictsAreAccountedFor, HasMoved
  <2> QED
    BY <1>1, <2>1, <2>2, <2>3
<1>4. CASE store[i] \notin Verdicts
  <2>1. PICK w \in Workers : Mark(w) /\ ev[w].id = i
    BY <1>1, <1>2, <1>4, StoreSteps DEF TypeOK
  <2>2. pc[w] = "mark" /\ history' = history
    BY <2>1 DEF Mark, At
  <2>3. due[w] = <<>>
    <3>1. pc'[w] = "idle" /\ store' # store
      BY <1>4, <2>1 DEF Mark, Leave, Goto, TypeOK
    <3>2. ASSUME NEW v \in Workers, v # w,
                 Takes(v) \/ Work(v) \/ Number(v) \/ AppendLine(v) \/ Dies(v)
          PROVE  FALSE
      BY <2>1, <2>2, <3>1, <3>2, OthersKeep
    <3>3. ~Takes(w) /\ ~Number(w) /\ ~AppendLine(w) /\ ~Dies(w)
      BY <3>1 DEF Takes, Receive, Number, AppendLine, Dies, Crash, vars
    <3>4. Work(w)
      BY <3>1, <3>2, <3>3 DEF TrailStep, TrailNext, Create, allVars, vars
    <3> QED
      BY <3>4 DEF Work
  <2>4. \A type : ToldOrDue(w, type) =>
          \E l \in trail : l.entry.event = i /\ l.entry.type = type
    BY <2>1, <2>3 DEF ToldOrDue
  <2>5. Owns(w)
    BY <2>2 DEF Owns
  <2>6. HasMoved(i)' = HasMoved(i)
    BY <2>2 DEF HasMoved
  <2> QED
    BY <1>1, <2>1, <2>4, <2>5, <2>6 DEF OwnersTell
<1> QED
  BY <1>3, <1>4

\* When an event's verdict is stored its receipt and its move are in the trail,
\* whoever died: a worker writes the lines of a step before it takes the next.
THEOREM VerdictsHaveTheirStory == TrailSpec => []VerdictsAreAccountedFor
<1>1. TrailInit => OwnersTell /\ VerdictsAreAccountedFor
  BY DEF TrailInit, Init, OwnersTell, Owns, VerdictsAreAccountedFor, Verdicts, Processed, Rejected
<1>2. /\ TypeOK /\ OnceInv /\ TrailInv /\ OwnersTell /\ VerdictsAreAccountedFor
      /\ [TrailNext]_allVars
      => OwnersTell' /\ VerdictsAreAccountedFor'
  BY OwnersTellStep, AccountStep DEF TrailStep
<1> QED
  BY <1>1, <1>2, TrailInvariant, LedgerInvariants, PTL DEF TrailSpec

-----------------------------------------------------------------------------
(* The story of an event.                                                  *)

IsStory(e) == e.type # "EVENT_DUPLICATE"

\* The rank up to which a worker at its place may have told its event's story.
Bound(w) ==
  CASE pc[w] \in {"handle", "attach"} -> 1
    [] pc[w] \in {"window", "mark"}   -> 3
    [] OTHER                          -> 0

StoriesHaveEvents ==
  \A l \in trail : IsStory(l.entry) => store[l.entry.event] # "unseen"

\* What is due is about the event its worker owns, or has just answered.
DueIsOwn ==
  \A w \in Workers : \A k \in DOMAIN due[w] : IsStory(due[w][k]) =>
    \/ /\ Owns(w) /\ due[w][k].event = ev[w].id /\ due[w][k].sub = ev[w].sub
       /\ Rank[due[w][k].type] <= Bound(w)
    \/ pc[w] = "idle" /\ store[due[w][k].event] \in Verdicts

DueApart ==
  \A v, w \in Workers : \A j \in DOMAIN due[v], k \in DOMAIN due[w] :
    v # w /\ IsStory(due[v][j]) /\ IsStory(due[w][k]) => due[v][j].event # due[w][k].event

\* Of the event it owns no more is told than the worker has done.
ToldIsBound ==
  \A w \in Workers : Owns(w) =>
    \A l \in trail : IsStory(l.entry) /\ l.entry.event = ev[w].id =>
      l.entry.sub = ev[w].sub /\ Rank[l.entry.type] <= Bound(w)

\* What is due comes after everything that is told of its event.
DueIsNext ==
  \A w \in Workers : \A k \in DOMAIN due[w] : IsStory(due[w][k]) =>
    \A l \in trail : IsStory(l.entry) /\ l.entry.event = due[w][k].event =>
      l.entry.sub = due[w][k].sub /\ Rank[l.entry.type] < Rank[due[w][k].type]

\* And it is due in order.
DueInOrder ==
  \A w \in Workers : \A k \in DOMAIN due[w] : IsStory(due[w][k]) =>
    \A j \in DOMAIN due[w] : j < k =>
      /\ IsStory(due[w][j]) /\ Rank[due[w][j].type] < Rank[due[w][k].type]
      /\ due[w][j].event = due[w][k].event /\ due[w][j].sub = due[w][k].sub

HeldIsNext ==
  \A w \in Workers : held[w] # 0 /\ IsStory(due[w][1]) =>
    \A l \in trail : IsStory(l.entry) /\ l.entry.event = due[w][1].event => l.seq < held[w]

StoryInOrder ==
  \A l, m \in trail :
    l.entry.event = m.entry.event /\ IsStory(l.entry) /\ IsStory(m.entry) =>
      /\ Rank[l.entry.type] = Rank[m.entry.type] => l = m
      /\ Rank[l.entry.type] < Rank[m.entry.type] => l.seq < m.seq

StoryInv ==
  /\ StoriesHaveEvents /\ DueIsOwn /\ DueApart /\ ToldIsBound
  /\ DueIsNext /\ DueInOrder /\ HeldIsNext /\ StoryInOrder

LEMMA RankOf ==
  /\ DOMAIN Rank = LineTypes \ {"EVENT_DUPLICATE"}
  /\ Rank["EVENT_RECEIVED"] = 1
  /\ Rank["STATE_TRANSITION"] = 2 /\ Rank["STATE_NO_OP"] = 2
  /\ Rank["HALT_EPISODE_OPENED"] = 3 /\ Rank["HALT_EPISODE_CLOSED"] = 3
  /\ Rank["INVOICE_RECORDED"] = 3 /\ Rank["INVOICE_PAID"] = 3
  /\ Rank["EVENT_PROCESSED"] = 4 /\ Rank["EVENT_REJECTED"] = 4
BY DEF Rank, LineTypes

LEMMA RankIsNat == ASSUME NEW e \in Entry, IsStory(e) PROVE Rank[e.type] \in 1..4
BY RankOf DEF Entry, IsStory, LineTypes

\* A transition opens an episode or closes one, never both.
LEMMA MovedRanks ==
  ASSUME NEW w \in Workers, WantsTransition(w)
  PROVE  LET m == Moved(w) IN
         /\ m[1] = Tell(w, "STATE_TRANSITION")
         /\ DOMAIN m \in {1..1, 1..2}
         /\ DOMAIN m = 1..2 =>
              \E ep : \/ m[2] = About(w, "HALT_EPISODE_OPENED", ep)
                      \/ m[2] = About(w, "HALT_EPISODE_CLOSED", ep)
<1> DEFINE opens == Opens(snap[w].status, ev[w].type)
           closes == Closes(snap[w].status, ev[w].type)
           ep == IF Updated(w).eps = <<>> THEN NoEpisode
                 ELSE JustClosed(Updated(w), ev[w].at).id
           moved == Tell(w, "STATE_TRANSITION")
           opened == About(w, "HALT_EPISODE_OPENED", NewEpisode(w)[1].id)
           closed == About(w, "HALT_EPISODE_CLOSED", ep)
<1>1. ~(opens /\ closes)
  BY DEF Opens, Closes
<1>2. Moved(w) = <<moved>> \o (IF opens THEN <<opened>> ELSE <<>>) \o
                 (IF closes THEN <<closed>> ELSE <<>>)
  BY DEF Moved
<1>3. /\ \E x : opened = About(w, "HALT_EPISODE_OPENED", x)
      /\ \E x : closed = About(w, "HALT_EPISODE_CLOSED", x)
  OBVIOUS
<1> HIDE DEF moved, opened, closed, opens, closes
<1>4. CASE opens
  <2>1. Moved(w) = <<moved>> \o <<opened>> \o <<>>
    BY <1>1, <1>2, <1>4
  <2>2. Moved(w)[1] = moved /\ Moved(w)[2] = opened /\ DOMAIN Moved(w) = 1..2
    BY <2>1
  <2> QED
    BY <1>3, <2>2 DEF moved
<1>5. CASE closes
  <2>1. Moved(w) = <<moved>> \o <<>> \o <<closed>>
    BY <1>1, <1>2, <1>5
  <2>2. Moved(w)[1] = moved /\ Moved(w)[2] = closed /\ DOMAIN Moved(w) = 1..2
    BY <2>1
  <2> QED
    BY <1>3, <2>2 DEF moved
<1>6. CASE ~opens /\ ~closes
  <2>1. Moved(w) = <<moved>> \o <<>> \o <<>>
    BY <1>2, <1>6
  <2>2. Moved(w)[1] = moved /\ DOMAIN Moved(w) = 1..1
    BY <2>1
  <2> QED
    BY <2>2 DEF moved
<1> QED
  BY <1>4, <1>5, <1>6

\* What a worker tells of its own step: ranks that its event has not reached.
LEMMA WorkTells ==
  ASSUME TypeOK, OnceInv, TrailShape, NEW w \in Workers, Work(w)
  PROVE  /\ \A k \in DOMAIN due'[w] : IsStory(due'[w][k]) =>
              /\ due'[w][k].event = ev[w].id /\ due'[w][k].sub = ev[w].sub
              /\ Bound(w) < Rank[due'[w][k].type]
              /\ Owns(w) \/ store[ev[w].id] = "unseen"
              /\ Owns(w)' => Rank[due'[w][k].type] <= Bound(w)'
              /\ ~Owns(w)' => pc'[w] = "idle" /\ store'[ev[w].id] \in Verdicts
              /\ \A j \in DOMAIN due'[w] : j < k =>
                   /\ IsStory(due'[w][j]) /\ Rank[due'[w][j].type] < Rank[due'[w][k].type]
                   /\ due'[w][j].event = ev[w].id /\ due'[w][j].sub = ev[w].sub
         /\ Owns(w)' => /\ ev'[w] = ev[w] /\ Bound(w) <= Bound(w)'
                        /\ Owns(w) \/ store[ev[w].id] = "unseen"
<1> DEFINE Fits ==
      \A k \in DOMAIN due'[w] : IsStory(due'[w][k]) =>
        /\ due'[w][k].event = ev[w].id /\ due'[w][k].sub = ev[w].sub
        /\ Bound(w) < Rank[due'[w][k].type]
        /\ Owns(w) \/ store[ev[w].id] = "unseen"
        /\ Owns(w)' => Rank[due'[w][k].type] <= Bound(w)'
        /\ ~Owns(w)' => pc'[w] = "idle" /\ store'[ev[w].id] \in Verdicts
        /\ \A j \in DOMAIN due'[w] : j < k =>
             /\ IsStory(due'[w][j]) /\ Rank[due'[w][j].type] < Rank[due'[w][k].type]
             /\ due'[w][j].event = ev[w].id /\ due'[w][j].sub = ev[w].sub
<1>1. ASSUME NEW type \in LineTypes, due'[w] = <<Tell(w, type)>>,
             type # "EVENT_DUPLICATE" =>
               /\ Bound(w) < Rank[type]
               /\ Owns(w) \/ store[ev[w].id] = "unseen"
               /\ Owns(w)' => Rank[type] <= Bound(w)'
               /\ ~Owns(w)' => pc'[w] = "idle" /\ store'[ev[w].id] \in Verdicts
      PROVE  Fits
  <2>1. DOMAIN due'[w] = {1} /\ due'[w][1] = Tell(w, type)
    BY <1>1
  <2>2. /\ Tell(w, type).type = type /\ Tell(w, type).event = ev[w].id
        /\ Tell(w, type).sub = ev[w].sub
    BY DEF Tell, About
  <2> QED
    BY <1>1, <2>1, <2>2 DEF IsStory
<1>2. Owns(w)' => /\ ev'[w] = ev[w] /\ Bound(w) <= Bound(w)'
                  /\ Owns(w) \/ store[ev[w].id] = "unseen"
  BY WorkSteps DEF Owns, Bound
<1>3. CASE due'[w] = <<>>
  BY <1>2, <1>3
<1>4. CASE /\ pc[w] = "claim" /\ pc'[w] = "handle" /\ store[ev[w].id] = "unseen"
           /\ due'[w] = <<Tell(w, "EVENT_RECEIVED")>>
  BY <1>1, <1>2, <1>4, RankOf DEF LineTypes, Bound, Owns
<1>5. CASE due'[w] = <<Tell(w, "EVENT_DUPLICATE")>>
  BY <1>1, <1>2, <1>5 DEF LineTypes
<1>6. CASE /\ pc[w] = "handle" /\ pc'[w] = "mark"
           /\ due'[w] = <<Tell(w, "STATE_NO_OP")>>
  BY <1>1, <1>2, <1>6, RankOf DEF LineTypes, Bound, Owns
<1>7. CASE /\ pc[w] \in {"handle", "attach"} /\ pc'[w] = "mark"
           /\ due'[w] = <<Tell(w, "INVOICE_PAID")>>
  BY <1>1, <1>2, <1>7, RankOf DEF LineTypes, Bound, Owns
<1>8. CASE /\ pc[w] \in {"handle", "attach"} /\ pc'[w] = "mark"
           /\ due'[w] = Recorded(w)
  <2>1. DOMAIN due'[w] = {1} /\ due'[w][1] = About(w, "INVOICE_RECORDED", LineageOf(w))
    BY <1>8 DEF Recorded
  <2>2. /\ due'[w][1].type = "INVOICE_RECORDED" /\ due'[w][1].event = ev[w].id
        /\ due'[w][1].sub = ev[w].sub
    BY <2>1 DEF About
  <2>3. Bound(w) = 1 /\ Bound(w)' = 3 /\ Owns(w) /\ Owns(w)'
    BY <1>8 DEF Bound, Owns
  <2>4. Fits
    BY <2>1, <2>2, <2>3, RankOf
  <2> QED
    BY <1>2, <2>4
<1>9. CASE /\ Transition(w) /\ pc[w] = "handle" /\ pc'[w] \in {"window", "mark"}
           /\ due'[w] = Moved(w)
  <2>1. WantsTransition(w)
    BY <1>9 DEF Transition
  <2>2. /\ due'[w][1] = Tell(w, "STATE_TRANSITION")
        /\ DOMAIN due'[w] \in {1..1, 1..2}
        /\ DOMAIN due'[w] = 1..2 =>
             \E ep : \/ due'[w][2] = About(w, "HALT_EPISODE_OPENED", ep)
                     \/ due'[w][2] = About(w, "HALT_EPISODE_CLOSED", ep)
    BY <1>9, <2>1, MovedRanks
  <2>3. /\ due'[w][1].type = "STATE_TRANSITION" /\ due'[w][1].event = ev[w].id
        /\ due'[w][1].sub = ev[w].sub
    BY <2>2 DEF Tell, About
  <2>4. DOMAIN due'[w] = 1..2 =>
          /\ due'[w][2].type \in {"HALT_EPISODE_OPENED", "HALT_EPISODE_CLOSED"}
          /\ due'[w][2].event = ev[w].id /\ due'[w][2].sub = ev[w].sub
    <3>1. SUFFICES ASSUME DOMAIN due'[w] = 1..2
                   PROVE  /\ due'[w][2].type \in {"HALT_EPISODE_OPENED", "HALT_EPISODE_CLOSED"}
                          /\ due'[w][2].event = ev[w].id /\ due'[w][2].sub = ev[w].sub
      OBVIOUS
    <3>2. PICK ep : \/ due'[w][2] = About(w, "HALT_EPISODE_OPENED", ep)
                    \/ due'[w][2] = About(w, "HALT_EPISODE_CLOSED", ep)
      BY <2>2, <3>1
    <3> QED
      BY <3>2 DEF About
  <2>5. Bound(w) = 1 /\ Bound(w)' = 3 /\ Owns(w) /\ Owns(w)'
    BY <1>9 DEF Bound, Owns
  <2>6. /\ Rank[due'[w][1].type] = 2
        /\ DOMAIN due'[w] = 1..2 => Rank[due'[w][2].type] = 3
    BY <2>3, <2>4, RankOf
  <2>7. \A k \in DOMAIN due'[w] : k = 1 \/ (k = 2 /\ DOMAIN due'[w] = 1..2)
    BY <2>2
  <2>8. Fits
    BY <2>3, <2>4, <2>5, <2>6, <2>7 DEF IsStory
  <2> QED
    BY <1>2, <2>8
<1>10. CASE /\ pc[w] = "mark" /\ pc'[w] = "idle"
            /\ store' = [store EXCEPT ![ev[w].id] = res[w]]
            /\ due'[w] \in {<<Tell(w, "EVENT_PROCESSED")>>, <<Tell(w, "EVENT_REJECTED")>>}
  <2>1. ev[w].id \in EventIds /\ res[w] \in Verdicts
    BY <1>10, EventFields DEF TypeOK
  <2>2. store'[ev[w].id] \in Verdicts
    BY <1>10, <2>1 DEF TypeOK
  <2>3. Bound(w) = 3 /\ Owns(w) /\ ~Owns(w)'
    BY <1>10 DEF Bound, Owns
  <2> QED
    BY <1>1, <1>2, <1>10, <2>2, <2>3, RankOf DEF LineTypes
<1> QED
  BY <1>3, <1>4, <1>5, <1>6, <1>7, <1>8, <1>9, <1>10, WorkSteps

\* A step of a worker's own takes its event's story up where it had come to.
LEMMA StoryWork ==
  ASSUME TypeOK, OnceInv, TrailInv, TrailInv', StoryInv, TrailStep,
         NEW w \in Workers, Work(w)
  PROVE  StoryInv'
<1>1. [Next]_vars /\ TrailShape
  BY TrailStepIsLedgerStep DEF TrailInv
<1>2. /\ due[w] = <<>> /\ held[w] = 0 /\ trail' = trail /\ held' = held
      /\ \A v \in Workers : v # w => due'[v] = due[v]
  <2>1. \E entries \in Seq(Entry) : Owes(w, entries)
    BY WorkOwes
  <2> QED
    BY <2>1 DEF Owes, Work, TrailInv, TrailShape, Counted
<1>3. \A v \in Workers : v # w =>
        /\ pc'[v] = pc[v] /\ ev'[v] = ev[v] /\ Owns(v)' = Owns(v) /\ Bound(v)' = Bound(v)
  BY OthersKeep DEF Owns, Bound
<1>4. \A k \in DOMAIN due'[w] : IsStory(due'[w][k]) =>
        /\ due'[w][k].event = ev[w].id /\ due'[w][k].sub = ev[w].sub
        /\ Bound(w) < Rank[due'[w][k].type]
        /\ Owns(w) \/ store[ev[w].id] = "unseen"
        /\ Owns(w)' => Rank[due'[w][k].type] <= Bound(w)'
        /\ ~Owns(w)' => pc'[w] = "idle" /\ store'[ev[w].id] \in Verdicts
        /\ \A j \in DOMAIN due'[w] : j < k =>
             /\ IsStory(due'[w][j]) /\ Rank[due'[w][j].type] < Rank[due'[w][k].type]
             /\ due'[w][j].event = ev[w].id /\ due'[w][j].sub = ev[w].sub
  BY <1>1, WorkTells
<1>5. Owns(w)' => /\ ev'[w] = ev[w] /\ Bound(w) <= Bound(w)'
                  /\ Owns(w) \/ store[ev[w].id] = "unseen"
  BY <1>1, WorkTells
<1>6. /\ \A i \in EventIds : store[i] \in Verdicts => store'[i] \in Verdicts
      /\ \A i \in EventIds : store[i] # "unseen" => store'[i] # "unseen"
  BY <1>1, VerdictsStay
<1>7. /\ \A l \in trail : l.entry \in Entry /\ l.entry.event \in EventIds
      /\ \A v \in Workers : \A k \in DOMAIN due[v] :
           due[v][k] \in Entry /\ due[v][k].event \in EventIds
      /\ \A v \in Workers : \A k \in DOMAIN due'[v] : due'[v][k] \in Entry
  <2>1. /\ \A l \in trail : l.entry \in Entry
        /\ \A v \in Workers : due[v] \in Seq(Entry) /\ due'[v] \in Seq(Entry)
    BY DEF TrailInv, TrailShape, Line
  <2>2. \A e \in Entry : e.event \in EventIds
    BY DEF Entry
  <2> QED
    BY <2>1, <2>2, ElementOfSeq, LenProperties
<1>8. "unseen" \notin Verdicts /\ "received" \notin Verdicts
  BY DEF Verdicts, Processed, Rejected
<1>9. StoriesHaveEvents'
  BY <1>2, <1>6, <1>7 DEF StoryInv, StoriesHaveEvents
<1>10. DueIsOwn'
  <2>1. SUFFICES ASSUME NEW v \in Workers, NEW k \in DOMAIN due'[v], IsStory(due'[v][k])
                 PROVE  \/ /\ Owns(v)' /\ due'[v][k].event = ev'[v].id
                           /\ due'[v][k].sub = ev'[v].sub
                           /\ Rank[due'[v][k].type] <= Bound(v)'
                        \/ pc'[v] = "idle" /\ store'[due'[v][k].event] \in Verdicts
    BY DEF DueIsOwn, IsStory
  <2>2. CASE v = w
    BY <1>4, <1>5, <2>1, <2>2
  <2>3. CASE v # w
    BY <1>2, <1>3, <1>6, <1>7, <2>1, <2>3 DEF StoryInv, DueIsOwn
  <2> QED
    BY <2>2, <2>3
<1>11. ASSUME NEW v \in Workers, v # w, NEW j \in DOMAIN due[v], IsStory(due[v][j]),
              NEW k \in DOMAIN due'[w], IsStory(due'[w][k])
       PROVE  due[v][j].event # due'[w][k].event
  <2>1. \/ Owns(v) /\ due[v][j].event = ev[v].id /\ store[ev[v].id] = "received"
        \/ store[due[v][j].event] \in Verdicts
    BY <1>11 DEF StoryInv, DueIsOwn, OnceInv, OwnedIsReceived
  <2>2. /\ due'[w][k].event = ev[w].id
        /\ (Owns(w) /\ store[ev[w].id] = "received") \/ store[ev[w].id] = "unseen"
    BY <1>4, <1>11 DEF OnceInv, OwnedIsReceived
  <2>3. Owns(v) /\ Owns(w) => ev[v].id # ev[w].id
    BY <1>11 DEF OnceInv, OwnersDiffer
  <2> QED
    BY <1>8, <2>1, <2>2, <2>3
<1>12. DueApart'
  <2>1. SUFFICES ASSUME NEW u \in Workers, NEW v \in Workers, u # v,
                        NEW j \in DOMAIN due'[u], NEW k \in DOMAIN due'[v],
                        IsStory(due'[u][j]), IsStory(due'[v][k])
                 PROVE  due'[u][j].event # due'[v][k].event
    BY DEF DueApart, IsStory
  <2>2. CASE u # w /\ v # w
    BY <1>2, <2>1, <2>2 DEF StoryInv, DueApart
  <2>3. CASE u = w
    BY <1>2, <1>11, <2>1, <2>3
  <2>4. CASE v = w
    BY <1>2, <1>11, <2>1, <2>4
  <2> QED
    BY <2>2, <2>3, <2>4
<1>13. ToldIsBound'
  <2>1. SUFFICES ASSUME NEW v \in Workers, Owns(v)', NEW l \in trail, IsStory(l.entry),
                        l.entry.event = ev'[v].id
                 PROVE  l.entry.sub = ev'[v].sub /\ Rank[l.entry.type] <= Bound(v)'
    BY <1>2 DEF ToldIsBound, IsStory
  <2>2. CASE v = w
    <3>1. Owns(w) /\ l.entry.event = ev[w].id /\ ev'[w] = ev[w]
      BY <1>5, <2>1, <2>2 DEF StoryInv, StoriesHaveEvents
    <3>2. l.entry.sub = ev[w].sub /\ Rank[l.entry.type] <= Bound(w)
      BY <2>1, <3>1 DEF StoryInv, ToldIsBound
    <3>3. /\ Rank[l.entry.type] \in Int /\ Bound(w) \in Int /\ Bound(w)' \in Int
          /\ Bound(w) <= Bound(w)'
      BY <1>5, <1>7, <2>1, <2>2, RankIsNat DEF Bound
    <3> QED
      BY <2>2, <3>1, <3>2, <3>3
  <2>3. CASE v # w
    BY <1>3, <2>1, <2>3 DEF StoryInv, ToldIsBound
  <2> QED
    BY <2>2, <2>3
<1>14. DueIsNext'
  <2>1. SUFFICES ASSUME NEW v \in Workers, NEW k \in DOMAIN due'[v], IsStory(due'[v][k]),
                        NEW l \in trail, IsStory(l.entry), l.entry.event = due'[v][k].event
                 PROVE  /\ l.entry.sub = due'[v][k].sub
                        /\ Rank[l.entry.type] < Rank[due'[v][k].type]
    BY <1>2 DEF DueIsNext, IsStory
  <2>2. CASE v = w
    <3>1. Owns(w) /\ l.entry.event = ev[w].id /\ due'[w][k].sub = ev[w].sub
      BY <1>4, <2>1, <2>2 DEF StoryInv, StoriesHaveEvents
    <3>2. l.entry.sub = ev[w].sub /\ Rank[l.entry.type] <= Bound(w)
      BY <2>1, <3>1 DEF StoryInv, ToldIsBound
    <3>3. /\ Rank[l.entry.type] \in Int /\ Rank[due'[w][k].type] \in Int /\ Bound(w) \in Int
          /\ Bound(w) < Rank[due'[w][k].type]
      BY <1>4, <1>7, <2>1, <2>2, RankIsNat DEF Bound
    <3> QED
      BY <2>2, <3>1, <3>2, <3>3
  <2>3. CASE v # w
    BY <1>2, <2>1, <2>3 DEF StoryInv, DueIsNext
  <2> QED
    BY <2>2, <2>3
<1>15. DueInOrder'
  <2>1. SUFFICES ASSUME NEW v \in Workers, NEW k \in DOMAIN due'[v], IsStory(due'[v][k]),
                        NEW j \in DOMAIN due'[v], j < k
                 PROVE  /\ IsStory(due'[v][j])
                        /\ Rank[due'[v][j].type] < Rank[due'[v][k].type]
                        /\ due'[v][j].event = due'[v][k].event
                        /\ due'[v][j].sub = due'[v][k].sub
    BY DEF DueInOrder, IsStory
  <2>2. CASE v = w
    BY <1>4, <2>1, <2>2
  <2>3. CASE v # w
    BY <1>2, <2>1, <2>3 DEF StoryInv, DueInOrder
  <2> QED
    BY <2>2, <2>3
<1>16. HeldIsNext' /\ StoryInOrder'
  <2>1. \A v \in Workers : held[v] # 0 => due'[v] = due[v]
    BY <1>2
  <2> QED
    BY <1>2, <2>1 DEF StoryInv, HeldIsNext, StoryInOrder, IsStory
<1> QED
  BY <1>9, <1>10, <1>12, <1>13, <1>14, <1>15, <1>16 DEF StoryInv

\* A line that is written was next in its story.
LEMMA StoryAppend ==
  ASSUME TypeOK, OnceInv, TrailInv, StoryInv, NEW w \in Workers, AppendLine(w)
  PROVE  StoryInv'
<1> DEFINE line == [seq |-> held[w], entry |-> due[w][1]]
<1>1. /\ held[w] # 0 /\ held'[w] = 0 /\ UNCHANGED <<pc, ev, store>>
      /\ 1 \in DOMAIN due[w] /\ Len(due[w]) \in Nat
      /\ trail' = trail \cup {line}
      /\ \A k \in DOMAIN due'[w] : k + 1 \in DOMAIN due[w] /\ due'[w][k] = due[w][k + 1]
      /\ \A v \in Workers : v # w => due'[v] = due[v] /\ held'[v] = held[v]
  BY Appends DEF TrailInv, vars
<1>2. line.entry = due[w][1] /\ line.seq = held[w]
  OBVIOUS
<1> HIDE DEF line
<1>3. \A v \in Workers : Owns(v)' = Owns(v) /\ Bound(v)' = Bound(v)
  BY <1>1 DEF Owns, Bound
<1>4. "unseen" \notin Verdicts /\ "received" \notin Verdicts
  BY DEF Verdicts, Processed, Rejected
<1>5. /\ DOMAIN due[w] \subseteq Nat \ {0} /\ DOMAIN due'[w] \subseteq Nat \ {0}
      /\ line.entry \in Entry
      /\ \A l \in trail : l.entry \in Entry
  <2>1. /\ due[w] \in Seq(Entry) /\ due'[w] \in Seq(Entry)
        /\ \A l \in trail : l.entry \in Entry
    <3>1. due'[w] = Tail(due[w]) /\ due[w] \in Seq(Entry) /\ due[w] # <<>>
      BY DEF AppendLine, TrailInv, TrailShape, Counted
    <3> QED
      BY <3>1 DEF TrailInv, TrailShape, Line
  <2> QED
    BY <1>1, <1>2, <2>1, ElementOfSeq, LenProperties
<1>6. IsStory(line.entry) =>
        \/ /\ Owns(w) /\ line.entry.event = ev[w].id /\ line.entry.sub = ev[w].sub
           /\ Rank[line.entry.type] <= Bound(w) /\ store[line.entry.event] = "received"
        \/ store[line.entry.event] \in Verdicts
  BY <1>1, <1>2 DEF StoryInv, DueIsOwn, OnceInv, OwnedIsReceived
<1>7. StoriesHaveEvents'
  BY <1>1, <1>4, <1>6 DEF StoryInv, StoriesHaveEvents, IsStory
<1>8. \A v \in Workers : \A k \in DOMAIN due'[v] :
        \E j \in DOMAIN due[v] : due'[v][k] = due[v][j]
  BY <1>1
<1>9. DueIsOwn'
  BY <1>1, <1>3, <1>8 DEF StoryInv, DueIsOwn, IsStory
<1>10. DueApart'
  BY <1>8 DEF StoryInv, DueApart, IsStory
<1>11. ToldIsBound'
  <2>1. SUFFICES ASSUME NEW v \in Workers, Owns(v), IsStory(line.entry),
                        line.entry.event = ev[v].id
                 PROVE  line.entry.sub = ev[v].sub /\ Rank[line.entry.type] <= Bound(v)
    BY <1>1, <1>3 DEF StoryInv, ToldIsBound, IsStory
  <2>2. store[line.entry.event] = "received"
    BY <2>1 DEF OnceInv, OwnedIsReceived
  <2>3. Owns(w) /\ line.entry.event = ev[w].id
    BY <1>4, <1>6, <2>1, <2>2
  <2>4. v = w
    BY <2>1, <2>3 DEF OnceInv, OwnersDiffer
  <2> QED
    BY <1>4, <1>6, <2>1, <2>2, <2>4
<1>12. ASSUME NEW v \in Workers, v # w, NEW k \in DOMAIN due[v], IsStory(due[v][k]),
              IsStory(line.entry)
       PROVE  line.entry.event # due[v][k].event
  BY <1>1, <1>2, <1>12 DEF StoryInv, DueApart
<1>13. ASSUME NEW k \in DOMAIN due'[w], IsStory(due'[w][k])
       PROVE  /\ IsStory(line.entry) /\ Rank[line.entry.type] < Rank[due'[w][k].type]
              /\ line.entry.event = due'[w][k].event /\ line.entry.sub = due'[w][k].sub
  <2>1. k + 1 \in DOMAIN due[w] /\ due'[w][k] = due[w][k + 1] /\ 1 < k + 1
    BY <1>1, <1>5
  <2> QED
    BY <1>1, <1>2, <1>13, <2>1 DEF StoryInv, DueInOrder
<1>14. DueIsNext'
  <2>1. SUFFICES ASSUME NEW v \in Workers, NEW k \in DOMAIN due'[v], IsStory(due'[v][k]),
                        NEW l \in trail \cup {line}, IsStory(l.entry),
                        l.entry.event = due'[v][k].event
                 PROVE  /\ l.entry.sub = due'[v][k].sub
                        /\ Rank[l.entry.type] < Rank[due'[v][k].type]
    BY <1>1 DEF DueIsNext, IsStory
  <2>2. CASE l \in trail
    BY <1>8, <2>1, <2>2 DEF StoryInv, DueIsNext
  <2>3. CASE l = line /\ v = w
    BY <1>13, <2>1, <2>3
  <2>4. CASE l = line /\ v # w
    BY <1>1, <1>12, <2>1, <2>4
  <2> QED
    BY <2>2, <2>3, <2>4
<1>15. DueInOrder'
  <2>1. SUFFICES ASSUME NEW v \in Workers, NEW k \in DOMAIN due'[v], IsStory(due'[v][k]),
                        NEW j \in DOMAIN due'[v], j < k
                 PROVE  /\ IsStory(due'[v][j])
                        /\ Rank[due'[v][j].type] < Rank[due'[v][k].type]
                        /\ due'[v][j].event = due'[v][k].event
                        /\ due'[v][j].sub = due'[v][k].sub
    BY DEF DueInOrder, IsStory
  <2>2. CASE v = w
    <3>1. /\ k + 1 \in DOMAIN due[w] /\ due'[w][k] = due[w][k + 1]
          /\ j + 1 \in DOMAIN due[w] /\ due'[w][j] = due[w][j + 1]
          /\ j + 1 < k + 1
      BY <1>1, <1>5, <2>1, <2>2
    <3> QED
      BY <2>1, <2>2, <3>1 DEF StoryInv, DueInOrder
  <2>3. CASE v # w
    BY <1>1, <2>1, <2>3 DEF StoryInv, DueInOrder
  <2> QED
    BY <2>2, <2>3
<1>16. HeldIsNext'
  <2>1. SUFFICES ASSUME NEW v \in Workers, held'[v] # 0, IsStory(due'[v][1]),
                        NEW l \in trail \cup {line}, IsStory(l.entry),
                        l.entry.event = due'[v][1].event
                 PROVE  l.seq < held'[v]
    BY <1>1 DEF HeldIsNext, IsStory
  <2>2. v # w /\ held[v] # 0 /\ due'[v] = due[v] /\ held'[v] = held[v]
    BY <1>1, <2>1
  <2>3. 1 \in DOMAIN due[v]
    <3>1. due[v] # <<>> /\ due[v] \in Seq(Entry)
      BY <2>2 DEF TrailInv, TrailShape, Counted
    <3> QED
      BY <3>1
  <2>4. CASE l \in trail
    BY <2>1, <2>2, <2>4 DEF StoryInv, HeldIsNext
  <2>5. CASE l = line
    BY <1>12, <2>1, <2>2, <2>3, <2>5
  <2> QED
    BY <2>4, <2>5
<1>17. ASSUME NEW l \in trail, IsStory(l.entry), IsStory(line.entry),
              l.entry.event = line.entry.event
       PROVE  Rank[l.entry.type] < Rank[line.entry.type] /\ l.seq < line.seq
  BY <1>1, <1>2, <1>17 DEF StoryInv, DueIsNext, HeldIsNext
<1>18. StoryInOrder'
  <2>1. SUFFICES ASSUME NEW l \in trail \cup {line}, NEW m \in trail \cup {line},
                        l.entry.event = m.entry.event, IsStory(l.entry), IsStory(m.entry)
                 PROVE  /\ Rank[l.entry.type] = Rank[m.entry.type] => l = m
                        /\ Rank[l.entry.type] < Rank[m.entry.type] => l.seq < m.seq
    BY <1>1 DEF StoryInOrder, IsStory
  <2>2. Rank[l.entry.type] \in Int /\ Rank[m.entry.type] \in Int
    BY <1>5, <2>1, RankIsNat
  <2>3. CASE l \in trail /\ m \in trail
    BY <2>1, <2>3 DEF StoryInv, StoryInOrder
  <2>4. CASE l \in trail /\ m = line
    BY <1>17, <2>1, <2>2, <2>4
  <2>5. CASE l = line /\ m \in trail
    BY <1>17, <2>1, <2>2, <2>5
  <2>6. CASE l = line /\ m = line
    BY <2>2, <2>6
  <2> QED
    BY <2>3, <2>4, <2>5, <2>6
<1> QED
  BY <1>7, <1>9, <1>10, <1>11, <1>14, <1>15, <1>16, <1>18 DEF StoryInv

LEMMA StoryStep ==
  ASSUME TypeOK, OnceInv, TrailInv, TrailInv', StoryInv, TrailStep
  PROVE  StoryInv'
<1>1. ASSUME UNCHANGED <<pc, ev, store, trail, due, held>>
      PROVE  StoryInv'
  <2>1. \A v \in Workers : Owns(v)' = Owns(v) /\ Bound(v)' = Bound(v)
    BY <1>1 DEF Owns, Bound
  <2> QED
    BY <1>1, <2>1 DEF StoryInv, StoriesHaveEvents, DueIsOwn, DueApart, ToldIsBound, DueIsNext,
                      DueInOrder, HeldIsNext, StoryInOrder, IsStory
<1>2. ASSUME NEW w \in Workers, Takes(w) \/ Dies(w)
      PROVE  StoryInv'
  <2>1. /\ trail' = trail /\ store' = store
        /\ due'[w] = <<>> /\ held'[w] = 0 /\ ~Owns(w)'
        /\ \A v \in Workers : v # w => due'[v] = due[v] /\ held'[v] = held[v]
    <3>1. CASE Takes(w)
      <4>1. held[w] = 0
        BY <3>1 DEF Takes, TrailInv, Counted
      <4> QED
        BY <3>1, <4>1 DEF Takes, Receive, Goto, Owns, TypeOK, trailVars
    <3>2. CASE Dies(w)
      BY <3>2 DEF Dies, Crash, Leave, Goto, Owns, TypeOK, TrailInv, TrailShape, vars
    <3> QED
      BY <1>2, <3>1, <3>2
  <2>2. \A v \in Workers : v # w =>
          /\ pc'[v] = pc[v] /\ ev'[v] = ev[v] /\ Owns(v)' = Owns(v) /\ Bound(v)' = Bound(v)
    BY <1>2, OthersKeep DEF Owns, Bound
  <2>3. \A v \in Workers : \A k \in DOMAIN due'[v] : v # w
    BY <2>1
  <2>4. StoriesHaveEvents' /\ StoryInOrder'
    BY <2>1 DEF StoryInv, StoriesHaveEvents, StoryInOrder, IsStory
  <2>5. DueIsOwn'
    BY <2>1, <2>2, <2>3 DEF StoryInv, DueIsOwn, IsStory
  <2>6. DueApart' /\ DueIsNext' /\ DueInOrder'
    BY <2>1, <2>3 DEF StoryInv, DueApart, DueIsNext, DueInOrder, IsStory
  <2>7. ToldIsBound'
    BY <2>1, <2>2 DEF StoryInv, ToldIsBound, IsStory
  <2>8. HeldIsNext'
    BY <2>1 DEF StoryInv, HeldIsNext, IsStory
  <2> QED
    BY <2>4, <2>5, <2>6, <2>7, <2>8 DEF StoryInv
<1>3. ASSUME NEW w \in Workers, Number(w)
      PROVE  StoryInv'
  <2> DEFINE s == due[w][1].sub
  <2>1. /\ UNCHANGED <<pc, ev, store, trail, due>> /\ due[w] # <<>>
        /\ held'[w] = seq[Head(due[w]).sub] + 1
        /\ \A v \in Workers : v # w => held'[v] = held[v]
    BY <1>3 DEF Number, TrailInv, TrailShape, vars
  <2>2. /\ Head(due[w]) = due[w][1] /\ s \in Subs /\ 1 \in DOMAIN due[w]
        /\ seq[s] \in Nat
    <3>1. Head(due[w]) = due[w][1] /\ s \in Subs
      BY <2>1, FirstOwed DEF TrailInv
    <3>2. due[w] \in Seq(Entry) /\ seq \in [Subs -> Nat]
      BY DEF TrailInv, TrailShape
    <3> HIDE DEF s
    <3> QED
      BY <2>1, <3>1, <3>2
  <2>3. ASSUME NEW l \in trail, IsStory(l.entry), IsStory(due[w][1]),
               l.entry.event = due[w][1].event
        PROVE  l.seq < held'[w]
    <3>1. l.entry.sub = s
      BY <2>2, <2>3 DEF StoryInv, DueIsNext
    <3>2. l.seq \in Nat /\ l.seq <= seq[s]
      BY <3>1 DEF TrailInv, TrailShape, Counted, Line
    <3> HIDE DEF s
    <3> QED
      BY <2>1, <2>2, <3>2 DEF s
  <2>4. HeldIsNext'
    BY <2>1, <2>3 DEF StoryInv, HeldIsNext, IsStory
  <2>5. \A v \in Workers : Owns(v)' = Owns(v) /\ Bound(v)' = Bound(v)
    BY <2>1 DEF Owns, Bound
  <2> QED
    BY <2>1, <2>4, <2>5 DEF StoryInv, StoriesHaveEvents, DueIsOwn, DueApart, ToldIsBound,
                            DueIsNext, DueInOrder, StoryInOrder, IsStory
<1> QED
  BY <1>1, <1>2, <1>3, StoryWork, StoryAppend
  DEF TrailStep, TrailNext, Create, locals, trailVars, allVars, vars

\* Of each kind an event has one line, EVENT_DUPLICATE apart, and by their numbers
\* the lines of an event tell what its worker did in the order in which it did it:
\* only the owner tells the story, and what is due always ranks after what is told.
THEOREM StoriesAreInOrder == TrailSpec => []EachStoryInOrder
<1>1. TrailInit => StoryInv
  BY DEF TrailInit, Init, StoryInv, StoriesHaveEvents, DueIsOwn, DueApart, ToldIsBound,
         DueIsNext, DueInOrder, HeldIsNext, StoryInOrder, Owns
<1>2. /\ TypeOK /\ OnceInv /\ TrailInv /\ TrailInv' /\ StoryInv /\ [TrailNext]_allVars
      => StoryInv'
  BY StoryStep DEF TrailStep
<1>3. TrailInv /\ StoryInv => EachStoryInOrder
  <2> SUFFICES ASSUME TrailInv, StoryInv, NEW l \in trail, NEW m \in trail,
                      l.entry.event = m.entry.event
               PROVE  /\ \/ l.entry.type = m.entry.type /\ l.entry.type # "EVENT_DUPLICATE"
                         \/ {l.entry.type, m.entry.type} = {"EVENT_PROCESSED", "EVENT_REJECTED"}
                         => l = m
                      /\ /\ {l.entry.type, m.entry.type} \subseteq DOMAIN Rank
                         /\ Rank[l.entry.type] < Rank[m.entry.type]
                         => l.seq < m.seq
    BY DEF EachStoryInOrder, ToldOnce
  <2>1. l.entry \in Entry /\ m.entry \in Entry
    BY DEF TrailInv, TrailShape, Line
  <2>2. \/ l.entry.type = m.entry.type /\ l.entry.type # "EVENT_DUPLICATE"
        \/ {l.entry.type, m.entry.type} = {"EVENT_PROCESSED", "EVENT_REJECTED"}
        => l = m
    <3>1. CASE l.entry.type = m.entry.type /\ l.entry.type # "EVENT_DUPLICATE"
      BY <3>1 DEF StoryInv, StoryInOrder, IsStory
    <3>2. CASE {l.entry.type, m.entry.type} = {"EVENT_PROCESSED", "EVENT_REJECTED"}
      <4>1. /\ l.entry.type \in {"EVENT_PROCESSED", "EVENT_REJECTED"}
            /\ m.entry.type \in {"EVENT_PROCESSED", "EVENT_REJECTED"}
        BY <3>2
      <4> QED
        BY <4>1, RankOf DEF StoryInv, StoryInOrder, IsStory
    <3> QED
      BY <3>1, <3>2
  <2>3. /\ {l.entry.type, m.entry.type} \subseteq DOMAIN Rank
        /\ Rank[l.entry.type] < Rank[m.entry.type]
        => l.seq < m.seq
    BY <2>1, RankOf DEF StoryInv, StoryInOrder, IsStory
  <2> QED
    BY <2>2, <2>3
<1> QED
  BY <1>1, <1>2, <1>3, TrailInvariant, LedgerInvariants, PTL DEF TrailSpec
=============================================================================
