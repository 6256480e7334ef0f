------------------------------- MODULE Ledger -------------------------------
(***************************************************************************)
(* Event ingestion: HTTP workers that turn payment-platform events into    *)
(* subscription transitions, halt episodes, invoices and settlements.      *)
(*                                                                         *)
(* Every database call is atomic on one document and every await is a      *)
(* point where other workers run, so an action here is one database call   *)
(* and the pure code around it.  A worker reads the subscription once, on  *)
(* arrival, and decides on that copy; only the status is compared again    *)
(* when it writes.  Audit lines are write-only for this component: module  *)
(* AuditTrail models them.                                                 *)
(***************************************************************************)
EXTENDS StateMachine, Integers, Sequences

CONSTANTS
  Subs,      \* subscription ids
  Feeds,     \* sets of events: what the platform may have to deliver
  Workers,   \* concurrent requests in POST /events
  NoEvent    \* what a worker without a request holds

\* Every event the platform may deliver.
Feed == UNION Feeds

Times == {e.at : e \in Feed}
EventIds == {e.id : e \in Feed}
InvoiceIds == {e.inv : e \in Feed}
Cycles == {e.cycle : e \in Feed}

EventTypes == Lifecycle \cup
  {"invoice", "paid", "noted", "malformed"}

(***************************************************************************)
(* Feeds hold records: "noted" stands for a payment event that names no    *)
(* settled invoice (payment.failed, or payment.succeeded without an        *)
(* invoice id), "malformed" for an invoice or payment event whose payload  *)
(* does not validate.  Times are logical (occurred_at), never negative.    *)
(***************************************************************************)
ASSUME FeedAssumption ==
  /\ \A e \in Feed : /\ e.sub \in Subs
                     /\ e.type \in EventTypes
                     /\ e.at \in Nat
  /\ NoEvent \notin Feed

VARIABLES
  subs,      \* subscription documents
  store,     \* events collection: id -> "unseen", "received" or the verdict
  invoices,  \* invoices collection: a set of rows
  pc,        \* where each worker's request is
  ev,        \* the event a worker is processing
  snap,      \* the worker's copy of the subscription
  res,       \* the reason code the worker will answer with
  history,   \* the transitions committed so far, per subscription (ghost)
  feed       \* the events of this behaviour, fixed: each delivered as often as
             \* the platform likes, in any order

db == <<subs, invoices>>
locals == <<pc, ev, snap, res>>
vars == <<subs, store, invoices, pc, ev, snap, res, history, feed>>

-----------------------------------------------------------------------------
NoTime == -1          \* a datetime that is None
NoEpisode == 0        \* an episode id that is None

\* episode_id is "he_<n>": the number stands for the string.
Episode == [id : Nat \ {0}, halted : Times, react : Times \cup {NoTime},
            invs : SUBSET InvoiceIds]

Subscription == [status : Statuses \cup {"absent"},
                 last : Times \cup {NoTime}, eps : Seq(Episode)]

Absent == [status |-> "absent", last |-> NoTime, eps |-> <<>>]

Row == [id : InvoiceIds, sub : Subs, cycle : Cycles, at : Times,
        ep : Nat, status : {"UNPAID", "PAID"}]

Processed == {"OK", "NO_OP"}
Rejected == {"STALE", "ILLEGAL", "CONCURRENT", "DUP_INVOICE", "DUP_CYCLE",
             "NOT_FOUND", "MALFORMED"}
Verdicts == Processed \cup Rejected

Move == [id : EventIds, from : Statuses, to : Statuses, at : Times]

-----------------------------------------------------------------------------
IsOpen(episode) == episode.react = NoTime

\* Fault: the lower bound of the window is not checked.
ContainsUnbounded(episode, moment) == IsOpen(episode) \/ moment < episode.react

\* The window of an episode: from the halt, up to but not at the return.
Contains(episode, moment) ==
  /\ episode.halted <= moment
  /\ IsOpen(episode) \/ moment < episode.react

First(S) == CHOOSE i \in S : \A j \in S : i <= j

FindEpisodeContaining(sub, moment) ==
  LET hits == {i \in DOMAIN sub.eps : Contains(sub.eps[i], moment)}
  IN  IF hits = {} THEN NoEpisode ELSE sub.eps[First(hits)].id

\* Fault: the array filter is missing, every episode gets the return time.
TransitionedAll(sub, to, at, opened, closing) ==
  [status |-> to,
   last   |-> at,
   eps    |-> [i \in DOMAIN sub.eps |->
                 IF closing THEN [sub.eps[i] EXCEPT !.react = at]
                 ELSE sub.eps[i]] \o opened]

\* find_one_and_update of apply_transition, the CAS having matched: one
\* update that sets status and time, pushes the new episode and closes every
\* open one.
Transitioned(sub, to, at, opened, closing) ==
  [status |-> to,
   last   |-> at,
   eps    |-> LET kept == [i \in DOMAIN sub.eps |->
                             IF closing /\ IsOpen(sub.eps[i])
                             THEN [sub.eps[i] EXCEPT !.react = at]
                             ELSE sub.eps[i]]
              IN  kept \o opened]

\* The episode ingestion believes it just closed: the first whose return time
\* is the event's, else the last.  Called on a subscription with episodes.
JustClosed(sub, at) ==
  LET hits == {i \in DOMAIN sub.eps : sub.eps[i].react = at}
  IN  IF hits = {} THEN sub.eps[Len(sub.eps)] ELSE sub.eps[First(hits)]

Attached(sub, episode, inv) ==
  [sub EXCEPT !.eps = [i \in DOMAIN sub.eps |->
     IF sub.eps[i].id = episode
     THEN [sub.eps[i] EXCEPT !.invs = @ \cup {inv}]
     ELSE sub.eps[i]]]

Settled(rows, inv) ==
  {IF r.id = inv THEN [r EXCEPT !.status = "PAID"] ELSE r : r \in rows}

-----------------------------------------------------------------------------
Init ==
  /\ subs = [s \in Subs |-> Absent]
  /\ store = [i \in EventIds |-> "unseen"]
  /\ invoices = {}
  /\ pc = [w \in Workers |-> "idle"]
  /\ ev = [w \in Workers |-> NoEvent]
  /\ snap = [w \in Workers |-> Absent]
  /\ res = [w \in Workers |-> "OK"]
  /\ history = [s \in Subs |-> <<>>]
  /\ feed \in Feeds

\* POST /subscriptions: any status, no episodes, no last state change.
Create(s, status) ==
  /\ subs[s] = Absent
  /\ subs' = [subs EXCEPT ![s].status = status]
  /\ UNCHANGED <<store, invoices, locals, history, feed>>

-----------------------------------------------------------------------------
(* A worker's steps through ingest().                                      *)

At(w, place) == pc[w] = place

Goto(w, place) == pc' = [pc EXCEPT ![w] = place]

\* The request ends: the worker forgets what it held.
Leave(w) ==
  /\ Goto(w, "idle")
  /\ ev' = [ev EXCEPT ![w] = NoEvent]
  /\ snap' = [snap EXCEPT ![w] = Absent]
  /\ res' = [res EXCEPT ![w] = "OK"]

\* The handler returns `reason` without touching the ledger.
Answer(w, reason) ==
  /\ Goto(w, "mark")
  /\ res' = [res EXCEPT ![w] = reason]
  /\ UNCHANGED <<subs, store, invoices, ev, snap, history, feed>>

\* Delivery of an event: subscriptions.get.  An unknown subscription, or a run
\* id that is not the subscription's, is refused with nothing stored, which is
\* no step at all.
Receive(w, e) ==
  /\ At(w, "idle")
  /\ e \in feed
  /\ subs[e.sub] # Absent
  /\ Goto(w, "claim")
  /\ ev' = [ev EXCEPT ![w] = e]
  /\ snap' = [snap EXCEPT ![w] = subs[e.sub]]
  /\ UNCHANGED <<subs, store, invoices, res, history, feed>>

\* Fault: without the unique index, every delivery owns the event.
ClaimUnchecked(w) ==
  /\ At(w, "claim")
  /\ store' = [store EXCEPT ![ev[w].id] = "received"]
  /\ Goto(w, "handle")
  /\ UNCHANGED <<subs, invoices, ev, snap, res, history, feed>>

\* events.claim: the insert wins, or the event id is already there.
Claim(w) ==
  /\ At(w, "claim")
  /\ store[ev[w].id] = "unseen"
  /\ store' = [store EXCEPT ![ev[w].id] = "received"]
  /\ Goto(w, "handle")
  /\ UNCHANGED <<subs, invoices, ev, snap, res, history, feed>>

Duplicate(w) ==
  /\ At(w, "claim")
  /\ store[ev[w].id] # "unseen"
  /\ Leave(w)
  /\ UNCHANGED <<subs, store, invoices, history, feed>>

-----------------------------------------------------------------------------
(* _handle_lifecycle: decide on the snapshot, write under the status CAS.  *)

IsStale(w) ==
  /\ snap[w].last # NoTime
  /\ ev[w].at < snap[w].last

HandlesLifecycle(w) == At(w, "handle") /\ ev[w].type \in Lifecycle

RejectStale(w) ==
  /\ HandlesLifecycle(w)
  /\ IsStale(w)
  /\ Answer(w, "STALE")

RejectIllegal(w) ==
  /\ HandlesLifecycle(w)
  /\ ~IsStale(w)
  /\ IsIllegal(snap[w].status, ev[w].type)
  /\ Answer(w, "ILLEGAL")

NoOp(w) ==
  /\ HandlesLifecycle(w)
  /\ ~IsStale(w)
  /\ IsNoOp(snap[w].status, ev[w].type)
  /\ Answer(w, "NO_OP")

WantsTransition(w) ==
  /\ HandlesLifecycle(w)
  /\ ~IsStale(w)
  /\ IsTransition(snap[w].status, ev[w].type)

\* Fault: the filter names the subscription only.
SwappableAlways(w) == TRUE

\* The filter of apply_transition: this subscription, in the expected status.
Swappable(w) == subs[ev[w].sub].status = snap[w].status

\* Fault: ids counted from zero.
NewEpisodeFromZero(w) ==
  IF Opens(snap[w].status, ev[w].type)
  THEN <<[id |-> Len(snap[w].eps), halted |-> ev[w].at, react |-> NoTime,
          invs |-> {}]>>
  ELSE <<>>

NewEpisode(w) ==
  IF Opens(snap[w].status, ev[w].type)
  THEN <<[id     |-> Len(snap[w].eps) + 1,
          halted |-> ev[w].at,
          react  |-> NoTime,
          invs   |-> {}]>>
  ELSE <<>>

Updated(w) ==
  Transitioned(subs[ev[w].sub], Target[ev[w].type], ev[w].at, NewEpisode(w),
               Closes(snap[w].status, ev[w].type))

Transition(w) ==
  LET e == ev[w] IN
  /\ WantsTransition(w)
  /\ Swappable(w)
  /\ subs' = [subs EXCEPT ![e.sub] = Updated(w)]
  /\ snap' = [snap EXCEPT ![w] = Updated(w)]
  /\ res' = [res EXCEPT ![w] = "OK"]
  /\ history' = [history EXCEPT ![e.sub] =
       Append(@, [id |-> e.id, from |-> snap[w].status,
                  to |-> Target[e.type], at |-> e.at])]
  /\ Goto(w, IF Closes(snap[w].status, e.type) /\ Updated(w).eps # <<>>
             THEN "window" ELSE "mark")
  /\ UNCHANGED <<store, invoices, ev, feed>>

TransitionLost(w) ==
  /\ WantsTransition(w)
  /\ ~Swappable(w)
  /\ Answer(w, "CONCURRENT")

\* recovery.handle_reactivation returns, or raises and is swallowed.  What it
\* does to the recovery cases is module RecoveryWindow's.
HookReturns(w) ==
  /\ At(w, "window")
  /\ Goto(w, "mark")
  /\ UNCHANGED <<db, store, ev, snap, res, history, feed>>

-----------------------------------------------------------------------------
(* _handle_invoice_created and _handle_payment.                            *)

LineageOf(w) == FindEpisodeContaining(snap[w], ev[w].at)

HandlesInvoice(w) == At(w, "handle") /\ ev[w].type = "invoice"

CycleTaken(w) ==
  \E r \in invoices : r.sub = ev[w].sub /\ r.cycle = ev[w].cycle

IdTaken(inv) == \E r \in invoices : r.id = inv

\* invoices.insert: the row with its lineage, if neither unique index
\* knows it.
InsertInvoice(w) ==
  LET e == ev[w] IN
  /\ HandlesInvoice(w)
  /\ ~IdTaken(e.inv)
  /\ ~CycleTaken(w)
  /\ invoices' = invoices \cup
       {[id |-> e.inv, sub |-> e.sub, cycle |-> e.cycle, at |-> e.at,
         ep |-> LineageOf(w), status |-> "UNPAID"]}
  /\ Goto(w, IF LineageOf(w) = NoEpisode THEN "mark" ELSE "attach")
  /\ UNCHANGED <<subs, store, ev, snap, res, history, feed>>

\* Both unique indexes may refuse a row; which one the server reports first
\* when both do is not the caller's choice.
RefuseInvoice(w) ==
  /\ HandlesInvoice(w)
  /\ \/ IdTaken(ev[w].inv) /\ Answer(w, "DUP_INVOICE")
     \/ CycleTaken(w) /\ Answer(w, "DUP_CYCLE")

AttachInvoice(w) ==
  LET e == ev[w] IN
  /\ At(w, "attach")
  /\ subs' = [subs EXCEPT ![e.sub] = Attached(@, LineageOf(w), e.inv)]
  /\ Goto(w, "mark")
  /\ UNCHANGED <<store, invoices, ev, snap, res, history, feed>>

\* invoices.get and mark_paid: rows are never deleted, so the two calls are
\* one step.  The invoice may belong to any subscription.
SettleInvoice(w) ==
  /\ At(w, "handle")
  /\ ev[w].type = "paid"
  /\ IdTaken(ev[w].inv)
  /\ invoices' = Settled(invoices, ev[w].inv)
  /\ Goto(w, "mark")
  /\ UNCHANGED <<subs, store, ev, snap, res, history, feed>>

InvoiceNotFound(w) ==
  /\ At(w, "handle")
  /\ ev[w].type = "paid"
  /\ ~IdTaken(ev[w].inv)
  /\ Answer(w, "NOT_FOUND")

NoteOrRefusePayload(w) ==
  /\ At(w, "handle")
  /\ \/ ev[w].type = "noted" /\ Answer(w, "OK")
     \/ ev[w].type = "malformed" /\ Answer(w, "MALFORMED")

-----------------------------------------------------------------------------
\* events.mark, then the answer.
Mark(w) ==
  /\ At(w, "mark")
  /\ store' = [store EXCEPT ![ev[w].id] = res[w]]
  /\ Leave(w)
  /\ UNCHANGED <<db, history, feed>>

\* The process dies, or a database call raises out of ingest(), between two
\* calls.  What was written stays; nobody resumes the request.
Crash(w) ==
  /\ pc[w] # "idle"
  /\ Leave(w)
  /\ UNCHANGED <<db, store, history, feed>>

Lifecycles(w) ==
  \/ RejectStale(w) \/ RejectIllegal(w) \/ NoOp(w)
  \/ Transition(w) \/ TransitionLost(w)

InvoicesAndPayments(w) ==
  \/ InsertInvoice(w) \/ RefuseInvoice(w) \/ AttachInvoice(w)
  \/ SettleInvoice(w) \/ InvoiceNotFound(w) \/ NoteOrRefusePayload(w)

\* What a worker does with the request it has, the recovery hook excepted.
Serve(w) ==
  Claim(w) \/ Duplicate(w) \/ Lifecycles(w) \/ InvoicesAndPayments(w) \/ Mark(w)

Step(w) == Serve(w) \/ HookReturns(w)

\* A subscription that no event names is left uncreated: nothing reads it.
Named == {e.sub : e \in feed}

Arrive ==
  \/ \E s \in Named, status \in Statuses : Create(s, status)
  \/ \E w \in Workers, e \in Feed : Receive(w, e)

Next == Arrive \/ \E w \in Workers : Step(w) \/ Crash(w)

Spec == Init /\ [][Next]_vars

-----------------------------------------------------------------------------
(* Correctness.                                                            *)

\* The documents and the workers' locals keep their shapes; a worker at work
\* holds an event it received.
TypeOK ==
  /\ subs \in [Subs -> Subscription]
  /\ store \in [EventIds -> {"unseen", "received"} \cup Verdicts]
  /\ invoices \subseteq Row
  /\ pc \in [Workers ->
       {"idle", "claim", "handle", "attach", "window", "mark"}]
  /\ ev \in [Workers -> Feed \cup {NoEvent}]
  /\ snap \in [Workers -> Subscription]
  /\ res \in [Workers -> Verdicts]
  /\ history \in [Subs -> Seq(Move)]
  /\ feed \in Feeds
  /\ \A w \in Workers : pc[w] # "idle" => ev[w] \in Feed

\* An open halt episode is the last one of a HALTED subscription, so at most
\* one is open: although a worker decides on an old copy, the status CAS of
\* apply_transition admits an opening only where nothing is open.
OpenOnlyWhileHalted ==
  \A s \in Subs : \A i \in DOMAIN subs[s].eps :
    IsOpen(subs[s].eps[i]) =>
      /\ subs[s].status = "HALTED"
      /\ i = Len(subs[s].eps)

\* However often an event is delivered, and to however many workers, it moves
\* at most one subscription, once, and none if it was answered with a rejection:
\* a refusal, CONCURRENT_MODIFICATION included, is clean.
EachEventMovesOnce ==
  /\ \A s, t \in Subs : \A i \in DOMAIN history[s], j \in DOMAIN history[t] :
       history[s][i].id = history[t][j].id => s = t /\ i = j
  /\ \A s \in Subs : \A i \in DOMAIN history[s] : store[history[s][i].id] \notin Rejected

\* The lineage written on an invoice row names an episode its subscription
\* really has, begun no later than the invoice, though it was looked up in a
\* copy of the subscription that may be old; and an episode lists an invoice
\* only if the row says so too, though the two are written by two calls.
LineageNamesAHalt ==
  /\ \A r \in invoices : r.ep # NoEpisode =>
       \E i \in DOMAIN subs[r.sub].eps :
         /\ subs[r.sub].eps[i].id = r.ep
         /\ subs[r.sub].eps[i].halted <= r.at
  /\ \A s \in Subs : \A i \in DOMAIN subs[s].eps : \A inv \in subs[s].eps[i].invs :
       \E r \in invoices : r.id = inv /\ r.sub = s /\ r.ep = subs[s].eps[i].id

\* The episode list is append-only, and a closed window never moves: no step
\* rewrites an episode's id, its halt or a return time already set.
EpisodesAreFinal ==
  [][\A s \in Subs : \A i \in DOMAIN subs[s].eps :
       /\ i \in DOMAIN subs'[s].eps
       /\ subs'[s].eps[i].id = subs[s].eps[i].id
       /\ subs'[s].eps[i].halted = subs[s].eps[i].halted
       /\ subs'[s].eps[i].react \in {subs[s].eps[i].react}
            \cup (IF IsOpen(subs[s].eps[i]) THEN Times ELSE {})]_vars

-----------------------------------------------------------------------------
Cycle == INSTANCE HaltCycle WITH
  status <- [s \in Subs |-> subs[s].status],
  halts  <- [s \in Subs |-> Len(subs[s].eps)],
  open   <- [s \in Subs |-> \E i \in DOMAIN subs[s].eps : IsOpen(subs[s].eps[i])]

\* Ingestion, with its workers, copies, duplicates and crashes, implements the
\* one-edge-at-a-time halt cycle: a halt is opened with the status that means
\* it and closed with the status that ends it, never one without the other.
KeepsTheHaltCycle == Cycle!HCSpec
=============================================================================
