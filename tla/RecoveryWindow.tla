---------------------------- MODULE RecoveryWindow ----------------------------
(***************************************************************************)
(* What follows a reactivation: the worker that closed a halt rebuilds its *)
(* backlog, gates it, opens one recovery case and escalates it if policy   *)
(* says so.  Reconciliation passes walk the closed halts and do the same   *)
(* for those without a case.  Composes with Ledger, whose workers, events  *)
(* and crashes go on meanwhile; one action per database call.              *)
(***************************************************************************)
EXTENDS Ledger, Collectibility, PolicyV1, FiniteSets

CONSTANTS
  Passes,        \* requests to POST /recovery-cases/reconcile, each made once
  Amount,        \* invoice id -> amount in paise
  Facts,         \* invoice id -> what else its creation event says of it
  Traffic        \* feed -> how many of them are made beside it, and what flags a
                 \* customer may carry, at most the three of Flags

Flags == {"risk", "dispute", "opted_out"}

ASSUME WindowAssumption ==
  /\ Amount \in [InvoiceIds -> Nat]
  /\ Facts \in [InvoiceIds ->
       [waived : BOOLEAN, marked : BOOLEAN, delivery : Deliveries]]
  /\ Passes \cap Workers = {}
  /\ Traffic \in [Feeds -> [passes : Nat, flags : SUBSET Flags]]

VARIABLES
  cases,   \* recovery_cases collection: a set of documents
  gates,   \* collectibility_status of each invoice row, "none" before a gate
  flags,   \* the flags of each subscription's customer
  win,     \* the recovery window each process is in
  pass,    \* how far each reconciliation pass is
  scan     \* the closed halts it has still to visit

caseVars == <<cases, gates, flags>>
windowVars == <<cases, gates, flags, win, pass, scan>>
rwVars == <<vars, windowVars>>

CustomerFlags == Traffic[feed].flags

Processes == Workers \cup Passes

Halt == [sub : Subs, ep : Nat]

Case == [halt : Halt, status : {"open", "review_required", "escalated"},
         collectible : SUBSET InvoiceIds, review : SUBSET InvoiceIds,
         excluded : SUBSET InvoiceIds]

NoWindow == [at |-> "none"]

-----------------------------------------------------------------------------
RowOf(inv) == CHOOSE r \in invoices : r.id = inv

\* reconstruct_backlog: lineage and status decide, never date windows.
Backlog(halt) ==
  {r.id : r \in {r \in invoices : /\ r.sub = halt.sub
                                  /\ r.ep = halt.ep
                                  /\ r.status = "UNPAID"}}

SubjectNow(inv) ==
  [status   |-> RowOf(inv).status,
   waived   |-> Facts[inv].waived,
   marked   |-> Facts[inv].marked,
   delivery |-> Facts[inv].delivery]

\* The policy context of a case just created, without attempt or contact; the
\* card and the mandate never escalate.
NeedsEscalation(customer) ==
  EvaluateV1([domestic |-> FALSE, backlog |-> 0, mandate |-> 0,
              risk |-> "risk" \in customer, dispute |-> "dispute" \in customer,
              opted_out |-> "opted_out" \in customer,
              attempts |-> 0, max_attempts |-> 3,
              now |-> 0, last_contact |-> NeverContacted, cooldown |-> 24]
            ).escalates

HasCase(halt) == \E c \in cases : c.halt = halt

\* What the gate put in a bucket, in the window process p is in.
Judged(p, verdict) ==
  {inv \in DOMAIN win[p].verdicts : win[p].verdicts[inv] = verdict}

Collectible(p) == HasValue(Judged(p, "COLLECTIBLE"), Amount)

Reviewable(p) == HasValue(Judged(p, "REVIEW_REQUIRED"), Amount)

-----------------------------------------------------------------------------
RWInit ==
  /\ Init
  /\ cases = {}
  /\ gates = [inv \in InvoiceIds |-> "none"]
  /\ flags \in [Subs -> SUBSET CustomerFlags]
  /\ win = [p \in Processes |-> NoWindow]
  /\ pass = [p \in Passes |-> "new"]
  /\ scan = [p \in Passes |-> {}]

InWindow(p, place) == win[p].at = place

Moves(p, next) ==
  /\ win' = [win EXCEPT ![p] = next]
  /\ UNCHANGED <<vars, pass, scan>>

\* The window ends: ingestion goes on to its verdict whatever happened, a pass
\* to the next halt of its scan.
Leaves(p, halt) ==
  /\ win' = [win EXCEPT ![p] = NoWindow]
  /\ \/ p \in Workers /\ HookReturns(p) /\ UNCHANGED scan
     \/ p \in Passes /\ scan' = [scan EXCEPT ![p] = @ \ {halt}] /\ UNCHANGED vars
  /\ UNCHANGED pass

\* The halt a worker's transition closed.  The list it is looked up in is the
\* updated document's, so it is closed and the guard of handle_reactivation
\* against open episodes never fires.
ClosedBy(w) == [sub |-> ev[w].sub, ep |-> JustClosed(snap[w], ev[w].at).id]

\* Fault: a backlog the gate has seen is taken to have its case.
OpenUngatedWindow(p, halt) ==
  /\ \/ /\ HasValue(Backlog(halt), Amount)
        /\ \A inv \in Backlog(halt) : gates[inv] = "none"
        /\ Moves(p, [at |-> "gate", halt |-> halt, ids |-> Backlog(halt)])
     \/ /\ ~HasValue(Backlog(halt), Amount) \/ \E inv \in Backlog(halt) : gates[inv] # "none"
        /\ Leaves(p, halt)
  /\ UNCHANGED caseVars

\* handle_reactivation begins: the backlog of the halt, and out again if
\* nothing of value is owed.
OpenWindow(p, halt) ==
  /\ \/ HasValue(Backlog(halt), Amount) /\ Moves(p,
          [at |-> "gate", halt |-> halt, ids |-> Backlog(halt)])
     \/ ~HasValue(Backlog(halt), Amount) /\ Leaves(p, halt)
  /\ UNCHANGED caseVars

Reactivate(w) ==
  /\ At(w, "window")
  /\ InWindow(w, "none")
  /\ OpenWindow(w, ClosedBy(w))

\* list_for_ids and the gate: the rows are read a second time.
Gate(p) ==
  /\ InWindow(p, "gate")
  /\ Moves(p, [at       |-> "persist",
               halt     |-> win[p].halt,
               verdicts |-> [inv \in win[p].ids |->
                               EvaluateCollectibility(SubjectNow(inv))],
               left     |-> win[p].ids])
  /\ UNCHANGED caseVars

\* set_collectibility, an invoice at a time in some billing order, of the gate's
\* two fields only.
Persist(p) ==
  /\ InWindow(p, "persist")
  /\ \E inv \in win[p].left :
       /\ gates' = [gates EXCEPT ![inv] = win[p].verdicts[inv]]
       /\ Moves(p, [win[p] EXCEPT !.left = @ \ {inv}])
  /\ UNCHANGED <<cases, flags>>

\* Fault: the case is drafted while the verdicts are still being written.
PersistedSome(p) == InWindow(p, "persist")

Persisted(p) == InWindow(p, "persist") /\ win[p].left = {}

\* Nothing collectible and nothing to review: no case.
GateCloses(p) ==
  /\ Persisted(p)
  /\ ~Collectible(p) /\ ~Reviewable(p)
  /\ Leaves(p, win[p].halt)
  /\ UNCHANGED caseVars

\* customers.get, for the draft of the case.
Draft(p) ==
  /\ Persisted(p)
  /\ Collectible(p) \/ Reviewable(p)
  /\ Moves(p, [at |-> "create", halt |-> win[p].halt,
               verdicts |-> win[p].verdicts, customer |-> flags[win[p].halt.sub]])
  /\ UNCHANGED caseVars

DraftOf(p) ==
  [halt        |-> win[p].halt,
   status      |-> IF Collectible(p) THEN "open" ELSE "review_required",
   collectible |-> Judged(p, "COLLECTIBLE"),
   review      |-> Judged(p, "REVIEW_REQUIRED"),
   excluded    |-> Judged(p, "NOT_COLLECTIBLE")]

\* Fault: no unique index on the halt.
CreateAnyway(p) ==
  /\ InWindow(p, "create")
  /\ cases' = cases \cup {DraftOf(p)}
  /\ \/ /\ Collectible(p) /\ NeedsEscalation(win[p].customer)
        /\ Moves(p, [at |-> "escalate", halt |-> win[p].halt])
     \/ /\ ~(Collectible(p) /\ NeedsEscalation(win[p].customer))
        /\ Leaves(p, win[p].halt)
  /\ UNCHANGED <<gates, flags>>

\* create_if_absent wins; an eligible case that policy wants escalated is next.
CreateCase(p) ==
  /\ InWindow(p, "create")
  /\ ~HasCase(win[p].halt)
  /\ cases' = cases \cup {DraftOf(p)}
  /\ \/ /\ Collectible(p) /\ NeedsEscalation(win[p].customer)
        /\ Moves(p, [at |-> "escalate", halt |-> win[p].halt])
     \/ /\ ~(Collectible(p) /\ NeedsEscalation(win[p].customer))
        /\ Leaves(p, win[p].halt)
  /\ UNCHANGED <<gates, flags>>

\* create_if_absent loses: the case that owns the halt stays as it is.
FindCase(p) ==
  /\ InWindow(p, "create")
  /\ HasCase(win[p].halt)
  /\ Leaves(p, win[p].halt)
  /\ UNCHANGED caseVars

EscalateCase(p) ==
  /\ InWindow(p, "escalate")
  /\ cases' = {IF c.halt = win[p].halt THEN [c EXCEPT !.status = "escalated"] ELSE c :
                 c \in cases}
  /\ Leaves(p, win[p].halt)
  /\ UNCHANGED <<gates, flags>>

InHandler(p) ==
  \/ Gate(p) \/ Persist(p) \/ GateCloses(p) \/ Draft(p)
  \/ CreateCase(p) \/ FindCase(p) \/ EscalateCase(p)

-----------------------------------------------------------------------------
(* Reconciliation.                                                         *)

MayStart(p) ==
  /\ pass[p] = "new"
  /\ Cardinality({q \in Passes : pass[q] # "new"}) < Traffic[feed].passes

\* list_with_closed_halt_episodes, and the closed halts of what it returns.
StartPass(p) ==
  /\ MayStart(p)
  /\ pass' = [pass EXCEPT ![p] = "running"]
  /\ scan' = [scan EXCEPT ![p] =
       UNION {{[sub |-> s, ep |-> subs[s].eps[i].id] :
                 i \in {i \in DOMAIN subs[s].eps : ~IsOpen(subs[s].eps[i])}} :
              s \in Subs}]
  /\ UNCHANGED <<vars, caseVars, win>>

\* Episodes of one subscription are visited in the order of its list; the order
\* of subscriptions is the cursor's.
NextHalt(p, halt) ==
  /\ pass[p] = "running"
  /\ halt \in scan[p]
  /\ InWindow(p, "none")
  /\ \A h \in scan[p] : h.sub = halt.sub => halt.ep <= h.ep

\* cases.get_by_episode finds the case.
SkipHalt(p) ==
  \E halt \in scan[p] :
    /\ NextHalt(p, halt)
    /\ HasCase(halt)
    /\ scan' = [scan EXCEPT ![p] = @ \ {halt}]
    /\ UNCHANGED <<vars, caseVars, win, pass>>

\* Fault: the window is opened in a task that nobody awaits.
VisitHaltUnawaited(p) ==
  \E halt \in scan[p] :
    /\ NextHalt(p, halt)
    /\ ~HasCase(halt)
    /\ win' = [win EXCEPT ![p] = [at |-> "open", halt |-> halt]]
    /\ scan' = [scan EXCEPT ![p] = @ \ {halt}]
    /\ UNCHANGED <<vars, caseVars, pass>>

\* It does not, and the window is opened; meanwhile others may open it too.
VisitHalt(p) ==
  \E halt \in scan[p] :
    /\ NextHalt(p, halt)
    /\ ~HasCase(halt)
    /\ Moves(p, [at |-> "open", halt |-> halt])
    /\ UNCHANGED caseVars

Reconstruct(p) ==
  /\ InWindow(p, "open")
  /\ OpenWindow(p, win[p].halt)

EndPass(p) ==
  /\ pass[p] = "running"
  /\ scan[p] = {}
  /\ pass' = [pass EXCEPT ![p] = "done"]
  /\ UNCHANGED <<vars, caseVars, win, scan>>

\* The process dies, or a call raises: nothing swallows it here.
PassDies(p) ==
  /\ pass[p] = "running"
  /\ pass' = [pass EXCEPT ![p] = "dead"]
  /\ scan' = [scan EXCEPT ![p] = {}]
  /\ win' = [win EXCEPT ![p] = NoWindow]
  /\ UNCHANGED <<vars, caseVars>>

PassStep(p) ==
  SkipHalt(p) \/ VisitHalt(p) \/ Reconstruct(p) \/ InHandler(p) \/ EndPass(p)

-----------------------------------------------------------------------------
WorkerStep(w) == Reactivate(w) \/ InHandler(w)

\* A call raises inside the window: ingestion swallows it.
WindowFails(w) ==
  /\ At(w, "window")
  /\ Leaves(w, NoWindow)
  /\ UNCHANGED caseVars

WorkerDies(w) ==
  /\ Crash(w)
  /\ win' = [win EXCEPT ![w] = NoWindow]
  /\ UNCHANGED <<caseVars, pass, scan>>

\* set_flags, on behalf of a case; the two booleans may also be cleared.
SetFlags(s) ==
  /\ \E c \in cases : c.halt.sub = s
  /\ \E set \in SUBSET CustomerFlags, clear \in SUBSET (CustomerFlags \ {"risk"}) :
       /\ set # {} /\ set \cap clear = {}
       /\ flags' = [flags EXCEPT ![s] = (@ \ clear) \cup set]
  /\ UNCHANGED <<vars, cases, gates, win, pass, scan>>

RWNext ==
  \/ (Arrive \/ \E w \in Workers : Serve(w)) /\ UNCHANGED windowVars
  \/ \E w \in Workers : WorkerStep(w) \/ WindowFails(w) \/ WorkerDies(w)
  \/ \E p \in Passes : StartPass(p) \/ PassStep(p) \/ PassDies(p)
  \/ \E s \in Subs : SetFlags(s)

RWSpec == RWInit /\ [][RWNext]_rwVars

\* A pass that runs is scheduled until it ends.  Nothing makes anybody start one,
\* for the code has no scheduler; and it needs no progress of the workers.
RWFairSpec == RWSpec /\ \A p \in Passes : WF_rwVars(PassStep(p))

-----------------------------------------------------------------------------
(* Correctness.                                                            *)

\* What a process knows of its window keeps its shape at every place.
IsWindow(x) ==
  \/ x = NoWindow
  \/ x \in [at : {"open", "escalate"}, halt : Halt]
  \/ x \in [at : {"gate"}, halt : Halt, ids : SUBSET InvoiceIds]
  \/ \E ids \in SUBSET InvoiceIds :
       \/ x \in [at : {"persist"}, halt : Halt,
                 verdicts : [ids -> CollectibilityStatuses], left : SUBSET ids]
       \/ x \in [at : {"create"}, halt : Halt,
                 verdicts : [ids -> CollectibilityStatuses],
                 customer : SUBSET CustomerFlags]

\* The documents and the processes' locals keep their shapes; a worker is in a
\* window only while ingestion waits for it.
RWTypeOK ==
  /\ cases \subseteq Case
  /\ gates \in [InvoiceIds -> CollectibilityStatuses \cup {"none"}]
  /\ flags \in [Subs -> SUBSET CustomerFlags]
  /\ DOMAIN win = Processes /\ \A p \in Processes : IsWindow(win[p])
  /\ pass \in [Passes -> {"new", "running", "done", "dead"}]
  /\ scan \in [Passes -> SUBSET Halt]
  /\ \A w \in Workers : win[w] # NoWindow => pc[w] = "window"
  /\ \A p \in Passes : win[p] # NoWindow => pass[p] = "running"

\* However many workers and passes open the window of a halt, and whatever
\* dies meanwhile, it has at most one case.
OneCasePerHalt == \A c, d \in cases : c.halt = d.halt => c = d

\* No debt is recovered twice: an invoice that a case would collect or review
\* is in no other case, though backlogs are read without any lock.
NoDebtInTwoCases ==
  \A c, d \in cases :
    (c.collectible \cup c.review) \cap (d.collectible \cup d.review) # {} => c = d

\* What a case holds was persisted on the invoice rows before the case was
\* there; a row can only have been gated again, after its settlement.
GateBeforeCase ==
  \A c \in cases :
    /\ \A inv \in c.collectible :
         \/ gates[inv] = "COLLECTIBLE"
         \/ gates[inv] = "NOT_COLLECTIBLE" /\ RowOf(inv).status = "PAID"
    /\ \A inv \in c.review :
         \/ gates[inv] = "REVIEW_REQUIRED"
         \/ gates[inv] = "NOT_COLLECTIBLE" /\ RowOf(inv).status = "PAID"

\* Nothing uncertain is collected, whichever window judged it and whatever it
\* read before: what was not delivered, or was waived or given up, is not debt.
FailsClosed ==
  \A c \in cases, inv \in InvoiceIds : inv \in c.collectible =>
    /\ Facts[inv].delivery = "DELIVERED"
    /\ ~Facts[inv].waived /\ ~Facts[inv].marked

\* The numbers halts can have: one for each event that may open one.
MayBeHalts == 1..Cardinality({e \in Feed : e.type = "halted"})

\* An invoice of value that the gate would pass, and whose halt has no case.
Stranded(halt, inv) ==
  /\ ~HasCase(halt)
  /\ inv \in Backlog(halt) /\ HasValue({inv}, Amount)
  /\ EvaluateCollectibility(SubjectNow(inv)) # "NOT_COLLECTIBLE"

\* A reconciliation pass repairs what the crash of a reactivation left: an
\* invoice that is stranded when the pass has its halt before it does not stay
\* so, unless the pass itself dies.
PassRepairs ==
  \A p \in Passes, s \in Subs, n \in MayBeHalts, inv \in InvoiceIds \ {0} :
    LET halt == [sub |-> s, ep |-> n] IN
    (halt \in scan[p] /\ InWindow(p, "none") /\ Stranded(halt, inv))
      ~> (~Stranded(halt, inv) \/ pass[p] = "dead")
=============================================================================
