------------------------- MODULE RecoveryWindowProofs -------------------------
(***************************************************************************)
(* Theorems about RecoveryWindow, for every set of subscriptions, feeds,   *)
(* workers and passes.                                                     *)
(***************************************************************************)
EXTENDS RecoveryWindow, LedgerProofs

\* Every document of recovery_cases has the fields of a draft.
CaseShape(c) ==
  c = [halt        |-> c.halt,
       status      |-> c.status,
       collectible |-> c.collectible,
       review      |-> c.review,
       excluded    |-> c.excluded]

CasesInv == OneCasePerHalt /\ \A c \in cases : CaseShape(c)

\* A step leaves the cases alone, adds one to a halt that had none, or changes
\* the status of those of one halt.
CaseChange ==
  \/ cases' = cases
  \/ \E p \in Processes : ~HasCase(win[p].halt) /\ cases' = cases \cup {DraftOf(p)}
  \/ \E p \in Processes :
       cases' = {IF c.halt = win[p].halt THEN [c EXCEPT !.status = "escalated"] ELSE c :
                   c \in cases}

LEMMA OpenWindowKeepsCases ==
  ASSUME NEW p, NEW halt, OpenWindow(p, halt)
  PROVE  cases' = cases
BY DEF OpenWindow, caseVars

LEMMA HandlerCaseChange ==
  ASSUME NEW p \in Processes, InHandler(p)
  PROVE  CaseChange
<1>1. CASE Gate(p)
  BY <1>1 DEF Gate, caseVars, CaseChange
<1>2. CASE Persist(p)
  BY <1>2 DEF Persist, CaseChange
<1>3. CASE GateCloses(p)
  BY <1>3 DEF GateCloses, caseVars, CaseChange
<1>4. CASE Draft(p)
  BY <1>4 DEF Draft, caseVars, CaseChange
<1>5. CASE CreateCase(p)
  BY <1>5 DEF CreateCase, CaseChange
<1>6. CASE FindCase(p)
  BY <1>6 DEF FindCase, caseVars, CaseChange
<1>7. CASE EscalateCase(p)
  BY <1>7 DEF EscalateCase, CaseChange
<1> QED
  BY <1>1, <1>2, <1>3, <1>4, <1>5, <1>6, <1>7 DEF InHandler

LEMMA StepCaseChange ==
  ASSUME RWNext
  PROVE  CaseChange
<1>1. CASE (Arrive \/ \E w \in Workers : Serve(w)) /\ UNCHANGED windowVars
  BY <1>1 DEF windowVars, CaseChange
<1>2. ASSUME NEW w \in Workers, WorkerStep(w) \/ WindowFails(w) \/ WorkerDies(w)
      PROVE  CaseChange
  <2>1. CASE Reactivate(w)
    BY <2>1, OpenWindowKeepsCases DEF Reactivate, CaseChange
  <2>2. CASE InHandler(w)
    BY <2>2, HandlerCaseChange DEF Processes
  <2>3. CASE WindowFails(w)
    BY <2>3 DEF WindowFails, caseVars, CaseChange
  <2>4. CASE WorkerDies(w)
    BY <2>4 DEF WorkerDies, caseVars, CaseChange
  <2> QED
    BY <1>2, <2>1, <2>2, <2>3, <2>4 DEF WorkerStep
<1>3. ASSUME NEW p \in Passes, StartPass(p) \/ PassStep(p) \/ PassDies(p)
      PROVE  CaseChange
  <2>1. CASE StartPass(p) \/ PassDies(p)
    BY <2>1 DEF StartPass, PassDies, caseVars, CaseChange
  <2>2. CASE SkipHalt(p) \/ VisitHalt(p) \/ EndPass(p)
    BY <2>2 DEF SkipHalt, VisitHalt, EndPass, caseVars, CaseChange
  <2>3. CASE Reconstruct(p)
    BY <2>3, OpenWindowKeepsCases DEF Reconstruct, CaseChange
  <2>4. CASE InHandler(p)
    BY <2>4, HandlerCaseChange DEF Processes
  <2> QED
    BY <1>3, <2>1, <2>2, <2>3, <2>4 DEF PassStep
<1>4. ASSUME NEW s \in Subs, SetFlags(s)
      PROVE  CaseChange
  BY <1>4 DEF SetFlags, CaseChange
<1> QED
  BY <1>1, <1>2, <1>3, <1>4 DEF RWNext

\* The filter of create_if_absent is the whole argument: what a process read of
\* the halt before it inserts, and how long ago, plays no part.
LEMMA CaseChangeKeepsInv ==
  ASSUME CasesInv, CaseChange
  PROVE  CasesInv'
<1>1. CASE cases' = cases
  BY <1>1 DEF CasesInv, OneCasePerHalt, CaseShape
<1>2. ASSUME NEW p \in Processes, ~HasCase(win[p].halt), cases' = cases \cup {DraftOf(p)}
      PROVE  CasesInv'
  <2>1. DraftOf(p).halt = win[p].halt /\ CaseShape(DraftOf(p))
    BY DEF DraftOf, CaseShape
  <2>2. \A c \in cases : c.halt # DraftOf(p).halt
    BY <1>2, <2>1 DEF HasCase
  <2> QED
    BY <1>2, <2>1, <2>2 DEF CasesInv, OneCasePerHalt, CaseShape
<1>3. ASSUME NEW p \in Processes,
             cases' = {IF c.halt = win[p].halt THEN [c EXCEPT !.status = "escalated"]
                       ELSE c : c \in cases}
      PROVE  CasesInv'
  <2> DEFINE Image(c) == IF c.halt = win[p].halt THEN [c EXCEPT !.status = "escalated"]
                         ELSE c
  <2>1. ASSUME NEW c \in cases
        PROVE  Image(c).halt = c.halt /\ CaseShape(Image(c))
    <3>1. CaseShape(c)
      BY <2>1 DEF CasesInv
    <3> QED
      BY <3>1 DEF CaseShape
  <2>2. cases' = {Image(c) : c \in cases}
    BY <1>3
  <2>3. \A d \in cases' : CaseShape(d)
    BY <2>1, <2>2
  <2>4. ASSUME NEW d \in cases', NEW e \in cases', d.halt = e.halt
        PROVE  d = e
    <3>1. PICK c \in cases : d = Image(c)
      BY <2>2
    <3>2. PICK b \in cases : e = Image(b)
      BY <2>2
    <3>3. c.halt = b.halt
      BY <2>1, <2>4, <3>1, <3>2
    <3> QED
      BY <3>1, <3>2, <3>3 DEF CasesInv, OneCasePerHalt
  <2> HIDE DEF Image
  <2> QED
    BY <2>3, <2>4 DEF CasesInv, OneCasePerHalt, CaseShape
<1> QED
  BY <1>1, <1>2, <1>3 DEF CaseChange

LEMMA CasesInvInvariant == RWSpec => []CasesInv
<1>1. RWInit => CasesInv
  BY DEF RWInit, CasesInv, OneCasePerHalt
<1>2. CasesInv /\ [RWNext]_rwVars => CasesInv'
  <2>1. ASSUME CasesInv, RWNext
        PROVE  CasesInv'
    BY <2>1, StepCaseChange, CaseChangeKeepsInv
  <2>2. ASSUME CasesInv, UNCHANGED rwVars
        PROVE  CasesInv'
    BY <2>2 DEF CasesInv, OneCasePerHalt, CaseShape, rwVars, windowVars
  <2> QED
    BY <2>1, <2>2
<1> QED
  BY <1>1, <1>2, PTL DEF RWSpec

\* However many workers and passes open the window of a halt, it has at most one
\* case: create_if_absent under the unique index is all it takes.
THEOREM OneCase == RWSpec => []OneCasePerHalt
<1>1. CasesInv => OneCasePerHalt
  BY DEF CasesInv
<1> QED
  BY <1>1, CasesInvInvariant, PTL

-----------------------------------------------------------------------------
(* The composition and the ledger.                                         *)

LEMMA LeavesIsLedgerStep ==
  ASSUME NEW p \in Processes, NEW halt, Leaves(p, halt)
  PROVE  [Next]_vars
BY DEF Leaves, Next, Step

LEMMA HandlerIsLedgerStep ==
  ASSUME NEW p \in Processes, InHandler(p)
  PROVE  [Next]_vars
<1>1. CASE Gate(p) \/ Persist(p) \/ Draft(p)
  BY <1>1 DEF Gate, Persist, Draft, Moves
<1>2. CASE GateCloses(p) \/ FindCase(p) \/ EscalateCase(p)
  BY <1>2, LeavesIsLedgerStep DEF GateCloses, FindCase, EscalateCase
<1>3. CASE CreateCase(p)
  BY <1>3, LeavesIsLedgerStep DEF CreateCase, Moves
<1> QED
  BY <1>1, <1>2, <1>3 DEF InHandler

LEMMA WindowStepIsLedgerStep ==
  ASSUME RWNext
  PROVE  [Next]_vars
<1>1. CASE (Arrive \/ \E w \in Workers : Serve(w)) /\ UNCHANGED windowVars
  BY <1>1 DEF Next, Step
<1>2. ASSUME NEW w \in Workers, WorkerStep(w) \/ WindowFails(w) \/ WorkerDies(w)
      PROVE  [Next]_vars
  <2>1. CASE Reactivate(w)
    BY <2>1, LeavesIsLedgerStep DEF Reactivate, OpenWindow, Moves, Processes
  <2>2. CASE InHandler(w)
    BY <2>2, HandlerIsLedgerStep DEF Processes
  <2>3. CASE WindowFails(w)
    BY <2>3, LeavesIsLedgerStep DEF WindowFails, Processes
  <2>4. CASE WorkerDies(w)
    BY <2>4 DEF WorkerDies, Next
  <2> QED
    BY <1>2, <2>1, <2>2, <2>3, <2>4 DEF WorkerStep
<1>3. ASSUME NEW p \in Passes, StartPass(p) \/ PassStep(p) \/ PassDies(p)
      PROVE  [Next]_vars
  <2>1. CASE StartPass(p) \/ PassDies(p) \/ SkipHalt(p) \/ VisitHalt(p) \/ EndPass(p)
    BY <2>1 DEF StartPass, PassDies, SkipHalt, VisitHalt, EndPass, Moves
  <2>2. CASE Reconstruct(p)
    BY <2>2, LeavesIsLedgerStep DEF Reconstruct, OpenWindow, Moves, Processes
  <2>3. CASE InHandler(p)
    BY <2>3, HandlerIsLedgerStep DEF Processes
  <2> QED
    BY <1>3, <2>1, <2>2, <2>3 DEF PassStep
<1>4. ASSUME NEW s \in Subs, SetFlags(s)
      PROVE  [Next]_vars
  BY <1>4 DEF SetFlags
<1> QED
  BY <1>1, <1>2, <1>3, <1>4 DEF RWNext

\* Windows, passes and flags disturb nothing of ingestion: with them it is still
\* a behaviour of Ledger, so that all that is proved of Ledger holds here too.
THEOREM LedgerGoesOn == RWSpec => Spec
<1>1. RWInit => Init
  BY DEF RWInit
<1>2. [RWNext]_rwVars => [Next]_vars
  BY WindowStepIsLedgerStep DEF rwVars
<1> QED
  BY <1>1, <1>2, PTL DEF RWSpec, Spec

-----------------------------------------------------------------------------
(* No debt in two cases.                                                   *)

\* Every invoice id has one row; ids name rows of a halt: their lineage is its.
OneRowPerInvoice == \A r, q \in invoices : r.id = q.id => r = q

OfHalt(rows, ids, halt) ==
  \A inv \in ids : \E r \in rows : r.id = inv /\ r.sub = halt.sub /\ r.ep = halt.ep

IsHalt(h) == h = [sub |-> h.sub, ep |-> h.ep]

\* What a process has of the backlog it is at work on is of the halt it is at
\* work on, however long ago it was read.
WindowIsOfHalt(p) ==
  win[p] # NoWindow =>
    /\ IsHalt(win[p].halt)
    /\ win[p].at = "gate" => OfHalt(invoices, win[p].ids, win[p].halt)
    /\ win[p].at = "persist" =>
         /\ win[p] = [at |-> "persist", halt |-> win[p].halt,
                      verdicts |-> win[p].verdicts, left |-> win[p].left]
         /\ OfHalt(invoices, DOMAIN win[p].verdicts, win[p].halt)
    /\ win[p].at = "create" => OfHalt(invoices, DOMAIN win[p].verdicts, win[p].halt)

CaseIsOfHalt(c) == IsHalt(c.halt) /\ OfHalt(invoices, c.collectible \cup c.review, c.halt)

DebtInv ==
  /\ OneRowPerInvoice
  /\ win = [p \in Processes |-> win[p]] /\ scan = [p \in Passes |-> scan[p]]
  /\ \A p \in Passes : \A h \in scan[p] : IsHalt(h)
  /\ \A p \in Processes : WindowIsOfHalt(p)
  /\ \A c \in cases : CaseIsOfHalt(c)

\* Lineage is for ever, and so is the one row of an id.
LEMMA RowsKeepLineage ==
  ASSUME TypeOK, OneRowPerInvoice, [Next]_vars
  PROVE  /\ OneRowPerInvoice'
         /\ \A r \in invoices : \E q \in invoices' :
              q.id = r.id /\ q.sub = r.sub /\ q.ep = r.ep
<1>1. CASE UNCHANGED invoices
  BY <1>1 DEF OneRowPerInvoice
<1>2. ASSUME NEW w \in Workers, InsertInvoice(w)
      PROVE  /\ OneRowPerInvoice'
             /\ \A r \in invoices : r \in invoices'
  <2>1. \A r \in invoices : r.id # ev[w].inv
    BY <1>2 DEF InsertInvoice, IdTaken
  <2> DEFINE new == [id |-> ev[w].inv, sub |-> ev[w].sub, cycle |-> ev[w].cycle,
                     at |-> ev[w].at, ep |-> LineageOf(w), status |-> "UNPAID"]
  <2>2. invoices' = invoices \cup {new} /\ new.id = ev[w].inv
    BY <1>2 DEF InsertInvoice
  <2> HIDE DEF new
  <2> QED
    BY <2>1, <2>2 DEF OneRowPerInvoice
<1>3. ASSUME NEW inv, invoices' = Settled(invoices, inv)
      PROVE  /\ OneRowPerInvoice'
             /\ \A r \in invoices : \E q \in invoices' :
                  q.id = r.id /\ q.sub = r.sub /\ q.ep = r.ep
  <2> DEFINE Now(r) == IF r.id = inv THEN [r EXCEPT !.status = "PAID"] ELSE r
  <2>1. \A r \in invoices : Now(r).id = r.id /\ Now(r).sub = r.sub /\ Now(r).ep = r.ep
    BY SettledRow DEF TypeOK
  <2>2. invoices' = {Now(r) : r \in invoices}
    BY <1>3 DEF Settled
  <2> HIDE DEF Now
  <2>3. ASSUME NEW q \in invoices', NEW s \in invoices', q.id = s.id
        PROVE  q = s
    <3>1. PICK r \in invoices : q = Now(r)
      BY <2>2
    <3>2. PICK t \in invoices : s = Now(t)
      BY <2>2
    <3> QED
      BY <2>1, <2>3, <3>1, <3>2 DEF OneRowPerInvoice
  <2> QED
    BY <2>1, <2>2, <2>3 DEF OneRowPerInvoice
<1> QED
  BY <1>1, <1>2, <1>3, RowChange

LEMMA OfHaltStays ==
  ASSUME TypeOK, OneRowPerInvoice, [Next]_vars
  PROVE  \A ids, halt : OfHalt(invoices, ids, halt) => OfHalt(invoices', ids, halt)
BY RowsKeepLineage DEF OfHalt

\* Hence a window and a case that a step leaves alone stay in order.
LEMMA WindowStays ==
  ASSUME TypeOK, OneRowPerInvoice, [Next]_vars, NEW p, WindowIsOfHalt(p),
         win'[p] = win[p]
  PROVE  WindowIsOfHalt(p)'
BY OfHaltStays DEF WindowIsOfHalt, IsHalt

LEMMA CaseStays ==
  ASSUME TypeOK, OneRowPerInvoice, [Next]_vars, NEW c, CaseIsOfHalt(c)
  PROVE  CaseIsOfHalt(c)'
BY OfHaltStays DEF CaseIsOfHalt

\* A step of process p: its own window is in order after it, nobody else's
\* changed, what is left of the scans was there, and the cases are in order.
WindowStepOf(p) ==
  /\ \E x : win' = [win EXCEPT ![p] = x]
  /\ WindowIsOfHalt(p)'
  /\ scan' = [q \in Passes |-> scan'[q]]
  /\ \A q \in Passes : \A h \in scan'[q] : IsHalt(h)
  /\ \A c \in cases' : CaseIsOfHalt(c)'

LEMMA WindowStepKeepsInv ==
  ASSUME TypeOK, DebtInv, [Next]_vars, NEW p \in Processes, WindowStepOf(p)
  PROVE  DebtInv'
<1>1. PICK x : win' = [win EXCEPT ![p] = x]
  BY DEF WindowStepOf
<1>2. win' = [q \in Processes |-> win'[q]]
  BY <1>1 DEF DebtInv
<1>3. \A q \in Processes : q # p => win'[q] = win[q]
  BY <1>1 DEF DebtInv
<1>4. \A q \in Processes : WindowIsOfHalt(q)'
  BY <1>3, WindowStays DEF DebtInv, WindowStepOf
<1> QED
  BY <1>2, <1>4, RowsKeepLineage DEF DebtInv, WindowStepOf

\* Where rows and cases are left alone the cases stay in order.
LEMMA CasesKept ==
  ASSUME TypeOK, DebtInv, [Next]_vars, UNCHANGED cases
  PROVE  \A c \in cases' : CaseIsOfHalt(c)'
BY CaseStays DEF DebtInv

LEMMA MovesInOrder ==
  ASSUME TypeOK, DebtInv, [Next]_vars, NEW p \in Processes, NEW x,
         win' = [win EXCEPT ![p] = x], WindowIsOfHalt(p)', UNCHANGED scan,
         \A c \in cases' : CaseIsOfHalt(c)'
  PROVE  WindowStepOf(p)
BY DEF WindowStepOf, DebtInv

LEMMA LeavesInOrder ==
  ASSUME TypeOK, DebtInv, NEW p \in Processes, NEW halt, Leaves(p, halt),
         \A c \in cases' : CaseIsOfHalt(c)'
  PROVE  WindowStepOf(p)
<1>1. win' = [win EXCEPT ![p] = NoWindow] /\ win'[p] = NoWindow
  BY DEF Leaves, DebtInv
<1>2. WindowIsOfHalt(p)'
  BY <1>1 DEF WindowIsOfHalt
<1>3. /\ scan' = [q \in Passes |-> scan'[q]]
      /\ \A q \in Passes : \A h \in scan'[q] : IsHalt(h)
  <2>1. CASE UNCHANGED scan
    BY <2>1 DEF DebtInv
  <2>2. CASE p \in Passes /\ scan' = [scan EXCEPT ![p] = @ \ {halt}]
    BY <2>2 DEF DebtInv
  <2> QED
    BY <2>1, <2>2 DEF Leaves
<1> QED
  BY <1>1, <1>2, <1>3 DEF WindowStepOf

LEMMA OpenWindowInOrder ==
  ASSUME TypeOK, DebtInv, [Next]_vars, NEW p \in Processes, NEW halt, IsHalt(halt),
         OpenWindow(p, halt)
  PROVE  WindowStepOf(p)
<1>1. \A c \in cases' : CaseIsOfHalt(c)'
  BY CasesKept DEF OpenWindow, caseVars
<1>2. CASE Leaves(p, halt)
  BY <1>1, <1>2, LeavesInOrder
<1>3. CASE Moves(p, [at |-> "gate", halt |-> halt, ids |-> Backlog(halt)])
  <2>1. win'[p] = [at |-> "gate", halt |-> halt, ids |-> Backlog(halt)]
    BY <1>3 DEF Moves, DebtInv
  <2>2. OfHalt(invoices', Backlog(halt), halt)
    BY <1>3 DEF Moves, vars, OfHalt, Backlog
  <2>3. WindowIsOfHalt(p)'
    BY <2>1, <2>2 DEF WindowIsOfHalt, IsHalt
  <2> QED
    BY <1>1, <1>3, <2>3, MovesInOrder DEF Moves
<1> QED
  BY <1>2, <1>3 DEF OpenWindow

\* The draft of a case holds what the gate judged, of the halt of the window.
LEMMA DraftInOrder ==
  ASSUME NEW p \in Processes, WindowIsOfHalt(p), InWindow(p, "create")
  PROVE  CaseIsOfHalt(DraftOf(p))
<1>1. IsHalt(win[p].halt) /\ OfHalt(invoices, DOMAIN win[p].verdicts, win[p].halt)
  BY DEF WindowIsOfHalt, InWindow, NoWindow
<1>2. /\ DraftOf(p).halt = win[p].halt
      /\ DraftOf(p).collectible \cup DraftOf(p).review \subseteq DOMAIN win[p].verdicts
  BY DEF DraftOf, Judged
<1> QED
  BY <1>1, <1>2 DEF CaseIsOfHalt, OfHalt

LEMMA HandlerInOrder ==
  ASSUME TypeOK, DebtInv, CasesInv, NEW p \in Processes, InHandler(p)
  PROVE  WindowStepOf(p)
<1> DEFINE halt == win[p].halt
<1>1. [Next]_vars
  BY HandlerIsLedgerStep
<1>2. WindowIsOfHalt(p)
  BY DEF DebtInv
<1>3. ASSUME UNCHANGED cases, NEW h, Leaves(p, h)
      PROVE  WindowStepOf(p)
  BY <1>1, <1>3, CasesKept, LeavesInOrder
<1>4. ASSUME UNCHANGED cases, NEW x, Moves(p, x), IsHalt(x.halt),
             /\ x.at = "persist"
             /\ x = [at |-> "persist", halt |-> x.halt, verdicts |-> x.verdicts,
                     left |-> x.left]
             /\ OfHalt(invoices, DOMAIN x.verdicts, x.halt)
      PROVE  WindowStepOf(p)
  <2>1. win'[p] = x /\ invoices' = invoices
    BY <1>4 DEF Moves, vars, DebtInv
  <2>2. WindowIsOfHalt(p)'
    BY <1>4, <2>1 DEF WindowIsOfHalt
  <2> QED
    BY <1>1, <1>4, <2>2, CasesKept, MovesInOrder DEF Moves
<1>5. CASE Gate(p)
  <2>1. IsHalt(halt) /\ OfHalt(invoices, win[p].ids, halt)
    BY <1>2, <1>5 DEF Gate, InWindow, WindowIsOfHalt, NoWindow
  <2> DEFINE judged == [inv \in win[p].ids |-> EvaluateCollectibility(SubjectNow(inv))]
             x == [at |-> "persist", halt |-> halt, verdicts |-> judged,
                   left |-> win[p].ids]
  <2>2. DOMAIN judged = win[p].ids
    OBVIOUS
  <2>3. Moves(p, x) /\ UNCHANGED cases
    BY <1>5 DEF Gate, caseVars
  <2> HIDE DEF judged
  <2> QED
    BY <1>4, <2>1, <2>2, <2>3
<1>6. CASE Persist(p)
  <2>1. /\ IsHalt(halt) /\ OfHalt(invoices, DOMAIN win[p].verdicts, halt)
        /\ win[p] = [at |-> "persist", halt |-> halt,
                     verdicts |-> win[p].verdicts, left |-> win[p].left]
    BY <1>2, <1>6 DEF Persist, InWindow, WindowIsOfHalt, NoWindow
  <2>2. PICK inv \in win[p].left : Moves(p, [win[p] EXCEPT !.left = @ \ {inv}])
    BY <1>6 DEF Persist
  <2> DEFINE x == [at |-> "persist", halt |-> halt, verdicts |-> win[p].verdicts,
                   left |-> win[p].left \ {inv}]
  <2>3. [win[p] EXCEPT !.left = @ \ {inv}] = x
    BY <2>1
  <2>4. Moves(p, x) /\ UNCHANGED cases
    BY <1>6, <2>2, <2>3 DEF Persist
  <2> QED
    BY <1>4, <2>1, <2>4
<1>7. CASE GateCloses(p)
  BY <1>3, <1>7 DEF GateCloses, caseVars
<1>8. CASE Draft(p)
  <2>1. IsHalt(halt) /\ OfHalt(invoices, DOMAIN win[p].verdicts, halt)
    BY <1>2, <1>8 DEF Draft, Persisted, InWindow, WindowIsOfHalt, NoWindow
  <2> DEFINE x == [at |-> "create", halt |-> halt, verdicts |-> win[p].verdicts,
                   customer |-> flags[halt.sub]]
  <2>2. win' = [win EXCEPT ![p] = x] /\ invoices' = invoices /\ UNCHANGED <<scan, cases>>
    BY <1>8 DEF Draft, Moves, vars, caseVars
  <2>3. win'[p] = x
    BY <2>2 DEF DebtInv
  <2>4. WindowIsOfHalt(p)'
    BY <2>1, <2>2, <2>3 DEF WindowIsOfHalt
  <2> QED
    BY <1>1, <2>2, <2>4, CasesKept, MovesInOrder
<1>9. CASE CreateCase(p)
  <2>1. CaseIsOfHalt(DraftOf(p))
    BY <1>2, <1>9, DraftInOrder DEF CreateCase
  <2>2. \A c \in cases' : CaseIsOfHalt(c)'
    BY <1>1, <1>9, <2>1, CaseStays DEF CreateCase, DebtInv
  <2>3. CASE Leaves(p, halt)
    BY <2>2, <2>3, LeavesInOrder
  <2>4. CASE Moves(p, [at |-> "escalate", halt |-> halt])
    <3>1. IsHalt(halt)
      BY <1>2, <1>9 DEF CreateCase, InWindow, WindowIsOfHalt, NoWindow
    <3>2. win'[p] = [at |-> "escalate", halt |-> halt]
      BY <2>4 DEF Moves, DebtInv
    <3>3. WindowIsOfHalt(p)'
      BY <3>1, <3>2 DEF WindowIsOfHalt
    <3> QED
      BY <1>1, <2>2, <2>4, <3>3, MovesInOrder DEF Moves
  <2> QED
    BY <1>9, <2>3, <2>4 DEF CreateCase
<1>10. CASE FindCase(p)
  BY <1>3, <1>10 DEF FindCase, caseVars
<1>11. CASE EscalateCase(p)
  <2> DEFINE Now(c) == IF c.halt = halt THEN [c EXCEPT !.status = "escalated"] ELSE c
  <2>1. ASSUME NEW c \in cases
        PROVE  /\ Now(c).halt = c.halt /\ Now(c).collectible = c.collectible
               /\ Now(c).review = c.review
    BY DEF CasesInv, CaseShape
  <2>2. \A c \in cases : CaseIsOfHalt(c)'
    BY <1>1, CaseStays DEF DebtInv
  <2>3. cases' = {Now(c) : c \in cases}
    BY <1>11 DEF EscalateCase
  <2> HIDE DEF Now
  <2>4. \A c \in cases' : CaseIsOfHalt(c)'
    BY <2>1, <2>2, <2>3 DEF CaseIsOfHalt
  <2> QED
    BY <1>11, <2>4, LeavesInOrder DEF EscalateCase
<1> QED
  BY <1>5, <1>6, <1>7, <1>8, <1>9, <1>10, <1>11 DEF InHandler

LEMMA PassInOrder ==
  ASSUME TypeOK, DebtInv, CasesInv, NEW p \in Passes,
         StartPass(p) \/ PassStep(p) \/ PassDies(p)
  PROVE  DebtInv'
<1>1. p \in Processes
  BY DEF Processes
<1>2. [Next]_vars
  BY WindowStepIsLedgerStep DEF RWNext
<1>3. CASE StartPass(p)
  <2> DEFINE halts == UNION {{[sub |-> s, ep |-> subs[s].eps[i].id] :
                        i \in {i \in DOMAIN subs[s].eps : ~IsOpen(subs[s].eps[i])}} :
                        s \in Subs}
  <2>1. scan' = [scan EXCEPT ![p] = halts] /\ UNCHANGED <<win, cases, invoices>>
    BY <1>3 DEF StartPass, vars, caseVars
  <2>2. \A h \in halts : IsHalt(h)
    BY DEF IsHalt
  <2> HIDE DEF halts
  <2>3. /\ scan' = [q \in Passes |-> scan'[q]]
        /\ \A q \in Passes : \A h \in scan'[q] : IsHalt(h)
    BY <2>1, <2>2 DEF DebtInv
  <2>4. \A q \in Processes : WindowIsOfHalt(q)'
    BY <1>2, <2>1, WindowStays DEF DebtInv
  <2> QED
    BY <1>2, <2>1, <2>3, <2>4, CasesKept, RowsKeepLineage DEF DebtInv
<1>4. CASE SkipHalt(p) \/ EndPass(p)
  <2>1. /\ UNCHANGED <<win, cases>>
        /\ UNCHANGED scan \/ \E halt : scan' = [scan EXCEPT ![p] = @ \ {halt}]
    BY <1>4 DEF SkipHalt, EndPass, caseVars
  <2>2. /\ scan' = [q \in Passes |-> scan'[q]]
        /\ \A q \in Passes : \A h \in scan'[q] : IsHalt(h)
    BY <2>1 DEF DebtInv
  <2>3. \A q \in Processes : WindowIsOfHalt(q)'
    BY <1>2, <2>1, WindowStays DEF DebtInv
  <2> QED
    BY <1>2, <2>1, <2>2, <2>3, CasesKept, RowsKeepLineage DEF DebtInv
<1>5. CASE VisitHalt(p)
  <2>1. PICK halt \in scan[p] : Moves(p, [at |-> "open", halt |-> halt])
    BY <1>5 DEF VisitHalt
  <2>2. IsHalt(halt) /\ win'[p] = [at |-> "open", halt |-> halt]
    BY <1>1, <2>1 DEF Moves, DebtInv
  <2>3. WindowIsOfHalt(p)'
    BY <2>2 DEF WindowIsOfHalt
  <2>4. WindowStepOf(p)
    BY <1>1, <1>2, <1>5, <2>1, <2>3, CasesKept, MovesInOrder DEF VisitHalt, Moves, caseVars
  <2> QED
    BY <1>1, <1>2, <2>4, WindowStepKeepsInv
<1>6. CASE Reconstruct(p)
  <2>1. IsHalt(win[p].halt) /\ OpenWindow(p, win[p].halt)
    BY <1>1, <1>6 DEF Reconstruct, InWindow, DebtInv, WindowIsOfHalt, NoWindow
  <2> QED
    BY <1>1, <1>2, <2>1, OpenWindowInOrder, WindowStepKeepsInv
<1>7. CASE InHandler(p)
  BY <1>1, <1>2, <1>7, HandlerInOrder, WindowStepKeepsInv
<1>8. CASE PassDies(p)
  <2>1. win' = [win EXCEPT ![p] = NoWindow] /\ win'[p] = NoWindow
    BY <1>1, <1>8 DEF PassDies, DebtInv
  <2>2. /\ scan' = [q \in Passes |-> scan'[q]]
        /\ \A q \in Passes : \A h \in scan'[q] : IsHalt(h)
    BY <1>8 DEF PassDies, DebtInv
  <2>3. \A c \in cases' : CaseIsOfHalt(c)'
    BY <1>2, <1>8, CasesKept DEF PassDies, caseVars
  <2>4. WindowStepOf(p)
    BY <2>1, <2>2, <2>3 DEF WindowStepOf, WindowIsOfHalt
  <2> QED
    BY <1>1, <1>2, <2>4, WindowStepKeepsInv
<1> QED
  BY <1>3, <1>4, <1>5, <1>6, <1>7, <1>8 DEF PassStep

LEMMA DebtStep ==
  ASSUME TypeOK, DebtInv, CasesInv, [RWNext]_rwVars
  PROVE  DebtInv'
<1>1. [Next]_vars
  BY WindowStepIsLedgerStep DEF rwVars
<1>2. CASE UNCHANGED windowVars
  <2>1. UNCHANGED <<win, scan, cases>>
    BY <1>2 DEF windowVars
  <2>2. \A q \in Processes : WindowIsOfHalt(q)'
    BY <1>1, <2>1, WindowStays DEF DebtInv
  <2> QED
    BY <1>1, <2>1, <2>2, CasesKept, RowsKeepLineage DEF DebtInv
<1>3. ASSUME NEW w \in Workers, WorkerStep(w) \/ WindowFails(w) \/ WorkerDies(w)
      PROVE  DebtInv'
  <2>1. w \in Processes
    BY DEF Processes
  <2>2. CASE Reactivate(w)
    <3>1. IsHalt(ClosedBy(w))
      BY DEF ClosedBy, IsHalt
    <3> QED
      BY <1>1, <2>1, <2>2, <3>1, OpenWindowInOrder, WindowStepKeepsInv DEF Reactivate
  <2>3. CASE InHandler(w)
    BY <1>1, <2>1, <2>3, HandlerInOrder, WindowStepKeepsInv
  <2>4. CASE WindowFails(w)
    BY <1>1, <2>1, <2>4, CasesKept, LeavesInOrder, WindowStepKeepsInv
    DEF WindowFails, caseVars
  <2>5. CASE WorkerDies(w)
    <3>1. win' = [win EXCEPT ![w] = NoWindow] /\ win'[w] = NoWindow
      BY <2>1, <2>5 DEF WorkerDies, DebtInv
    <3>2. UNCHANGED <<scan, cases>>
      BY <2>5 DEF WorkerDies, caseVars
    <3>3. WindowStepOf(w)
      BY <1>1, <3>1, <3>2, CasesKept DEF WindowStepOf, WindowIsOfHalt, DebtInv
    <3> QED
      BY <1>1, <2>1, <3>3, WindowStepKeepsInv
  <2> QED
    BY <1>3, <2>2, <2>3, <2>4, <2>5 DEF WorkerStep
<1>4. ASSUME NEW p \in Passes, StartPass(p) \/ PassStep(p) \/ PassDies(p)
      PROVE  DebtInv'
  BY <1>4, PassInOrder
<1>5. ASSUME NEW s \in Subs, SetFlags(s)
      PROVE  DebtInv'
  <2>1. UNCHANGED <<win, scan, cases>>
    BY <1>5 DEF SetFlags
  <2>2. \A q \in Processes : WindowIsOfHalt(q)'
    BY <1>1, <2>1, WindowStays DEF DebtInv
  <2> QED
    BY <1>1, <2>1, <2>2, CasesKept, RowsKeepLineage DEF DebtInv
<1> QED
  BY <1>2, <1>3, <1>4, <1>5 DEF RWNext, rwVars

\* No debt is recovered twice: an invoice that one case would collect or review is
\* in no other, though backlogs are read without a lock.  An invoice has one row,
\* the row one halt for ever, and the halt one case.
THEOREM NoDebtTwice == RWSpec => []NoDebtInTwoCases
<1>1. RWInit => DebtInv
  BY DEF RWInit, Init, DebtInv, OneRowPerInvoice, WindowIsOfHalt
<1>2. RWSpec => []TypeOK
  BY LedgerGoesOn, TypeCorrect, PTL
<1>3. RWSpec => []CasesInv
  BY CasesInvInvariant
<1>4. TypeOK /\ CasesInv /\ DebtInv /\ [RWNext]_rwVars => DebtInv'
  BY DebtStep
<1>5. CasesInv /\ DebtInv => NoDebtInTwoCases
  <2> SUFFICES ASSUME CasesInv, DebtInv, NEW c \in cases, NEW d \in cases,
                      NEW inv, inv \in c.collectible \cup c.review,
                      inv \in d.collectible \cup d.review
               PROVE  c = d
    BY DEF NoDebtInTwoCases
  <2>1. PICK r \in invoices : r.id = inv /\ r.sub = c.halt.sub /\ r.ep = c.halt.ep
    BY DEF DebtInv, CaseIsOfHalt, OfHalt
  <2>2. PICK q \in invoices : q.id = inv /\ q.sub = d.halt.sub /\ q.ep = d.halt.ep
    BY DEF DebtInv, CaseIsOfHalt, OfHalt
  <2>3. c.halt.sub = d.halt.sub /\ c.halt.ep = d.halt.ep
    BY <2>1, <2>2 DEF DebtInv, OneRowPerInvoice
  <2>4. c.halt = d.halt
    BY <2>3 DEF DebtInv, CaseIsOfHalt, IsHalt
  <2> QED
    BY <2>4 DEF CasesInv, OneCasePerHalt
<1> QED
  BY <1>1, <1>2, <1>3, <1>4, <1>5, PTL DEF RWSpec

-----------------------------------------------------------------------------
(* The gate and the case.                                                  *)

\* What the gate says of an invoice as long as it is unpaid.
Verdict(inv) ==
  EvaluateCollectibility([status   |-> "UNPAID",
                          waived   |-> Facts[inv].waived,
                          marked   |-> Facts[inv].marked,
                          delivery |-> Facts[inv].delivery])

Paid(inv) == \E r \in invoices : r.id = inv /\ r.status = "PAID"

\* A verdict that some window reached at some time.
Fits(inv, verdict) ==
  verdict = Verdict(inv) \/ (verdict = "NOT_COLLECTIBLE" /\ Paid(inv))

Stored(inv) == inv \in InvoiceIds /\ gates[inv] # "none"

\* From the gate on a window holds such verdicts, and they are stored but for what
\* is left.
WindowIsGated(p) ==
  /\ win[p].at \in {"persist", "create"} =>
       \A inv \in DOMAIN win[p].verdicts : Fits(inv, win[p].verdicts[inv])
  /\ win[p].at = "persist" =>
       /\ win[p].left \subseteq DOMAIN win[p].verdicts
       /\ \A inv \in DOMAIN win[p].verdicts \ win[p].left : Stored(inv)
  /\ win[p].at = "create" => \A inv \in DOMAIN win[p].verdicts : Stored(inv)

CaseIsGated(c) ==
  /\ \A inv \in c.collectible : Verdict(inv) = "COLLECTIBLE" /\ Stored(inv)
  /\ \A inv \in c.review : Verdict(inv) = "REVIEW_REQUIRED" /\ Stored(inv)

GateInv ==
  /\ gates = [inv \in InvoiceIds |-> gates[inv]]
  /\ \A inv \in InvoiceIds : Stored(inv) => Fits(inv, gates[inv])
  /\ \A p \in Processes : WindowIsGated(p)
  /\ \A c \in cases : CaseIsGated(c)

LEMMA VerdictIsOne ==
  ASSUME NEW inv
  PROVE  /\ Verdict(inv) \in CollectibilityStatuses
         /\ Verdict(inv) = "COLLECTIBLE" =>
              /\ Facts[inv].delivery = "DELIVERED"
              /\ ~Facts[inv].waived /\ ~Facts[inv].marked
BY DEF Verdict, EvaluateCollectibility, CollectibilityStatuses

\* Rows are settled for good.
LEMMA PaidStays ==
  ASSUME TypeOK, [Next]_vars, NEW inv, Paid(inv)
  PROVE  Paid(inv)'
<1>1. ASSUME NEW r \in invoices, r.status = "PAID"
      PROVE  \E q \in invoices' : q.id = r.id /\ q.status = "PAID"
  <2>1. CASE UNCHANGED invoices
    BY <1>1, <2>1
  <2>2. ASSUME NEW w \in Workers, InsertInvoice(w)
        PROVE  r \in invoices'
    BY <2>2 DEF InsertInvoice
  <2>3. ASSUME NEW n, invoices' = Settled(invoices, n)
        PROVE  r \in invoices'
    <3> DEFINE Now(q) == IF q.id = n THEN [q EXCEPT !.status = "PAID"] ELSE q
    <3>1. [r EXCEPT !.status = "PAID"] = r
      BY <1>1 DEF TypeOK, Row
    <3>2. Now(r) = r
      BY <3>1
    <3>3. invoices' = {Now(q) : q \in invoices}
      BY <2>3 DEF Settled
    <3> HIDE DEF Now
    <3> QED
      BY <3>2, <3>3
  <2> QED
    BY <1>1, <2>1, <2>2, <2>3, RowChange
<1> QED
  BY <1>1 DEF Paid

\* A window's gate reads rows that are there.
LEMMA GateFits ==
  ASSUME TypeOK, DebtInv, NEW p \in Processes, Gate(p), NEW inv \in win[p].ids
  PROVE  Fits(inv, EvaluateCollectibility(SubjectNow(inv)))
<1>1. PICK r \in invoices : r.id = inv
  BY DEF Gate, InWindow, DebtInv, WindowIsOfHalt, OfHalt, NoWindow
<1>2. RowOf(inv) = r
  BY <1>1 DEF RowOf, DebtInv, OneRowPerInvoice
<1>3. r.status \in {"UNPAID", "PAID"}
  BY DEF TypeOK, Row
<1>4. CASE r.status = "UNPAID"
  BY <1>2, <1>4 DEF SubjectNow, Fits, Verdict
<1>5. CASE r.status = "PAID"
  <2>1. Paid(inv)
    BY <1>1, <1>5 DEF Paid
  <2>2. EvaluateCollectibility(SubjectNow(inv)) = "NOT_COLLECTIBLE"
    BY <1>2, <1>5 DEF SubjectNow, EvaluateCollectibility
  <2> QED
    BY <2>1, <2>2 DEF Fits
<1> QED
  BY <1>3, <1>4, <1>5

\* Every other step leaves verdicts and cases alone, and takes no window into the
\* places between gate and case.
Quiet ==
  /\ UNCHANGED <<gates, cases>>
  /\ \A p \in Processes : \/ win'[p] = win[p]
                          \/ win'[p].at \notin {"persist", "create"}

LEMMA QuietOrGating ==
  ASSUME DebtInv, [RWNext]_rwVars
  PROVE  Quiet \/ \E p \in Processes :
           Gate(p) \/ Persist(p) \/ Draft(p) \/ CreateCase(p) \/ EscalateCase(p)
<1>1. ASSUME UNCHANGED <<gates, cases, win>>
      PROVE  Quiet
  BY <1>1 DEF Quiet
<1>2. ASSUME NEW p \in Processes, NEW x, win' = [win EXCEPT ![p] = x],
             x.at \notin {"persist", "create"}, UNCHANGED <<gates, cases>>
      PROVE  Quiet
  BY <1>2 DEF Quiet, DebtInv
<1>3. ASSUME NEW p \in Processes, NEW halt, Leaves(p, halt), UNCHANGED caseVars
      PROVE  Quiet
  BY <1>2, <1>3 DEF Leaves, caseVars, NoWindow
<1>4. ASSUME NEW p \in Processes, NEW halt, OpenWindow(p, halt)
      PROVE  Quiet
  BY <1>2, <1>3, <1>4 DEF OpenWindow, Moves, caseVars
<1>5. ASSUME NEW p \in Processes, GateCloses(p) \/ FindCase(p)
      PROVE  Quiet
  BY <1>3, <1>5 DEF GateCloses, FindCase
<1>6. CASE UNCHANGED windowVars
  BY <1>1, <1>6 DEF windowVars
<1>7. ASSUME NEW w \in Workers, Reactivate(w) \/ WindowFails(w) \/ WorkerDies(w)
      PROVE  Quiet
  <2>1. w \in Processes
    BY DEF Processes
  <2>2. CASE WorkerDies(w)
    BY <1>2, <2>1, <2>2 DEF WorkerDies, caseVars, NoWindow
  <2> QED
    BY <1>3, <1>4, <1>7, <2>1, <2>2 DEF Reactivate, WindowFails
<1>8. ASSUME NEW p \in Passes,
             \/ StartPass(p) \/ SkipHalt(p) \/ VisitHalt(p) \/ Reconstruct(p)
             \/ EndPass(p) \/ PassDies(p)
      PROVE  Quiet
  <2>1. p \in Processes
    BY DEF Processes
  <2>2. CASE StartPass(p) \/ SkipHalt(p) \/ EndPass(p)
    BY <1>1, <2>2 DEF StartPass, SkipHalt, EndPass, caseVars
  <2>3. CASE VisitHalt(p)
    BY <1>2, <2>1, <2>3 DEF VisitHalt, Moves, caseVars
  <2>4. CASE Reconstruct(p)
    BY <1>4, <2>1, <2>4 DEF Reconstruct
  <2>5. CASE PassDies(p)
    BY <1>2, <2>1, <2>5 DEF PassDies, caseVars, NoWindow
  <2> QED
    BY <1>8, <2>2, <2>3, <2>4, <2>5
<1>9. ASSUME NEW s \in Subs, SetFlags(s)
      PROVE  Quiet
  BY <1>1, <1>9 DEF SetFlags
<1> QED
  BY <1>5, <1>6, <1>7, <1>8, <1>9
  DEF RWNext, WorkerStep, PassStep, InHandler, rwVars, Processes

\* What a step that stores at most more verdicts does to the windows it leaves
\* alone and to the cases that were there.
LEMMA GatedStays ==
  ASSUME TypeOK, [Next]_vars, \A inv : Stored(inv) => Stored(inv)'
  PROVE  /\ \A p : WindowIsGated(p) /\ win'[p] = win[p] => WindowIsGated(p)'
         /\ \A c : CaseIsGated(c) => CaseIsGated(c)'
<1>1. \A inv : Verdict(inv)' = Verdict(inv)
  BY DEF Verdict
<1> QED
  BY <1>1, PaidStays DEF WindowIsGated, CaseIsGated, Fits

\* What is stored, and stays as it is, fits.
LEMMA StoredFit ==
  ASSUME TypeOK, GateInv, [Next]_vars, NEW inv \in InvoiceIds, Stored(inv),
         gates'[inv] = gates[inv]
  PROVE  Fits(inv, gates[inv])'
<1>1. Verdict(inv)' = Verdict(inv)
  BY DEF Verdict
<1> QED
  BY <1>1, PaidStays DEF GateInv, Fits

\* Window and cases of a step of p that stores nothing.
LEMMA StoringNothing ==
  ASSUME TypeOK, DebtInv, GateInv, [Next]_vars, UNCHANGED gates,
         NEW p \in Processes, NEW x, win' = [win EXCEPT ![p] = x],
         WindowIsGated(p)', \A c \in cases' : CaseIsGated(c)'
  PROVE  GateInv'
<1>1. \A inv : Stored(inv)' = Stored(inv)
  BY DEF Stored
<1>2. \A q \in Processes : q # p => win'[q] = win[q]
  BY DEF DebtInv
<1>3. \A q \in Processes : WindowIsGated(q)'
  BY <1>1, <1>2, GatedStays DEF GateInv
<1> QED
  BY <1>1, <1>3, StoredFit DEF GateInv

LEMMA GateStep ==
  ASSUME TypeOK, CasesInv, DebtInv, GateInv, [RWNext]_rwVars
  PROVE  GateInv'
<1>1. [Next]_vars
  BY WindowStepIsLedgerStep DEF rwVars
<1>2. CASE Quiet
  <2>1. \A inv : Stored(inv)' = Stored(inv)
    BY <1>2 DEF Quiet, Stored
  <2>2. \A p \in Processes : WindowIsGated(p)'
    BY <1>1, <1>2, <2>1, GatedStays DEF Quiet, GateInv, WindowIsGated
  <2> QED
    BY <1>1, <1>2, <2>1, <2>2, GatedStays, StoredFit DEF Quiet, GateInv
<1>3. ASSUME UNCHANGED <<gates, cases>>
      PROVE  \A c \in cases' : CaseIsGated(c)'
  BY <1>1, <1>3, GatedStays DEF GateInv, Stored
<1>4. ASSUME NEW p \in Processes, Gate(p)
      PROVE  GateInv'
  <2> DEFINE judged == [inv \in win[p].ids |-> EvaluateCollectibility(SubjectNow(inv))]
             x == [at |-> "persist", halt |-> win[p].halt, verdicts |-> judged,
                   left |-> win[p].ids]
  <2>1. win' = [win EXCEPT ![p] = x] /\ UNCHANGED <<gates, cases>>
    BY <1>4 DEF Gate, Moves, caseVars
  <2>2. win'[p] = x
    BY <2>1 DEF DebtInv
  <2>3. ASSUME NEW inv \in win[p].ids
        PROVE  \/ judged[inv] = Verdict(inv)
               \/ judged[inv] = "NOT_COLLECTIBLE" /\ Paid(inv)'
    <3>1. Fits(inv, judged[inv])
      BY <1>4, GateFits
    <3> QED
      BY <1>1, <3>1, PaidStays DEF Fits
  <2>4. DOMAIN judged = win[p].ids /\ \A inv : Verdict(inv)' = Verdict(inv)
    BY DEF Verdict
  <2> HIDE DEF judged
  <2>5. WindowIsGated(p)'
    BY <2>2, <2>3, <2>4 DEF WindowIsGated, Fits
  <2> QED
    BY <1>1, <1>3, <2>1, <2>5, StoringNothing
<1>5. ASSUME NEW p \in Processes, Persist(p)
      PROVE  GateInv'
  <2>1. PICK inv \in win[p].left :
          /\ gates' = [gates EXCEPT ![inv] = win[p].verdicts[inv]]
          /\ Moves(p, [win[p] EXCEPT !.left = @ \ {inv}])
    BY <1>5 DEF Persist
  <2>2. /\ win[p] = [at |-> "persist", halt |-> win[p].halt,
                     verdicts |-> win[p].verdicts, left |-> win[p].left]
        /\ inv \in DOMAIN win[p].verdicts
        /\ OfHalt(invoices, DOMAIN win[p].verdicts, win[p].halt)
    BY <1>5, <2>1 DEF Persist, InWindow, DebtInv, WindowIsOfHalt, GateInv, WindowIsGated,
       NoWindow
  <2>3. inv \in InvoiceIds
    BY <2>2 DEF OfHalt, TypeOK, Row
  <2>4. Fits(inv, win[p].verdicts[inv])
    BY <2>2 DEF GateInv, WindowIsGated
  <2>5. win[p].verdicts[inv] # "none"
    BY <2>4, VerdictIsOne DEF Fits, CollectibilityStatuses
  <2>6. /\ gates' = [n \in InvoiceIds |-> gates'[n]]
        /\ gates'[inv] = win[p].verdicts[inv]
        /\ \A n \in InvoiceIds : n # inv => gates'[n] = gates[n]
    BY <2>1, <2>3 DEF GateInv
  <2>7. \A n \in InvoiceIds : Stored(n) \/ n = inv => Stored(n)'
    BY <2>5, <2>6 DEF Stored
  <2> DEFINE x == [at |-> "persist", halt |-> win[p].halt, verdicts |-> win[p].verdicts,
                   left |-> win[p].left \ {inv}]
  <2>8. [win[p] EXCEPT !.left = @ \ {inv}] = x
    BY <2>2
  <2>9. win' = [win EXCEPT ![p] = x] /\ UNCHANGED cases
    BY <1>5, <2>1, <2>8 DEF Persist, Moves
  <2>10. win'[p] = x /\ \A q \in Processes : q # p => win'[q] = win[q]
    BY <2>9 DEF DebtInv
  <2>11. /\ \A q : WindowIsGated(q) /\ win'[q] = win[q] => WindowIsGated(q)'
         /\ \A c : CaseIsGated(c) => CaseIsGated(c)'
    BY <1>1, <2>7, GatedStays DEF Stored
  <2>12. Verdict(inv)' = Verdict(inv) /\ (Paid(inv) => Paid(inv)')
    BY <1>1, PaidStays DEF Verdict
  <2>13. \A n \in InvoiceIds : Stored(n)' => Fits(n, gates[n])'
    <3>1. SUFFICES ASSUME NEW n \in InvoiceIds, Stored(n)'
                   PROVE  Fits(n, gates[n])'
      OBVIOUS
    <3>2. CASE n = inv
      BY <2>4, <2>6, <2>12, <3>2 DEF Fits
    <3>3. CASE n # inv
      BY <1>1, <2>6, <3>1, <3>3, StoredFit DEF Stored
    <3> QED
      BY <3>2, <3>3
  <2>14. WindowIsGated(p)'
    <3>1. \A n \in DOMAIN win[p].verdicts : Fits(n, win[p].verdicts[n])
      BY <2>2 DEF GateInv, WindowIsGated
    <3>2. \A n : Verdict(n)' = Verdict(n)
      BY DEF Verdict
    <3>3. \A n \in DOMAIN x.verdicts : Fits(n, win[p].verdicts[n]) =>
            \/ x.verdicts[n] = Verdict(n)'
            \/ x.verdicts[n] = "NOT_COLLECTIBLE" /\ Paid(n)'
      BY <1>1, <3>2, PaidStays DEF Fits
    <3>4. /\ x.left \subseteq DOMAIN x.verdicts
          /\ \A n \in DOMAIN x.verdicts \ x.left : Stored(n)'
      <4>1. /\ win[p].left \subseteq DOMAIN win[p].verdicts
            /\ \A n \in DOMAIN win[p].verdicts \ win[p].left : Stored(n)
        BY <1>5 DEF Persist, InWindow, GateInv, WindowIsGated
      <4>2. \A n : Stored(n) \/ n = inv => Stored(n)'
        BY <2>3, <2>7 DEF Stored
      <4> HIDE DEF Stored
      <4> QED
        BY <4>1, <4>2
    <3>5. x.at = "persist" /\ x.verdicts = win[p].verdicts
      OBVIOUS
    <3> HIDE DEF x
    <3> QED
      BY <2>10, <3>1, <3>3, <3>4, <3>5 DEF WindowIsGated, Fits
  <2> HIDE DEF x
  <2> QED
    BY <2>6, <2>9, <2>10, <2>11, <2>13, <2>14 DEF GateInv
<1>6. ASSUME NEW p \in Processes, Draft(p)
      PROVE  GateInv'
  <2> DEFINE x == [at |-> "create", halt |-> win[p].halt, verdicts |-> win[p].verdicts,
                   customer |-> flags[win[p].halt.sub]]
  <2>1. win' = [win EXCEPT ![p] = x] /\ UNCHANGED <<gates, cases>>
    BY <1>6 DEF Draft, Moves, caseVars
  <2>2. win'[p] = x
    BY <2>1 DEF DebtInv
  <2>3. \A inv \in DOMAIN win[p].verdicts : Fits(inv, win[p].verdicts[inv]) /\ Stored(inv)
    BY <1>6 DEF Draft, Persisted, InWindow, GateInv, WindowIsGated
  <2>4. \A inv \in DOMAIN win[p].verdicts :
          \/ win[p].verdicts[inv] = Verdict(inv)
          \/ win[p].verdicts[inv] = "NOT_COLLECTIBLE" /\ Paid(inv)'
    BY <1>1, <2>3, PaidStays DEF Fits
  <2>5. \A inv : Verdict(inv)' = Verdict(inv) /\ Stored(inv)' = Stored(inv)
    BY <2>1 DEF Verdict, Stored
  <2>6. x.at = "create" /\ x.verdicts = win[p].verdicts
    OBVIOUS
  <2> HIDE DEF x
  <2>7. WindowIsGated(p)'
    BY <2>2, <2>3, <2>4, <2>5, <2>6 DEF WindowIsGated, Fits
  <2> QED
    BY <1>1, <1>3, <2>1, <2>7, StoringNothing
<1>7. ASSUME NEW p \in Processes, NEW x, win' = [win EXCEPT ![p] = x],
             x.at \notin {"persist", "create"}, UNCHANGED gates,
             \A c \in cases' : CaseIsGated(c)
      PROVE  GateInv'
  <2>1. win'[p] = x
    BY <1>7 DEF DebtInv
  <2>2. WindowIsGated(p)'
    BY <1>7, <2>1 DEF WindowIsGated
  <2>3. \A c \in cases' : CaseIsGated(c)'
    BY <1>1, <1>7, GatedStays DEF Stored
  <2> QED
    BY <1>1, <1>7, <2>2, <2>3, StoringNothing
<1>8. ASSUME NEW p \in Processes, CreateCase(p)
      PROVE  GateInv'
  <2>1. \A inv \in DOMAIN win[p].verdicts : Fits(inv, win[p].verdicts[inv]) /\ Stored(inv)
    BY <1>8 DEF CreateCase, InWindow, GateInv, WindowIsGated
  <2>2. CaseIsGated(DraftOf(p))
    BY <2>1 DEF CaseIsGated, DraftOf, Judged, Fits
  <2>3. \A c \in cases' : CaseIsGated(c)
    BY <1>8, <2>2 DEF CreateCase, GateInv
  <2>4. CASE Leaves(p, win[p].halt)
    BY <1>7, <1>8, <2>3, <2>4 DEF CreateCase, Leaves, NoWindow
  <2>5. CASE Moves(p, [at |-> "escalate", halt |-> win[p].halt])
    BY <1>7, <1>8, <2>3, <2>5 DEF CreateCase, Moves
  <2> QED
    BY <1>8, <2>4, <2>5 DEF CreateCase
<1>9. ASSUME NEW p \in Processes, EscalateCase(p)
      PROVE  GateInv'
  <2> DEFINE Now(c) == IF c.halt = win[p].halt THEN [c EXCEPT !.status = "escalated"] ELSE c
  <2>1. ASSUME NEW c \in cases
        PROVE  Now(c).collectible = c.collectible /\ Now(c).review = c.review
    BY DEF CasesInv, CaseShape
  <2>2. cases' = {Now(c) : c \in cases}
    BY <1>9 DEF EscalateCase
  <2> HIDE DEF Now
  <2>3. \A c \in cases' : CaseIsGated(c)
    BY <2>1, <2>2 DEF GateInv, CaseIsGated
  <2> QED
    BY <1>7, <1>9, <2>3 DEF EscalateCase, Leaves, NoWindow
<1> QED
  BY <1>2, <1>4, <1>5, <1>6, <1>8, <1>9, QuietOrGating

LEMMA GateInvariant == RWSpec => [](CasesInv /\ DebtInv /\ GateInv)
<1>1. RWInit => DebtInv /\ GateInv
  BY DEF RWInit, Init, DebtInv, OneRowPerInvoice, WindowIsOfHalt, GateInv, Stored,
     WindowIsGated, NoWindow
<1>2. RWSpec => []TypeOK
  BY LedgerGoesOn, TypeCorrect, PTL
<1>3. RWSpec => []CasesInv
  BY CasesInvInvariant
<1>4. TypeOK /\ CasesInv /\ DebtInv /\ GateInv /\ [RWNext]_rwVars => DebtInv' /\ GateInv'
  BY DebtStep, GateStep
<1> QED
  BY <1>1, <1>2, <1>3, <1>4, PTL DEF RWSpec

\* Nothing uncertain is collected: whatever a window read, and however often its
\* halt was judged, a debt was delivered, and neither waived nor given up.
THEOREM GateFailsClosed == RWSpec => []FailsClosed
<1>1. GateInv => FailsClosed
  BY VerdictIsOne DEF GateInv, CaseIsGated, FailsClosed
<1> QED
  BY <1>1, GateInvariant, PTL

\* Verdicts are stored before there is a case, and what other windows store over
\* them can differ only because the row was settled meanwhile.
THEOREM VerdictsComeFirst == RWSpec => []GateBeforeCase
<1>1. TypeOK /\ DebtInv /\ GateInv => GateBeforeCase
  <2> SUFFICES ASSUME TypeOK, DebtInv, GateInv, NEW c \in cases
               PROVE  /\ \A inv \in c.collectible :
                           \/ gates[inv] = "COLLECTIBLE"
                           \/ gates[inv] = "NOT_COLLECTIBLE" /\ RowOf(inv).status = "PAID"
                      /\ \A inv \in c.review :
                           \/ gates[inv] = "REVIEW_REQUIRED"
                           \/ gates[inv] = "NOT_COLLECTIBLE" /\ RowOf(inv).status = "PAID"
    BY DEF GateBeforeCase
  <2>1. \A inv : Paid(inv) => RowOf(inv).status = "PAID"
    BY DEF Paid, RowOf, DebtInv, OneRowPerInvoice
  <2>2. \A inv \in InvoiceIds : Stored(inv) =>
          \/ gates[inv] = Verdict(inv)
          \/ gates[inv] = "NOT_COLLECTIBLE" /\ Paid(inv)
    BY DEF GateInv, Fits
  <2> QED
    BY <2>1, <2>2 DEF GateInv, CaseIsGated, Stored
<1>2. RWSpec => []TypeOK
  BY LedgerGoesOn, TypeCorrect, PTL
<1> QED
  BY <1>1, <1>2, GateInvariant, PTL

-----------------------------------------------------------------------------
(* Types.                                                                  *)

\* The shapes of the five stores.
StoresTyped ==
  /\ cases \subseteq Case
  /\ gates \in [InvoiceIds -> CollectibilityStatuses \cup {"none"}]
  /\ flags \in [Subs -> SUBSET CustomerFlags]
  /\ pass \in [Passes -> {"new", "running", "done", "dead"}]
  /\ scan \in [Passes -> SUBSET Halt]

\* A process is in a window only where it may be: a worker while ingestion waits
\* for it, a pass that runs on a halt it has still before it.
InPlace(p) ==
  win[p] # NoWindow =>
    /\ p \in Workers => pc[p] = "window"
    /\ p \in Passes => pass[p] = "running" /\ win[p].halt \in scan[p]

\* The recovery hook runs on a subscription that has an episode.
HookHasEpisode == \A w \in Workers : pc[w] = "window" => snap[w].eps # << >>

WindowsInv ==
  /\ StoresTyped
  /\ DOMAIN win = Processes /\ win = [p \in Processes |-> win[p]]
  /\ \A p \in Processes : IsWindow(win[p]) /\ InPlace(p)

LEMMA WindowAt ==
  ASSUME NEW x, IsWindow(x)
  PROVE  /\ x.at \in {"none", "open", "gate", "persist", "create", "escalate"}
         /\ x = NoWindow <=> x.at = "none"
         /\ x # NoWindow => x.halt \in Halt
         /\ x.at = "gate" => x.ids \in SUBSET InvoiceIds
         /\ x.at \in {"persist", "create"} =>
              /\ DOMAIN x.verdicts \in SUBSET InvoiceIds
              /\ x.verdicts \in [DOMAIN x.verdicts -> CollectibilityStatuses]
         /\ x.at = "persist" =>
              /\ x.left \in SUBSET (DOMAIN x.verdicts)
              /\ x = [at |-> "persist", halt |-> x.halt, verdicts |-> x.verdicts,
                      left |-> x.left]
<1>1. CASE x = NoWindow
  BY <1>1 DEF NoWindow
<1>2. CASE x \in [at : {"open", "escalate"}, halt : Halt]
  BY <1>2 DEF NoWindow
<1>3. CASE x \in [at : {"gate"}, halt : Halt, ids : SUBSET InvoiceIds]
  BY <1>3 DEF NoWindow
<1>4. ASSUME NEW ids \in SUBSET InvoiceIds,
             x \in [at : {"persist"}, halt : Halt,
                    verdicts : [ids -> CollectibilityStatuses], left : SUBSET ids]
      PROVE  /\ x.at = "persist" /\ x # NoWindow /\ x.halt \in Halt
             /\ DOMAIN x.verdicts = ids /\ x.verdicts \in [ids -> CollectibilityStatuses]
             /\ x.left \in SUBSET ids
             /\ x = [at |-> "persist", halt |-> x.halt, verdicts |-> x.verdicts,
                     left |-> x.left]
  BY <1>4 DEF NoWindow
<1>5. ASSUME NEW ids \in SUBSET InvoiceIds,
             x \in [at : {"create"}, halt : Halt,
                    verdicts : [ids -> CollectibilityStatuses],
                    customer : SUBSET CustomerFlags]
      PROVE  /\ x.at = "create" /\ x # NoWindow /\ x.halt \in Halt
             /\ DOMAIN x.verdicts = ids /\ x.verdicts \in [ids -> CollectibilityStatuses]
  BY <1>5 DEF NoWindow
<1> QED
  BY <1>1, <1>2, <1>3, <1>4, <1>5 DEF IsWindow

\* The windows there are, made of what they are made of.
LEMMA OpenIsWindow ==
  ASSUME NEW place \in {"open", "escalate"}, NEW halt \in Halt
  PROVE  IsWindow([at |-> place, halt |-> halt])
BY DEF IsWindow

LEMMA GateIsWindow ==
  ASSUME NEW halt \in Halt, NEW ids \in SUBSET InvoiceIds
  PROVE  IsWindow([at |-> "gate", halt |-> halt, ids |-> ids])
BY DEF IsWindow

LEMMA PersistIsWindow ==
  ASSUME NEW halt \in Halt, NEW ids \in SUBSET InvoiceIds,
         NEW verdicts \in [ids -> CollectibilityStatuses], NEW left \in SUBSET ids
  PROVE  IsWindow([at |-> "persist", halt |-> halt, verdicts |-> verdicts, left |-> left])
BY DEF IsWindow

LEMMA CreateIsWindow ==
  ASSUME NEW halt \in Halt, NEW ids \in SUBSET InvoiceIds,
         NEW verdicts \in [ids -> CollectibilityStatuses],
         NEW customer \in SUBSET CustomerFlags
  PROVE  IsWindow([at |-> "create", halt |-> halt, verdicts |-> verdicts,
                   customer |-> customer])
BY DEF IsWindow

\* The window of one process changes, and only its own place with it.
LEMMA OneWindow ==
  ASSUME WindowsInv, NEW p \in Processes, NEW x, win' = [win EXCEPT ![p] = x],
         IsWindow(x), UNCHANGED feed, StoresTyped',
         \A w \in Workers : w # p => pc'[w] = pc[w],
         \A q \in Passes : q # p => pass'[q] = pass[q] /\ scan'[q] = scan[q],
         x # NoWindow => /\ p \in Workers => pc'[p] = "window"
                         /\ p \in Passes => pass'[p] = "running" /\ x.halt \in scan'[p]
  PROVE  WindowsInv'
<1>1. win' = [q \in Processes |-> IF q = p THEN x ELSE win[q]]
  BY DEF WindowsInv
<1>2. \A y : IsWindow(y)' <=> IsWindow(y)
  BY DEF IsWindow, CustomerFlags
<1>3. \A q \in Processes : IsWindow(win[q])'
  <2> SUFFICES ASSUME NEW q \in Processes, NEW y, y = win'[q]
               PROVE  IsWindow(y)'
    BY DEF IsWindow, CustomerFlags
  <2>1. IsWindow(y)
    BY <1>1 DEF WindowsInv
  <2> QED
    BY <1>2, <2>1
<1>4. \A q \in Processes : InPlace(q)'
  BY <1>1 DEF WindowsInv, InPlace
<1>5. DOMAIN win' = Processes /\ win' = [q \in Processes |-> win'[q]]
  BY <1>1
<1> QED
  BY <1>3, <1>4, <1>5 DEF WindowsInv

LEMMA MovesInPlace ==
  ASSUME WindowsInv, NEW p \in Processes, NEW x, Moves(p, x), IsWindow(x), StoresTyped',
         \/ win[p] # NoWindow /\ x.halt = win[p].halt
         \/ p \in Workers /\ pc[p] = "window"
         \/ p \in Passes /\ pass[p] = "running" /\ x.halt \in scan[p]
  PROVE  WindowsInv'
<1>1. Workers \cap Passes = {}
  BY WindowAssumption
<1>2. win' = [win EXCEPT ![p] = x] /\ UNCHANGED <<feed, pc, pass, scan>>
  BY DEF Moves, vars
<1>3. /\ p \in Workers => pc[p] = "window"
      /\ p \in Passes => pass[p] = "running" /\ x.halt \in scan[p]
  BY <1>1 DEF WindowsInv, InPlace
<1> QED
  BY <1>2, <1>3, OneWindow

LEMMA LeavesInPlace ==
  ASSUME TypeOK, WindowsInv, NEW p \in Processes, NEW halt, Leaves(p, halt),
         cases' \subseteq Case, UNCHANGED <<gates, flags>>
  PROVE  WindowsInv'
<1>1. /\ win' = [win EXCEPT ![p] = NoWindow] /\ UNCHANGED <<feed, pass>>
      /\ \A w \in Workers : w # p => pc'[w] = pc[w]
      /\ \/ UNCHANGED scan
         \/ p \in Passes /\ scan' = [scan EXCEPT ![p] = @ \ {halt}]
  BY DEF Leaves, HookReturns, vars, TypeOK, Goto
<1>2. /\ scan' \in [Passes -> SUBSET Halt]
      /\ \A q \in Passes : q # p => scan'[q] = scan[q]
  BY <1>1 DEF WindowsInv, StoresTyped
<1>3. StoresTyped'
  BY <1>1, <1>2 DEF WindowsInv, StoresTyped, CustomerFlags
<1>4. IsWindow(NoWindow)
  BY DEF IsWindow
<1> QED
  BY <1>1, <1>2, <1>3, <1>4, OneWindow

LEMMA GateAnswers ==
  ASSUME NEW subject
  PROVE  EvaluateCollectibility(subject) \in CollectibilityStatuses
BY DEF EvaluateCollectibility, CollectibilityStatuses

LEMMA BacklogIds ==
  ASSUME TypeOK, NEW halt
  PROVE  Backlog(halt) \in SUBSET InvoiceIds
BY DEF TypeOK, Backlog, Row

LEMMA OpenWindowInPlace ==
  ASSUME TypeOK, WindowsInv, NEW p \in Processes, NEW halt \in Halt, OpenWindow(p, halt),
         \/ win[p] # NoWindow /\ halt = win[p].halt
         \/ p \in Workers /\ pc[p] = "window"
  PROVE  WindowsInv'
<1>1. UNCHANGED <<cases, gates, flags>>
  BY DEF OpenWindow, caseVars
<1>2. CASE Leaves(p, halt)
  BY <1>1, <1>2, LeavesInPlace DEF WindowsInv, StoresTyped
<1>3. CASE Moves(p, [at |-> "gate", halt |-> halt, ids |-> Backlog(halt)])
  <2> DEFINE x == [at |-> "gate", halt |-> halt, ids |-> Backlog(halt)]
  <2>1. IsWindow(x) /\ x.halt = halt
    BY BacklogIds, GateIsWindow
  <2>2. StoresTyped'
    BY <1>1, <1>3 DEF Moves, vars, WindowsInv, StoresTyped, CustomerFlags
  <2>3. Moves(p, x)
    BY <1>3
  <2> HIDE DEF x
  <2> QED
    BY <2>1, <2>2, <2>3, MovesInPlace
<1> QED
  BY <1>2, <1>3 DEF OpenWindow

LEMMA DraftIsCase ==
  ASSUME NEW p \in Processes, IsWindow(win[p]), InWindow(p, "create")
  PROVE  DraftOf(p) \in Case
<1>1. win[p].halt \in Halt /\ DOMAIN win[p].verdicts \in SUBSET InvoiceIds
  BY WindowAt DEF InWindow
<1>2. \A verdict : Judged(p, verdict) \in SUBSET InvoiceIds
  BY <1>1 DEF Judged
<1> QED
  BY <1>1, <1>2 DEF DraftOf, Case

LEMMA HandlerInPlace ==
  ASSUME TypeOK, WindowsInv, NEW p \in Processes, InHandler(p)
  PROVE  WindowsInv'
<1> DEFINE halt == win[p].halt
<1>1. IsWindow(win[p])
  BY DEF WindowsInv
<1>2. ASSUME NEW place, place # "none", InWindow(p, place)
      PROVE  win[p] # NoWindow /\ halt \in Halt
  BY <1>1, <1>2, WindowAt DEF InWindow
<1>3. ASSUME UNCHANGED caseVars, NEW h, Leaves(p, h)
      PROVE  WindowsInv'
  BY <1>3, LeavesInPlace DEF WindowsInv, StoresTyped, caseVars
<1>4. ASSUME NEW x, Moves(p, x), IsWindow(x), x.halt = halt, win[p] # NoWindow,
             cases' \subseteq Case, UNCHANGED flags,
             gates' \in [InvoiceIds -> CollectibilityStatuses \cup {"none"}]
      PROVE  WindowsInv'
  <2>1. StoresTyped'
    BY <1>4 DEF Moves, vars, WindowsInv, StoresTyped, CustomerFlags
  <2> QED
    BY <1>4, <2>1, MovesInPlace
<1>5. cases \subseteq Case /\ gates \in [InvoiceIds -> CollectibilityStatuses \cup {"none"}]
  BY DEF WindowsInv, StoresTyped
<1>6. CASE Gate(p)
  <2> DEFINE judged == [inv \in win[p].ids |-> EvaluateCollectibility(SubjectNow(inv))]
             x == [at |-> "persist", halt |-> halt, verdicts |-> judged, left |-> win[p].ids]
  <2>1. win[p].ids \in SUBSET InvoiceIds /\ win[p] # NoWindow /\ halt \in Halt
    BY <1>1, <1>2, <1>6, WindowAt DEF Gate, InWindow
  <2>2. judged \in [win[p].ids -> CollectibilityStatuses]
    BY GateAnswers
  <2>3. Moves(p, x) /\ UNCHANGED <<cases, gates, flags>>
    BY <1>6 DEF Gate, caseVars
  <2> HIDE DEF judged
  <2>4. IsWindow(x) /\ x.halt = halt
    BY <2>1, <2>2, PersistIsWindow
  <2> QED
    BY <1>4, <1>5, <2>1, <2>3, <2>4
<1>7. CASE Persist(p)
  <2>1. /\ win[p] # NoWindow /\ halt \in Halt
        /\ DOMAIN win[p].verdicts \in SUBSET InvoiceIds
        /\ win[p].verdicts \in [DOMAIN win[p].verdicts -> CollectibilityStatuses]
        /\ win[p].left \in SUBSET (DOMAIN win[p].verdicts)
    BY <1>1, <1>2, <1>7, WindowAt DEF Persist, InWindow
  <2>2. PICK inv \in win[p].left :
          /\ gates' = [gates EXCEPT ![inv] = win[p].verdicts[inv]]
          /\ Moves(p, [win[p] EXCEPT !.left = @ \ {inv}])
    BY <1>7 DEF Persist
  <2> DEFINE x == [at |-> "persist", halt |-> halt, verdicts |-> win[p].verdicts,
                   left |-> win[p].left \ {inv}]
  <2>3. [win[p] EXCEPT !.left = @ \ {inv}] = x
    <3>1. win[p] = [at |-> "persist", halt |-> win[p].halt, verdicts |-> win[p].verdicts,
                    left |-> win[p].left]
      BY <1>1, <1>7, WindowAt DEF Persist, InWindow
    <3> QED
      BY <3>1
  <2>4. IsWindow(x) /\ x.halt = halt
    BY <2>1, PersistIsWindow
  <2>5. gates' \in [InvoiceIds -> CollectibilityStatuses \cup {"none"}]
    BY <1>5, <2>1, <2>2
  <2>6. Moves(p, x) /\ UNCHANGED <<cases, flags>>
    BY <1>7, <2>2, <2>3 DEF Persist
  <2> HIDE DEF x
  <2> QED
    BY <1>4, <1>5, <2>1, <2>4, <2>5, <2>6
<1>8. CASE GateCloses(p)
  BY <1>3, <1>8 DEF GateCloses
<1>9. CASE Draft(p)
  <2> DEFINE customer == flags[halt.sub]
             x == [at |-> "create", halt |-> halt, verdicts |-> win[p].verdicts,
                   customer |-> customer]
  <2>1. /\ win[p] # NoWindow /\ halt \in Halt
        /\ DOMAIN win[p].verdicts \in SUBSET InvoiceIds
        /\ win[p].verdicts \in [DOMAIN win[p].verdicts -> CollectibilityStatuses]
    BY <1>1, <1>2, <1>9, WindowAt DEF Draft, Persisted, InWindow
  <2>2. customer \in SUBSET CustomerFlags
    <3>1. halt.sub \in Subs
      BY <2>1 DEF Halt
    <3> QED
      BY <3>1 DEF WindowsInv, StoresTyped
  <2>3. Moves(p, x) /\ UNCHANGED <<cases, gates, flags>>
    BY <1>9 DEF Draft, caseVars
  <2> HIDE DEF customer
  <2>4. IsWindow(x) /\ x.halt = halt
    BY <2>1, <2>2, CreateIsWindow
  <2> QED
    BY <1>4, <1>5, <2>1, <2>3, <2>4
<1>10. CASE CreateCase(p)
  <2>1. win[p] # NoWindow /\ halt \in Halt
    BY <1>2, <1>10 DEF CreateCase
  <2>2. cases' \subseteq Case /\ UNCHANGED <<gates, flags>>
    BY <1>1, <1>5, <1>10, DraftIsCase DEF CreateCase
  <2>3. CASE Leaves(p, halt)
    BY <2>2, <2>3, LeavesInPlace
  <2>4. CASE Moves(p, [at |-> "escalate", halt |-> halt])
    <3> DEFINE x == [at |-> "escalate", halt |-> halt]
    <3>1. IsWindow(x) /\ x.halt = halt
      BY <2>1, OpenIsWindow
    <3>2. Moves(p, x)
      BY <2>4
    <3> HIDE DEF x
    <3> QED
      BY <1>4, <1>5, <2>1, <2>2, <3>1, <3>2
  <2> QED
    BY <1>10, <2>3, <2>4 DEF CreateCase
<1>11. CASE FindCase(p)
  BY <1>3, <1>11 DEF FindCase
<1>12. CASE EscalateCase(p)
  <2> DEFINE Now(c) == IF c.halt = halt THEN [c EXCEPT !.status = "escalated"] ELSE c
  <2>1. \A c \in cases : Now(c) \in Case
    BY <1>5 DEF Case
  <2>2. cases' = {Now(c) : c \in cases} /\ UNCHANGED <<gates, flags>> /\ Leaves(p, halt)
    BY <1>12 DEF EscalateCase
  <2> HIDE DEF Now
  <2>3. cases' \subseteq Case
    BY <2>1, <2>2
  <2> QED
    BY <2>2, <2>3, LeavesInPlace
<1> QED
  BY <1>6, <1>7, <1>8, <1>9, <1>10, <1>11, <1>12 DEF InHandler

\* Ingestion goes on around the hook, not in it.
LEMMA ServeLeavesHook ==
  ASSUME TypeOK, NEW w \in Workers, Serve(w)
  PROVE  /\ pc[w] # "window" /\ UNCHANGED feed
         /\ \A v \in Workers : v # w => pc'[v] = pc[v] /\ snap'[v] = snap[v]
         /\ pc'[w] = "window" => snap'[w].eps # << >>
<1>1. /\ pc \in [Workers -> {"idle", "claim", "handle", "attach", "window", "mark"}]
      /\ snap \in [Workers -> Subscription]
  BY DEF TypeOK
<1>2. CASE Transition(w)
  <2>1. /\ pc[w] = "handle" /\ UNCHANGED feed /\ snap' = [snap EXCEPT ![w] = Updated(w)]
        /\ pc' = [pc EXCEPT ![w] = IF /\ Closes(snap[w].status, ev[w].type)
                                      /\ Updated(w).eps # << >>
                                   THEN "window" ELSE "mark"]
    BY <1>2 DEF Transition, WantsTransition, HandlesLifecycle, At, Goto
  <2> QED
    BY <1>1, <2>1
<1>3. ASSUME NEW place, place # "window", Goto(w, place),
             UNCHANGED snap \/ snap' = [snap EXCEPT ![w] = Absent]
      PROVE  /\ \A v \in Workers : v # w => pc'[v] = pc[v] /\ snap'[v] = snap[v]
             /\ pc'[w] # "window"
  BY <1>1, <1>3 DEF Goto
<1>4. CASE Claim(w) \/ Duplicate(w) \/ Mark(w)
  BY <1>3, <1>4 DEF Claim, Duplicate, Mark, Leave, At
<1>5. CASE RejectStale(w) \/ RejectIllegal(w) \/ NoOp(w) \/ TransitionLost(w)
  BY <1>3, <1>5 DEF RejectStale, RejectIllegal, NoOp, TransitionLost, WantsTransition,
     HandlesLifecycle, Answer, At
<1>6. CASE RefuseInvoice(w) \/ InvoiceNotFound(w) \/ NoteOrRefusePayload(w)
  BY <1>3, <1>6 DEF RefuseInvoice, InvoiceNotFound, NoteOrRefusePayload, HandlesInvoice,
     Answer, At
<1>7. CASE InsertInvoice(w) \/ AttachInvoice(w) \/ SettleInvoice(w)
  BY <1>3, <1>7 DEF InsertInvoice, AttachInvoice, SettleInvoice, HandlesInvoice, At
<1> QED
  BY <1>2, <1>4, <1>5, <1>6, <1>7 DEF Serve, Lifecycles, InvoicesAndPayments

LEMMA ArriveLeavesHook ==
  ASSUME TypeOK, Arrive
  PROVE  /\ UNCHANGED feed
         /\ \A w \in Workers :
              \/ /\ pc'[w] = pc[w]
                 /\ snap'[w] = snap[w]
              \/ /\ pc[w] = "idle"
                 /\ pc'[w] = "claim"
<1>1. CASE \E s \in Named, status \in Statuses : Create(s, status)
  BY <1>1 DEF Create, locals
<1>2. CASE \E w \in Workers, e \in Feed : Receive(w, e)
  BY <1>2 DEF Receive, At, Goto, TypeOK
<1> QED
  BY <1>1, <1>2 DEF Arrive

LEMMA HookStep == TypeOK /\ HookHasEpisode /\ [Next]_vars => HookHasEpisode'
<1> SUFFICES ASSUME TypeOK, HookHasEpisode, [Next]_vars
             PROVE  HookHasEpisode'
  OBVIOUS
<1>1. CASE Arrive
  BY <1>1, ArriveLeavesHook DEF HookHasEpisode
<1>2. ASSUME NEW w \in Workers, Serve(w)
      PROVE  HookHasEpisode'
  BY <1>2, ServeLeavesHook DEF HookHasEpisode
<1>3. ASSUME NEW w \in Workers, HookReturns(w) \/ Crash(w)
      PROVE  HookHasEpisode'
  BY <1>3 DEF HookReturns, Crash, Leave, Goto, HookHasEpisode, TypeOK
<1>4. CASE UNCHANGED vars
  BY <1>4 DEF vars, HookHasEpisode
<1> QED
  BY <1>1, <1>2, <1>3, <1>4 DEF Next, Step

\* The halt a worker closed is one.
LEMMA ClosedIsHalt ==
  ASSUME TypeOK, HookHasEpisode, NEW w \in Workers, pc[w] = "window"
  PROVE  ClosedBy(w) \in Halt
<1> DEFINE sub == snap[w]
           hits == {i \in DOMAIN sub.eps : sub.eps[i].react = ev[w].at}
<1>1. sub \in Subscription /\ sub.eps # << >> /\ ev[w] \in Feed
  BY DEF TypeOK, HookHasEpisode
<1>2. ev[w].sub \in Subs
  BY <1>1, FeedAssumption
<1>3. /\ Len(sub.eps) \in Nat /\ DOMAIN sub.eps = 1..Len(sub.eps)
      /\ \A i \in DOMAIN sub.eps : sub.eps[i] \in Episode
  BY <1>1, EpisodeAt
<1>4. Len(sub.eps) \in DOMAIN sub.eps
  <2>1. sub.eps \in Seq(Episode)
    BY <1>1 DEF Subscription
  <2>2. Len(sub.eps) # 0
    BY <1>1, <2>1, EmptySeq
  <2> QED
    BY <1>3, <2>2
<1>5. CASE hits = {}
  <2>1. JustClosed(sub, ev[w].at) = sub.eps[Len(sub.eps)]
    BY <1>5 DEF JustClosed
  <2> QED
    BY <1>2, <1>3, <1>4, <2>1 DEF ClosedBy, Halt, Episode
<1>6. CASE hits # {}
  <2>1. hits \in SUBSET Nat
    BY <1>3
  <2>2. First(hits) \in hits
    BY <1>6, <2>1, FirstOf
  <2>3. JustClosed(sub, ev[w].at) = sub.eps[First(hits)]
    BY <1>6 DEF JustClosed
  <2>4. JustClosed(sub, ev[w].at) \in Episode
    BY <1>3, <2>2, <2>3
  <2> QED
    BY <1>2, <2>4 DEF ClosedBy, Halt, Episode
<1> QED
  BY <1>5, <1>6

\* A step that leaves every window as it is, and the processes in one where they are.
LEMMA StaysInPlace ==
  ASSUME WindowsInv, StoresTyped', UNCHANGED <<feed, win>>,
         \A p \in Processes : win[p] # NoWindow =>
           /\ p \in Workers => pc'[p] = pc[p]
           /\ p \in Passes => pass'[p] = pass[p] /\ scan'[p] = scan[p]
  PROVE  WindowsInv'
<1>1. \A y : IsWindow(y)' <=> IsWindow(y)
  BY DEF IsWindow, CustomerFlags
<1>2. \A p \in Processes : IsWindow(win[p])'
  <2> SUFFICES ASSUME NEW p \in Processes, NEW y, y = win'[p]
               PROVE  IsWindow(y)'
    BY DEF IsWindow, CustomerFlags
  <2>1. IsWindow(y)
    BY DEF WindowsInv
  <2> QED
    BY <1>1, <2>1
<1>3. \A p \in Processes : InPlace(p)'
  BY DEF WindowsInv, InPlace
<1> QED
  BY <1>2, <1>3 DEF WindowsInv

LEMMA IngestionInPlace ==
  ASSUME TypeOK, WindowsInv, Arrive \/ \E w \in Workers : Serve(w), UNCHANGED windowVars
  PROVE  WindowsInv'
<1>1. /\ UNCHANGED feed
      /\ \A w \in Workers : pc[w] = "window" => pc'[w] = "window"
  <2>1. CASE Arrive
    BY <2>1, ArriveLeavesHook
  <2>2. ASSUME NEW w \in Workers, Serve(w)
        PROVE  /\ UNCHANGED feed
               /\ \A v \in Workers : pc[v] = "window" => pc'[v] = "window"
    BY <2>2, ServeLeavesHook
  <2> QED
    BY <2>1, <2>2
<1>2. StoresTyped'
  BY <1>1 DEF windowVars, WindowsInv, StoresTyped, CustomerFlags
<1>3. \A w \in Workers : win[w] # NoWindow => pc'[w] = pc[w]
  BY <1>1 DEF WindowsInv, InPlace, Processes
<1> QED
  BY <1>1, <1>2, <1>3, StaysInPlace DEF windowVars

LEMMA WorkerInPlace ==
  ASSUME TypeOK, HookHasEpisode, WindowsInv, NEW w \in Workers,
         WorkerStep(w) \/ WindowFails(w) \/ WorkerDies(w)
  PROVE  WindowsInv'
<1>1. w \in Processes /\ w \notin Passes
  BY WindowAssumption DEF Processes
<1>2. CASE Reactivate(w)
  <2>1. pc[w] = "window" /\ ClosedBy(w) \in Halt /\ OpenWindow(w, ClosedBy(w))
    BY <1>2, ClosedIsHalt DEF Reactivate, At
  <2> QED
    BY <1>1, <2>1, OpenWindowInPlace
<1>3. CASE InHandler(w)
  BY <1>1, <1>3, HandlerInPlace
<1>4. CASE WindowFails(w)
  BY <1>1, <1>4, LeavesInPlace DEF WindowFails, caseVars, WindowsInv, StoresTyped
<1>5. CASE WorkerDies(w)
  <2>1. /\ win' = [win EXCEPT ![w] = NoWindow]
        /\ UNCHANGED <<feed, cases, gates, flags, pass, scan>>
        /\ \A v \in Workers : v # w => pc'[v] = pc[v]
    BY <1>5 DEF WorkerDies, Crash, Leave, Goto, caseVars, TypeOK
  <2>2. StoresTyped'
    BY <2>1 DEF WindowsInv, StoresTyped, CustomerFlags
  <2>3. IsWindow(NoWindow)
    BY DEF IsWindow
  <2> QED
    BY <1>1, <2>1, <2>2, <2>3, OneWindow
<1> QED
  BY <1>2, <1>3, <1>4, <1>5 DEF WorkerStep

\* The halts a pass starts out with are halts.
LEMMA ScanIsOfHalts ==
  ASSUME TypeOK, NEW s \in Subs, NEW i \in DOMAIN subs[s].eps
  PROVE  [sub |-> s, ep |-> subs[s].eps[i].id] \in Halt
<1>1. subs[s].eps[i] \in Episode
  BY EpisodeAt DEF TypeOK
<1> QED
  BY <1>1 DEF Episode, Halt

LEMMA PassInPlace ==
  ASSUME TypeOK, WindowsInv, NEW p \in Passes, StartPass(p) \/ PassStep(p) \/ PassDies(p)
  PROVE  WindowsInv'
<1>1. p \in Processes /\ p \notin Workers
  BY WindowAssumption DEF Processes
<1>2. IsWindow(win[p]) /\ InPlace(p) /\ StoresTyped
  BY <1>1 DEF WindowsInv
<1>3. CASE StartPass(p)
  <2>1. /\ UNCHANGED <<feed, win, pc, cases, gates, flags>> /\ pass[p] = "new"
        /\ pass' = [pass EXCEPT ![p] = "running"]
    BY <1>3 DEF StartPass, MayStart, vars, caseVars
  <2> DEFINE halts == UNION {{[sub |-> s, ep |-> subs[s].eps[i].id] :
                       i \in {i \in DOMAIN subs[s].eps : ~IsOpen(subs[s].eps[i])}} :
                     s \in Subs}
  <2>2. scan' = [scan EXCEPT ![p] = halts]
    BY <1>3 DEF StartPass
  <2>3. halts \subseteq Halt
    BY ScanIsOfHalts
  <2> HIDE DEF halts
  <2>4. StoresTyped'
    BY <1>2, <2>1, <2>2, <2>3 DEF StoresTyped, CustomerFlags
  <2>5. win[p] = NoWindow
    BY <1>1, <1>2, <2>1 DEF InPlace
  <2>6. \A q \in Passes : q # p => pass'[q] = pass[q] /\ scan'[q] = scan[q]
    BY <1>2, <2>1, <2>2 DEF StoresTyped
  <2> QED
    BY <2>1, <2>4, <2>5, <2>6, StaysInPlace
<1>4. CASE SkipHalt(p)
  <2>1. PICK halt : /\ InWindow(p, "none")
                    /\ scan' = [scan EXCEPT ![p] = @ \ {halt}]
                    /\ UNCHANGED <<vars, caseVars, win, pass>>
    BY <1>4 DEF SkipHalt, NextHalt
  <2>2. win[p] = NoWindow
    BY <1>2, <2>1, WindowAt DEF InWindow
  <2>3. StoresTyped'
    BY <1>2, <2>1 DEF StoresTyped, CustomerFlags, caseVars, vars
  <2>4. \A q \in Passes : q # p => scan'[q] = scan[q]
    BY <1>2, <2>1 DEF StoresTyped
  <2>5. UNCHANGED <<feed, win, pc, pass>>
    BY <2>1 DEF vars
  <2> QED
    BY <2>2, <2>3, <2>4, <2>5, StaysInPlace
<1>5. CASE VisitHalt(p)
  <2>1. PICK halt \in scan[p] : /\ pass[p] = "running" /\ UNCHANGED caseVars
                                /\ Moves(p, [at |-> "open", halt |-> halt])
    BY <1>5 DEF VisitHalt, NextHalt
  <2> DEFINE x == [at |-> "open", halt |-> halt]
  <2>2. halt \in Halt
    BY <1>2 DEF StoresTyped
  <2>3. IsWindow(x) /\ x.halt \in scan[p]
    BY <2>2, OpenIsWindow
  <2>4. StoresTyped'
    BY <1>2, <2>1 DEF Moves, vars, caseVars, StoresTyped, CustomerFlags
  <2>5. Moves(p, x)
    BY <2>1
  <2> HIDE DEF x
  <2> QED
    BY <1>1, <2>1, <2>3, <2>4, <2>5, MovesInPlace
<1>6. CASE Reconstruct(p)
  <2>1. win[p] # NoWindow /\ win[p].halt \in Halt /\ OpenWindow(p, win[p].halt)
    BY <1>2, <1>6, WindowAt DEF Reconstruct, InWindow
  <2> QED
    BY <1>1, <2>1, OpenWindowInPlace
<1>7. CASE InHandler(p)
  BY <1>1, <1>7, HandlerInPlace
<1>8. CASE EndPass(p)
  <2>1. /\ scan[p] = {} /\ pass' = [pass EXCEPT ![p] = "done"]
        /\ UNCHANGED <<feed, win, pc, scan, cases, gates, flags>>
    BY <1>8 DEF EndPass, vars, caseVars
  <2>2. win[p] = NoWindow
    BY <1>2, <2>1 DEF InPlace
  <2>3. StoresTyped' /\ \A q \in Passes : q # p => pass'[q] = pass[q]
    BY <1>2, <2>1 DEF StoresTyped, CustomerFlags
  <2> QED
    BY <2>1, <2>2, <2>3, StaysInPlace
<1>9. CASE PassDies(p)
  <2>1. /\ pass' = [pass EXCEPT ![p] = "dead"] /\ scan' = [scan EXCEPT ![p] = {}]
        /\ win' = [win EXCEPT ![p] = NoWindow]
        /\ UNCHANGED <<feed, pc, cases, gates, flags>>
    BY <1>9 DEF PassDies, vars, caseVars
  <2>2. /\ StoresTyped'
        /\ \A q \in Passes : q # p => pass'[q] = pass[q] /\ scan'[q] = scan[q]
    BY <1>2, <2>1 DEF StoresTyped, CustomerFlags
  <2>3. IsWindow(NoWindow)
    BY DEF IsWindow
  <2> QED
    BY <1>1, <2>1, <2>2, <2>3, OneWindow
<1> QED
  BY <1>3, <1>4, <1>5, <1>6, <1>7, <1>8, <1>9 DEF PassStep

LEMMA WindowsStep ==
  TypeOK /\ HookHasEpisode /\ WindowsInv /\ [RWNext]_rwVars => WindowsInv'
<1> SUFFICES ASSUME TypeOK, HookHasEpisode, WindowsInv, [RWNext]_rwVars
             PROVE  WindowsInv'
  OBVIOUS
<1>1. ASSUME NEW s \in Subs, SetFlags(s)
      PROVE  WindowsInv'
  <2>1. PICK set \in SUBSET CustomerFlags, clear \in SUBSET (CustomerFlags \ {"risk"}) :
          flags' = [flags EXCEPT ![s] = (@ \ clear) \cup set]
    BY <1>1 DEF SetFlags
  <2>2. UNCHANGED <<feed, pc, cases, gates, win, pass, scan>>
    BY <1>1 DEF SetFlags, vars
  <2>3. flags' \in [Subs -> SUBSET CustomerFlags]
    BY <2>1 DEF WindowsInv, StoresTyped
  <2>4. StoresTyped'
    BY <2>2, <2>3 DEF WindowsInv, StoresTyped, CustomerFlags
  <2> QED
    BY <2>2, <2>4, StaysInPlace
<1>2. CASE UNCHANGED rwVars
  <2>1. UNCHANGED <<feed, pc, cases, gates, flags, win, pass, scan>>
    BY <1>2 DEF rwVars, windowVars, vars
  <2>2. StoresTyped'
    BY <2>1 DEF WindowsInv, StoresTyped, CustomerFlags
  <2> QED
    BY <2>1, <2>2, StaysInPlace
<1> QED
  BY <1>1, <1>2, IngestionInPlace, WorkerInPlace, PassInPlace DEF RWNext

\* The documents of the composition and what its processes hold keep their shapes,
\* whatever two processes do at once; nobody is in a window that ingestion, or a
\* running pass, does not wait for.
THEOREM WindowTypesHold == RWSpec => []RWTypeOK
<1>1. RWInit => HookHasEpisode /\ WindowsInv
  <2> SUFFICES ASSUME RWInit PROVE HookHasEpisode /\ WindowsInv
    OBVIOUS
  <2>1. IsWindow(NoWindow)
    BY DEF IsWindow
  <2>2. StoresTyped
    BY DEF RWInit, StoresTyped
  <2>3. win = [p \in Processes |-> NoWindow]
    BY DEF RWInit
  <2>4. \A p \in Processes : IsWindow(win[p]) /\ InPlace(p)
    BY <2>1, <2>3 DEF InPlace
  <2>5. HookHasEpisode
    BY DEF RWInit, Init, HookHasEpisode
  <2> QED
    BY <2>2, <2>3, <2>4, <2>5 DEF WindowsInv
<1>2. RWSpec => []TypeOK
  BY LedgerGoesOn, TypeCorrect, PTL
<1>3. TypeOK /\ HookHasEpisode /\ [RWNext]_rwVars => HookHasEpisode'
  BY WindowStepIsLedgerStep, HookStep DEF rwVars
<1>4. WindowsInv => RWTypeOK
  BY DEF WindowsInv, StoresTyped, InPlace, RWTypeOK, Processes
<1> QED
  BY <1>1, <1>2, <1>3, <1>4, WindowsStep, PTL DEF RWSpec
=============================================================================
