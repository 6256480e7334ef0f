----------------------------- MODULE MCAuditTrail -----------------------------
(***************************************************************************)
(* Small feeds for model-checking AuditTrail: two deliveries at a time, of *)
(* few events, since every step of ingestion comes with its lines.         *)
(***************************************************************************)
EXTENDS AuditTrail, TLC

Evt(id, type, at, inv, cycle) ==
  [id |-> id, sub |-> "s1", type |-> type, at |-> at, inv |-> inv,
   cycle |-> cycle]

\* A halt and two events that may both end what it began; one is older.
MovesFeed ==
  {Evt(1, "halted", 2, 0, 0), Evt(2, "activated", 2, 0, 0), Evt(3, "activated", 1, 0, 0)}

\* A halt, an invoice that may be raised in it, and its settlement.
RowsFeed ==
  {Evt(1, "halted", 1, 0, 0), Evt(2, "invoice", 1, 1, 1), Evt(3, "paid", 2, 1, 0)}

\* An invoice that a second one repeats, and a payload that settles nothing.
NotesFeed ==
  {Evt(1, "invoice", 1, 1, 1), Evt(2, "invoice", 1, 1, 2), Evt(3, "noted", 1, 0, 0)}

TrailFeeds == {MovesFeed, RowsFeed, NotesFeed}

WorkerSymmetry == Permutations(Workers)
=============================================================================
