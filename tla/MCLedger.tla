------------------------------ MODULE MCLedger ------------------------------
(***************************************************************************)
(* Small feeds for model-checking Ledger.  A feed is a set of events; TLC  *)
(* delivers them in every order, any number of times, to any worker.       *)
(***************************************************************************)
EXTENDS Ledger, TLC

Evt(id, sub, type, at, inv, cycle) ==
  [id |-> id, sub |-> sub, type |-> type, at |-> at, inv |-> inv,
   cycle |-> cycle]

Lifecyc(id, type, at) == Evt(id, "s1", type, at, 0, 0)

\* Two full cycles, for a subscription created PENDING; deliveries share logical
\* times.
CycleFeed ==
  {Lifecyc(1, "halted", 1), Lifecyc(2, "activated", 1), Lifecyc(3, "pending", 2),
   Lifecyc(4, "halted", 2), Lifecyc(5, "activated", 3)}

\* One halt, an invoice before or in it that another delivery duplicates and a
\* payment settles while the halt may be opening or closing.
MoneyFeed ==
  {Lifecyc(1, "halted", 2), Lifecyc(2, "activated", 3),
   Evt(3, "s1", "invoice", 1, 1, 1), Evt(4, "s1", "invoice", 2, 2, 1),
   Evt(5, "s1", "paid", 3, 1, 0)}

\* Two subscriptions: an invoice id used for both, and a payment filed under
\* the one whose invoice it may not be.
CrossFeed ==
  {Lifecyc(1, "halted", 1), Evt(3, "s1", "invoice", 1, 1, 1),
   Evt(4, "s2", "invoice", 2, 1, 1), Evt(5, "s2", "paid", 3, 1, 0)}

\* Payment events that settle nothing, and a halt among them.
NotesFeed ==
  {Lifecyc(1, "halted", 1), Evt(6, "s1", "noted", 3, 0, 0),
   Evt(7, "s1", "malformed", 3, 0, 0)}

RaceFeeds == {CycleFeed, MoneyFeed, CrossFeed, NotesFeed}

WorkerSymmetry == Permutations(Workers)
=============================================================================
