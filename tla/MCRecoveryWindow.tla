--------------------------- MODULE MCRecoveryWindow ---------------------------
(***************************************************************************)
(* Small feeds for model-checking RecoveryWindow: a halt or two with their *)
(* returns, invoices whose collectibility differs, and settlements.        *)
(***************************************************************************)
EXTENDS RecoveryWindow, TLC

Evt(id, type, at, inv, cycle) ==
  [id |-> id, sub |-> "s1", type |-> type, at |-> at, inv |-> inv,
   cycle |-> cycle]

\* One halt with a delivered invoice, settled at any moment.
OneHalt ==
  {Evt(1, "halted", 1, 0, 0), Evt(2, "activated", 2, 0, 0),
   Evt(3, "invoice", 1, 1, 1), Evt(4, "paid", 3, 1, 0)}

\* The same with a second invoice.
TwoInvoices ==
  {Evt(1, "halted", 1, 0, 0), Evt(2, "activated", 2, 0, 0),
   Evt(3, "invoice", 1, 1, 1), Evt(4, "invoice", 1, 2, 2), Evt(5, "paid", 3, 1, 0)}

\* Two halts, and an invoice of the first that nobody settles.
TwoHalts ==
  {Evt(1, "halted", 1, 0, 0), Evt(2, "activated", 2, 0, 0),
   Evt(3, "pending", 2, 0, 0), Evt(4, "halted", 3, 0, 0),
   Evt(5, "activated", 4, 0, 0), Evt(6, "invoice", 1, 1, 1)}

HaltFeeds == {OneHalt, TwoHalts}

InvoiceFeeds == {OneHalt, TwoInvoices}

\* Two passes race where there is one halt; a dispute comes in where there is one
\* invoice.
TwoPasses ==
  [f \in Feeds |-> [passes |-> IF f = OneHalt THEN 2 ELSE 1,
                    flags  |-> IF f = OneHalt THEN {"dispute"} ELSE {}]]

OnePass == [f \in Feeds |-> [TwoPasses[f] EXCEPT !.passes = 1]]

Amounts == [inv \in InvoiceIds |-> IF inv = 0 THEN 0 ELSE 500]

Deliver(delivery) == [waived |-> FALSE, marked |-> FALSE, delivery |-> delivery]

SecondUnknown ==
  [inv \in InvoiceIds |-> Deliver(IF inv = 2 THEN "UNKNOWN" ELSE "DELIVERED")]

WindowSymmetry == Permutations(Workers) \cup Permutations(Passes)
=============================================================================
