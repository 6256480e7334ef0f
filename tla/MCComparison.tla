---------------------------- MODULE MCComparison ----------------------------
(***************************************************************************)
(* Two cases of ten kinds, and three of those that compete most for slots. *)
(* A plain case may be charged or sent a link; the others each meet one    *)
(* rule of policy or one edge of the economics.                            *)
(***************************************************************************)
EXTENDS Comparison, TLC

Plain ==
  [domestic |-> FALSE, mandate |-> 50000, risk |-> FALSE, dispute |-> FALSE,
   opted_out |-> FALSE, attempts |-> 0, contacted |-> FALSE,
   collectible |-> 20000, invalid |-> 0, recent |-> FALSE, success |-> 50,
   estimate |-> (NoAction :> 1500 @@ PaymentLink :> 4000 @@ ManualCharge :> 4200),
   latent |-> 50,
   draw |-> (NoAction :> 9000 @@ PaymentLink :> 2000 @@ ManualCharge :> 9000)]

\* Would pay anyway; a link is worth no more than its cost.
Willing ==
  [Plain EXCEPT !.latent = 100, !.success = 100,
                !.estimate = (NoAction :> 5000 @@ PaymentLink :> 5100 @@ ManualCharge :> 5100),
                !.draw = (NoAction :> 0 @@ PaymentLink :> 0 @@ ManualCharge :> 0)]

\* Large, unlikely, over its mandate; the draw of its link is in the pending band.
Large ==
  [Plain EXCEPT !.collectible = 80000, !.invalid = 20000, !.latent = 0, !.success = 0,
                !.estimate = (NoAction :> 300 @@ PaymentLink :> 1500 @@ ManualCharge :> 2000),
                !.draw = (NoAction :> 9000 @@ PaymentLink :> 2400 @@ ManualCharge :> 0)]

Small == [Plain EXCEPT !.collectible = 10000, !.domestic = TRUE, !.recent = TRUE]

Risky == [Plain EXCEPT !.risk = TRUE, !.invalid = 10000]

Disputed == [Plain EXCEPT !.dispute = TRUE]

OptedOut == [Plain EXCEPT !.opted_out = TRUE, !.success = 20]

Contacted == [Plain EXCEPT !.contacted = TRUE, !.collectible = 40000, !.success = 100]

Tried == [Plain EXCEPT !.attempts = 3]

\* Nothing collectible: only the naive strategy of the harness is shown it.
Gated == [Plain EXCEPT !.collectible = 0, !.invalid = 30000]

AllKinds ==
  {Plain, Willing, Large, Small, Risky, Disputed, OptedOut, Contacted, Tried, Gated}

TwoOrThree ==
  [1..2 -> AllKinds] \cup [1..3 -> {Plain, Large, Small}]
=============================================================================
