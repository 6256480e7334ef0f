---------------------------- MODULE Collectibility ----------------------------
(***************************************************************************)
(* The collectibility gate: whether an unpaid invoice of a halt is a valid *)
(* receivable.  Only what is COLLECTIBLE may enter recovery; what is not   *)
(* established to have been delivered fails closed, to REVIEW_REQUIRED.    *)
(***************************************************************************)
EXTENDS Naturals

Deliveries == {"DELIVERED", "PARTIALLY_DELIVERED", "SUSPENDED", "UNKNOWN"}

CollectibilityStatuses == {"COLLECTIBLE", "NOT_COLLECTIBLE", "REVIEW_REQUIRED"}

\* What the gate reads of an invoice.
Subject == [status : {"UNPAID", "PAID"}, waived : BOOLEAN, marked : BOOLEAN,
            delivery : Deliveries]

\* Fault: unknown delivery defaults to collectible.
EvaluateOpen(subject) ==
  CASE \/ subject.status # "UNPAID"
       \/ subject.waived
       \/ subject.marked
       \/ subject.delivery = "SUSPENDED" -> "NOT_COLLECTIBLE"
    [] OTHER -> "COLLECTIBLE"

\* Rules A, F, C, then D, E, then B, in the order the code tries them.
EvaluateCollectibility(subject) ==
  CASE \/ subject.status # "UNPAID"
       \/ subject.waived
       \/ subject.marked
       \/ subject.delivery = "SUSPENDED" -> "NOT_COLLECTIBLE"
    [] OTHER -> IF subject.delivery = "DELIVERED"
                THEN "COLLECTIBLE"
                ELSE "REVIEW_REQUIRED"

\* A sum of non-negative amounts is positive when one of them is.
HasValue(ids, amount) == \E inv \in ids : amount[inv] > 0
=============================================================================
