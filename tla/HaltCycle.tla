------------------------------ MODULE HaltCycle ------------------------------
(***************************************************************************)
(* What ingestion promises of each subscription, without events, workers   *)
(* or times: it walks the lifecycle graph one edge at a time, every entry  *)
(* to HALTED begins exactly one halt, and a halt that has begun stays open *)
(* until the subscription leaves HALTED, which ends it.                    *)
(***************************************************************************)
EXTENDS StateMachine, Naturals

CONSTANT Subs

VARIABLES
  status,  \* each subscription's status, "absent" before it is created
  halts,   \* how many halts it has begun
  open     \* whether the last of them is still open

hcVars == <<status, halts, open>>

HCInit ==
  /\ status = [s \in Subs |-> "absent"]
  /\ halts = [s \in Subs |-> 0]
  /\ open = [s \in Subs |-> FALSE]

\* A subscription may be created in any status, and owns no halt then.
Begin(s) ==
  /\ status[s] = "absent"
  /\ \E first \in Statuses : status' = [status EXCEPT ![s] = first]
  /\ UNCHANGED <<halts, open>>

Halt(s) ==
  /\ <<status[s], "HALTED">> \in Edges
  /\ status' = [status EXCEPT ![s] = "HALTED"]
  /\ halts' = [halts EXCEPT ![s] = @ + 1]
  /\ open' = [open EXCEPT ![s] = TRUE]

Return(s) ==
  /\ status[s] = "HALTED"
  /\ status' = [status EXCEPT ![s] = "ACTIVE"]
  /\ open' = [open EXCEPT ![s] = FALSE]
  /\ UNCHANGED halts

MoveOn(s) ==
  /\ status[s] # "HALTED"
  /\ \E next \in Statuses \ {"HALTED"} :
       /\ <<status[s], next>> \in Edges
       /\ status' = [status EXCEPT ![s] = next]
  /\ UNCHANGED <<halts, open>>

HCNext == \E s \in Subs : Begin(s) \/ Halt(s) \/ Return(s) \/ MoveOn(s)

HCSpec == HCInit /\ [][HCNext]_hcVars
=============================================================================
