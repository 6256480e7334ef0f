---------------------------- MODULE ModelRegistry ----------------------------
(***************************************************************************)
(* The recovery model: one artifact file on disk, and a collection of      *)
(* training runs of which one is to be active.  Training fits a model and  *)
(* replaces the file without giving up the event loop; the rows are then   *)
(* updated by two calls to the database, between which other requests run. *)
(*                                                                         *)
(* A training example is a pair of a dataset seed and a position: the rows *)
(* of a seed are one endless stream, of which a request takes the first n. *)
(***************************************************************************)
EXTENDS Integers, Sequences, FiniteSets

CONSTANTS
  Jobs,         \* requests to train
  Evaluations,  \* requests to evaluate
  Seeds,        \* dataset seeds
  Sizes,        \* numbers of examples
  Held(_, _)    \* what the grouped shuffle holds out, by seed and size

\* generate_training_rows: a longer dataset begins with the shorter one.
RowsOf(seed, size) == {<<seed, i>> : i \in 1..size}

\* Every example is a group of its own, so the split is by example.
ASSUME RegistryAssumption ==
  /\ Sizes \subseteq Nat
  /\ \A seed \in Seeds, n \in Sizes :
       /\ Held(seed, n).test \cup Held(seed, n).validation \subseteq RowsOf(seed, n)
       /\ Held(seed, n).test \cap Held(seed, n).validation = {}

VARIABLES
  artifact,   \* the file
  rows,       \* model_runs, oldest first
  training,   \* by job: the request, and how far it is
  evaluation, \* by evaluation: the same, and what it found
  overlapped, \* whether two trainings ever ran at once
  died        \* whether the process ever died

registryVars == <<artifact, rows, training, evaluation, overlapped, died>>

Missing == [state |-> "missing"]
Torn == [state |-> "torn"]

Fitted(seed, n) ==
  RowsOf(seed, n) \ (Held(seed, n).test \cup Held(seed, n).validation)

\* An artifact file: whose it is and what it was fitted on.
Artifact(id, seed, n, state) ==
  [state |-> state, id |-> id, seed |-> seed, fitted |-> Fitted(seed, n)]

\* The file the repository comes with has no row.
Committed(state) ==
  Artifact("committed", CHOOSE s \in Seeds : TRUE, CHOOSE n \in Sizes : \A k \in Sizes : k <= n,
           state)

Idle == [pc |-> "idle"]

\* load_artifact: a file of another feature schema is refused like a missing one;
\* a torn file raises whatever the unpickler does.
Loads(file) ==
  CASE file.state = "valid" -> "ok"
    [] file.state \in {"missing", "outdated"} -> "unavailable"
    [] file.state = "torn" -> "broken"

RegistryInit ==
  /\ artifact \in {Missing, Committed("valid"), Committed("outdated")}
  /\ rows = << >>
  /\ training = [j \in Jobs |-> Idle]
  /\ evaluation = [e \in Evaluations |-> Idle]
  /\ overlapped = FALSE
  /\ died = FALSE

Underway == {j \in Jobs : training[j].pc \in {"deactivating", "inserting"}}

-----------------------------------------------------------------------------
\* train_model up to its first await: train_and_select, then save_artifact.
Train(j, seed, n) ==
  /\ training[j] = Idle
  /\ artifact' = Artifact(j, seed, n, "valid")
  /\ training' = [training EXCEPT ![j] = [pc |-> "deactivating"]]
  /\ overlapped' = (overlapped \/ Underway # {})
  /\ UNCHANGED <<rows, evaluation, died>>

\* Fault: the active row is inserted first, and then every active row retired.
DeactivateLast(j) ==
  /\ training[j].pc = "deactivating"
  /\ rows' = [i \in 1..(Len(rows) + 1) |->
                IF i <= Len(rows) THEN [rows[i] EXCEPT !.active = FALSE]
                ELSE [id |-> j, active |-> FALSE]]
  /\ training' = [training EXCEPT ![j].pc = "inserted"]
  /\ UNCHANGED <<artifact, evaluation, overlapped, died>>

\* ModelRunRepository.insert: every active row is retired ...
Deactivate(j) ==
  /\ training[j].pc = "deactivating"
  /\ rows' = [i \in DOMAIN rows |-> [rows[i] EXCEPT !.active = FALSE]]
  /\ training' = [training EXCEPT ![j].pc = "inserting"]
  /\ UNCHANGED <<artifact, evaluation, overlapped, died>>

\* ... and then the new one inserted.
Insert(j) ==
  /\ training[j].pc = "inserting"
  /\ rows' = Append(rows, [id |-> j, active |-> TRUE])
  /\ training' = [training EXCEPT ![j].pc = "inserted"]
  /\ UNCHANGED <<artifact, evaluation, overlapped, died>>

\* Either call may raise: the request ends, and what it has done stays done.
TrainingRaises(j) ==
  /\ j \in Underway
  /\ training' = [training EXCEPT ![j].pc = "raised"]
  /\ UNCHANGED <<artifact, rows, evaluation, overlapped, died>>

ActiveRows == {i \in DOMAIN rows : rows[i].active}

\* get_active: find_one returns the oldest.
ActiveRow == CHOOSE i \in ActiveRows : \A k \in ActiveRows : i <= k

\* evaluate_model up to its await.  The request may name a seed, and defaults to
\* the artifact's own; it scores the artifact on the test split of its own size.
Evaluate(e, seed, n) ==
  /\ evaluation[e] = Idle
  /\ evaluation' =
       [evaluation EXCEPT ![e] =
          IF Loads(artifact) = "ok"
          THEN [pc |-> "naming", measured |-> artifact.id, fitted |-> artifact.fitted,
                tested |-> Held(seed, n).test, named |-> artifact.id]
          ELSE [pc |-> Loads(artifact)]]
  /\ UNCHANGED <<artifact, rows, training, overlapped, died>>

\* The answer goes out under the name of the active row, if there is one.
NameModel(e) ==
  /\ evaluation[e].pc = "naming"
  /\ evaluation' =
       [evaluation EXCEPT ![e].pc = "answered",
                          ![e].named = IF ActiveRows = {} THEN @ ELSE rows[ActiveRow].id]
  /\ UNCHANGED <<artifact, rows, training, overlapped, died>>

\* The process dies with its requests, perhaps while it writes the file.
RegistryCrash ==
  /\ died' = TRUE
  /\ artifact' \in {artifact} \cup {Torn : j \in {k \in Jobs : training[k] = Idle}}
  /\ training' = [j \in Jobs |->
                    IF j \in Underway THEN [pc |-> "dead"] ELSE training[j]]
  /\ evaluation' = [e \in Evaluations |->
                      IF evaluation[e].pc = "naming" THEN [pc |-> "dead"] ELSE evaluation[e]]
  /\ UNCHANGED <<rows, overlapped>>

-----------------------------------------------------------------------------
\* No training was ended between its file and its row.
Intact == ~died /\ \A j \in Jobs : training[j].pc # "raised"

\* Unless the process died, or a database call of a training raised, when no
\* training is under way a model that was trained is active; and if trainings never
\* overlapped, exactly one row is, and it is the row of the artifact that
\* predictions are made with.
RegistryAgrees ==
  (Intact /\ Underway = {} /\ rows # << >>) =>
    /\ ActiveRows # {}
    /\ ~overlapped =>
         /\ ActiveRows = {Len(rows)}
         /\ rows[Len(rows)].id = artifact.id

\* What evaluate_held_out says of itself: the artifact is scored "on a fresh
\* grouped test split", on no example it was fitted on.
EvaluationIsHeldOut ==
  \A e \in Evaluations :
    evaluation[e].pc \in {"naming", "answered"} =>
      evaluation[e].tested \cap evaluation[e].fitted = {}
=============================================================================
