---------------------------- MODULE SimulationRuns ----------------------------
(***************************************************************************)
(* A simulation run: its record, the generation of its world and the       *)
(* comparisons of strategies on it.  The record is visible from the start, *)
(* its status is never looked at, and every save replaces it whole with    *)
(* the copy of whoever saves.  The agent meanwhile works on the cases, and *)
(* trainings replace the model that comparisons load.                      *)
(*                                                                         *)
(* An action is what happens between two awaits of a handler, but for a    *)
(* subscriber's timeline, which is one step here and many in World.        *)
(***************************************************************************)
EXTENDS ModelRegistry

CONSTANTS
  Cases,       \* the case a subscriber's timeline may end in
  Comparisons, \* requests to compare strategies
  Traffic      \* who calls in a behaviour: jobs, evaluations, whether a run is
               \* generated, comparisons and the strategies they name, and how
               \* many things the agent does

ASSUME TrafficAssumption ==
  Traffic \subseteq [jobs : SUBSET Jobs, evaluations : SUBSET Evaluations,
                     generates : BOOLEAN, comparisons : SUBSET Comparisons,
                     names : SUBSET SUBSET {"naive", "rule_based", "reclaim", "unknown"},
                     touches : Nat]

VARIABLES
  traffic,    \* this behaviour's callers
  touches,    \* things the agent has done
  run,        \* the record
  generation, \* how far generate is
  cases,      \* the cases of the run
  flagged,    \* whose customer has opted out or disputes
  comparison  \* each comparison's progress and local state

simulationVars ==
  <<traffic, touches, run, generation, cases, flagged, comparison>>

allVars == <<simulationVars, registryVars>>

NoRun == [status |-> "none"]

\* The record generate creates, and keeps its own copy of.
Created ==
  [status |-> "created", summary |-> FALSE, results |-> {}, error |-> FALSE]

Init ==
  /\ RegistryInit
  /\ traffic \in Traffic
  /\ touches = 0
  /\ run = NoRun
  /\ generation = "idle"
  /\ cases = [c \in {} |-> Created]
  /\ flagged = [c \in Cases |-> FALSE]
  /\ comparison = [p \in Comparisons |-> Idle]

Existing == DOMAIN cases

GenerationOver == generation \in {"done", "failed", "unrecorded", "dead"}

-----------------------------------------------------------------------------
(* SimulationRunner.generate.                                              *)

Create ==
  /\ traffic.generates
  /\ generation = "idle"
  /\ run' = Created
  /\ generation' = "materialising"
  /\ UNCHANGED <<traffic, touches, cases, flagged, comparison, registryVars>>

\* A subscriber's timeline opens a case, its keys not stamped yet.
Materialise(c) ==
  /\ generation = "materialising"
  /\ c \in Cases \ Existing
  /\ cases' = [d \in Existing \cup {c} |->
                 IF d = c THEN [stamped |-> FALSE, closed |-> FALSE]
                 ELSE cases[d]]
  /\ UNCHANGED <<traffic, touches, run, generation, flagged, comparison, registryVars>>

\* The other subscribers have no case.
Materialised ==
  /\ generation = "materialising"
  /\ generation' = "stamping"
  /\ UNCHANGED <<traffic, touches, run, cases, flagged, comparison, registryVars>>

Stamp(c) ==
  /\ generation = "stamping"
  /\ c \in Existing
  /\ ~cases[c].stamped
  /\ cases' = [cases EXCEPT ![c].stamped = TRUE]
  /\ UNCHANGED <<traffic, touches, run, generation, flagged, comparison, registryVars>>

Summarise ==
  /\ generation = "stamping"
  /\ \A c \in Existing : cases[c].stamped
  /\ generation' = "summarised"
  /\ UNCHANGED <<traffic, touches, run, cases, flagged, comparison, registryVars>>

SaveGenerated ==
  /\ generation = "summarised"
  /\ run' = [Created EXCEPT !.status = "generated", !.summary = TRUE]
  /\ generation' = "done"
  /\ UNCHANGED <<traffic, touches, cases, flagged, comparison, registryVars>>

\* The world, or that save, raises; the copy keeps a summary it already has.
WorldFails ==
  /\ generation \in {"materialising", "stamping", "summarised"}
  /\ generation' = IF generation = "summarised" THEN "failing_late" ELSE "failing"
  /\ UNCHANGED <<traffic, touches, run, cases, flagged, comparison, registryVars>>

\* Fault: the exception is answered, and the record left as it is.
OnlyRaise ==
  /\ generation \in {"failing", "failing_late"}
  /\ generation' = "failed"
  /\ UNCHANGED <<traffic, touches, run, cases, flagged, comparison, registryVars>>

SaveFailed ==
  /\ generation \in {"failing", "failing_late"}
  /\ run' = [Created EXCEPT !.status = "failed", !.error = TRUE,
                            !.summary = (generation = "failing_late")]
  /\ generation' = "failed"
  /\ UNCHANGED <<traffic, touches, cases, flagged, comparison, registryVars>>

\* That save is a call to the database, and raises in its turn: the record stays as
\* it was, and nobody looks after it.
SaveFailedRaises ==
  /\ generation \in {"failing", "failing_late"}
  /\ generation' = "unrecorded"
  /\ UNCHANGED <<traffic, touches, run, cases, flagged, comparison, registryVars>>

-----------------------------------------------------------------------------
(* SimulationRunner.run_strategies.                                        *)

\* The record is read, whatever its status, and kept until the save.
Read(p, names) ==
  /\ comparison[p] = Idle
  /\ comparison' =
       [comparison EXCEPT ![p] =
          IF run = NoRun THEN [pc |-> "unknown_run"]
          ELSE [pc |-> "listing", record |-> run, names |-> names,
                early |-> ~GenerationOver, listed |-> {}, left |-> << >>,
                views |-> << >>]]
  /\ UNCHANGED <<traffic, touches, run, generation, cases, flagged, registryVars>>

\* is_strategy_eligible, of a case as listed.
Eligible == {c \in Existing : ~cases[c].closed}

\* The run's cases are listed: what is known of a case from now on is this copy.
List(p) ==
  /\ comparison[p].pc = "listing"
  /\ comparison' =
       [comparison EXCEPT ![p].pc = "viewing", ![p].listed = Existing,
                          ![p].left = [c \in Eligible |-> cases[c]]]
  /\ UNCHANGED <<traffic, touches, run, generation, cases, flagged, registryVars>>

\* Fault: a case without its keys is shown to strategies all the same.
Unkeyed(doc) == FALSE

\* _views raises on a case that is not stamped.
MissingIdentity(doc) == ~doc.stamped

With(f, c, v) == [d \in DOMAIN f \cup {c} |-> IF d = c THEN v ELSE f[d]]

Without(f, c) == [d \in DOMAIN f \ {c} |-> f[d]]

\* _views: in the order of case ids, with the customer as it is when its turn
\* comes.
View(p, c) ==
  LET me == comparison[p] IN
  /\ me.pc = "viewing"
  /\ c \in DOMAIN me.left
  /\ \A d \in DOMAIN me.left : c <= d
  /\ comparison' =
       [comparison EXCEPT ![p] =
          IF MissingIdentity(me.left[c]) THEN [pc |-> "raised"]
          ELSE [me EXCEPT !.left = Without(me.left, c),
                          !.views = With(me.views, c, flagged[c])]]
  /\ UNCHANGED <<traffic, touches, run, generation, cases, flagged, registryVars>>

\* The strategies choose and are scored without an await.  A name nobody knows
\* and a model that does not load end the request; the scores are a function of
\* the views and of the model.
Score(p) ==
  LET me == comparison[p] IN
  /\ me.pc = "viewing"
  /\ DOMAIN me.left = {}
  /\ comparison' =
       [comparison EXCEPT ![p] =
          CASE "unknown" \in me.names -> [pc |-> "refused"]
            [] "unknown" \notin me.names /\ "reclaim" \in me.names
                 /\ Loads(artifact) = "unavailable" -> [pc |-> "refused"]
            [] "unknown" \notin me.names /\ "reclaim" \in me.names
                 /\ Loads(artifact) = "broken" -> [pc |-> "raised"]
            [] OTHER -> [me EXCEPT !.pc = "saving"]]
  /\ UNCHANGED <<traffic, touches, run, generation, cases, flagged, registryVars>>

\* Fault: the record is rebuilt from the request.
CompletedAfresh(record) == [Created EXCEPT !.status = "completed"]

Completed(record) == [record EXCEPT !.status = "completed"]

Save(p) ==
  /\ comparison[p].pc = "saving"
  /\ run' = [Completed(comparison[p].record) EXCEPT !.results = {p}]
  /\ comparison' = [comparison EXCEPT ![p].pc = "answered"]
  /\ UNCHANGED <<traffic, touches, generation, cases, flagged, registryVars>>

-----------------------------------------------------------------------------
(* The agent, trainings and a crash.                                       *)

\* The agent closes a case that is recovered, or changes its customer's flags.
Touch(c) ==
  /\ touches < traffic.touches
  /\ c \in Existing
  /\ ~cases[c].closed
  /\ touches' = touches + 1
  /\ \/ /\ cases' = [cases EXCEPT ![c].closed = TRUE]
        /\ UNCHANGED flagged
     \/ /\ flagged' = [flagged EXCEPT ![c] = ~@]
        /\ UNCHANGED cases
  /\ UNCHANGED <<traffic, run, generation, comparison, registryVars>>

RegistryStep ==
  /\ \/ \E j \in traffic.jobs, seed \in Seeds, n \in Sizes : Train(j, seed, n)
     \/ \E j \in Jobs : Deactivate(j) \/ Insert(j) \/ TrainingRaises(j)
     \/ \E e \in traffic.evaluations, seed \in Seeds, n \in Sizes : Evaluate(e, seed, n)
     \/ \E e \in Evaluations : NameModel(e)
  /\ UNCHANGED simulationVars

Crash ==
  /\ ~died
  /\ RegistryCrash
  /\ generation' = IF generation = "idle" \/ GenerationOver THEN generation ELSE "dead"
  /\ comparison' = [p \in Comparisons |->
                      IF comparison[p].pc \in {"listing", "viewing", "saving"}
                      THEN [pc |-> "dead"] ELSE comparison[p]]
  /\ UNCHANGED <<traffic, touches, run, cases, flagged>>

Generating ==
  \/ Create
  \/ \E c \in Cases : Materialise(c)
  \/ Materialised
  \/ \E c \in Cases : Stamp(c)
  \/ Summarise
  \/ SaveGenerated
  \/ SaveFailed

Next ==
  \/ Generating
  \/ WorldFails \/ SaveFailedRaises
  \/ \E p \in traffic.comparisons, names \in traffic.names : Read(p, names)
  \/ \E p \in Comparisons : List(p) \/ Score(p) \/ Save(p)
  \/ \E p \in Comparisons, c \in Cases : View(p, c)
  \/ \E c \in Cases : Touch(c)
  \/ RegistryStep
  \/ Crash

\* A handler that was entered goes on, unless the process dies; nothing has to
\* raise.
Spec == Init /\ [][Next]_allVars /\ WF_allVars(Generating)

-----------------------------------------------------------------------------
Scored(p) == comparison[p].pc \in {"saving", "answered"}

\* A comparison that starts while the world is generated never scores a part of
\* it: when it scored any case at all, no case appears that it had not listed.
\* The check of the keys is all there is to it; status is never looked at.
NeverHalfAWorld ==
  \A p \in Comparisons :
    (Scored(p) /\ DOMAIN comparison[p].views # {}) =>
      Existing \subseteq comparison[p].listed

\* A generated run keeps its world's summary, unless a comparison answered that
\* had read the record before generation was over: comparisons that come later,
\* any number of them, save what they read.
OnlyEarlyComparisonsLoseTheWorld ==
  (generation = "done" /\ ~run.summary) =>
    \E p \in Comparisons : comparison[p].pc = "answered" /\ comparison[p].early

\* A run does not stay "created": what becomes of its world is recorded, one way or
\* the other, unless the process dies or the save of the failure raises as well.
GenerationIsSettled ==
  (run.status = "created") ~>
    (run.status # "created" \/ died \/ generation = "unrecorded")
=============================================================================
