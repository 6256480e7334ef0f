------------------------- MODULE SimulationRunsProofs -------------------------
(***************************************************************************)
(* Theorems about SimulationRuns and the ModelRegistry in it, for any      *)
(* cases, comparisons, trainings and evaluations.                          *)
(***************************************************************************)
EXTENDS SimulationRuns, SequenceTheorems, TLAPS

-----------------------------------------------------------------------------
(* The registry.                                                           *)

Row == [id : Jobs, active : BOOLEAN]

\* While no training overlapped another, at most one is under way: the rows are
\* as its calls to the database left them, and the artifact is already its own.
OneTraining ==
  /\ \A j, k \in Underway : j = k
  /\ \A j \in Underway : artifact.id = j
  /\ \A j \in Jobs : training[j].pc = "inserting" => ActiveRows = {}
  /\ Underway = {} /\ rows # << >> =>
       ActiveRows = {Len(rows)} /\ rows[Len(rows)].id = artifact.id

RegistryInv ==
  /\ rows \in Seq(Row)
  /\ training = [j \in Jobs |-> training[j]]
  /\ \A j \in Jobs : training[j] = [pc |-> training[j].pc]
  /\ died \in BOOLEAN /\ overlapped \in BOOLEAN
  /\ Intact /\ rows # << >> /\ ActiveRows = {} =>
       \E j \in Jobs : training[j].pc = "inserting"
  /\ Intact /\ ~overlapped => OneTraining

\* A step of one training from which all is well leaves from where all was.
LEMMA IntactBefore ==
  ASSUME died' = died, NEW j \in Jobs, training[j].pc # "raised",
         \A k \in Jobs : k # j => training'[k] = training[k], Intact'
  PROVE  Intact
BY DEF Intact

LEMMA TrainKeeps ==
  ASSUME RegistryInv, NEW j \in Jobs, NEW seed, NEW n, Train(j, seed, n)
  PROVE  RegistryInv'
<1>1. /\ artifact' = Artifact(j, seed, n, "valid")
      /\ training' = [training EXCEPT ![j] = [pc |-> "deactivating"]]
      /\ overlapped' = (overlapped \/ Underway # {})
      /\ rows' = rows /\ died' = died /\ training[j] = Idle
  BY DEF Train
<1>2. artifact'.id = j
  BY <1>1 DEF Artifact
<1>3. ActiveRows' = ActiveRows
  BY <1>1 DEF ActiveRows
<1>4. /\ training'[j].pc = "deactivating"
      /\ \A k \in Jobs : k # j => training'[k] = training[k]
  BY <1>1 DEF RegistryInv
<1>5. training[j].pc = "idle"
  BY <1>1 DEF Idle
<1>6. ~overlapped' => ~overlapped /\ Underway = {} /\ Underway' = {j}
  BY <1>1, <1>4 DEF Underway
<1>7. ASSUME Intact', ~overlapped'
      PROVE  OneTraining'
  <2>1. \A k \in Jobs : training'[k].pc # "inserting"
    BY <1>4, <1>6, <1>7 DEF Underway
  <2> QED
    BY <1>2, <1>6, <1>7, <2>1 DEF OneTraining
<1>8. Intact' /\ rows # << >> /\ ActiveRows = {} =>
        \E k \in Jobs : training'[k].pc = "inserting"
  BY <1>1, <1>4, <1>5, IntactBefore DEF RegistryInv
<1>9. /\ training' = [k \in Jobs |-> training'[k]]
      /\ \A k \in Jobs : training'[k] = [pc |-> training'[k].pc]
  BY <1>1, <1>4 DEF RegistryInv
<1> QED
  BY <1>1, <1>3, <1>7, <1>8, <1>9 DEF RegistryInv

LEMMA DeactivateKeeps ==
  ASSUME RegistryInv, NEW j \in Jobs, Deactivate(j)
  PROVE  RegistryInv'
<1>1. /\ training[j].pc = "deactivating"
      /\ rows' = [i \in DOMAIN rows |-> [rows[i] EXCEPT !.active = FALSE]]
      /\ training' = [training EXCEPT ![j].pc = "inserting"]
      /\ artifact' = artifact /\ overlapped' = overlapped /\ died' = died
  BY DEF Deactivate
<1>2. /\ Len(rows) \in Nat /\ DOMAIN rows = 1..Len(rows)
      /\ \A i \in DOMAIN rows : rows[i] \in Row
  BY DEF RegistryInv
<1>3. \A i \in DOMAIN rows : /\ [rows[i] EXCEPT !.active = FALSE] \in Row
                             /\ ~[rows[i] EXCEPT !.active = FALSE].active
  BY <1>2 DEF Row
<1>4. /\ rows' \in [1..Len(rows) -> Row] /\ DOMAIN rows' = DOMAIN rows
      /\ \A i \in DOMAIN rows' : ~rows'[i].active
  BY <1>1, <1>2, <1>3
<1>5. rows' \in Seq(Row)
  BY <1>2, <1>4
<1>6. ActiveRows' = {}
  BY <1>4 DEF ActiveRows
<1>7. /\ training'[j] = [pc |-> "inserting"]
      /\ \A k \in Jobs : k # j => training'[k] = training[k]
      /\ training' = [k \in Jobs |-> training'[k]]
  BY <1>1 DEF RegistryInv
<1>8. Underway' = Underway /\ Underway # {}
  BY <1>1, <1>7 DEF Underway
<1>9. ASSUME Intact', ~overlapped'
      PROVE  OneTraining'
  <2>1. Intact
    BY <1>1, <1>7, <1>9, IntactBefore
  <2> QED
    BY <1>1, <1>6, <1>8, <1>9, <2>1 DEF RegistryInv, OneTraining
<1>10. \A k \in Jobs : training'[k] = [pc |-> training'[k].pc]
  BY <1>7 DEF RegistryInv
<1>11. \E k \in Jobs : training'[k].pc = "inserting"
  BY <1>7
<1> QED
  BY <1>1, <1>5, <1>7, <1>9, <1>10, <1>11 DEF RegistryInv

LEMMA InsertKeeps ==
  ASSUME RegistryInv, NEW j \in Jobs, Insert(j)
  PROVE  RegistryInv'
<1> DEFINE row == [id |-> j, active |-> TRUE]
<1>1. /\ training[j].pc = "inserting"
      /\ rows' = Append(rows, row)
      /\ training' = [training EXCEPT ![j].pc = "inserted"]
      /\ artifact' = artifact /\ overlapped' = overlapped /\ died' = died
  BY DEF Insert
<1>2. row \in Row /\ row.active /\ row.id = j
  BY DEF Row
<1> HIDE DEF row
<1>3. /\ rows' \in Seq(Row) /\ Len(rows) \in Nat /\ Len(rows') = Len(rows) + 1
      /\ DOMAIN rows = 1..Len(rows) /\ DOMAIN rows' = 1..(Len(rows) + 1)
      /\ \A i \in 1..Len(rows) : rows'[i] = rows[i]
      /\ rows'[Len(rows) + 1] = row
  BY <1>1, <1>2 DEF RegistryInv
<1>4. ActiveRows' = ActiveRows \cup {Len(rows')}
  BY <1>2, <1>3 DEF ActiveRows
<1>5. /\ training'[j] = [pc |-> "inserted"]
      /\ \A k \in Jobs : k # j => training'[k] = training[k]
      /\ training' = [k \in Jobs |-> training'[k]]
  BY <1>1 DEF RegistryInv
<1>6. \A k \in Jobs : training'[k] = [pc |-> training'[k].pc]
  BY <1>5 DEF RegistryInv
<1>7. j \in Underway /\ Underway' = Underway \ {j}
  BY <1>1, <1>5 DEF Underway
<1>8. ASSUME Intact', ~overlapped'
      PROVE  OneTraining'
  <2>1. OneTraining
    BY <1>1, <1>5, <1>8, IntactBefore DEF RegistryInv
  <2>2. Underway = {j} /\ Underway' = {}
    BY <1>7, <2>1 DEF OneTraining
  <2>3. ActiveRows' = {Len(rows')}
    BY <1>1, <1>4, <2>1 DEF OneTraining
  <2>4. rows'[Len(rows')].id = artifact'.id
    BY <1>1, <1>2, <1>3, <1>7, <2>1 DEF OneTraining
  <2>5. \A k \in Jobs : training'[k].pc # "inserting"
    BY <2>2 DEF Underway
  <2> QED
    BY <2>2, <2>3, <2>4, <2>5 DEF OneTraining
<1> QED
  BY <1>1, <1>3, <1>4, <1>5, <1>6, <1>8 DEF RegistryInv

LEMMA TrainingRaisesKeeps ==
  ASSUME RegistryInv, NEW j \in Jobs, TrainingRaises(j)
  PROVE  RegistryInv'
<1>1. training' = [training EXCEPT ![j].pc = "raised"]
  BY DEF TrainingRaises
<1>2. /\ training'[j] = [pc |-> "raised"]
      /\ \A k \in Jobs : k # j => training'[k] = training[k]
      /\ training' = [k \in Jobs |-> training'[k]]
  BY <1>1 DEF RegistryInv
<1>3. \A k \in Jobs : training'[k] = [pc |-> training'[k].pc]
  BY <1>2 DEF RegistryInv
<1>4. ~Intact'
  BY <1>2 DEF Intact
<1> QED
  BY <1>2, <1>3, <1>4 DEF TrainingRaises, RegistryInv

LEMMA CrashKeeps ==
  ASSUME RegistryInv, RegistryCrash
  PROVE  RegistryInv'
<1>1. \A j \in Jobs : training'[j] = IF j \in Underway THEN [pc |-> "dead"] ELSE training[j]
  BY DEF RegistryCrash
<1>2. /\ training' = [j \in Jobs |-> training'[j]]
      /\ \A j \in Jobs : training'[j] = [pc |-> training'[j].pc]
  BY <1>1 DEF RegistryCrash, RegistryInv
<1> QED
  BY <1>2 DEF RegistryCrash, RegistryInv, Intact

LEMMA RegistryStepKeeps ==
  ASSUME RegistryInv, traffic \in Traffic, [Next]_allVars
  PROVE  RegistryInv'
<1>1. ASSUME UNCHANGED <<artifact, rows, training, overlapped, died>>
      PROVE  RegistryInv'
  BY <1>1 DEF RegistryInv, OneTraining, Underway, ActiveRows, Intact
<1>2. CASE RegistryStep
  <2>1. traffic.jobs \subseteq Jobs
    BY TrafficAssumption
  <2>2. ASSUME NEW j \in traffic.jobs, NEW seed \in Seeds, NEW n \in Sizes,
               Train(j, seed, n)
        PROVE  RegistryInv'
    BY <2>1, <2>2, TrainKeeps
  <2>3. ASSUME NEW j \in Jobs, Deactivate(j) \/ Insert(j) \/ TrainingRaises(j)
        PROVE  RegistryInv'
    BY <2>3, DeactivateKeeps, InsertKeeps, TrainingRaisesKeeps
  <2>4. ASSUME NEW e, NEW seed, NEW n, Evaluate(e, seed, n)
        PROVE  RegistryInv'
    BY <1>1, <2>4 DEF Evaluate
  <2>5. ASSUME NEW e, NameModel(e)
        PROVE  RegistryInv'
    BY <1>1, <2>5 DEF NameModel
  <2> QED
    BY <1>2, <2>2, <2>3, <2>4, <2>5 DEF RegistryStep
<1>3. CASE Crash
  BY <1>3, CrashKeeps DEF Crash
<1>4. CASE UNCHANGED registryVars
  BY <1>1, <1>4 DEF registryVars
<1>5. Next => RegistryStep \/ Crash \/ UNCHANGED registryVars
  BY DEF Next, Generating, Create, Materialise, Materialised, Stamp, Summarise,
         SaveGenerated, SaveFailed, SaveFailedRaises, WorldFails, Read, List, View, Score,
         Save, Touch
<1> QED
  BY <1>2, <1>3, <1>4, <1>5 DEF allVars

LEMMA TrafficIsFixed == [Next]_allVars => traffic' = traffic
BY DEF Next, Generating, Create, Materialise, Materialised, Stamp, Summarise,
       SaveGenerated, SaveFailed, SaveFailedRaises, WorldFails, Read, List, View, Score,
       Save, Touch,
       RegistryStep, Crash, simulationVars, allVars

\* The registry and the file agree: when no training is under way a model that was
\* trained is active; and if none overlapped another, exactly one row is, and it is
\* the row of the artifact that predictions are made with.
THEOREM RegistryIsConsistent == Spec => []RegistryAgrees
<1>1. Init => RegistryInv /\ traffic \in Traffic
  <2> SUFFICES ASSUME Init
               PROVE  RegistryInv
    BY DEF Init
  <2>1. /\ rows = << >> /\ training = [j \in Jobs |-> Idle]
        /\ died = FALSE /\ overlapped = FALSE
    BY DEF Init, RegistryInit
  <2>2. \A j \in Jobs : training[j] = Idle /\ training[j].pc = "idle"
    BY <2>1 DEF Idle
  <2>3. Underway = {}
    BY <2>2 DEF Underway
  <2>4. rows \in Seq(Row)
    BY <2>1
  <2> QED
    BY <2>1, <2>2, <2>3, <2>4 DEF RegistryInv, OneTraining, Idle
<1>2. (RegistryInv /\ traffic \in Traffic) /\ [Next]_allVars =>
        (RegistryInv /\ traffic \in Traffic)'
  BY RegistryStepKeeps, TrafficIsFixed
<1>3. RegistryInv => RegistryAgrees
  BY DEF RegistryInv, OneTraining, RegistryAgrees, Underway, Intact
<1> QED
  BY <1>1, <1>2, <1>3, PTL DEF Spec

-----------------------------------------------------------------------------
(* The world as comparisons see it.                                        *)

Record == [status : {"created", "generated", "failed", "completed"},
           summary : BOOLEAN, results : SUBSET Comparisons, error : BOOLEAN]

HasRead(x) == x.pc \in {"listing", "viewing", "saving", "answered"}

\* Whether a comparison knows a case that is stamped, or has used one.
KnowsTheWorld(x) ==
  DOMAIN x.views # {} \/ \E c \in DOMAIN x.left : x.left[c].stamped

\* No case appears any more.
WorldIsWhole == generation \notin {"idle", "materialising"}

IsComparison(x) ==
  /\ HasRead(x) \/ x = [pc |-> x.pc]
  /\ HasRead(x) =>
       /\ x = [pc |-> x.pc, record |-> x.record, names |-> x.names, early |-> x.early,
               listed |-> x.listed, left |-> x.left, views |-> x.views]
       /\ x.record \in Record

\* A comparison before its list knows nothing of the world, and after it all of it
\* or no stamped case.
SeesTheWorld(x) ==
  HasRead(x) =>
    /\ x.pc = "listing" => ~KnowsTheWorld(x)
    /\ KnowsTheWorld(x) => WorldIsWhole /\ Existing \subseteq x.listed

ShapeInv ==
  /\ run = NoRun \/ run \in Record
  /\ comparison = [p \in Comparisons |-> comparison[p]]
  /\ \A p \in Comparisons : IsComparison(comparison[p])

WorldInv ==
  /\ \A c \in Existing : cases[c] = [stamped |-> cases[c].stamped,
                                     closed |-> cases[c].closed]
  /\ ~WorldIsWhole => \A c \in Existing : ~cases[c].stamped
  /\ \A p \in Comparisons : SeesTheWorld(comparison[p])

\* One comparison changes, and nothing that the others see.
LEMMA OneComparison ==
  ASSUME ShapeInv, WorldInv, NEW p \in Comparisons, NEW x,
         comparison' = [comparison EXCEPT ![p] = x],
         run' = NoRun \/ run' \in Record, UNCHANGED <<generation, cases>>,
         IsComparison(x), SeesTheWorld(x)
  PROVE  ShapeInv' /\ WorldInv'
<1>1. /\ comparison' = [q \in Comparisons |-> comparison'[q]]
      /\ comparison'[p] = x
      /\ \A q \in Comparisons : q # p => comparison'[q] = comparison[q]
  BY DEF ShapeInv
<1>2. \A q \in Comparisons : IsComparison(comparison[q])'
  BY <1>1 DEF ShapeInv, IsComparison, HasRead
<1>3. \A q \in Comparisons : SeesTheWorld(comparison[q])'
  BY <1>1 DEF WorldInv, SeesTheWorld, KnowsTheWorld, HasRead, WorldIsWhole, Existing
<1> QED
  BY <1>1, <1>2, <1>3 DEF ShapeInv, WorldInv, WorldIsWhole, Existing

LEMMA ReadKeepsWorld ==
  ASSUME ShapeInv, WorldInv, NEW p \in Comparisons, NEW names, Read(p, names)
  PROVE  ShapeInv' /\ WorldInv'
<1> DEFINE x == IF run = NoRun THEN [pc |-> "unknown_run"]
                ELSE [pc |-> "listing", record |-> run, names |-> names,
                      early |-> ~GenerationOver, listed |-> {}, left |-> << >>,
                      views |-> << >>]
<1>1. /\ comparison' = [comparison EXCEPT ![p] = x]
      /\ UNCHANGED <<run, generation, cases>>
  BY DEF Read
<1>2. IsComparison(x)
  BY DEF ShapeInv, IsComparison, HasRead
<1>3. HasRead(x) => x.pc = "listing" /\ ~KnowsTheWorld(x)
  BY DEF HasRead, KnowsTheWorld
<1> HIDE DEF x
<1>4. SeesTheWorld(x)
  BY <1>3 DEF SeesTheWorld
<1> QED
  BY <1>1, <1>2, <1>4, OneComparison DEF ShapeInv

Knowledge(pc, record, names, early, listed, left, views) ==
  [pc |-> pc, record |-> record, names |-> names, early |-> early,
   listed |-> listed, left |-> left, views |-> views]

\* What a comparison is when it has viewed a case ...
LEMMA Viewed ==
  ASSUME NEW x, NEW f2, NEW g2,
         x = Knowledge(x.pc, x.record, x.names, x.early, x.listed, x.left, x.views)
  PROVE  [x EXCEPT !.left = f2, !.views = g2] =
           Knowledge(x.pc, x.record, x.names, x.early, x.listed, f2, g2)
<1>1. PICK a, b, c, d, e, f, g : x = Knowledge(a, b, c, d, e, f, g)
  OBVIOUS
<1>2. x.pc = a /\ x.record = b /\ x.names = c /\ x.early = d /\ x.listed = e
  BY <1>1 DEF Knowledge
<1> DEFINE y == [x EXCEPT !.left = f2]
<1>3. y = Knowledge(a, b, c, d, e, f2, g)
  BY <1>1 DEF Knowledge
<1>4. [x EXCEPT !.left = f2, !.views = g2] = [y EXCEPT !.views = g2]
  OBVIOUS
<1> HIDE DEF y
<1>5. [y EXCEPT !.views = g2] = Knowledge(a, b, c, d, e, f2, g2)
  BY <1>3 DEF Knowledge
<1> QED
  BY <1>2, <1>4, <1>5

\* ... and when it has listed them.
LEMMA Listed ==
  ASSUME NEW x, NEW e2, NEW f2,
         x = Knowledge(x.pc, x.record, x.names, x.early, x.listed, x.left, x.views)
  PROVE  [x EXCEPT !.pc = "viewing", !.listed = e2, !.left = f2] =
           Knowledge("viewing", x.record, x.names, x.early, e2, f2, x.views)
<1>1. PICK a, b, c, d, e, f, g : x = Knowledge(a, b, c, d, e, f, g)
  OBVIOUS
<1>2. x.record = b /\ x.names = c /\ x.early = d /\ x.views = g
  BY <1>1 DEF Knowledge
<1> DEFINE y == [x EXCEPT !.pc = "viewing"]
           z == [y EXCEPT !.listed = e2]
<1>3. y = Knowledge("viewing", b, c, d, e, f, g)
  BY <1>1 DEF Knowledge
<1>4. [x EXCEPT !.pc = "viewing", !.listed = e2, !.left = f2] = [z EXCEPT !.left = f2]
  OBVIOUS
<1> HIDE DEF y
<1>5. z = Knowledge("viewing", b, c, d, e2, f, g)
  BY <1>3 DEF Knowledge
<1> HIDE DEF z
<1>6. [z EXCEPT !.left = f2] = Knowledge("viewing", b, c, d, e2, f2, g)
  BY <1>5 DEF Knowledge
<1> QED
  BY <1>2, <1>4, <1>6

LEMMA ListKeepsWorld ==
  ASSUME ShapeInv, WorldInv, NEW p \in Comparisons, List(p)
  PROVE  ShapeInv' /\ WorldInv'
<1> DEFINE me == comparison[p]
           x == [pc |-> "viewing", record |-> me.record, names |-> me.names,
                 early |-> me.early, listed |-> Existing,
                 left |-> [c \in Eligible |-> cases[c]], views |-> me.views]
<1>1. /\ me.pc = "listing" /\ UNCHANGED <<run, generation, cases>>
      /\ comparison' = [comparison EXCEPT ![p] =
           [me EXCEPT !.pc = "viewing", !.listed = Existing,
                      !.left = [c \in Eligible |-> cases[c]]]]
  BY DEF List
<1>2. IsComparison(me) /\ HasRead(me) /\ me.record \in Record
  BY <1>1 DEF ShapeInv, IsComparison, HasRead
<1>3. comparison' = [comparison EXCEPT ![p] = x]
  <2>1. me = Knowledge(me.pc, me.record, me.names, me.early, me.listed, me.left, me.views)
    BY <1>2 DEF IsComparison, Knowledge
  <2>2. [me EXCEPT !.pc = "viewing", !.listed = Existing,
                   !.left = [c \in Eligible |-> cases[c]]] = x
    BY <2>1, Listed DEF Knowledge
  <2> QED
    BY <1>1, <2>2
<1>4. IsComparison(x)
  BY <1>2 DEF IsComparison, HasRead
<1>5. DOMAIN me.views = {}
  BY <1>1, <1>2 DEF WorldInv, SeesTheWorld, KnowsTheWorld
<1>6. KnowsTheWorld(x) => WorldIsWhole
  BY <1>5 DEF KnowsTheWorld, WorldInv, Eligible
<1> QED
  BY <1>1, <1>3, <1>4, <1>6, OneComparison DEF ShapeInv, SeesTheWorld

LEMMA ViewKeepsWorld ==
  ASSUME ShapeInv, WorldInv, NEW p \in Comparisons, NEW c, View(p, c)
  PROVE  ShapeInv' /\ WorldInv'
<1> DEFINE me == comparison[p]
           x == [pc |-> "viewing", record |-> me.record, names |-> me.names,
                 early |-> me.early, listed |-> me.listed,
                 left |-> Without(me.left, c), views |-> With(me.views, c, flagged[c])]
<1>1. /\ me.pc = "viewing" /\ c \in DOMAIN me.left
      /\ UNCHANGED <<run, generation, cases>>
      /\ comparison' = [comparison EXCEPT ![p] =
           IF MissingIdentity(me.left[c]) THEN [pc |-> "raised"]
           ELSE [me EXCEPT !.left = Without(me.left, c),
                           !.views = With(me.views, c, flagged[c])]]
  BY DEF View
<1>2. IsComparison(me) /\ HasRead(me) /\ me.record \in Record
  BY <1>1 DEF ShapeInv, IsComparison, HasRead
<1>3. CASE MissingIdentity(me.left[c])
  <2>1. comparison' = [comparison EXCEPT ![p] = [pc |-> "raised"]]
    BY <1>1, <1>3
  <2>2. IsComparison([pc |-> "raised"]) /\ SeesTheWorld([pc |-> "raised"])
    BY DEF IsComparison, SeesTheWorld, HasRead
  <2> QED
    BY <1>1, <2>1, <2>2, OneComparison DEF ShapeInv
<1>4. CASE ~MissingIdentity(me.left[c])
  <2>1. comparison' = [comparison EXCEPT ![p] = x]
    <3>1. me = Knowledge(me.pc, me.record, me.names, me.early, me.listed, me.left, me.views)
      BY <1>2 DEF IsComparison, Knowledge
    <3> DEFINE left == Without(me.left, c)
               views == With(me.views, c, flagged[c])
    <3> HIDE DEF left, views
    <3>2. [me EXCEPT !.left = left, !.views = views] =
            Knowledge(me.pc, me.record, me.names, me.early, me.listed, left, views)
      <4> HIDE DEF me
      <4> QED
        BY <3>1, Viewed
    <3> QED
      BY <1>1, <1>4, <3>2 DEF Knowledge, left, views
  <2>2. IsComparison(x)
    BY <1>2 DEF IsComparison, HasRead
  <2>3. KnowsTheWorld(me)
    BY <1>1, <1>4 DEF KnowsTheWorld, MissingIdentity
  <2>4. SeesTheWorld(x)
    BY <1>2, <2>3 DEF WorldInv, SeesTheWorld
  <2> QED
    BY <1>1, <2>1, <2>2, <2>4, OneComparison DEF ShapeInv
<1> QED
  BY <1>3, <1>4

\* A comparison ends, or goes on with what it has.
LEMMA MovesOn ==
  ASSUME ShapeInv, WorldInv, NEW p \in Comparisons, NEW place,
         run' = NoRun \/ run' \in Record, UNCHANGED <<generation, cases>>,
         \/ /\ comparison' = [comparison EXCEPT ![p].pc = place]
            /\ comparison[p].pc \in {"viewing", "saving"}
            /\ place \in {"saving", "answered"}
         \/ /\ comparison' = [comparison EXCEPT ![p] = [pc |-> place]]
            /\ place \in {"refused", "raised", "dead"}
  PROVE  ShapeInv' /\ WorldInv'
<1> DEFINE me == comparison[p]
<1>1. CASE /\ comparison' = [comparison EXCEPT ![p].pc = place]
           /\ me.pc \in {"viewing", "saving"}
           /\ place \in {"saving", "answered"}
  <2> DEFINE x == [pc |-> place, record |-> me.record, names |-> me.names,
                   early |-> me.early, listed |-> me.listed,
                   left |-> me.left, views |-> me.views]
  <2>1. IsComparison(me) /\ HasRead(me) /\ me.record \in Record
    BY <1>1 DEF ShapeInv, IsComparison, HasRead
  <2>2. comparison' = [comparison EXCEPT ![p] = x]
    BY <1>1, <2>1 DEF IsComparison
  <2>3. IsComparison(x)
    BY <1>1, <2>1 DEF IsComparison, HasRead
  <2>4. SeesTheWorld(me)
    BY DEF WorldInv
  <2>5. KnowsTheWorld(x) = KnowsTheWorld(me) /\ x.listed = me.listed /\ x.pc = place
    BY DEF KnowsTheWorld
  <2> HIDE DEF x
  <2>6. SeesTheWorld(x)
    BY <1>1, <2>1, <2>4, <2>5 DEF SeesTheWorld
  <2> QED
    BY <2>2, <2>3, <2>6, OneComparison
<1>2. CASE /\ comparison' = [comparison EXCEPT ![p] = [pc |-> place]]
           /\ place \in {"refused", "raised", "dead"}
  <2>1. IsComparison([pc |-> place]) /\ SeesTheWorld([pc |-> place])
    BY <1>2 DEF IsComparison, SeesTheWorld, HasRead
  <2> QED
    BY <1>2, <2>1, OneComparison
<1> QED
  BY <1>1, <1>2

LEMMA ScoreKeepsWorld ==
  ASSUME ShapeInv, WorldInv, NEW p \in Comparisons, Score(p)
  PROVE  ShapeInv' /\ WorldInv'
<1>1. /\ comparison[p].pc = "viewing" /\ UNCHANGED <<run, generation, cases>>
      /\ \/ comparison' = [comparison EXCEPT ![p] = [pc |-> "refused"]]
         \/ comparison' = [comparison EXCEPT ![p] = [pc |-> "raised"]]
         \/ comparison' = [comparison EXCEPT ![p].pc = "saving"]
  BY DEF Score
<1> QED
  BY <1>1, MovesOn DEF ShapeInv

LEMMA SaveKeepsWorld ==
  ASSUME ShapeInv, WorldInv, NEW p \in Comparisons, Save(p)
  PROVE  /\ ShapeInv' /\ WorldInv'
         /\ HasRead(comparison[p]) /\ comparison[p].record \in Record
         /\ run'.summary = comparison[p].record.summary
<1>1. /\ comparison[p].pc = "saving" /\ UNCHANGED <<generation, cases>>
      /\ comparison' = [comparison EXCEPT ![p].pc = "answered"]
      /\ run' = [Completed(comparison[p].record) EXCEPT !.results = {p}]
  BY DEF Save
<1>2. HasRead(comparison[p]) /\ comparison[p].record \in Record
  BY <1>1 DEF ShapeInv, IsComparison, HasRead
<1>3. run' \in Record /\ run'.summary = comparison[p].record.summary
  BY <1>1, <1>2 DEF Completed, Record
<1> QED
  BY <1>1, <1>2, <1>3, MovesOn

\* The world goes on, and no comparison.
LEMMA WorldGoesOn ==
  ASSUME ShapeInv, WorldInv, UNCHANGED comparison,
         run' = run \/ run' \in Record,
         \A c \in Existing' : cases'[c] = [stamped |-> cases'[c].stamped,
                                           closed |-> cases'[c].closed],
         ~WorldIsWhole' => \A c \in Existing' : ~cases'[c].stamped,
         WorldIsWhole => WorldIsWhole' /\ Existing' = Existing
  PROVE  ShapeInv' /\ WorldInv'
<1>1. ShapeInv'
  BY DEF ShapeInv, IsComparison, HasRead
<1>2. \A p \in Comparisons : SeesTheWorld(comparison[p])'
  BY DEF WorldInv, SeesTheWorld, KnowsTheWorld, HasRead
<1> QED
  BY <1>1, <1>2 DEF WorldInv

LEMMA CreatedIsRecord ==
  /\ Created \in Record
  /\ [Created EXCEPT !.status = "generated", !.summary = TRUE] \in Record
  /\ [Created EXCEPT !.status = "generated", !.summary = TRUE].summary
  /\ \A late \in BOOLEAN :
       [Created EXCEPT !.status = "failed", !.error = TRUE, !.summary = late] \in Record
BY DEF Created, Record

LEMMA GeneratingKeepsWorld ==
  ASSUME ShapeInv, WorldInv, Generating \/ WorldFails \/ SaveFailedRaises
  PROVE  ShapeInv' /\ WorldInv'
<1>1. CASE Create \/ Materialised \/ Summarise \/ SaveGenerated \/ SaveFailed
           \/ SaveFailedRaises \/ WorldFails
  <2>1. /\ UNCHANGED <<comparison, cases>>
        /\ run' = run \/ run' \in Record
    BY <1>1, CreatedIsRecord DEF Create, Materialised, Summarise, SaveGenerated, SaveFailed,
       SaveFailedRaises, WorldFails
  <2>2. /\ WorldIsWhole => WorldIsWhole'
        /\ WorldIsWhole' => WorldIsWhole \/ generation = "materialising"
    BY <1>1 DEF Create, Materialised, Summarise, SaveGenerated, SaveFailed,
       SaveFailedRaises, WorldFails, WorldIsWhole
  <2> QED
    BY <2>1, <2>2, WorldGoesOn DEF WorldInv, Existing
<1>2. ASSUME NEW c \in Cases, Materialise(c)
      PROVE  ShapeInv' /\ WorldInv'
  <2>1. /\ ~WorldIsWhole /\ UNCHANGED <<comparison, run, generation>>
        /\ cases' = [d \in Existing \cup {c} |->
                       IF d = c THEN [stamped |-> FALSE, closed |-> FALSE] ELSE cases[d]]
    BY <1>2 DEF Materialise, WorldIsWhole
  <2>2. \A d \in Existing' :
          /\ cases'[d] = [stamped |-> cases'[d].stamped, closed |-> cases'[d].closed]
          /\ ~cases'[d].stamped
    BY <2>1 DEF WorldInv, Existing
  <2> QED
    BY <2>1, <2>2, WorldGoesOn
<1>3. ASSUME NEW c \in Cases, Stamp(c)
      PROVE  ShapeInv' /\ WorldInv'
  <2>1. /\ WorldIsWhole /\ WorldIsWhole' /\ UNCHANGED <<comparison, run>>
        /\ cases' = [cases EXCEPT ![c].stamped = TRUE]
    BY <1>3 DEF Stamp, WorldIsWhole
  <2>2. /\ Existing' = Existing
        /\ \A d \in Existing :
             cases'[d] = IF d = c THEN [cases[d] EXCEPT !.stamped = TRUE] ELSE cases[d]
    BY <2>1 DEF Existing
  <2>3. \A d \in Existing :
          cases'[d] = [stamped |-> cases'[d].stamped, closed |-> cases'[d].closed]
    BY <2>2 DEF WorldInv
  <2> QED
    BY <2>1, <2>2, <2>3, WorldGoesOn
<1> QED
  BY <1>1, <1>2, <1>3 DEF Generating

LEMMA TouchKeepsWorld ==
  ASSUME ShapeInv, WorldInv, NEW c \in Cases, Touch(c)
  PROVE  ShapeInv' /\ WorldInv'
<1>1. /\ UNCHANGED <<comparison, run, generation>>
      /\ cases' = cases \/ cases' = [cases EXCEPT ![c].closed = TRUE]
  BY DEF Touch
<1>2. Existing' = Existing /\ WorldIsWhole' = WorldIsWhole
  BY <1>1 DEF Existing, WorldIsWhole
<1>3. \A d \in Existing :
        cases'[d] = cases[d] \/ cases'[d] = [cases[d] EXCEPT !.closed = TRUE]
  BY <1>1 DEF Existing
<1>4. \A d \in Existing :
        /\ cases'[d] = [stamped |-> cases'[d].stamped, closed |-> cases'[d].closed]
        /\ cases'[d].stamped = cases[d].stamped
  BY <1>3 DEF WorldInv
<1> QED
  BY <1>1, <1>2, <1>4, WorldGoesOn DEF WorldInv

LEMMA CrashKeepsWorld ==
  ASSUME ShapeInv, WorldInv, Crash
  PROVE  ShapeInv' /\ WorldInv'
<1>1. /\ UNCHANGED <<run, cases>>
      /\ generation' = IF generation = "idle" \/ GenerationOver THEN generation ELSE "dead"
      /\ comparison' = [p \in Comparisons |->
                          IF comparison[p].pc \in {"listing", "viewing", "saving"}
                          THEN [pc |-> "dead"] ELSE comparison[p]]
  BY DEF Crash
<1>2. /\ WorldIsWhole => WorldIsWhole'
      /\ ~WorldIsWhole' => ~WorldIsWhole
  BY <1>1 DEF WorldIsWhole
<1>3. \A p \in Comparisons : IsComparison(comparison[p])'
  BY <1>1 DEF ShapeInv, IsComparison, HasRead
<1>4. \A p \in Comparisons : SeesTheWorld(comparison[p])'
  BY <1>1, <1>2 DEF WorldInv, SeesTheWorld, KnowsTheWorld, HasRead, Existing
<1> QED
  BY <1>1, <1>2, <1>3, <1>4 DEF ShapeInv, WorldInv, Existing

LEMMA WorldStep ==
  ASSUME traffic \in Traffic, ShapeInv, WorldInv, [Next]_allVars
  PROVE  ShapeInv' /\ WorldInv'
<1>1. CASE UNCHANGED simulationVars
  BY <1>1 DEF simulationVars, ShapeInv, WorldInv, IsComparison, HasRead, SeesTheWorld,
     KnowsTheWorld, WorldIsWhole, Existing
<1>2. CASE \E p \in traffic.comparisons, names \in traffic.names : Read(p, names)
  BY <1>2, ReadKeepsWorld, TrafficAssumption
<1>3. CASE \E p \in Comparisons : List(p) \/ Score(p) \/ Save(p)
  BY <1>3, ListKeepsWorld, ScoreKeepsWorld, SaveKeepsWorld
<1>4. CASE \E p \in Comparisons, c \in Cases : View(p, c)
  BY <1>4, ViewKeepsWorld
<1>5. CASE \E c \in Cases : Touch(c)
  BY <1>5, TouchKeepsWorld
<1>6. CASE RegistryStep
  BY <1>1, <1>6 DEF RegistryStep
<1> QED
  BY <1>1, <1>2, <1>3, <1>4, <1>5, <1>6, GeneratingKeepsWorld, CrashKeepsWorld
  DEF Next, allVars

LEMMA WorldStart ==
  ASSUME Init
  PROVE  traffic \in Traffic /\ ShapeInv /\ WorldInv
<1>1. /\ comparison = [p \in Comparisons |-> Idle] /\ run = NoRun
      /\ traffic \in Traffic /\ Existing = {}
  BY DEF Init, Existing
<1>2. \A p \in Comparisons : IsComparison(comparison[p]) /\ SeesTheWorld(comparison[p])
  BY <1>1 DEF IsComparison, SeesTheWorld, HasRead, Idle
<1> QED
  BY <1>1, <1>2 DEF ShapeInv, WorldInv

LEMMA WorldInvariant == Spec => [](traffic \in Traffic /\ ShapeInv /\ WorldInv)
<1>1. Init => traffic \in Traffic /\ ShapeInv /\ WorldInv
  BY WorldStart
<1>2. (traffic \in Traffic /\ ShapeInv /\ WorldInv) /\ [Next]_allVars =>
        (traffic \in Traffic /\ ShapeInv /\ WorldInv)'
  BY WorldStep, TrafficIsFixed
<1> QED
  BY <1>1, <1>2, PTL DEF Spec

\* A comparison that starts while the world is generated never scores a part of it:
\* it views only cases that were stamped when it listed them, and stamping begins
\* when no case appears any more.
THEOREM WholeWorlds == Spec => []NeverHalfAWorld
<1>1. ShapeInv /\ WorldInv => NeverHalfAWorld
  BY DEF WorldInv, NeverHalfAWorld, Scored, SeesTheWorld, KnowsTheWorld, HasRead
<1> QED
  BY <1>1, WorldInvariant, PTL

-----------------------------------------------------------------------------
(* The summary of the world.                                               *)

\* A comparison answered that had read the record before generation was over.
Overwritten ==
  \E p \in Comparisons : comparison[p].pc = "answered" /\ comparison[p].early

HasSummary(record) == record.summary \/ Overwritten

\* What was read after generation was over has the summary, if the run has.
ReadLate(p) ==
  HasRead(comparison[p]) /\ ~comparison[p].early =>
    GenerationOver /\ (generation = "done" => HasSummary(comparison[p].record))

SummaryInv ==
  /\ generation = "done" => HasSummary(run)
  /\ \A p \in Comparisons : ReadLate(p)

LEMMA OverwrittenForGood ==
  ASSUME traffic \in Traffic, ShapeInv, [Next]_allVars, Overwritten
  PROVE  Overwritten'
<1>1. PICK p \in Comparisons : comparison[p].pc = "answered" /\ comparison[p].early
  BY DEF Overwritten
<1>2. comparison'[p] = comparison[p]
  <2>1. CASE UNCHANGED comparison
    BY <2>1
  <2>2. CASE \E q \in traffic.comparisons, names \in traffic.names : Read(q, names)
    BY <1>1, <2>2, TrafficAssumption DEF Read, Idle, ShapeInv
  <2>3. CASE \E q \in Comparisons : List(q) \/ Score(q) \/ Save(q)
    BY <1>1, <2>3 DEF List, Score, Save, ShapeInv
  <2>4. CASE \E q \in Comparisons, c \in Cases : View(q, c)
    BY <1>1, <2>4 DEF View, ShapeInv
  <2>5. CASE Crash
    BY <1>1, <2>5 DEF Crash
  <2> QED
    BY <2>1, <2>2, <2>3, <2>4, <2>5
    DEF Next, Generating, Create, Materialise, Materialised, Stamp, Summarise,
        SaveGenerated, SaveFailed, SaveFailedRaises, WorldFails, Touch, RegistryStep,
        simulationVars, allVars
<1> QED
  BY <1>1, <1>2 DEF Overwritten

\* A comparison that goes on keeps the record it read, and when.
LEMMA KeepsItsRecord ==
  ASSUME ShapeInv, NEW p \in Comparisons, List(p) \/ Score(p) \/ Save(p) \/ \E c : View(p, c)
  PROVE  /\ \A q \in Comparisons : q # p => comparison'[q] = comparison[q]
         /\ HasRead(comparison[p])
         /\ HasRead(comparison'[p]) =>
              /\ comparison'[p].record = comparison[p].record
              /\ comparison'[p].early = comparison[p].early
<1>1. /\ comparison[p].pc \in {"listing", "viewing", "saving"}
      /\ IsComparison(comparison[p]) /\ HasRead(comparison[p])
  BY DEF ShapeInv, List, Score, Save, View, HasRead
<1>2. CASE List(p)
  BY <1>1, <1>2 DEF List, ShapeInv, IsComparison
<1>3. ASSUME NEW c, View(p, c)
      PROVE  /\ \A q \in Comparisons : q # p => comparison'[q] = comparison[q]
             /\ HasRead(comparison'[p]) =>
                  /\ comparison'[p].record = comparison[p].record
                  /\ comparison'[p].early = comparison[p].early
  BY <1>1, <1>3 DEF View, ShapeInv, IsComparison, HasRead
<1>4. CASE Score(p)
  BY <1>1, <1>4 DEF Score, ShapeInv, IsComparison, HasRead
<1>5. CASE Save(p)
  BY <1>1, <1>5 DEF Save, ShapeInv, IsComparison, HasRead
<1> QED
  BY <1>1, <1>2, <1>3, <1>4, <1>5

LEMMA SummaryStep ==
  ASSUME traffic \in Traffic, ShapeInv, WorldInv, SummaryInv, [Next]_allVars
  PROVE  SummaryInv'
<1>1. \A record : HasSummary(record) => HasSummary(record)'
  BY OverwrittenForGood DEF HasSummary
<1>2. ASSUME UNCHANGED <<run, generation>>,
             NEW p \in Comparisons, \A q \in Comparisons : q # p => comparison'[q] = comparison[q],
             ReadLate(p)'
      PROVE  SummaryInv'
  BY <1>1, <1>2 DEF SummaryInv, ReadLate, GenerationOver
<1>3. ASSUME UNCHANGED <<run, generation, comparison>>
      PROVE  SummaryInv'
  BY <1>1, <1>3 DEF SummaryInv, ReadLate, GenerationOver
<1>4. CASE Generating \/ WorldFails \/ SaveFailedRaises
  <2>1. ~GenerationOver /\ UNCHANGED comparison
    BY <1>4 DEF Generating, Create, Materialise, Materialised, Stamp, Summarise,
       SaveGenerated, SaveFailed, SaveFailedRaises, WorldFails, GenerationOver
  <2>2. \A p \in Comparisons : ReadLate(p)'
    BY <2>1 DEF SummaryInv, ReadLate
  <2>3. generation' = "done" => run'.summary
    BY <1>4, <2>1, CreatedIsRecord
    DEF Generating, Create, Materialise, Materialised, Stamp, Summarise, SaveGenerated,
        SaveFailed, SaveFailedRaises, WorldFails, GenerationOver
  <2> QED
    BY <2>2, <2>3 DEF SummaryInv, HasSummary
<1>5. ASSUME NEW p \in Comparisons, NEW names, Read(p, names)
      PROVE  SummaryInv'
  <2>1. /\ UNCHANGED <<run, generation>>
        /\ \A q \in Comparisons : q # p => comparison'[q] = comparison[q]
        /\ comparison'[p] = IF run = NoRun THEN [pc |-> "unknown_run"]
                            ELSE [pc |-> "listing", record |-> run, names |-> names,
                                  early |-> ~GenerationOver, listed |-> {}, left |-> << >>,
                                  views |-> << >>]
    BY <1>5 DEF Read, ShapeInv
  <2>2. HasRead(comparison'[p]) /\ ~comparison'[p].early =>
          GenerationOver /\ comparison'[p].record = run
    <3>1. CASE run = NoRun
      <4>1. comparison'[p] = [pc |-> "unknown_run"]
        BY <2>1, <3>1
      <4> QED
        BY <4>1 DEF HasRead
    <3>2. CASE run # NoRun
      <4>1. comparison'[p].early = ~GenerationOver /\ comparison'[p].record = run
        BY <2>1, <3>2
      <4> QED
        BY <4>1
    <3> QED
      BY <3>1, <3>2
  <2>3. ReadLate(p)'
    BY <1>1, <2>1, <2>2 DEF ReadLate, SummaryInv, GenerationOver, HasRead
  <2> QED
    BY <1>2, <2>1, <2>3
<1>6. ASSUME NEW p \in Comparisons, List(p) \/ Score(p) \/ \E c : View(p, c)
      PROVE  SummaryInv'
  <2>1. UNCHANGED <<run, generation>>
    BY <1>6 DEF List, Score, View
  <2>2. ReadLate(p)'
    BY <1>1, <1>6, <2>1, KeepsItsRecord DEF ReadLate, SummaryInv, GenerationOver, HasRead
  <2> QED
    BY <1>2, <1>6, <2>1, <2>2, KeepsItsRecord
<1>7. ASSUME NEW p \in Comparisons, Save(p)
      PROVE  SummaryInv'
  <2>1. generation' = generation /\ comparison' = [comparison EXCEPT ![p].pc = "answered"]
    BY <1>7 DEF Save
  <2>2. /\ \A q \in Comparisons : q # p => comparison'[q] = comparison[q]
        /\ comparison'[p].pc = "answered" /\ HasRead(comparison[p])
        /\ comparison'[p].record = comparison[p].record
        /\ comparison'[p].early = comparison[p].early
        /\ run'.summary = comparison[p].record.summary
    <3>1. comparison'[p].pc = "answered"
      BY <1>7, <2>1, SaveKeepsWorld DEF ShapeInv, IsComparison
    <3> QED
      BY <1>7, <3>1, KeepsItsRecord, SaveKeepsWorld DEF HasRead
  <2>3. \A q \in Comparisons : ReadLate(q)'
    BY <1>1, <2>1, <2>2 DEF ReadLate, SummaryInv, GenerationOver, HasRead
  <2>4. generation = "done" => HasSummary(run)'
    <3>1. CASE comparison[p].early
      BY <2>2, <3>1 DEF HasSummary, Overwritten
    <3>2. CASE ~comparison[p].early
      <4>1. generation = "done" => HasSummary(comparison[p].record)
        BY <2>2, <3>2 DEF SummaryInv, ReadLate
      <4> QED
        BY <2>2, <4>1, OverwrittenForGood DEF HasSummary
    <3> QED
      BY <3>1, <3>2
  <2> QED
    BY <2>1, <2>3, <2>4 DEF SummaryInv
<1>8. CASE Crash
  <2>1. /\ run' = run
        /\ generation' = IF generation = "idle" \/ GenerationOver THEN generation ELSE "dead"
        /\ \A p \in Comparisons :
             comparison'[p] = IF comparison[p].pc \in {"listing", "viewing", "saving"}
                              THEN [pc |-> "dead"] ELSE comparison[p]
    BY <1>8 DEF Crash
  <2>2. \A p \in Comparisons : ReadLate(p)'
    BY <1>1, <2>1 DEF ReadLate, SummaryInv, GenerationOver, HasRead
  <2> QED
    BY <1>1, <2>1, <2>2 DEF SummaryInv
<1>9. CASE UNCHANGED simulationVars \/ RegistryStep \/ \E c \in Cases : Touch(c)
  BY <1>3, <1>9 DEF RegistryStep, Touch, simulationVars
<1> QED
  BY <1>4, <1>5, <1>6, <1>7, <1>8, <1>9, TrafficAssumption DEF Next, allVars

\* A generated run keeps its world's summary unless a comparison answered that had
\* read the record before generation was over: whatever order any number of later
\* comparisons read and save in, they save the summary they read.
THEOREM LateComparisonsKeepTheWorld == Spec => []OnlyEarlyComparisonsLoseTheWorld
<1>1. Init => SummaryInv
  <2> SUFFICES ASSUME Init
               PROVE  SummaryInv
    OBVIOUS
  <2>1. generation = "idle" /\ comparison = [p \in Comparisons |-> Idle]
    BY DEF Init
  <2> QED
    BY <2>1 DEF SummaryInv, ReadLate, HasRead, Idle
<1>2. (traffic \in Traffic /\ ShapeInv /\ WorldInv) /\ SummaryInv /\ [Next]_allVars =>
        SummaryInv'
  BY SummaryStep
<1>3. SummaryInv => OnlyEarlyComparisonsLoseTheWorld
  BY DEF SummaryInv, HasSummary, Overwritten, OnlyEarlyComparisonsLoseTheWorld
<1> QED
  BY <1>1, <1>2, <1>3, WorldInvariant, PTL DEF Spec
=============================================================================
