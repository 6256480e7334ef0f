# AfterDue in TLA+

AfterDue is a FastAPI/MongoDB back end that watches subscriptions whose payment
mandate halts and comes back, reconstructs what fell due meanwhile, and lets a
recovery agent collect it under a policy and a budget.  It also simulates such
worlds, compares collection strategies on them, trains the model one of the
strategies uses, and lets a language model word what was decided.  This
directory holds TLA+ modules of all the parts that decide or change something,
TLC configurations that check them on small instances, and TLAPS proofs.

Paths below are relative to `backend/app/` unless they start with `docs/` or
`tests/`.

## 1. The system

### 1.1 Components

| Component | State it keeps | Operations | What makes it correct |
|---|---|---|---|
| State machine (`domain/state_machine.py`) | none: a table | `evaluate` | only the edges of the table; a halt opens with HALTED and closes when HALTED is left |
| Ingestion and ledger (`services/event_ingest.py`, `repositories/{events,subscriptions,invoices}.py`) | `subscriptions` with embedded halt episodes, `events`, `invoices` | `POST /subscriptions`, `POST /events`: claim, lifecycle, invoice, payment, mark | at most one open episode; an event moves a subscription at most once; refusals are clean; halts are final; lineage is real |
| Backlog and gate (`domain/{backlog,collectibility}.py`, `services/backlog_builder.py`) | `collectibility_status` of invoice rows | reconstruct, evaluate | fails closed |
| Recovery window, reconciliation (`services/{recovery_window,reconciliation}.py`) | `recovery_cases` | `handle_reactivation`, `reconcile` | one case per halt; no debt in two cases; a crash in between is repaired; the ledger is not disturbed |
| Policy (`domain/policy.py`, `policy/rules_v1.py`) | none: a fold over rules | `evaluate_policy` | independent of rule order; doing nothing always legal; rules only subtract |
| Recovery agent, budget (`agent/*.py`, `repositories/{recovery_actions,agent_runs,budgets}.py`) | `recovery_actions`, `agent_runs`, counters of `simulation_runs`, cases | `execute` | budget never overspent; an executed row is final; attempts exactly counted; flags read are obeyed; paid cases get closed |
| Audit trail (`services/audit.py`, `repositories/audit.py`) | `audit_logs`, `audit_seq` of subscriptions | `record` | numbers unique; lines true; the story of an event in order |
| World generator (`simulator/{world,population,config,identity}.py`) | a population, drawn once; everything it posts | draw, materialise, stamp, summarise | what it posts is a legal history; a case has the key and the amounts the in-memory reconstructions give it; revenue at risk is backed by invoices |
| Strategies, scorecards, oracle (`simulator/{strategies,metrics,oracle}.py`, `ml/{strategy,economics}.py`, `evaluation/*.py`) | locals of a loop | allocate a budget over ranked cases; score | never over budget, never against policy, on the same cases; the greedy pass is as good as any; two scorecards agree; the reference is a ceiling |
| Simulation runs (`simulator/runner.py`) | `simulation_runs` | create, generate, compare | whole-document saves lose nothing that was there; no part of a world is scored; generation is answered |
| Model registry (`ml/registry.py`, `repositories/model_runs.py`, `routes/model.py`) | an artifact file and `model_runs` | train, evaluate, load | the active row is the artifact's; what is evaluated was held out |
| Language layer (`llm/*.py`, `routes/recovery.py`) | customer flags, audit lines | extract, explain, ask | a flag is raised on quoted words only; the trail accounts for the flags; what is said of policy is what policy decided |
| Infrastructure, console, deployment | settings, pages, files | | see section 8 |

### 1.2 How they interact

A delivery is one coroutine: it reads the subscription, claims the event id by
a unique insert, hands the event to a handler and stores the verdict.  A
transition that leaves HALTED calls `handle_reactivation` in the same
coroutine, before the verdict; an exception in it is swallowed.  Reconciliation
walks the closed episodes and calls the same function for those without a case.
The agent starts from a case, reads customer and remaining budget, and writes
four collections.  The extraction endpoint sets the flags that both read.  The
generator is a client of ingestion; a comparison reads the cases it left and the
model artifact, and replaces the run's record.  Every step of all of them writes
audit lines, each with a number taken from the subscription.

There is no transaction, no lock and no scheduler: **each database call is
atomic on one document and every `await` is a point where any other request may
run, or the process may die**.  That is the grain of the modules: one action per
database call, with the pure code before and after it.

### 1.3 What is hard

Decisions on copies read many awaits earlier (subscription, case, customer,
budget, run record); a compare-and-set that compares less than was read;
at-least-once delivery in any order; two documents that must agree and are
written by two calls; a crash between any two calls with nobody to resume;
passes and workers that open one window at once; numbers allocated after what
they describe; a file and a row that name one model; three programs (generator,
harness, training data) that must build the same case.  PROJECT.json lists these
at their lines under `hazards`.

## 2. The modules

| Module | Models | Notes |
|---|---|---|
| `StateMachine` | the transition table | operators `Target`, `IsTransition`, `Opens`, `Closes`, ... |
| `HaltCycle` | abstract: status, number of halts, open or not, one edge at a time | refined by `Ledger` (`KeepsTheHaltCycle`) |
| `Ledger` | ingestion | workers, their copies, the three collections, a ghost `history` of committed moves |
| `Collectibility`, `PolicyV1`, `Economics` | the gate; the closed form of the policy with rules v1; costs, expected value and outcome of a case | operators only, shared by the others |
| `PolicyLoop` | `evaluate_policy` as a loop over rules in any order | proved equal to the closed form |
| `RecoveryWindow` | windows and passes, composed with `Ledger` by EXTENDS | proved to refine `Ledger` |
| `Agent` | `execute` | model and oracle are functions chosen at the start |
| `AuditTrail` | the lines of ingestion, composed with `Ledger` by EXTENDS | proved to refine `Ledger` |
| `World` | the generator, and the two in-memory reconstructions of its halts | ingestion, gate and windows as one step per event |
| `Comparison` | the allocation loop of every strategy, and both scorecards | |
| `ModelRegistry` | trainings, evaluations, the artifact and its rows | |
| `SimulationRuns` | generation and comparisons of one run, composed with `ModelRegistry` by EXTENDS | |
| `Language` | extraction, explanation, questions | |
| `LedgerProofs`, `RecoveryWindowProofs`, `AgentProofs`, `WorldProofs`, `ComparisonProofs`, `SimulationRunsProofs`, `LanguageProofs` | theorems | section 6; those of `AuditTrail` are in `LedgerProofs`, those of `PolicyLoop` in `LanguageProofs` |
| `FiniteSums` | lemmas on sums over finite sets | used by `WorldProofs` and `ComparisonProofs` |
| `MC*` | small feeds, models, oracles, cases and texts for TLC | |

An operator under a comment that begins `Fault:` is a plausible wrong version
of the definition after it.  No specification uses one; PROJECT.json pairs
each with the property that it breaks.

### 2.1 Ledger

`subs`, `store` and `invoices` are the collections; `pc`, `ev`, `snap` and
`res` the locals of each coroutine in `ingest()`; `feed` is what the platform
has to deliver in a behaviour, fixed in its first state: any event of it is
delivered any number of times, in any order, to any worker.

| Action | Code |
|---|---|
| `Create` | `POST /subscriptions`, any initial status |
| `Receive` | `subscriptions.get`: the one read, kept in `snap` |
| `Claim`, `Duplicate` | `events.claim` |
| `RejectStale`, `RejectIllegal`, `NoOp` | the early returns of `_handle_lifecycle` |
| `Transition`, `TransitionLost` | `apply_transition`: one `find_one_and_update` whose filter pins the status |
| `HookReturns` | the return of `handle_reactivation`; `RecoveryWindow` gives its body |
| `InsertInvoice`, `RefuseInvoice`, `AttachInvoice` | `_handle_invoice_created`: row first, then the episode |
| `SettleInvoice`, `InvoiceNotFound`, `NoteOrRefusePayload` | `_handle_payment` and payloads that do not validate |
| `Mark` | `events.mark` |
| `Crash` | death of the process, or an exception out of `ingest()` |

An unknown subscription or run id is refused with nothing stored: no step.
Subscriptions no event of the feed names are left uncreated.

### 2.2 RecoveryWindow

Workers in `window` and passes go through the same places of
`handle_reactivation` (`win`): rebuild the backlog, gate the rows read a second
time, persist each verdict, read the customer, create the case, escalate.
`Leaves` is the end of a window: ingestion goes on to its verdict whatever
happened (`WindowFails`), a pass to its next halt.  `PassDies` ends a pass on
any error.  `SetFlags` is what the extraction endpoint accepts.  `traffic` says
how many passes and which flags a behaviour has.

### 2.3 Agent

A request is in one of the places of `execute()`; `req[r].doc`, `.flags` and
`.left` are its copies.  Agent run, action row, budget and case are written by
actions of their own in the code's order: planned run, `Create` under the
idempotency key, `Claim` of a slot, `SaveClaim`, `Act`, `Record`, `Close` or
`EscalateCase`, `Finish`.  `Dies` may come between any two.  `by` and `seen` in
a row are ghosts: who made it, and what flags were read.

### 2.4 AuditTrail

`Work` joins a step of `Ledger` with the lines it owes (`due`); `Number` is
`next_audit_seq`, `AppendLine` the insert.  A worker does nothing else while it
owes lines: `record` is awaited.

### 2.5 World

`Init` draws a population: any one `draw_population` can draw for the
configuration, the draws being choices within their bounds.  `Materialise`
creates a subscriber and computes its timeline (`ScriptOf`, with the calendar
that labels billing cycles); `PostTransition`, `PostInvoice` and `PostReturn`
post its events one by one through ingestion, `PostReturn` with the window the
return opens, which may fail at any of its calls (`Window`, `broken`); `Refuse`
is a rejected event, which the generator does not look at.  `Stamp` is
`_stamp_synthetic_identities`, case by case, and `Summarise` `_summarise`.  The
generator is the only client of its run, so the workers' copies of `Ledger` are
not needed here.  `HarnessCase` and `Observation` are
`evaluation/cases.py` and `ml/dataset.py` on the same plans.

### 2.6 Comparison

`Begin` takes the next strategy, `Choose` one case of it in rank order, with the
rank, the policy and the preference each strategy has, and `Conclude` makes the
checks of `run_strategies`; `setting` tells the runner from the harness, whose
naive strategy sees cases that the gate excluded.  `AggregateMetrics` and
`ScoreStrategy` are the two scorecards.

### 2.7 ModelRegistry and SimulationRuns

`Train` fits and replaces the file without an await; `Deactivate` and `Insert`
are the two calls of `ModelRunRepository.insert`, and `TrainingRaises` either of
them raising; `Evaluate` scores the file and
`NameModel` fetches the row it is answered under; `RegistryCrash` may tear the
file.  An example is a pair of seed and position, which is all it takes to ask
what was fitted and what is tested.

`Create`, `Materialise`, `Materialised`, `Stamp`, `Summarise`, `SaveGenerated`
are `generate`; `WorldFails` and `SaveFailed` its except branch, and
`SaveFailedRaises` that branch when its own save raises.  `Read`, `List`, `View`, `Score` and `Save` are `run_strategies`: record, cases, each customer,
and one save of the whole record.  `Touch` is the agent closing a case or a
customer's flags changing, and `Crash` ends everybody.

### 2.8 Language

A text is a set of phrases, a proposal what it finds and quotes; an unavailable
or careless provider is a choice over the proposals it may answer with.
`Extract` checks a proposal or falls back to the keyword search; `Propose`,
`SetFlags`, `Accept` and `Reject` are the line, the update and the line of
the extraction endpoint; `Dies` may come between them.  `Explain` and `Ask`
answer readers from `Facts`, sets of reason codes and blocked actions.

## 3. The runs

| Run | States | What |
|---|---|---|
| `MCLedger_race` | 1.0 M | ingestion under races, duplicates, crashes |
| `MCRecoveryWindow_race` | 1.6 M | windows and passes racing |
| `MCRecoveryWindow_repair` | 0.46 M | the gate, and repair as liveness |
| `MCPolicyLoop` | 512 | every subset and order of hits |
| `MCAgent_race` | 0.61 M | two requests, one slot |
| `MCAuditTrail` | 2.8 M | the lines of two workers |
| `MCWorld` | 0.17 M | every population of four configurations |
| `MCComparison` | 64 k | every strategy on every small set of cases |
| `MCSimulationRuns` | 0.74 M | comparisons, generation, trainings |
| `MCLanguage` | 62 k | extractions racing; readers |
| `MCAgent_toctou`, `MCSimulationRuns_heldout` | | refute a sentence each (section 4) |

**`MCLedger_race`.**  Two workers, four feeds: two full halt cycles; a halt with
an invoice, its duplicate and its settlement; two subscriptions that use one
invoice id; payloads that settle nothing.  Two workers suffice for every property
here: each is about a copy that is older than somebody else's write, and one
other worker may make any number of writes while the first waits.  Three times
and two halts give windows that touch, contain and follow each other.  Shows:
one open halt at most, an event moves once and refusals are clean, lineage and
listing agree, halts are final, and the refinement of `HaltCycle`.

**`MCRecoveryWindow_race`.**  One halt with a settled invoice, a worker, **two**
passes and a dispute; or two halts with an unsettled debt of the first, a
worker and a pass.  A second pass beside two halts adds nothing to a pair of
windows over one halt, which the first feed has, and the cross-halt property
needs two windows only.  Shows: one case per halt, no debt in two.

**`MCRecoveryWindow_repair`.**  One or two invoices, the second of unknown
delivery; a worker and a pass; no symmetry, since it checks liveness.  Shows:
verdicts precede the case, nothing uncertain is collected, and a pass repairs
what a crash at any point of the reactivation left.

**`MCPolicyLoop`.**  Every subset and order of eight hits: the five different
ones of rules v1 and three of careless rules.

**`MCAgent_race`.**  One case, two requests, default key and one client key,
five models, both outcomes, two flags, a contact inside and one outside the
cooldown, one slot and two attempts: the last slot, the last attempt, and all
copies a request can hold.

**`MCAuditTrail`.**  Three feeds of three events and two workers.  A worker
takes no event once its subscription has `MaxLines` = 3 numbers, so that at most
two requests are at work beyond the first three lines: enough for any two lines
to meet, one of them the first of a redelivery.

**`MCWorld`.**  A subscriber over half a year, two subscribers with short
halts, mixed delivery, and a plan that costs nothing; offsets chosen so that a
month of 31 days holds two billing periods.  One subscriber is enough for
timelines and cases, which never look at another's; two for keys and sums.

**`MCComparison`.**  All pairs of ten kinds of cases, each kind meeting one rule
or one edge of the economics, and all triples of the three kinds that compete
most; budgets of zero to two; runner and harness.  Three cases and two slots are
the smallest instance where a greedy pass could choose wrongly twice.

**`MCSimulationRuns`.**  Two cases; two comparisons racing generation and the
agent; two trainings racing an evaluation; a comparison that needs a model
racing a training.  Two cases give a stamped one beside one that is not.  The
world, the save of it and the save of its failure may raise, and so may either
call of a training: shows that a record does not stay `created`, but for a death
or a failure that could not be saved either, and that the registry agrees with
the file unless a training was ended in between.

**`MCLanguage`.**  Two extractions of three texts and five proposals; readers
with every flag, case and model explanation.  What is shown of policy is shown of
the explanations and answers worded without a model; what a model words is in the
behaviours and in no property (section 4).

Deadlock is not checked: when everything has been delivered, executed and
visited, the system rests.  In every module TLC's state space is finite without
constraints: events are claimed once, requests are made once, windows end.

## 4. Divergences

Two runs refute what the repository says of the program; PROJECT.json quotes
the lines.

* `MCAgent_toctou`: the validator reloads nothing; a dispute accepted after the
  request's read does not stop the collection.
* `MCSimulationRuns_heldout`: an artifact is evaluated on the test split of a
  dataset of another size, which holds examples the artifact was fitted on.

Others were met while modelling and have no run of their own.

Ingestion and windows:

* The status CAS does not notice a whole cycle: a worker whose copy is older
  than a reactivation and a second halt appends an episode under an id that is
  taken (`services/event_ingest.py:236`), against "One case per halt episode"
  (`docs/architecture.md:442`) and "only lands if nothing changed since we read
  it" (`repositories/subscriptions.py:65`).  `OneCasePerHalt` holds because two
  halts of one id share a case.  The same CAS lets an older event overwrite a
  newer state change, against `docs/architecture.md:293`.
* An invoice delivered after the case was created is in no case, and no
  reconciliation adds it (`services/reconciliation.py:67`), against
  `docs/architecture.md:315` and `:456`.
* An invoice delivered before the halt it was raised in keeps no lineage,
  against `docs/architecture.md:313`: the window is looked up once.
* An invoice line may be numbered before the line of the halt it belongs to,
  against the order that `tests/integration/test_audit.py:71` asserts of one
  sequential client.

Agent:

* With client keys (`docs/agent.md:107`) concurrent requests exceed "No fourth
  attempt" (`docs/agent.md:140`): only default keys carry the attempt number.
* A request that reads the case between `record_attempt` and `close_recovered`
  executes the next attempt; the case may be paid twice.
* `_escalate` looks at no status: a refused request may turn a case that was
  closed as recovered into an escalated one.
* During the cooldown the agent executes `no_action` as an attempt instead of
  stopping (`docs/agent.md:49`): the proposal already excludes the link.

Simulation, comparison and model:

* Halt ids are per subscription (`he_1`, ...), and the summary looks lineage up
  by id alone (`simulator/world.py:257`): unpaid invoices of subscribers who
  never returned count as historical unpaid, against
  `docs/architecture.md:138-140` and the harness (`evaluation/cases.py:148`).
* Reruns of a comparison on one run id differ once the agent has closed a case
  or a flag has changed, against `docs/evaluation.md:187-188`.
* A comparison that starts during generation may answer on no case, and its save
  erases the world's summary (`OnlyEarlyComparisonsLoseTheWorld` says when).
* When generation has failed and the save of the failure raises too
  (`simulator/runner.py:76`), as it may with the outage that made it fail, the
  record says `created` for good: nothing in the code looks for such records.
* A training whose insert raises after the active row was retired leaves no active
  row (`repositories/model_runs.py:12-15`), though its artifact is in use.
* Overlapping trainings leave two active rows, of which `get_active` returns
  the oldest; `/evaluate` answers under the active row though it measures the
  artifact.
* `evaluation/diagnostics.py:76-79` explains ties by a budget that is large
  enough without looking at the budget; the harness's naive order is by
  synthetic key, where `docs/evaluation.md` says by case id.

Language:

* A model's explanation counts as grounded unless it names a code that ends in
  `_UNSUPPORTED` or `_EXCEEDED` and is not a fact (`llm/grounding.py:28-31`): one
  that gives `ACTIVE_DISPUTE` as a reason of a case without a dispute is shown
  (`Explain` has this behaviour), against "Ungrounded explanations (invented reason
  codes, ...) are discarded" (`docs/agent.md:69`).  `TellsThePolicy` therefore says
  nothing of explanations a model worded.
* An unsupported proposal is replaced by an empty one that is reported as
  supported, and leaves no `CONTEXT_UPDATE_REJECTED`.
* "opted out" is a keyword of the fallback but is never quoted: a quotable
  dispute beside it is lost with it.
* Clearing a flag and setting risk signals need no evidence
  (`docs/agent.md:168-172`).
* Two overlapping extractions may leave their accepted lines in another order
  than the flags were written.

## 5. Fairness

Each fairness assumption is about requests that are already running: the event
loop schedules a coroutine whose database call has returned, and none of the
calls waits for another request.  Nobody is obliged to deliver an event, to
make a request or to start a pass (the code has no scheduler), and a process may
die at any point: the liveness properties say "unless it died".

* `RWFairSpec`: weak fairness of the steps of a running pass, of nothing else.
  `PassRepairs`: what a pass has before it and is stranded does not stay so.
* `AgentFairSpec`: weak fairness of the two writes after an executed action.
  `PaidIsClosed`: a request that stored a paid action closes the case.
* `Spec` of `SimulationRuns`: weak fairness of generation.
  `GenerationIsSettled`: a run does not stay `created`, unless the process dies or
  the save of a failure raises.  What may raise (`WorldFails`,
  `SaveFailedRaises`) is under no fairness.

## 6. Proofs

Everything here holds for every value of the constants: any subscriptions,
feeds, workers, passes, requests, cases, models, rules, populations.  The
assumptions are those the modules name (`FeedAssumption` and its like).

**`LedgerProofs`.**

* `TypeCorrect`: `TypeOK` is inductive because it says that a worker at work
  holds an event of a feed; lemmas give the shape of a subscription after a
  transition and after an invoice was listed.
* `OneOpenEpisode`: `OpenOnlyWhileHalted` is inductive together with `TypeOK`.
  Only a creation, a transition whose CAS matched and a listing change a
  subscription (`SubscriptionSteps`); the CAS makes the status of the worker's
  old copy that of the document, so an episode is appended only where nothing
  is open, and a step out of HALTED closes all that is open
  (`TransitionEffect`).  The age of the copy plays no part in it.
* `MovesOnce` (`EachEventMovesOnce`) is not inductive: nothing in it says why a
  second worker could not move the same event.  `OnceInv` adds that a worker
  past its claim owns its event alone, that an owner which has not moved finds
  no move of its event in the history, and that a rejection in its hands is one
  of an event without a move.
* `HaltsAreFinal` (`EpisodesAreFinal`): each way a subscription changes
  continues its list of halts (`Continues`).
* `LineageIsReal` (`LineageNamesAHalt`): the strengthening `LineageInv` says that
  every copy, however old, is a beginning of the document (`Remembers`), that a
  worker about to list an invoice has its row in the ledger (`ListsARow`), and
  that rows name halts and listings have rows.
* `ImplementsTheHaltCycle` (`KeepsTheHaltCycle`): the refinement mapping takes a
  document to its status, the number of its halts and whether one is open;
  every step is one edge of `HaltCycle` or a stutter.

**The compositions: `RecoveryWindowProofs`, and the audit trail in
`LedgerProofs`.**  `LedgerGoesOn` and `TellingIsHarmless` show that both compositions still refine `Ledger`, so every
theorem above carries over to them, and the next ones use them.

* `OneCase` (`OneCasePerHalt`): `create_if_absent` is enough, whoever calls it.
* `NoDebtTwice` (`NoDebtInTwoCases`): `DebtInv` says that an invoice id has one
  row, and that what a window holds, and a case, are invoices whose rows name
  its halt; lineage is for ever (`RowsKeepLineage`), so two cases that share an
  invoice are cases of one halt, and `OneCase` applies.
* `GateFailsClosed` (`FailsClosed`) and `VerdictsComeFirst` (`GateBeforeCase`)
  need `GateInv`: a verdict stored on a row or held by a window is what the gate
  says of the invoice while unpaid, or `NOT_COLLECTIBLE` and the row is settled
  (rows are settled for good); a window past its judging has stored all verdicts
  but those it still holds; and a case was made of such a window.  Nothing is
  assumed of how old a window's read is: a stale verdict can only be wrong
  about settlement.
* `WindowTypesHold` (`RWTypeOK`) is not inductive: a window is opened on the last
  halt of the worker's copy, which has one only because the hook runs after a
  transition that left an episode (`HookHasEpisode`).  `WindowsInv` adds to the
  shapes that a process is in a window only where ingestion, or a running pass,
  waits for it (`InPlace`).
* `NumbersAreUnique` (`OneLinePerNumber`): `TrailInv` says that every number on
  the trail or in a worker's hand is at most the subscription's counter.
* `TrailIsTrue` (`LinesAreTrue`): `Truthful` says of a line that is owed what the
  property says of one that is written.  It is true when it becomes due, because
  a worker owes lines of what its own step wrote, and stays so because moves,
  halts, rows and verdicts are never taken back (`HaltsAreFinal`,
  `LineageIsReal`).
* `VerdictsHaveTheirStory` (`VerdictsAreAccountedFor`): `OwnersTell` says that who
  owns an event has written, or owes, its receipt and, once it has moved, its
  move; nothing is owed when a verdict is stored.
* `StoriesAreInOrder` (`EachStoryInOrder`): in `StoryInv` only the owner of an
  event owes the lines of its story, one of each kind, and what it owes ranks
  after all that is told of the event; with `TrailInv` the next number is past
  every other, so the order of the kinds is that of the numbers.

**`AgentProofs`.**  `AgentInv` is the type invariant with what a request knows
of the row it works on at each place, `SlotsAreClaimed` (the slots of rows that
say so are at most the counter, but for requests between `Claim` and
`SaveClaim`) and `CollectionsHaveSlots`.  From it `AgentTypes`, `BudgetHolds`
(`SpentWithinLimit`) and `OutcomesAreFinal` (`ExecutedIsFinal`).
`FlagsAreObeyed` (`FlagsBlockCollection`) follows from what the validator
requires of a row at the moment it is made.  `AttemptsAreCounted`
(`AttemptsAreExecutions`): the counter of a case and the requests that have
executed and not counted yet (`Uncounted`) add up to its executed rows
(`AllCounted`).  A request adds one exactly once because rows have one owner
(`OwnRows`) and who has executed has not ended (`Unfinished`); a death between
the row and the counter leaves the sum below, never above.

**`FiniteSums`.**  Sums of money are folds over sets.  Induction is not
available, so the lemmas argue by the smallest set of which they would not hold
(`SmallestOf`, from the well-foundedness of `<`): a fold exists and does not
depend on the order in which it takes its elements out (`FoldsExist`,
`FoldsAdd`), larger terms have the larger sum (`SumLeq`), so has the larger set
(`SumGrows`), what adds nothing may be left out (`SumWhere`), the sum of sums
(`SumOfSums`), of disjoint sets (`SumUnion`, `SumOfFibers`) and of equal terms
(`SumOfEqual`).  `Paired`: sets that pair off have as many elements.

**`WorldProofs`.**  For any configurations and any number of subscribers,
`WorldTypesHold` (`WorldTypeOK`) and `RefusalsAreLongMonths`
(`OnlyLongMonthsAreRefused`) from `WorldInv`, `StampedCasesAreTheHarness`
(`StampedCaseIsTheHarness`) with `HistoryInv`, and `SummariesAreBacked`
(`SummaryIsBackedByInvoices`) with `SummaryKept`.

* The calendar: `MonthStart` is a recursive function; that it has the values its
  equation says (`MonthsBegin`) is argued by the smallest month at which two
  tables of beginnings would differ, or none would exist.  Every day then has one
  billing cycle (`CycleOfDay`), and two days thirty or more apart that share one
  are exactly thirty apart, in a month of 31 (`LongMonth`).
* The timelines: `HaltEventsScript` says what the events of one halt are,
  `ConcatScripts` that two halts follow one another in order, and
  `ScriptsAreScripts` that of every subscriber: in order, each event one that may
  come after the one before, invoices thirty days apart, as many halts as the
  plan has (`PlansAreDrawn`).
* `WorldInv`: what is left of the script is such a timeline, its first event is
  one that the status expects (`ScriptKept`), a halted subscription's last halt
  is open (`HaltIsOpen`), and what was billed is thirty days before all that is
  still to be billed (`RowsAreEarlier`).  The last is why a refused invoice had
  its twin exactly thirty days before: `OnlyLongMonthsAreRefused` alone is not
  inductive.  A window, whole or cut short, loses no row and moves none
  (`GatedRows`).
* `HistoryInv`: the run's documents are, at every moment, those of a history read
  off the plans.  `HaltAt`, `BillAt` and `ReturnAt` give the day of every event of
  every halt (`BillsApart`, `HaltsApart`: no two on one day).  What is left of the
  script is exactly the events later than all that were posted (`ScriptIsRest`);
  a subscription has the halts that have begun, with the days of the plan, closed
  if they ended (`EpisodesKept`); a bill that was posted became a row or a refusal,
  and one only (`BillsAreRows`, `RowsOnce`); a row's verdict is the gate's, and the
  gate ran on it only when its halt ended (`VerdictsKept`); a case is of a halt
  that ended, all of whose rows are gated, and is worth what they are
  (`CasesAreHalts`), stamped or not.
  Neither property is inductive without it: both compare what was counted over
  the rows of a halt with what is counted over the months of its plan.
* `HistoryHasTheHarness`: `RowsOfBills` and `RefusedOfHalt` pair the rows and the
  refusals of a halt with the months of its plan, `SlotsSplit` says that the months
  are the disjoint union of both, so a bucket of the case is the harness's less
  what was refused (`BucketIs`).  Nothing is assumed of the windows: one cut short
  leaves a halt without a case, never a case with the wrong amounts.
* `SummaryKept`: the summary, once made, is of a world that no longer changes.
  What is at risk is the sum over the rows of the eligible cases, which are
  disjoint sets of rows judged collectible (`RiskIsBacked`); without a broken window
  the rows judged collectible that are left are worth nothing (`RiskIsWhole`), and a
  halt of the harness without an eligible case had a delivered month refused
  (`KeysHaveCases`).  The months of all plans pair off with rows and refusals
  (`AllBillsAre`), and are as many as planned (`PlannedIsAll`).

**`ComparisonProofs`.**  `StrategiesNeverRaise` (`NeverRaises`): the invariant
says that the cases decided so far are the strategy's own, that each choice is
allowed, and that slots left and slots used add up to the budget.

The other three are about sums of money over sets of cases, by `FiniteSums`.

* `GreedySpendsBest` (`ReclaimSpendsBest`) and `RegretHasACeiling`
  (`OracleIsTheCeiling`): `RankedInv` says of a pass under way that what is
  decided scores at least as much as what is not, and that a case got what it
  deserves unless no slot is left and every slot went to a case of at least its
  score (`Greedy`); `ResultsInv` keeps this of the strategies that have finished.
  `Exchange` then takes a better choice of the smallest size, exchanges one of
  its cases for one that the strategy spent on, and has a smaller one.  A case's
  score is what its best permitted intervention is worth (`ScoreIsWorth`); this
  is where policy comes in, and why `ReclaimSpendsBest` excepts the cases that
  policy wants escalated.
* `TwoScorecardsAgree` (`ScorecardsAgree`): from the same invariant, term by term
  for what both sum, and by `SumOfSums` and `SumWhere` for the balance of
  targeted and missed.

**`LanguageProofs`.**

* `LoopComputesClosedForm`, `NeverStuck`, `TotalDecision` and
  `RulesOnlySubtract` are about `PolicyLoop`, from `LoopInv`, which relates the
  loop's accumulators to the set of hits so far.
* `FlagsAreQuoted` (`RaisedFlagsAreQuoted`): `CheckedInv` says that a request is
  let near the flags only when its text supports its proposal, on the model's
  path and on the fallback's; the text of a request does not change between the
  proposal and the update.
* `UsersAreToldThePolicy` (`TellsThePolicy`): the work is in `SentencesSayBlocked`,
  which follows the table of policy rule by rule: what the sentences of a
  decision's reason codes call blocked is what the rules of those codes
  subtract.  It is about explanations and answers worded without a model; one
  worded by a model is held to little (section 4), and nothing is claimed of it.
* `TrailAccountsForFlags` (`TrailTellsFlags`): `FlagsInv` holds one of four things
  true: extractions overlapped; one died between its update and its line; the
  flags are what the trail tells; or they are what it would tell with the line
  of the one extraction that has updated and not told.

**`SimulationRunsProofs`.**

* `RegistryIsConsistent` (`RegistryAgrees`): `RegistryInv` says that rows without
  an active one are those of a training between its two writes or of one that
  died or raised there, and that without overlap the artifact is the work of the one
  training under way, or of the last row (`OneTraining`).
* `WholeWorlds` (`NeverHalfAWorld`): by `WorldInv` no case is stamped before the
  world is whole, and what a comparison listed or views are stamped cases.
* `LateComparisonsKeepTheWorld` (`OnlyEarlyComparisonsLoseTheWorld`): by
  `SummaryInv` the record has the summary, and so has every copy read after
  generation was over, until a comparison that read earlier has answered.

Only model-checked: liveness under fairness, which is out of the prover's reach.
Every invariant and action property of the passing runs has its theorem.

## 7. Abstractions

* Times are small numbers; `occurred_at` of one feed is compared, never added.
  In `World` they are days, and the calendar is the real one.
* Episode ids `he_<n>` are their numbers.  A pass keeps the halts it has still
  to visit as a set of ids: two halts with one id are one, as they are for
  `create_if_absent`; the order in which a pass visits subscriptions is free.
* Amounts are "of value" or not in `RecoveryWindow`; small numbers in `World`
  and `Comparison`; the economic fields of a case are in `Comparison`.
* A customer is per subscription (per case in `Agent`).
* The model is a function of case and attempt, the oracle one of case and
  action, both chosen at the start: neither changes while requests run.
  `Comparison` keeps the oracle's arithmetic (`Decide`) and takes the draw of its
  stream as a constant of the case; probabilities are whole parts of 10000.
* Drawn populations are choices within the bounds of the draws: a rate matters
  by whether it is positive.
* Audit lines of windows and agent are left out: the calls are the same two,
  and no component reads them.  A number may be lost by a crash; a line cannot
  be written twice.
* In `SimulationRuns` a subscriber's timeline is one step; `World` has the rest.
* A text is a set of phrases; wording is left out.
* A call to the database that raises has not been applied.  In ingestion, passes,
  the agent and extractions it ends its request as a death does, with every write
  before it in place; where somebody goes on after it (a window, `generate`), or
  others rely on the rest (a training), it is an action of its own.

## 8. Not modelled

* Numerical learning and inference (`ml/train.py`, `ml/predict.py`): only which
  rows are fitted, selected on and tested, and what is loaded.
* Bootstrap intervals, diagnostics and the report of the harness: statistics
  over results, without state.
* Answers worded by a language model to a question: nothing checks them, so
  there is nothing to say of them.
* Read routes and dashboard: they read and format.
* Infrastructure: it appears as the atomicity of calls and as unique indexes in
  the guards of inserts.  The console and deployment files.

## 9. Plan

Done: all modules and theorems above.

Theorems to come: for `RecoveryWindow` and `Agent`, the same invariants in the
composition below.

Modules to come: `RecoveryWindow` and `Agent` composed on one case, where a
window escalates what an agent works on; the audit lines of both.
