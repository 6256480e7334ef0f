-------------------------------- MODULE World --------------------------------
(***************************************************************************)
(* The synthetic world of a simulation run: a population is drawn, each    *)
(* subscriber's halts are posted event by event through the real ingestion *)
(* path, the cases that come out are stamped with seed-stable keys and the *)
(* run is summarised.  Beside it, the two in-memory reconstructions of the *)
(* same halts: the evaluation harness's and the training data's.           *)
(*                                                                         *)
(* The generator awaits each call and is the only client of its run, so    *)
(* one event is one action, the recovery window it opens included.  Times  *)
(* are days since ORIGIN, 1 January 2024.                                  *)
(***************************************************************************)
EXTENDS StateMachine, Collectibility, PolicyV1, Sequences, FiniteSetsExt

CONSTANTS
  Ladder,   \* PLAN_LADDER_PAISE, in a unit of money
  Configs   \* the knobs of the runs

Modes == {"suspend_on_halt", "continue_during_grace", "mixed_or_unknown"}

\* A configuration's rates matter only by what they can draw: `modes` are the
\* service-delivery modes of a positive rate, `flagged` whether customers may
\* carry a flag that policy escalates, `offsets` the days from the creation of
\* a subscription to its first halt.
SimulationConfig ==
  [count : Nat \ {0}, min_amount : Nat, max_amount : Nat, min_missed : 1..12,
   max_missed : 1..12, grace : Nat, modes : SUBSET Modes,
   flagged : SUBSET BOOLEAN, offsets : SUBSET (40..240)]

ASSUME ConfigAssumption ==
  Ladder \subseteq Nat \ {0} /\ Configs \subseteq SimulationConfig

VARIABLES
  plans,    \* the population, fixed once drawn
  next,     \* how many subscribers have been created
  script,   \* the events the generator has still to post for the last of them
  subs,     \* their subscription documents
  rows,     \* the run's invoices
  refused,  \* the events ingestion rejected, with their subscriber
  cases,    \* the run's recovery cases
  broken,   \* whether a recovery window raised, which ingestion only logs
  summary   \* the world summary, NoSummary until it is made

worldVars == <<plans, next, script, subs, rows, refused, cases, broken, summary>>

NoSummary == [made |-> FALSE]
NoKey == <<0, 0>>
NoDay == -1

-----------------------------------------------------------------------------
(* population.py                                                           *)

\* Every outcome of draw_delivery_statuses.
DrawDelivery(mode, cycles, grace) ==
  CASE mode = "suspend_on_halt" -> {[i \in 1..cycles |-> "SUSPENDED"]}
    [] mode = "continue_during_grace" ->
         {[i \in 1..cycles |-> IF i <= grace THEN "DELIVERED" ELSE "SUSPENDED"]}
    [] mode = "mixed_or_unknown" ->
         [1..cycles -> {"DELIVERED", "SUSPENDED", "UNKNOWN"}]

DrawPlanAmount(c) ==
  LET eligible == {p \in Ladder : c.min_amount <= p /\ p <= c.max_amount}
  IN  IF eligible = {} THEN {c.min_amount} ELSE eligible

AtLeastOne(n) == IF n < 1 THEN 1 ELSE n

\* Every subscriber draw_population can draw.
DrawPlans(c) ==
  LET Plan(fate, missed, halts, first, second, offset) ==
        [fate : {fate}, missed : {missed}, halts : {halts}, first : first,
         second : second, offset : {offset}, amount : DrawPlanAmount(c),
         flagged : c.flagged]
      AlwaysActive ==
        UNION {Plan("always_active", 0, 0, {<<>>}, {<<>>}, o) : o \in c.offsets}
      Halted(fate, halts) ==
        UNION {UNION {Plan(fate, missed, halts,
                           DrawDelivery(mode, missed, c.grace),
                           DrawDelivery(mode, IF halts = 2 THEN AtLeastOne(missed \div 2)
                                              ELSE 0, c.grace),
                           o) : mode \in c.modes, o \in c.offsets} :
               missed \in c.min_missed..c.max_missed}
  IN  AlwaysActive \cup Halted("halted_never_returned", 1)
        \cup Halted("reactivated", 1) \cup Halted("reactivated", 2)

-----------------------------------------------------------------------------
(* The calendar: a billing cycle is labelled by the month it begins in.    *)

DaysIn(month) ==
  LET year == 2024 + ((month - 1) \div 12)
  IN  CASE month % 12 \in {4, 6, 9, 11} -> 30
        [] month % 12 = 2 -> IF year % 4 = 0 THEN 29 ELSE 28
        [] OTHER -> 31

\* The day a month begins, month 1 being January 2024.
MonthStart[month \in Nat] ==
  IF month <= 1 THEN 0 ELSE MonthStart[month - 1] + DaysIn(month - 1)

BillingCycle(day) ==
  CHOOSE month \in 1..(day \div 28 + 1) :
    MonthStart[month] <= day /\ day < MonthStart[month + 1]

-----------------------------------------------------------------------------
(* The timelines.  Subscriber i has population index i - 1 and is created  *)
(* that many days after ORIGIN.                                            *)

FirstHalt(i) == (i - 1) + plans[i].offset

\* The events of _halt_cycle, in the order they are posted.
HaltEvents(halt_at, cycles, delivery, reactivate) ==
  <<[type |-> "pending", at |-> halt_at - 5],
    [type |-> "halted", at |-> halt_at]>>
  \o [i \in 1..cycles |->
        LET period == halt_at + 30 * (i - 1) + 1
        IN  [type     |-> "invoice",
             at       |-> period + 8,
             cycle    |-> BillingCycle(period),
             delivery |-> IF i <= Len(delivery) THEN delivery[i] ELSE "UNKNOWN"]]
  \o IF reactivate
     THEN <<[type |-> "activated", at |-> halt_at + 30 * cycles + 12]>>
     ELSE <<>>

\* Fault: the second halt begins as the first one's last month ends.
SecondHaltTooSoon(i) == FirstHalt(i) + 30 * plans[i].missed

SecondHalt(i) == FirstHalt(i) + 30 * plans[i].missed + 50

\* _materialise, after the two documents are created.
ScriptOf(i) ==
  LET p == plans[i]
  IN  IF p.fate = "always_active" THEN <<>>
      ELSE HaltEvents(FirstHalt(i), p.missed, p.first, p.fate = "reactivated")
           \o IF p.fate = "reactivated" /\ p.halts = 2
              THEN HaltEvents(SecondHalt(i), AtLeastOne(p.missed \div 2),
                              p.second, TRUE)
              ELSE <<>>

-----------------------------------------------------------------------------
Init ==
  /\ \E c \in Configs : plans \in [1..c.count -> DrawPlans(c)]
  /\ next = 0
  /\ script = <<>>
  /\ subs = <<>>
  /\ rows = {}
  /\ refused = {}
  /\ cases = {}
  /\ broken = FALSE
  /\ summary = NoSummary

Count == Len(plans)

\* _materialise begins: the customer and an ACTIVE subscription are created.
Materialise ==
  /\ script = <<>>
  /\ next < Count
  /\ next' = next + 1
  /\ subs' = Append(subs, [status |-> "ACTIVE", last |-> NoDay, eps |-> <<>>])
  /\ script' = ScriptOf(next + 1)
  /\ UNCHANGED <<plans, rows, refused, cases, broken, summary>>

-----------------------------------------------------------------------------
(* Ingestion, for the one event posted.                                    *)

Posted == Head(script)

Current == subs[next]

PostsLifecycle == script # <<>> /\ Posted.type \in Lifecycle

PostsInvoice == script # <<>> /\ Posted.type = "invoice"

Proceed ==
  /\ script' = Tail(script)
  /\ UNCHANGED <<plans, next, summary>>

IsStale == Current.last # NoDay /\ Posted.at < Current.last

Acceptable == ~IsStale /\ ~IsIllegal(Current.status, Posted.type)

\* Fault: the window of a halt that is still open contains nothing.
ContainsIfClosed(episode, day) ==
  episode.halted <= day /\ episode.react # NoDay /\ day < episode.react

Contains(episode, day) ==
  episode.halted <= day /\ (episode.react = NoDay \/ day < episode.react)

\* The halt an invoice is raised in, 0 for none: episode he_n is the n-th.
LineageOf(sub, day) ==
  LET hits == {n \in DOMAIN sub.eps : Contains(sub.eps[n], day)}
  IN  IF hits = {} THEN 0 ELSE Min(hits)

Moved(sub, e) ==
  [status |-> Target[e.type],
   last   |-> e.at,
   eps    |-> IF Opens(sub.status, e.type)
              THEN Append(sub.eps, [halted |-> e.at, react |-> NoDay])
              ELSE [n \in DOMAIN sub.eps |->
                      IF Closes(sub.status, e.type) /\ sub.eps[n].react = NoDay
                      THEN [sub.eps[n] EXCEPT !.react = e.at]
                      ELSE sub.eps[n]]]


\* A transition that closes no halt; an event of the status it is in is none.
PostTransition ==
  /\ PostsLifecycle
  /\ Acceptable
  /\ ~Closes(Current.status, Posted.type)
  /\ subs' = [subs EXCEPT ![next] =
       IF IsNoOp(@.status, Posted.type) THEN @ ELSE Moved(@, Posted)]
  /\ Proceed
  /\ UNCHANGED <<rows, refused, cases, broken>>

CycleTaken == \E r \in rows : r.sub = next /\ r.cycle = Posted.cycle

\* Ingestion rejects the event, and the generator does not look at the answer.
Refuse ==
  /\ script # <<>>
  /\ PostsLifecycle => ~Acceptable
  /\ PostsInvoice => CycleTaken
  /\ refused' = refused \cup {[sub |-> next, event |-> Posted]}
  /\ Proceed
  /\ UNCHANGED <<subs, rows, cases, broken>>

\* A new row is REVIEW_REQUIRED until a gate says otherwise.
PostInvoice ==
  /\ PostsInvoice
  /\ ~CycleTaken
  /\ rows' = rows \cup
       {[sub |-> next, at |-> Posted.at, cycle |-> Posted.cycle,
         ep |-> LineageOf(Current, Posted.at), delivery |-> Posted.delivery,
         verdict |-> "REVIEW_REQUIRED"]}
  /\ Proceed
  /\ UNCHANGED <<subs, refused, cases, broken>>

-----------------------------------------------------------------------------
(* A return, and the recovery window ingestion opens on it.                *)

VerdictOf(r) ==
  EvaluateCollectibility([status |-> "UNPAID", waived |-> FALSE, marked |-> FALSE,
                          delivery |-> r.delivery])

InHalt(i, n) == {r \in rows : r.sub = i /\ r.ep = n}

\* The rows once the verdicts of halt n are written up to that of day `last`.
Gated(i, n, last) ==
  {IF r \in InHalt(i, n) /\ r.at <= last THEN [r EXCEPT !.verdict = VerdictOf(r)]
   ELSE r : r \in rows}

\* What a bucket of the gate is worth.
Worth(i, n, verdict) ==
  plans[i].amount * Cardinality({r \in InHalt(i, n) : VerdictOf(r) = verdict})

\* A customer with a flag that policy escalates.
NeedsEscalation(i) ==
  EvaluateV1([domestic |-> FALSE, backlog |-> 0, mandate |-> 0,
              risk |-> plans[i].flagged, dispute |-> FALSE, opted_out |-> FALSE,
              attempts |-> 0, max_attempts |-> 3, now |-> 0,
              last_contact |-> NeverContacted, cooldown |-> 24]).escalates

\* The case of halt n, if it has anything to collect or to review.
NewCases(i, n, episode, escalates) ==
  LET collectible == Worth(i, n, "COLLECTIBLE")
      review == Worth(i, n, "REVIEW_REQUIRED")
  IN  IF collectible + review = 0 THEN {}
      ELSE {[sub         |-> i,
             ep          |-> n,
             status      |-> CASE collectible = 0 -> "review_required"
                               [] collectible > 0 /\ escalates -> "escalated"
                               [] OTHER -> "open",
             collectible |-> collectible,
             review      |-> review,
             excluded    |-> Worth(i, n, "NOT_COLLECTIBLE"),
             halted      |-> episode.halted,
             days        |-> episode.react - episode.halted,
             key         |-> NoKey]}

\* handle_reactivation for halt n, whole or cut short by an exception: after
\* some of the verdicts and before the case, or before the escalation.
Window(i, n, episode) ==
  \/ /\ rows' = Gated(i, n, episode.react)
     /\ cases' = cases \cup NewCases(i, n, episode, NeedsEscalation(i))
     /\ UNCHANGED broken
  \/ /\ \E last \in {episode.halted} \cup {r.at : r \in InHalt(i, n)} :
          rows' = Gated(i, n, last)
     /\ broken' = TRUE
     /\ UNCHANGED cases
  \/ /\ NeedsEscalation(i)
     /\ rows' = Gated(i, n, episode.react)
     /\ cases' = cases \cup NewCases(i, n, episode, FALSE)
     /\ broken' = TRUE

PostReturn ==
  /\ PostsLifecycle
  /\ Acceptable
  /\ Closes(Current.status, Posted.type)
  /\ subs' = [subs EXCEPT ![next] = Moved(@, Posted)]
  /\ LET n == Len(Current.eps)
     IN  Window(next, n, [Current.eps[n] EXCEPT !.react = Posted.at])
  /\ Proceed
  /\ UNCHANGED refused

-----------------------------------------------------------------------------
(* The population is materialised: keys, then the summary.                 *)

AllPosted == next = Count /\ script = <<>>

\* Fault: halts are numbered by the cases that exist.
KeyByPosition(c) ==
  <<c.sub, Cardinality({d \in cases : d.sub = c.sub /\ d.ep <= c.ep})>>

\* synthetic_case_key: population index and halt ordinal, read off he_n.
KeyOf(c) == <<c.sub, c.ep>>

Unstamped == {c \in cases : c.key = NoKey}

Stamp ==
  /\ AllPosted
  /\ \E c \in Unstamped :
       cases' = (cases \ {c}) \cup {[c EXCEPT !.key = KeyOf(c)]}
  /\ UNCHANGED <<plans, next, script, subs, rows, refused, broken, summary>>

\* is_strategy_eligible, for a case no one has worked on yet.
IsStrategyEligible(c) == c.status # "review_required" /\ c.collectible > 0

\* The ids of every halt of the run that ended: he_n is unique only within its
\* subscription.
ClosedEpisodes ==
  UNION {{n \in DOMAIN subs[i].eps : subs[i].eps[n].react # NoDay} :
         i \in DOMAIN subs}

AmountOf(invoices) == MapThenSumSet(LAMBDA r : plans[r.sub].amount, invoices)

Planned ==
  LET Of(i) == IF plans[i].fate = "always_active" THEN 0
               ELSE plans[i].missed +
                      (IF plans[i].fate = "reactivated" /\ plans[i].halts = 2
                       THEN AtLeastOne(plans[i].missed \div 2) ELSE 0)
  IN  MapThenSumSet(Of, 1..Count)

\* Fault: the amounts at risk are those of every case.
RiskOfAllCases == MapThenSumSet(LAMBDA c : c.collectible + c.review, cases)

AtRisk == MapThenSumSet(LAMBDA c : c.collectible,
                        {c \in cases : IsStrategyEligible(c)})

Summarise ==
  /\ AllPosted
  /\ Unstamped = {}
  /\ summary = NoSummary
  /\ LET historical == {r \in rows : r.ep \in ClosedEpisodes}
         Judged(verdict) == {r \in historical : r.verdict = verdict}
     IN  summary' =
           [made        |-> TRUE,
            cases       |-> Cardinality(cases),
            eligible    |-> Cardinality({c \in cases : IsStrategyEligible(c)}),
            planned     |-> Planned,
            historical  |-> AmountOf(historical),
            collectible |-> AmountOf(Judged("COLLECTIBLE")),
            review      |-> AmountOf(Judged("REVIEW_REQUIRED")),
            excluded    |-> AmountOf(Judged("NOT_COLLECTIBLE")),
            at_risk     |-> AtRisk]
  /\ UNCHANGED <<plans, next, script, subs, rows, refused, cases, broken>>

Next ==
  \/ Materialise
  \/ PostTransition \/ PostReturn \/ PostInvoice \/ Refuse
  \/ Stamp \/ Summarise

Spec == Init /\ [][Next]_worldVars

-----------------------------------------------------------------------------
(* The same halts, reconstructed in memory.                                *)

\* evaluation/cases.py: _timeline and _bucket_amounts of a halt.
HarnessCase(i, ordinal) ==
  LET p == plans[i]
      first_halt == (i - 1) + p.offset
      halt_at == IF ordinal = 1 THEN first_halt
                 ELSE first_halt + 30 * p.missed + 50
      cycles == IF ordinal = 1 THEN p.missed ELSE AtLeastOne(p.missed \div 2)
      delivery == IF ordinal = 1 THEN p.first ELSE p.second
      Bucket(status) ==
        p.amount * Cardinality({n \in DOMAIN delivery : delivery[n] = status})
  IN  [halted      |-> halt_at,
       days        |-> 30 * cycles + 12,
       collectible |-> Bucket("DELIVERED"),
       review      |-> Bucket("UNKNOWN"),
       excluded    |-> Bucket("SUSPENDED"),
       historical  |-> p.amount * Len(delivery)]

\* The halts build_eval_cases makes a case of.
HarnessKeys ==
  {key \in (1..Count) \X {1, 2} :
     /\ plans[key[1]].fate = "reactivated"
     /\ key[2] <= plans[key[1]].halts
     /\ HarnessCase(key[1], key[2]).historical > 0}

\* ml/dataset.py: _observation of a halt, as the view it trains on.
Observation(i, ordinal) ==
  LET p == plans[i]
      cycles == IF ordinal = 1 THEN p.missed ELSE AtLeastOne(p.missed \div 2)
      delivery == IF ordinal = 1 THEN p.first ELSE p.second
      delivered == Cardinality({n \in DOMAIN delivery : delivery[n] = "DELIVERED"})
  IN  [backlog  |-> p.amount * delivered,
       invoices |-> delivered,
       days     |-> 30 * cycles + 12]

Observed ==
  {key \in (1..Count) \X {1, 2} :
     /\ plans[key[1]].fate = "reactivated"
     /\ key[2] = 2 => plans[key[1]].halts = 2
     /\ Observation(key[1], key[2]).invoices > 0}

-----------------------------------------------------------------------------
\* The documents stay well-formed, and a subscription's halts are those its
\* plan says, so far (world.py, population.py).
WorldTypeOK ==
  /\ next \in 0..Count
  /\ \A i \in DOMAIN subs : /\ subs[i].status \in Statuses
                            /\ Len(subs[i].eps) <= plans[i].halts
  /\ \A r \in rows : r.ep \in DOMAIN subs[r.sub].eps
  /\ \A c \in cases : c.ep \in DOMAIN subs[c.sub].eps

\* What the generator posts is a legal history: its timelines are in order, no
\* transition of it is refused, and an invoice is refused only because a month
\* of 31 days held two periods of thirty (_halt_cycle ignores every answer).
OnlyLongMonthsAreRefused ==
  \A x \in refused :
    /\ x.event.type = "invoice"
    /\ DaysIn(x.event.cycle) = 31
    /\ \E r \in rows : /\ r.sub = x.sub
                       /\ r.cycle = x.event.cycle
                       /\ r.at = x.event.at - 30

RefusedOf(i, n, delivery) ==
  {x \in refused : /\ x.sub = i
                   /\ x.event.delivery = delivery
                   /\ LineageOf(subs[i], x.event.at) = n}

\* A stamped case is the case the harness builds under the same key, less what
\* ingestion refused, whatever windows failed before it: a model trained and
\* evaluated in memory has seen the world's cases (_stamp_synthetic_identities
\* against _one_case and _observation).
StampedCaseIsTheHarness ==
  \A c \in cases :
    c.key # NoKey =>
      LET h == HarnessCase(c.key[1], c.key[2])
          Lost(d) == plans[c.sub].amount * Cardinality(RefusedOf(c.sub, c.ep, d))
      IN  /\ c.key \in HarnessKeys
          /\ c.halted = h.halted
          /\ c.days = h.days
          /\ c.collectible = h.collectible - Lost("DELIVERED")
          /\ c.review = h.review - Lost("UNKNOWN")
          /\ c.excluded = h.excluded - Lost("SUSPENDED")
          /\ c.key \in Observed <=> h.collectible > 0
          /\ c.key \in Observed =>
               /\ Observation(c.key[1], c.key[2]).backlog = h.collectible
               /\ Observation(c.key[1], c.key[2]).days = c.days

\* When no window failed, the run's revenue at risk is exactly what its invoices
\* say is collectible, and every eligible halt of the harness has its case; when
\* one did, nothing is at risk that no invoice backs.  What is historical leaves
\* out no invoice of a halt that ended (_summarise).
SummaryIsBackedByInvoices ==
  summary.made =>
    /\ summary.at_risk <= summary.collectible
    /\ summary.historical >=
         AmountOf({r \in rows : subs[r.sub].eps[r.ep].react # NoDay})
    /\ summary.planned = Cardinality(rows) +
         Cardinality({x \in refused : x.event.type = "invoice"})
    /\ ~broken =>
         /\ summary.at_risk = summary.collectible
         /\ \A key \in HarnessKeys :
              HarnessCase(key[1], key[2]).collectible > 0 =>
                \/ \E c \in cases : c.key = key /\ IsStrategyEligible(c)
                \/ RefusedOf(key[1], key[2], "DELIVERED") # {}
=============================================================================
