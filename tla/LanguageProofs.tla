---------------------------- MODULE LanguageProofs ----------------------------
(***************************************************************************)
(* Theorems about policy and about the language layer that tells users     *)
(* what it decided: the policy loop computes its closed form, for any set  *)
(* of rules, and Language keeps its promises for any texts, any model and  *)
(* any number of extractions.                                              *)
(***************************************************************************)
EXTENDS Language, PolicyLoop, TLAPS

-----------------------------------------------------------------------------
(* The policy loop.                                                        *)

\* The decision so far, in terms of the hits folded in: what the loop has
\* accumulated before the last lines, the closed form after them.
LoopInv ==
  /\ hits \subseteq Rules
  /\ allowed \in SUBSET DefaultActions
  /\ blocked \in SUBSET DefaultActions
  /\ done \in BOOLEAN
  /\ escalates = \E h \in hits : h.escalates
  /\ stops = \E h \in hits : h.stops
  /\ ~done => /\ blocked = UNION {h.blocks : h \in hits}
              /\ allowed = DefaultActions \ blocked
  /\ DecisionIsClosedForm

\* One more hit adds its own blocks to those of the others.
LEMMA BlocksOfOneMore ==
  ASSUME NEW S, NEW h
  PROVE  (UNION {g.blocks : g \in S \cup {h}}) =
           (UNION {g.blocks : g \in S}) \cup h.blocks
  OBVIOUS

LEMMA LoopInvInit == PolicyInit => LoopInv
  BY DEF PolicyInit, LoopInv, DecisionIsClosedForm

\* The loop body accumulates.
LEMMA LoopInvApply ==
  ASSUME LoopInv, NEW h \in Rules, Apply(h)
  PROVE  LoopInv'
<1>1. h \in RuleHit
  BY RulesAssumption
<1>2. h.blocks \subseteq DefaultActions
  BY <1>1 DEF RuleHit
<1>3. (UNION {g.blocks : g \in hits'}) =
        (UNION {g.blocks : g \in hits}) \cup h.blocks
  BY BlocksOfOneMore DEF Apply
<1>4. /\ hits' \subseteq Rules
      /\ done' = FALSE
      /\ blocked' = UNION {g.blocks : g \in hits'}
      /\ allowed' = DefaultActions \ blocked'
  BY <1>3 DEF Apply, LoopInv
<1>5. blocked' \in SUBSET DefaultActions
  BY <1>2 DEF Apply, LoopInv
<1>6. escalates' = \E g \in hits' : g.escalates
  BY Zenon DEF Apply, LoopInv
<1>7. stops' = \E g \in hits' : g.stops
  BY Zenon DEF Apply, LoopInv
<1> QED
  BY <1>4, <1>5, <1>6, <1>7 DEF LoopInv, DecisionIsClosedForm

\* The last lines turn what was accumulated into the closed form.
LEMMA LoopInvConclude ==
  ASSUME LoopInv, Conclude
  PROVE  LoopInv'
<1>1. /\ blocked = UNION {h.blocks : h \in hits}
      /\ allowed = DefaultActions \ blocked
  BY DEF LoopInv, Conclude
<1>2. Escalate \notin AutomatedCollection /\ NoAction \notin AutomatedCollection
      /\ NoAction # Escalate
  BY DEF Escalate, NoAction, AutomatedCollection, PaymentLink, ManualCharge
<1>3. NoAction \in DefaultActions /\ Escalate \in DefaultActions
      /\ AutomatedCollection \subseteq DefaultActions
  BY DEF DefaultActions, AutomatedCollection
<1>4. blocked' = (blocked \ Kept) \cup Stopped
  BY <1>2 DEF Conclude, Kept, Stopped
<1>5. allowed' = DefaultActions \ blocked'
  <2>1. Kept \subseteq DefaultActions /\ Kept \cap Stopped = {}
    BY <1>2, <1>3 DEF Kept, Stopped
  <2> QED
    BY <1>1, <1>4, <2>1, <1>2 DEF Conclude
<1>6. EvaluatePolicy(hits) = [allowed |-> allowed', blocked |-> blocked',
        escalates |-> escalates, stops |-> stops]
  BY <1>1, <1>4, <1>5 DEF EvaluatePolicy, LoopInv, Kept, Stopped
<1>7. blocked' \in SUBSET DefaultActions
  BY <1>3, <1>4 DEF LoopInv, Stopped
<1>8. DecisionIsClosedForm'
  BY <1>6 DEF DecisionIsClosedForm, Conclude
<1> QED
  BY <1>5, <1>7, <1>8 DEF LoopInv, Conclude

LEMMA LoopInvStep == LoopInv /\ [PolicyNext]_policyVars => LoopInv'
<1> SUFFICES ASSUME LoopInv, [PolicyNext]_policyVars
             PROVE  LoopInv'
  OBVIOUS
<1>1. ASSUME NEW h \in Rules, Apply(h)
      PROVE  LoopInv'
  BY <1>1, LoopInvApply
<1>2. CASE Conclude
  BY <1>2, LoopInvConclude
<1>3. CASE UNCHANGED policyVars
  BY <1>3 DEF LoopInv, policyVars, DecisionIsClosedForm
<1> QED
  BY <1>1, <1>2, <1>3 DEF PolicyNext

\* The order of the rules does not matter: for any rules, a decision is the
\* closed form of the set of its hits.
THEOREM LoopComputesClosedForm == PolicySpec => []DecisionIsClosedForm
<1>1. LoopInv => DecisionIsClosedForm
  BY DEF LoopInv
<1> QED
  BY <1>1, LoopInvInit, LoopInvStep, PTL DEF PolicySpec

\* What a returned decision consists of.
LEMMA DecisionShape ==
  ASSUME LoopInv, done
  PROVE  /\ allowed = DefaultActions \ blocked
         /\ blocked = ((UNION {h.blocks : h \in hits}) \ Kept) \cup Stopped
         /\ blocked \subseteq DefaultActions
<1>1. EvaluatePolicy(hits) = [allowed |-> allowed, blocked |-> blocked,
        escalates |-> escalates, stops |-> stops]
  BY DEF LoopInv, DecisionIsClosedForm
<1> QED
  BY <1>1 DEF EvaluatePolicy, LoopInv, Kept, Stopped

\* For any rules, careless ones included, a decision leaves a legal move.
THEOREM NeverStuck == PolicySpec => []AlwaysAWayOut
<1>1. LoopInv => AlwaysAWayOut
  <2> SUFFICES ASSUME LoopInv, done
               PROVE  /\ NoAction \in allowed
                      /\ escalates => Escalate \in allowed
                      /\ stops => allowed \cap AutomatedCollection = {}
    BY DEF AlwaysAWayOut
  <2> QED
    BY DecisionShape DEF Kept, Stopped, DefaultActions, AutomatedCollection,
      NoAction, Escalate, PaymentLink, ManualCharge
<1> QED
  BY <1>1, LoopInvInit, LoopInvStep, PTL DEF PolicySpec

\* For any rules, the two lists of a decision partition the actions.
THEOREM TotalDecision == PolicySpec => []DecisionIsTotal
<1>1. LoopInv => DecisionIsTotal
  BY DecisionShape DEF DecisionIsTotal
<1> QED
  BY <1>1, LoopInvInit, LoopInvStep, PTL DEF PolicySpec

\* For any rules, a collection survives only if it survives every subset of
\* the hits: no rule gives back what another took.
THEOREM RulesOnlySubtract == PolicySpec => []MoreRulesPermitLess
<1>1. LoopInv => MoreRulesPermitLess
  <2> SUFFICES ASSUME LoopInv, done, NEW fewer \in SUBSET hits,
                      NEW a \in allowed \cap AutomatedCollection
               PROVE  a \in EvaluatePolicy(fewer).allowed
    BY DEF MoreRulesPermitLess
  <2>1. a \notin Kept
    BY DEF Kept, AutomatedCollection, NoAction, Escalate, PaymentLink, ManualCharge
  <2>2. a \in DefaultActions /\ a \notin UNION {h.blocks : h \in hits}
    BY <2>1, DecisionShape
  <2>3. ~stops
    BY DecisionShape DEF Stopped
  <2>4. a \notin UNION {h.blocks : h \in fewer}
    BY <2>2
  <2>5. ~\E h \in fewer : h.stops
    BY <2>3, Zenon DEF LoopInv
  <2> QED
    BY <2>2, <2>4, <2>5 DEF EvaluatePolicy
<1> QED
  BY <1>1, LoopInvInit, LoopInvStep, PTL DEF PolicySpec

-----------------------------------------------------------------------------
(* The language layer.                                                     *)

\* A request that began has a text and a proposal, and is let near the flags only
\* when the one supports the other.
ExtractionIsChecked(q) ==
  LET x == extraction[q] IN
  /\ x = Idle \/ x = [pc |-> x.pc, text |-> x.text, apply |-> x.apply,
                      proposal |-> x.proposal]
  /\ x.pc = "applying" => IsSupported(x.proposal, x.text)

CheckedInv ==
  /\ extraction = [q \in Extractions |-> extraction[q]]
  /\ \A q \in Extractions : ExtractionIsChecked(q)

\* One extraction changes.
LEMMA OneExtraction ==
  ASSUME CheckedInv, NEW q \in Extractions, NEW x,
         extraction' = [extraction EXCEPT ![q] = x],
         x = [pc |-> x.pc, text |-> x.text, apply |-> x.apply, proposal |-> x.proposal],
         x.pc = "applying" => IsSupported(x.proposal, x.text)
  PROVE  CheckedInv'
<1>1. extraction' = [o \in Extractions |-> IF o = q THEN x ELSE extraction[o]]
  BY DEF CheckedInv
<1> QED
  BY <1>1 DEF CheckedInv, ExtractionIsChecked

\* A request goes to another place with what it has.
LEMMA GoesOn ==
  ASSUME CheckedInv, NEW q \in Extractions, extraction[q] # Idle, NEW place,
         extraction' = [extraction EXCEPT ![q].pc = place],
         place = "applying" => IsSupported(extraction[q].proposal, extraction[q].text)
  PROVE  CheckedInv'
<1> DEFINE old == extraction[q]
           x == [pc |-> place, text |-> old.text, apply |-> old.apply,
                 proposal |-> old.proposal]
<1>1. old = [pc |-> old.pc, text |-> old.text, apply |-> old.apply,
             proposal |-> old.proposal]
  BY DEF CheckedInv, ExtractionIsChecked
<1>2. [old EXCEPT !.pc = place] = x
  BY <1>1
<1>3. extraction' = [extraction EXCEPT ![q] = x]
  BY <1>2
<1> QED
  BY <1>3, OneExtraction

LEMMA CheckedStep == CheckedInv /\ [Next]_languageVars => CheckedInv'
<1> SUFFICES ASSUME CheckedInv, [Next]_languageVars
             PROVE  CheckedInv'
  OBVIOUS
<1>1. CASE UNCHANGED extraction
  BY <1>1 DEF CheckedInv, ExtractionIsChecked
<1>2. ASSUME NEW q \in Extractions, NEW text, NEW prefer_llm, NEW apply,
             Extract(q, text, prefer_llm, apply)
      PROVE  CheckedInv'
  <2>1. PICK p : extraction' = [extraction EXCEPT ![q] =
                   [pc |-> "proposing", text |-> text, apply |-> apply, proposal |-> p]]
    BY <1>2 DEF Extract
  <2> QED
    BY <2>1, OneExtraction
<1>3. ASSUME NEW q \in Extractions, Propose(q)
      PROVE  CheckedInv'
  <2> DEFINE me == extraction[q]
             place == IF me.apply /\ Supported(me.proposal, me.text) /\ HasFacts(me.proposal)
                      THEN "applying"
                      ELSE IF me.apply /\ ~Supported(me.proposal, me.text) THEN "rejecting"
                      ELSE "answered"
  <2>1. extraction' = [extraction EXCEPT ![q].pc = place]
    BY <1>3 DEF Propose
  <2>2. place = "applying" => IsSupported(me.proposal, me.text)
    BY DEF Supported
  <2>3. extraction[q] # Idle
    BY <1>3 DEF Propose, Idle
  <2> HIDE DEF place
  <2> QED
    BY <2>1, <2>2, <2>3, GoesOn
<1>4. ASSUME NEW q \in Extractions, NEW place, place # "applying",
             extraction[q].pc # "idle", extraction' = [extraction EXCEPT ![q].pc = place]
      PROVE  CheckedInv'
  <2>1. extraction[q] # Idle
    BY <1>4 DEF Idle
  <2>2. place = "applying" =>
          IsSupported(extraction[q].proposal, extraction[q].text)
    BY <1>4
  <2> QED
    BY <1>4, <2>1, <2>2, GoesOn
<1>5. ASSUME NEW q \in Extractions, SetFlags(q) \/ Accept(q) \/ Reject(q) \/ Dies(q)
      PROVE  CheckedInv'
  <2>1. extraction[q].pc # "idle"
    BY <1>5 DEF SetFlags, Accept, Reject, Dies
  <2>2. \E place \in {"accepting", "answered", "dead"} :
          extraction' = [extraction EXCEPT ![q].pc = place]
    BY <1>5 DEF SetFlags, Accept, Reject, Dies
  <2> QED
    BY <1>4, <2>1, <2>2
<1>6. ASSUME NEW r, NEW prefer_llm, Explain(r, prefer_llm)
      PROVE  UNCHANGED extraction
  BY <1>6 DEF Explain
<1>7. ASSUME NEW r, NEW question, Ask(r, question)
      PROVE  UNCHANGED extraction
  BY <1>7 DEF Ask
<1> QED
  BY <1>1, <1>2, <1>3, <1>5, <1>6, <1>7 DEF Next, languageVars

\* Only an update that was let near the flags sets them.
LEMMA FlagsAreSet ==
  ASSUME [Next]_languageVars
  PROVE  flags' = flags \/ \E q \in Extractions : SetFlags(q)
BY DEF Next, languageVars, Extract, Propose, Accept, Reject, Dies, Explain, Ask, fixed

\* Nobody is put in dispute, or opted out, on words that are not the customer's:
\* on every path, also the one that answers for an unavailable model, and whatever
\* another extraction does between a proposal and its update.
THEOREM FlagsAreQuoted == Spec => RaisedFlagsAreQuoted
<1>1. Init => CheckedInv
  BY DEF Init, CheckedInv, ExtractionIsChecked, Idle
<1>2. CheckedInv /\ [Next]_languageVars =>
        [\A f \in Fields :
           (~flags[f] /\ flags'[f]) =>
             \E q \in Extractions :
               /\ extraction[q].pc = "applying"
               /\ \E e \in extraction[q].proposal.evidence :
                    e.field = f /\ e.span \in extraction[q].text]_languageVars
  <2> SUFFICES ASSUME CheckedInv, [Next]_languageVars, NEW f \in Fields,
                      ~flags[f], flags'[f]
               PROVE  \E q \in Extractions :
                        /\ extraction[q].pc = "applying"
                        /\ \E e \in extraction[q].proposal.evidence :
                             e.field = f /\ e.span \in extraction[q].text
    OBVIOUS
  <2>1. PICK q \in Extractions : SetFlags(q)
    BY FlagsAreSet
  <2>2. /\ extraction[q].pc = "applying"
        /\ flags' = Updated(flags, extraction[q].proposal)
    BY <2>1 DEF SetFlags
  <2> DEFINE found == extraction[q].proposal.findings
  <2>3. found[f] = "yes"
    <3>1. CASE f = "has_dispute"
      <4>1. flags'[f] = IF found[f] = "unsaid" THEN flags[f] ELSE found[f] = "yes"
        BY <2>2, <3>1 DEF Updated
      <4> QED
        BY <4>1
    <3>2. CASE f = "customer_opted_out"
      <4>1. flags'[f] = IF found[f] = "unsaid" THEN flags[f] ELSE found[f] = "yes"
        BY <2>2, <3>2 DEF Updated
      <4> QED
        BY <4>1
    <3> QED
      BY <3>1, <3>2 DEF Fields
  <2>4. IsSupported(extraction[q].proposal, extraction[q].text)
    BY <2>2 DEF CheckedInv, ExtractionIsChecked
  <2> QED
    BY <2>2, <2>3, <2>4 DEF IsSupported
<1>3. CheckedInv /\ [Next]_languageVars => CheckedInv'
  BY CheckedStep
<1> QED
  BY <1>1, <1>2, <1>3, PTL DEF Spec, RaisedFlagsAreQuoted

-----------------------------------------------------------------------------
(* What readers are told.                                                  *)

Codes ==
  {"DOMESTIC_CARD_MANUAL_CHARGE_UNSUPPORTED", "MANDATE_CAP_EXCEEDED", "RISK_FLAG_PRESENT",
   "ACTIVE_DISPUTE", "CUSTOMER_OPTED_OUT", "MAX_ATTEMPTS_REACHED",
   "CONTACT_COOLDOWN_ACTIVE"}

\* The codes are those of the rules that apply, rule by rule.
LEMMA CodesOfRules ==
  ASSUME NEW c
  PROVE  /\ ReasonCodes(c) \subseteq Codes
         /\ "DOMESTIC_CARD_MANUAL_CHARGE_UNSUPPORTED" \in ReasonCodes(c) <=> c.domestic
         /\ "MANDATE_CAP_EXCEEDED" \in ReasonCodes(c) <=> c.backlog > c.mandate
         /\ "RISK_FLAG_PRESENT" \in ReasonCodes(c) <=> c.risk
         /\ "ACTIVE_DISPUTE" \in ReasonCodes(c) <=> c.dispute
         /\ "CUSTOMER_OPTED_OUT" \in ReasonCodes(c) <=> c.opted_out
         /\ "MAX_ATTEMPTS_REACHED" \in ReasonCodes(c) <=> MaxAttempts(c) # {}
         /\ "CONTACT_COOLDOWN_ACTIVE" \in ReasonCodes(c) <=> ContactCooldown(c) # {}
<1> DEFINE over == c.backlog > c.mandate
           spent == MaxAttempts(c) # {}
           cooling == ContactCooldown(c) # {}
           applies ==
             [DOMESTIC_CARD_MANUAL_CHARGE_UNSUPPORTED |-> c.domestic,
              MANDATE_CAP_EXCEEDED                    |-> over,
              RISK_FLAG_PRESENT                       |-> c.risk,
              ACTIVE_DISPUTE                          |-> c.dispute,
              CUSTOMER_OPTED_OUT                      |-> c.opted_out,
              MAX_ATTEMPTS_REACHED                    |-> spent,
              CONTACT_COOLDOWN_ACTIVE                 |-> cooling]
<1>1. ReasonCodes(c) = {code \in DOMAIN applies : applies[code]}
  BY DEF ReasonCodes
<1> HIDE DEF over, spent, cooling
<1>2. DOMAIN applies = Codes
  BY DEF Codes
<1>3. /\ applies["DOMESTIC_CARD_MANUAL_CHARGE_UNSUPPORTED"] = c.domestic
      /\ applies["MANDATE_CAP_EXCEEDED"] = over
      /\ applies["RISK_FLAG_PRESENT"] = c.risk
      /\ applies["ACTIVE_DISPUTE"] = c.dispute
      /\ applies["CUSTOMER_OPTED_OUT"] = c.opted_out
      /\ applies["MAX_ATTEMPTS_REACHED"] = spent
      /\ applies["CONTACT_COOLDOWN_ACTIVE"] = cooling
  OBVIOUS
<1> HIDE DEF applies
<1> QED
  BY <1>1, <1>2, <1>3 DEF Codes, over, spent, cooling

\* Which of the two collections the rules that apply subtract.
LEMMA BlockedByRules ==
  ASSUME NEW c
  PROVE  /\ EvaluateV1(c).blocked \subseteq AutomatedCollection
         /\ ManualCharge \in EvaluateV1(c).blocked <=>
              \/ c.domestic \/ c.backlog > c.mandate \/ c.risk \/ c.dispute
              \/ MaxAttempts(c) # {}
         /\ PaymentLink \in EvaluateV1(c).blocked <=>
              \/ c.risk \/ c.dispute \/ MaxAttempts(c) # {}
              \/ c.opted_out \/ ContactCooldown(c) # {}
<1> DEFINE charge  == Blocks({ManualCharge})
           handing == Escalates(AutomatedCollection)
           stop    == [Escalates(AutomatedCollection) EXCEPT !.stops = TRUE]
           quiet   == Escalates(ContactActions)
           cool    == Blocks(ContactActions)
           found   == RulesV1(c)
           over    == c.backlog > c.mandate
           spent   == MaxAttempts(c) # {}
           cooling == ContactCooldown(c) # {}
<1>1. /\ charge.blocks = {ManualCharge} /\ handing.blocks = AutomatedCollection
      /\ stop.blocks = AutomatedCollection
      /\ quiet.blocks = ContactActions /\ cool.blocks = ContactActions
      /\ ~charge.stops /\ ~handing.stops /\ ~quiet.stops /\ ~cool.stops
  BY DEF Blocks, Escalates
<1>2. /\ MaxAttempts(c) = {} \/ MaxAttempts(c) = {handing}
      /\ ContactCooldown(c) = {} \/ ContactCooldown(c) = {cool}
  BY DEF MaxAttempts, ContactCooldown
<1>3. found = (IF c.domestic THEN {charge} ELSE {}) \cup (IF over THEN {charge} ELSE {}) \cup
             (IF c.risk THEN {handing} ELSE {}) \cup (IF c.dispute THEN {stop} ELSE {}) \cup
             (IF c.opted_out THEN {quiet} ELSE {}) \cup MaxAttempts(c) \cup ContactCooldown(c)
  BY DEF RulesV1
<1> HIDE DEF charge, handing, stop, quiet, cool, found, over
<1>4. /\ found \subseteq {charge, handing, stop, quiet, cool}
      /\ c.domestic \/ over => charge \in found
      /\ c.risk \/ spent => handing \in found
      /\ c.dispute => stop \in found
      /\ c.opted_out => quiet \in found
      /\ cooling => cool \in found
  BY <1>2, <1>3
<1>5. ASSUME NEW h \in found
      PROVE  \/ h = charge /\ (c.domestic \/ over)
             \/ h = handing /\ (c.risk \/ spent)
             \/ h = stop /\ c.dispute
             \/ h = quiet /\ c.opted_out
             \/ h = cool /\ cooling
  BY <1>2, <1>3, <1>5
<1> DEFINE union == UNION {h.blocks : h \in found}
           halting == \E h \in found : h.stops
<1>6. /\ ManualCharge \in AutomatedCollection /\ ManualCharge \notin ContactActions
      /\ PaymentLink \in AutomatedCollection /\ PaymentLink \in ContactActions
      /\ ContactActions \subseteq AutomatedCollection /\ PaymentLink # ManualCharge
      /\ NoAction \notin AutomatedCollection /\ Escalate \notin AutomatedCollection
  BY DEF ManualCharge, PaymentLink, NoAction, Escalate, AutomatedCollection, ContactActions
<1>7. /\ union \subseteq AutomatedCollection
      /\ ManualCharge \in union <=> c.domestic \/ over \/ c.risk \/ spent \/ c.dispute
      /\ PaymentLink \in union <=> c.risk \/ spent \/ c.dispute \/ c.opted_out \/ cooling
  <2>1. union \subseteq AutomatedCollection
    BY <1>1, <1>5, <1>6
  <2>2. ManualCharge \in union => c.domestic \/ over \/ c.risk \/ spent \/ c.dispute
    BY <1>1, <1>5, <1>6
  <2>3. PaymentLink \in union => c.risk \/ spent \/ c.dispute \/ c.opted_out \/ cooling
    BY <1>1, <1>5, <1>6
  <2>4. c.domestic \/ over \/ c.risk \/ spent \/ c.dispute => ManualCharge \in union
    BY <1>1, <1>4, <1>6
  <2>5. c.risk \/ spent \/ c.dispute \/ c.opted_out \/ cooling => PaymentLink \in union
    BY <1>1, <1>4, <1>6
  <2> HIDE DEF union
  <2> QED
    BY <2>1, <2>2, <2>3, <2>4, <2>5
<1>8. halting => c.dispute
  BY <1>1, <1>5
<1>9. EvaluateV1(c).blocked =
        (union \ ({NoAction} \cup (IF \E h \in found : h.escalates THEN {Escalate} ELSE {})))
          \cup (IF halting THEN AutomatedCollection ELSE {})
  BY DEF EvaluateV1, EvaluatePolicy, found
<1> HIDE DEF union, halting
<1>10. EvaluateV1(c).blocked = union \cup (IF halting THEN AutomatedCollection ELSE {})
  BY <1>6, <1>7, <1>9
<1> QED
  BY <1>6, <1>7, <1>8, <1>10 DEF over

\* The sentences of all reasons say what is blocked, no more and no less.
LEMMA SentencesSayBlocked ==
  ASSUME NEW c
  PROVE  (UNION {SentenceBlocks(code) : code \in ReasonCodes(c)}) = EvaluateV1(c).blocked
<1>1. /\ SentenceBlocks("DOMESTIC_CARD_MANUAL_CHARGE_UNSUPPORTED") = {ManualCharge}
      /\ SentenceBlocks("MANDATE_CAP_EXCEEDED") = {ManualCharge}
      /\ SentenceBlocks("RISK_FLAG_PRESENT") = AutomatedCollection
      /\ SentenceBlocks("ACTIVE_DISPUTE") = AutomatedCollection
      /\ SentenceBlocks("MAX_ATTEMPTS_REACHED") = AutomatedCollection
      /\ SentenceBlocks("CUSTOMER_OPTED_OUT") = {PaymentLink}
      /\ SentenceBlocks("CONTACT_COOLDOWN_ACTIVE") = {PaymentLink}
  BY DEF SentenceBlocks
<1> DEFINE said == UNION {SentenceBlocks(code) : code \in ReasonCodes(c)}
<1>2. AutomatedCollection = {PaymentLink, ManualCharge} /\ PaymentLink # ManualCharge
  BY DEF AutomatedCollection, PaymentLink, ManualCharge
<1>3. \A a : a \in said <=> \E code \in ReasonCodes(c) : a \in SentenceBlocks(code)
  OBVIOUS
<1> HIDE DEF said
<1>4. said \subseteq AutomatedCollection
  BY <1>1, <1>2, <1>3, CodesOfRules DEF Codes
<1>5. ManualCharge \in said <=>
        \/ c.domestic \/ c.backlog > c.mandate \/ c.risk \/ c.dispute \/ MaxAttempts(c) # {}
  BY <1>1, <1>2, <1>3, CodesOfRules DEF Codes
<1>6. PaymentLink \in said <=>
        \/ c.risk \/ c.dispute \/ MaxAttempts(c) # {}
        \/ c.opted_out \/ ContactCooldown(c) # {}
  BY <1>1, <1>2, <1>3, CodesOfRules DEF Codes
<1>7. said = EvaluateV1(c).blocked
  <2> DEFINE taken == EvaluateV1(c).blocked
  <2>1. /\ taken \subseteq AutomatedCollection
        /\ ManualCharge \in said <=> ManualCharge \in taken
        /\ PaymentLink \in said <=> PaymentLink \in taken
    BY <1>5, <1>6, BlockedByRules
  <2> HIDE DEF taken
  <2>2. said = taken
    BY <1>2, <1>4, <2>1
  <2> QED
    BY <2>2 DEF taken
<1> QED
  BY <1>7 DEF said

\* What a reader was told is true of the facts it was told about.
ToldThePolicy(x) ==
  /\ (x.pc = "explained" /\ x.said.source = "deterministic") =>
       (UNION {SentenceBlocks(code) : code \in x.said.codes}) = x.facts.blocked
  /\ (x.pc = "answered" /\ x.said.topic = "manual charge") =>
       /\ \A code \in x.said.reasons : ManualCharge \in SentenceBlocks(code)
       /\ x.said.reasons # {} => ManualCharge \in x.facts.blocked

ReadersInv ==
  /\ reader = [r \in Readers |-> reader[r]]
  /\ \A r \in Readers : ToldThePolicy(reader[r])

LEMMA ExplanationsTell ==
  ASSUME NEW prefer_llm, NEW e \in MayExplain(Facts, prefer_llm)
  PROVE  ToldThePolicy([pc |-> "explained", facts |-> Facts, said |-> e])
<1>1. Facts.codes = ReasonCodes(Context) /\ Facts.blocked = EvaluateV1(Context).blocked
  BY DEF Facts
<1> DEFINE f == Facts
           x == [pc |-> "explained", facts |-> f, said |-> e]
<1>2. x.pc = "explained" /\ x.facts = f /\ x.said = e
  OBVIOUS
<1>3. CASE e = DeterministicExplain(f)
  <2>1. e.source = "deterministic" /\ e.codes = f.codes
    BY <1>3 DEF DeterministicExplain
  <2>2. (UNION {SentenceBlocks(code) : code \in e.codes}) = f.blocked
    BY <1>1, <2>1, SentencesSayBlocked
  <2> HIDE DEF f, x
  <2>3. ToldThePolicy(x)
    BY <1>2, <2>1, <2>2 DEF ToldThePolicy
  <2> QED
    BY <2>3 DEF x, f
<1>4. CASE e # DeterministicExplain(f)
  <2>1. PICK y \in Explanations :
          IsGrounded(y, f) /\ e = [source |-> "llm", codes |-> y.codes, forbidden |-> y.forbidden]
    BY <1>4 DEF MayExplain
  <2>2. e.source # "deterministic"
    BY <2>1
  <2> HIDE DEF f, x
  <2>3. ToldThePolicy(x)
    BY <1>2, <2>2 DEF ToldThePolicy
  <2> QED
    BY <2>3 DEF x, f
<1> QED
  BY <1>3, <1>4

LEMMA AnswersTell ==
  ASSUME NEW question
  PROVE  ToldThePolicy([pc |-> "answered", facts |-> Facts, said |-> Answer(question, Facts)])
<1> DEFINE f == Facts
           a == Answer(question, f)
           x == [pc |-> "answered", facts |-> f, said |-> a]
<1>1. x.pc = "answered" /\ x.facts = f /\ x.said = a
  OBVIOUS
<1>2. a.topic = "manual charge" => a.reasons = ChargeReasons(f)
  BY DEF Answer
<1>3. \A code \in ChargeCodes : ManualCharge \in SentenceBlocks(code)
  BY DEF ChargeCodes, SentenceBlocks, AutomatedCollection
<1>4. /\ \A code \in ChargeReasons(f) : ManualCharge \in SentenceBlocks(code)
      /\ ChargeReasons(f) # {} => ManualCharge \in f.blocked
  BY <1>3 DEF ChargeReasons
<1> HIDE DEF f, a, x
<1>5. ToldThePolicy(x)
  BY <1>1, <1>2, <1>4 DEF ToldThePolicy
<1> QED
  BY <1>5 DEF x, a, f

LEMMA OneReader ==
  ASSUME ReadersInv, NEW r, NEW x, ToldThePolicy(x), reader' = [reader EXCEPT ![r] = x]
  PROVE  ReadersInv'
<1>1. reader' = [o \in Readers |-> IF o = r THEN x ELSE reader[o]]
  BY DEF ReadersInv
<1> QED
  BY <1>1 DEF ReadersInv, ToldThePolicy

LEMMA ReadersStep == ReadersInv /\ [Next]_languageVars => ReadersInv'
<1> SUFFICES ASSUME ReadersInv, [Next]_languageVars
             PROVE  ReadersInv'
  OBVIOUS
<1>1. CASE UNCHANGED reader
  BY <1>1 DEF ReadersInv, ToldThePolicy
<1>2. ASSUME NEW r, NEW prefer_llm, Explain(r, prefer_llm)
      PROVE  ReadersInv'
  BY <1>2, ExplanationsTell, OneReader DEF Explain
<1>3. ASSUME NEW r, NEW question, Ask(r, question)
      PROVE  ReadersInv'
  BY <1>3, AnswersTell, OneReader DEF Ask
<1>4. ASSUME NEW q, NEW text, NEW prefer_llm, NEW apply, Extract(q, text, prefer_llm, apply)
      PROVE  UNCHANGED reader
  BY <1>4 DEF Extract
<1>5. ASSUME NEW q, Propose(q) \/ SetFlags(q) \/ Accept(q) \/ Reject(q) \/ Dies(q)
      PROVE  UNCHANGED reader
  BY <1>5 DEF Propose, SetFlags, Accept, Reject, Dies
<1> QED
  BY <1>1, <1>2, <1>3, <1>4, <1>5 DEF Next, languageVars

\* For any case and any flags, what users are told of policy without a language
\* model is what the policy engine decided: rule by rule, the sentences of the reason
\* codes block what the rules of those codes subtract, and the deterministic answer
\* about a manual charge gives reasons that block one.  Of what a model words,
\* nothing is claimed.
THEOREM UsersAreToldThePolicy == Spec => []TellsThePolicy
<1>1. Init => ReadersInv
  <2> SUFFICES ASSUME Init PROVE ReadersInv
    OBVIOUS
  <2>1. reader = [r \in Readers |-> reader[r]] /\ \A r \in Readers : reader[r].pc = "idle"
    BY DEF Init, Idle
  <2> QED
    BY <2>1 DEF ReadersInv, ToldThePolicy
<1>2. ReadersInv => TellsThePolicy
  BY DEF ReadersInv, ToldThePolicy, TellsThePolicy
<1> QED
  BY <1>1, <1>2, ReadersStep, PTL DEF Spec

-----------------------------------------------------------------------------
(* The trail and the flags.                                                *)

Telling(f) == {i \in Accepted : trail[i].proposal.findings[f] # "unsaid"}

TellingSignals == {i \in Accepted : trail[i].proposal.risk_signals # {}}

\* What the trail has of a flag, and what it will have once p is on it.
Told(f) == IF LastFinding(f) = "unsaid" THEN traffic.flags[f] ELSE LastFinding(f) = "yes"

ToldSignals == IF LastSignals = {} THEN traffic.flags.risk ELSE LastSignals

FlagsAreToldBy(p) ==
  /\ \A f \in Fields :
       flags[f] = IF p.findings[f] = "unsaid" THEN Told(f) ELSE p.findings[f] = "yes"
  /\ flags.risk = IF p.risk_signals = {} THEN ToldSignals ELSE p.risk_signals

\* An update that was proposed with something to apply.
Promised(q) ==
  \E i \in DOMAIN trail :
    /\ trail[i].kind = "PROPOSED" /\ trail[i].by = q /\ trail[i].apply
    /\ HasFacts(trail[i].proposal)

Accepting == {q \in Extractions : extraction[q].pc = "accepting"}

LinesInv ==
  /\ \E S : trail \in Seq(S)
  /\ \A i \in DOMAIN trail : trail[i].kind \in {"ACCEPTED", "REJECTED"} =>
       trail[i].by \in Extractions /\ extraction[trail[i].by].pc = "answered"
  /\ \A q \in Extractions : extraction[q].pc \in {"applying", "accepting"} => Promised(q)
  /\ \A f \in Fields : Telling(f) = {} \/ \E m \in Telling(f) : \A j \in Telling(f) : m >= j
  /\ TellingSignals = {} \/ \E m \in TellingSignals : \A j \in TellingSignals : m >= j

FlagsInv ==
  \/ overlapped
  \/ \E q \in Extractions : extraction[q].pc = "dead" /\ Promised(q)
  \/ Accepting = {} /\ FlagsAreToldBy(Nothing)
  \/ \E q \in Extractions : Accepting = {q} /\ FlagsAreToldBy(extraction[q].proposal)

LEMMA LongerTrail ==
  ASSUME NEW S, trail \in Seq(S), NEW line, trail' = Append(trail, line)
  PROVE  /\ \E T : trail' \in Seq(T)
         /\ Len(trail) \in Nat /\ DOMAIN trail = 1..Len(trail)
         /\ DOMAIN trail' = 1..(Len(trail) + 1)
         /\ trail'[Len(trail) + 1] = line
         /\ \A i \in DOMAIN trail : i \in DOMAIN trail' /\ trail'[i] = trail[i]
<1>1. /\ Len(trail) \in Nat /\ DOMAIN trail = 1..Len(trail)
      /\ \A i \in DOMAIN trail : trail[i] \in S
  OBVIOUS
<1>2. /\ DOMAIN trail' = 1..(Len(trail) + 1)
      /\ trail'[Len(trail) + 1] = line
      /\ \A i \in DOMAIN trail : i \in DOMAIN trail' /\ trail'[i] = trail[i]
  BY <1>1
<1>3. trail \in Seq(S \cup {line}) /\ line \in S \cup {line}
  OBVIOUS
<1>4. trail' \in Seq(S \cup {line})
  BY <1>3
<1> QED
  BY <1>1, <1>2, <1>4

\* The last of some numbers: the new one, or the one it was.
LEMMA MaxIsIt ==
  ASSUME NEW N \in SUBSET Int, NEW m \in N, \A j \in N : m >= j
  PROVE  Max(N) = m
<1>1. Max(N) \in N /\ \A j \in N : Max(N) >= j
  BY DEF Max
<1> DEFINE x == Max(N)
<1>2. x \in Int /\ m \in Int /\ x >= m /\ m >= x
  BY <1>1
<1> HIDE DEF x
<1> QED
  BY <1>2 DEF x

\* A line that accepts nothing tells nothing.
LEMMA OtherLine ==
  ASSUME LinesInv, UNCHANGED traffic, NEW line, trail' = Append(trail, line),
         line.kind # "ACCEPTED"
  PROVE  /\ \A f \in Fields : Telling(f)' = Telling(f) /\ Told(f)' = Told(f)
         /\ TellingSignals' = TellingSignals /\ ToldSignals' = ToldSignals
<1>1. PICK S : trail \in Seq(S)
  BY DEF LinesInv
<1> DEFINE n == Len(trail) + 1
<1>2. /\ n \in Nat /\ DOMAIN trail' = DOMAIN trail \cup {n} /\ trail'[n] = line
      /\ \A i \in DOMAIN trail : trail'[i] = trail[i]
  BY <1>1, LongerTrail
<1> HIDE DEF n
<1>3. Accepted' = Accepted /\ \A i \in Accepted : trail'[i] = trail[i]
  BY <1>2 DEF Accepted
<1>4. ASSUME NEW f \in Fields
      PROVE  Telling(f)' = Telling(f) /\ Told(f)' = Told(f)
  <2>1. Telling(f)' = Telling(f)
    BY <1>3 DEF Telling
  <2>2. Telling(f) = {} \/ Max(Telling(f)) \in Accepted
    BY DEF LinesInv, Max, Telling
  <2>3. Telling(f) = {} \/ trail'[Max(Telling(f))] = trail[Max(Telling(f))]
    BY <1>3, <2>2
  <2>4. LastFinding(f)' = LastFinding(f)
    BY <2>1, <2>3 DEF LastFinding, LastOf, Telling
  <2> QED
    BY <2>1, <2>4 DEF Told
<1>5. TellingSignals' = TellingSignals
  BY <1>3 DEF TellingSignals
<1>6. TellingSignals = {} \/ Max(TellingSignals) \in Accepted
  BY DEF LinesInv, Max, TellingSignals
<1>7. TellingSignals = {} \/ trail'[Max(TellingSignals)] = trail[Max(TellingSignals)]
  BY <1>3, <1>6
<1>8. LastSignals' = LastSignals
  BY <1>5, <1>7 DEF LastSignals, LastOf, TellingSignals
<1> QED
  BY <1>4, <1>5, <1>8 DEF ToldSignals

\* A line that accepts tells all that its update says, and nothing else.
LEMMA AcceptingLine ==
  ASSUME LinesInv, UNCHANGED traffic, NEW line, trail' = Append(trail, line),
         line.kind = "ACCEPTED", NEW p, line.proposal = p
  PROVE  /\ \A f \in Fields :
              /\ Told(f)' = IF p.findings[f] = "unsaid" THEN Told(f) ELSE p.findings[f] = "yes"
              /\ Telling(f)' = {} \/ \E m \in Telling(f)' : \A j \in Telling(f)' : m >= j
         /\ ToldSignals' = IF p.risk_signals = {} THEN ToldSignals ELSE p.risk_signals
         /\ TellingSignals' = {} \/ \E m \in TellingSignals' : \A j \in TellingSignals' : m >= j
<1>1. PICK S : trail \in Seq(S)
  BY DEF LinesInv
<1> DEFINE n == Len(trail) + 1
<1>2. /\ n \in Nat /\ DOMAIN trail' = DOMAIN trail \cup {n} /\ trail'[n] = line
      /\ \A i \in DOMAIN trail : trail'[i] = trail[i]
      /\ DOMAIN trail \subseteq Int /\ \A i \in DOMAIN trail : n >= i
  BY <1>1, LongerTrail
<1> HIDE DEF n
<1>3. /\ Accepted' = Accepted \cup {n} /\ Accepted \subseteq DOMAIN trail
      /\ \A i \in Accepted : trail'[i] = trail[i]
  BY <1>2 DEF Accepted
<1>4. ASSUME NEW f \in Fields
      PROVE  /\ Told(f)' = IF p.findings[f] = "unsaid" THEN Told(f) ELSE p.findings[f] = "yes"
             /\ Telling(f)' = {} \/ \E m \in Telling(f)' : \A j \in Telling(f)' : m >= j
  <2>1. CASE p.findings[f] = "unsaid"
    <3>1. Telling(f)' = Telling(f)
      BY <1>2, <1>3, <2>1 DEF Telling
    <3>2. Telling(f) = {} \/ Max(Telling(f)) \in Accepted
      BY DEF LinesInv, Max, Telling
    <3>3. Telling(f) = {} \/ trail'[Max(Telling(f))] = trail[Max(Telling(f))]
      BY <1>3, <3>2
    <3>4. LastFinding(f)' = LastFinding(f)
      BY <3>1, <3>3 DEF LastFinding, LastOf, Telling
    <3> QED
      BY <2>1, <3>1, <3>4 DEF Told, LinesInv
  <2>2. CASE p.findings[f] # "unsaid"
    <3>1. /\ n \in Telling(f)' /\ Telling(f)' \subseteq Int
          /\ \A j \in Telling(f)' : n >= j
      BY <1>2, <1>3, <2>2 DEF Telling
    <3>2. Max(Telling(f)') = n
      BY <3>1, MaxIsIt
    <3>3. LastFinding(f)' = trail'[Max(Telling(f)')].proposal.findings[f]
      BY <3>1 DEF LastFinding, LastOf, Telling
    <3>4. LastFinding(f)' = p.findings[f]
      BY <1>2, <3>2, <3>3
    <3> QED
      BY <2>2, <3>1, <3>4 DEF Told
  <2> QED
    BY <2>1, <2>2
<1>5. CASE p.risk_signals = {}
  <2>1. TellingSignals' = TellingSignals
    BY <1>2, <1>3, <1>5 DEF TellingSignals
  <2>2. TellingSignals = {} \/ Max(TellingSignals) \in Accepted
    BY DEF LinesInv, Max, TellingSignals
  <2>3. TellingSignals = {} \/ trail'[Max(TellingSignals)] = trail[Max(TellingSignals)]
    BY <1>3, <2>2
  <2>4. LastSignals' = LastSignals
    BY <2>1, <2>3 DEF LastSignals, LastOf, TellingSignals
  <2> QED
    BY <1>4, <1>5, <2>1, <2>4 DEF ToldSignals, LinesInv
<1>6. CASE p.risk_signals # {}
  <2>1. /\ n \in TellingSignals' /\ TellingSignals' \subseteq Int
        /\ \A j \in TellingSignals' : n >= j
    BY <1>2, <1>3, <1>6 DEF TellingSignals
  <2>2. Max(TellingSignals') = n
    BY <2>1, MaxIsIt
  <2>3. LastSignals' = trail'[Max(TellingSignals')].proposal.risk_signals
    BY <2>1 DEF LastSignals, LastOf, TellingSignals
  <2>4. LastSignals' = p.risk_signals
    BY <1>2, <2>2, <2>3
  <2> QED
    BY <1>4, <1>6, <2>1, <2>4 DEF ToldSignals
<1> QED
  BY <1>4, <1>5, <1>6

\* What a request that goes to another place keeps, and all others.
LEMMA KeepsItsProposal ==
  ASSUME CheckedInv, NEW q \in Extractions, extraction[q] # Idle, NEW place,
         extraction' = [extraction EXCEPT ![q].pc = place]
  PROVE  /\ extraction'[q].pc = place /\ extraction'[q].proposal = extraction[q].proposal
         /\ \A o \in Extractions : o # q => extraction'[o] = extraction[o]
<1> DEFINE old == extraction[q]
<1>1. old = [pc |-> old.pc, text |-> old.text, apply |-> old.apply, proposal |-> old.proposal]
  BY DEF CheckedInv, ExtractionIsChecked
<1>2. extraction' = [o \in Extractions |-> IF o = q THEN [old EXCEPT !.pc = place]
                                          ELSE extraction[o]]
  BY DEF CheckedInv
<1>3. [old EXCEPT !.pc = place].pc = place /\ [old EXCEPT !.pc = place].proposal = old.proposal
  BY <1>1
<1> HIDE DEF old
<1> QED
  BY <1>2, <1>3 DEF old
LEMMA Proceeds ==
  ASSUME CheckedInv, NEW q \in Extractions,
         Propose(q) \/ SetFlags(q) \/ Accept(q) \/ Reject(q) \/ Dies(q)
  PROVE  /\ extraction[q] # Idle
         /\ extraction'[q].proposal = extraction[q].proposal
         /\ extraction'[q].pc \in {"applying", "rejecting", "answered", "accepting", "dead"}
         /\ extraction'[q].pc = "applying" =>
              /\ Propose(q) /\ extraction[q].apply /\ HasFacts(extraction[q].proposal)
         /\ extraction'[q].pc = "accepting" <=> SetFlags(q)
         /\ extraction'[q].pc = "dead" <=> Dies(q)
         /\ Accept(q) \/ Reject(q) => extraction'[q].pc = "answered"
         /\ \A o \in Extractions : o # q => extraction'[o] = extraction[o]
<1>1. extraction[q] # Idle
  BY DEF Idle, Propose, SetFlags, Accept, Reject, Dies
<1>2. /\ SetFlags(q) => extraction'[q].pc = "accepting"
      /\ Accept(q) \/ Reject(q) => extraction'[q].pc = "answered"
      /\ Dies(q) => extraction'[q].pc = "dead"
      /\ SetFlags(q) \/ Accept(q) \/ Reject(q) \/ Dies(q) =>
           /\ extraction'[q].proposal = extraction[q].proposal
           /\ \A o \in Extractions : o # q => extraction'[o] = extraction[o]
  <2>1. /\ SetFlags(q) => extraction' = [extraction EXCEPT ![q].pc = "accepting"]
        /\ Accept(q) \/ Reject(q) => extraction' = [extraction EXCEPT ![q].pc = "answered"]
        /\ Dies(q) => extraction' = [extraction EXCEPT ![q].pc = "dead"]
    BY DEF SetFlags, Accept, Reject, Dies
  <2>2. ASSUME NEW place, extraction' = [extraction EXCEPT ![q].pc = place]
        PROVE  /\ extraction'[q].pc = place
               /\ extraction'[q].proposal = extraction[q].proposal
               /\ \A o \in Extractions : o # q => extraction'[o] = extraction[o]
    BY <1>1, <2>2, KeepsItsProposal
  <2> QED
    BY <2>1, <2>2
<1>3. CASE Propose(q)
  <2> DEFINE me == extraction[q]
             place == IF me.apply /\ Supported(me.proposal, me.text) /\ HasFacts(me.proposal)
                      THEN "applying"
                      ELSE IF me.apply /\ ~Supported(me.proposal, me.text) THEN "rejecting"
                      ELSE "answered"
  <2>1. extraction' = [extraction EXCEPT ![q].pc = place] /\ me.pc = "proposing"
    BY <1>3 DEF Propose
  <2>2. /\ place \in {"applying", "rejecting", "answered"}
        /\ place = "applying" => me.apply /\ HasFacts(me.proposal)
    OBVIOUS
  <2>3. ~SetFlags(q) /\ ~Accept(q) /\ ~Reject(q)
    BY <2>1 DEF SetFlags, Accept, Reject
  <2> HIDE DEF place
  <2>4. extraction'[q].pc = place
    BY <1>1, <2>1, KeepsItsProposal
  <2>5. ~Dies(q)
    BY <1>2, <2>2, <2>4
  <2> QED
    BY <1>1, <1>3, <2>1, <2>2, <2>3, <2>4, <2>5, KeepsItsProposal
<1>4. CASE SetFlags(q)
  <2>1. ~Accept(q) /\ ~Reject(q)
    BY <1>4 DEF SetFlags, Accept, Reject
  <2>2. extraction'[q].pc = "accepting"
    BY <1>4, <1>2
  <2>3. ~Dies(q)
    BY <1>2, <2>2
  <2> QED
    BY <1>1, <1>4, <1>2, <2>1, <2>2, <2>3
<1>5. CASE Accept(q) \/ Reject(q)
  <2>1. ~SetFlags(q) /\ ~Dies(q) /\ extraction'[q].pc = "answered"
    BY <1>5, <1>2
  <2> QED
    BY <1>1, <1>5, <1>2, <2>1
<1>6. CASE Dies(q)
  <2>1. extraction'[q].pc = "dead" /\ ~SetFlags(q) /\ ~Accept(q) /\ ~Reject(q)
    BY <1>6, <1>2
  <2> QED
    BY <1>1, <1>6, <1>2, <2>1
<1> QED
  BY <1>3, <1>4, <1>5, <1>6

\* Only the steps of one extraction touch the trail, the flags and its progress.
LEMMA ByOneExtraction ==
  ASSUME [Next]_languageVars
  PROVE  /\ UNCHANGED traffic
         /\ \/ UNCHANGED <<flags, trail, extraction, overlapped>>
            \/ \E q \in Extractions, text \in Texts, prefer_llm, apply \in BOOLEAN :
                 Extract(q, text, prefer_llm, apply)
            \/ \E q \in Extractions : Propose(q) \/ SetFlags(q) \/ Accept(q) \/ Reject(q) \/ Dies(q)
BY DEF Next, languageVars, fixed, Extract, Propose, SetFlags, Accept, Reject, Dies, Explain, Ask

LEMMA TrailWrites ==
  ASSUME NEW q, Propose(q) \/ SetFlags(q) \/ Accept(q) \/ Reject(q) \/ Dies(q)
  PROVE  \/ Propose(q) /\ trail' = Append(trail, Line("PROPOSED", q))
         \/ Accept(q) /\ trail' = Append(trail, Line("ACCEPTED", q))
         \/ Reject(q) /\ trail' = Append(trail, Line("REJECTED", q))
         \/ ~Propose(q) /\ ~Accept(q) /\ trail' = trail
BY DEF Propose, SetFlags, Accept, Reject, Dies

LEMMA BeginsOne ==
  ASSUME CheckedInv, NEW q \in Extractions, NEW text, NEW prefer_llm, NEW apply,
         Extract(q, text, prefer_llm, apply)
  PROVE  /\ extraction[q].pc = "idle" /\ extraction'[q].pc = "proposing"
         /\ \A o \in Extractions : o # q => extraction'[o] = extraction[o]
         /\ UNCHANGED <<flags, trail, overlapped>>
<1>1. PICK p : extraction' = [extraction EXCEPT ![q] =
                 [pc |-> "proposing", text |-> text, apply |-> apply, proposal |-> p]]
  BY DEF Extract
<1>2. extraction' = [o \in Extractions |-> IF o = q
         THEN [pc |-> "proposing", text |-> text, apply |-> apply, proposal |-> p]
         ELSE extraction[o]]
  BY <1>1 DEF CheckedInv
<1> QED
  BY <1>2 DEF Extract, Idle
LEMMA PromisedStays ==
  ASSUME LinesInv, NEW q, Promised(q),
         trail' = trail \/ \E line : trail' = Append(trail, line)
  PROVE  Promised(q)'
<1>1. PICK S : trail \in Seq(S)
  BY DEF LinesInv
<1>2. \A i \in DOMAIN trail : i \in DOMAIN trail' /\ trail'[i] = trail[i]
  BY <1>1, LongerTrail
<1> QED
  BY <1>2 DEF Promised

LEMMA LinesStep == CheckedInv /\ LinesInv /\ [Next]_languageVars => LinesInv'
<1> SUFFICES ASSUME CheckedInv, LinesInv, [Next]_languageVars
             PROVE  LinesInv'
  OBVIOUS
<1>1. CASE UNCHANGED <<flags, trail, extraction, overlapped>>
  BY <1>1 DEF LinesInv, Telling, TellingSignals, Accepted, Promised
<1>2. ASSUME NEW q \in Extractions, NEW text, NEW prefer_llm, NEW apply,
             Extract(q, text, prefer_llm, apply)
      PROVE  LinesInv'
  <2>1. /\ extraction[q].pc = "idle" /\ extraction'[q].pc = "proposing" /\ UNCHANGED trail
        /\ \A o \in Extractions : o # q => extraction'[o] = extraction[o]
    BY <1>2, BeginsOne
  <2>2. \A o \in Extractions :
          extraction[o].pc = "answered" => extraction'[o].pc = "answered"
    BY <2>1
  <2>3. \A o \in Extractions :
          extraction'[o].pc \in {"applying", "accepting"} => Promised(o)'
    BY <2>1 DEF LinesInv, Promised
  <2> QED
    BY <2>1, <2>2, <2>3 DEF LinesInv, Telling, TellingSignals, Accepted
<1>3. ASSUME NEW q \in Extractions,
             Propose(q) \/ SetFlags(q) \/ Accept(q) \/ Reject(q) \/ Dies(q)
      PROVE  LinesInv'
  <2>1. PICK S : trail \in Seq(S)
    BY DEF LinesInv
  <2>2. /\ \A o \in Extractions : o # q => extraction'[o] = extraction[o]
        /\ extraction[q].pc # "answered"
    BY <1>3, Proceeds DEF Propose, SetFlags, Accept, Reject, Dies
  <2>3. \A o \in Extractions :
          extraction[o].pc = "answered" => extraction'[o].pc = "answered"
    BY <2>2
  <2>4. \E T : trail' \in Seq(T)
    BY <1>3, <2>1, TrailWrites, LongerTrail
  <2>5. ASSUME NEW i \in DOMAIN trail', trail'[i].kind \in {"ACCEPTED", "REJECTED"}
        PROVE  trail'[i].by \in Extractions /\ extraction'[trail'[i].by].pc = "answered"
    <3>1. CASE i \in DOMAIN trail /\ trail'[i] = trail[i]
      BY <2>3, <2>5, <3>1 DEF LinesInv
    <3>2. ASSUME NEW kind, trail'[i] = Line(kind, q), Accept(q) \/ Reject(q)
          PROVE  trail'[i].by \in Extractions /\ extraction'[trail'[i].by].pc = "answered"
      BY <3>2, Proceeds DEF Line
    <3>3. CASE Propose(q) /\ trail'[i] = Line("PROPOSED", q)
      BY <2>5, <3>3 DEF Line
    <3>4. ASSUME NEW line, trail' = Append(trail, line)
          PROVE  (i \in DOMAIN trail /\ trail'[i] = trail[i]) \/ trail'[i] = line
      BY <2>1, <3>4, LongerTrail
    <3> QED
      BY <1>3, <3>1, <3>2, <3>3, <3>4, TrailWrites
  <2>6. ASSUME NEW o \in Extractions, extraction'[o].pc \in {"applying", "accepting"}
        PROVE  Promised(o)'
    <3>1. CASE o = q /\ extraction'[q].pc = "applying"
      <4>1. /\ trail' = Append(trail, Line("PROPOSED", q))
            /\ extraction[q].apply /\ HasFacts(extraction[q].proposal)
        BY <1>3, <3>1, Proceeds, TrailWrites DEF Propose
      <4> DEFINE n == Len(trail) + 1
      <4>2. n \in DOMAIN trail' /\ trail'[n] = Line("PROPOSED", q)
        BY <2>1, <4>1, LongerTrail
      <4>3. /\ trail'[n].kind = "PROPOSED" /\ trail'[n].by = q /\ trail'[n].apply
            /\ HasFacts(trail'[n].proposal)
        BY <4>1, <4>2 DEF Line
      <4> QED
        BY <3>1, <4>2, <4>3 DEF Promised, HasFacts
    <3>2. CASE ~(o = q /\ extraction'[q].pc = "applying")
      <4>1. extraction[o].pc \in {"applying", "accepting"}
        BY <1>3, <2>6, <3>2, Proceeds DEF SetFlags
      <4>2. Promised(o)
        BY <4>1 DEF LinesInv
      <4> QED
        BY <1>3, <4>2, PromisedStays, TrailWrites
    <3> QED
      BY <3>1, <3>2
  <2>7. /\ \A f \in Fields :
             Telling(f)' = {} \/ \E m \in Telling(f)' : \A j \in Telling(f)' : m >= j
        /\ TellingSignals' = {} \/ \E m \in TellingSignals' : \A j \in TellingSignals' : m >= j
    <3>1. UNCHANGED traffic
      BY ByOneExtraction
    <3>2. CASE trail' = trail
      BY <3>2 DEF LinesInv, Telling, TellingSignals, Accepted
    <3>3. CASE Accept(q) /\ trail' = Append(trail, Line("ACCEPTED", q))
      <4>1. Line("ACCEPTED", q).kind = "ACCEPTED"
        BY DEF Line
      <4> QED
        BY <3>1, <3>3, <4>1, AcceptingLine
    <3>4. ASSUME NEW kind, kind # "ACCEPTED", trail' = Append(trail, Line(kind, q))
          PROVE  /\ \A f \in Fields : Telling(f)' = Telling(f)
                 /\ TellingSignals' = TellingSignals
      <4>1. Line(kind, q).kind # "ACCEPTED"
        BY <3>4 DEF Line
      <4> QED
        BY <3>1, <3>4, <4>1, OtherLine
    <3>5. CASE \E kind : kind # "ACCEPTED" /\ trail' = Append(trail, Line(kind, q))
      BY <3>4, <3>5 DEF LinesInv
    <3> QED
      BY <1>3, <3>2, <3>3, <3>5, TrailWrites
  <2> QED
    BY <2>4, <2>5, <2>6, <2>7 DEF LinesInv
<1> QED
  BY <1>1, <1>2, <1>3, ByOneExtraction DEF Next
\* Setting flags that are as told makes them as told by the update.
LEMMA SettingFlags ==
  ASSUME FlagsAreToldBy(Nothing), NEW p, flags' = Updated(flags, p), UNCHANGED <<traffic, trail>>
  PROVE  FlagsAreToldBy(p)'
<1>1. /\ \A f \in Fields : flags[f] = Told(f)
      /\ flags.risk = ToldSignals
  BY DEF FlagsAreToldBy, Nothing
<1>2. /\ \A f \in Fields : Told(f)' = Told(f)
      /\ ToldSignals' = ToldSignals
  BY DEF Told, ToldSignals, LastFinding, LastSignals, LastOf, Accepted
<1>3. \A f \in Fields :
        flags'[f] = IF p.findings[f] = "unsaid" THEN flags[f] ELSE p.findings[f] = "yes"
  BY DEF Updated, Fields
<1>4. flags'.risk = IF p.risk_signals = {} THEN flags.risk ELSE p.risk_signals
  BY DEF Updated
<1> QED
  BY <1>1, <1>2, <1>3, <1>4 DEF FlagsAreToldBy

\* An accepting line takes over what its update told.
LEMMA AcceptingFlags ==
  ASSUME LinesInv, NEW q, UNCHANGED <<traffic, flags>>,
         trail' = Append(trail, Line("ACCEPTED", q)), FlagsAreToldBy(extraction[q].proposal)
  PROVE  FlagsAreToldBy(Nothing)'
<1>1. /\ Line("ACCEPTED", q).kind = "ACCEPTED"
      /\ Line("ACCEPTED", q).proposal = extraction[q].proposal
  BY DEF Line
<1> DEFINE p == extraction[q].proposal
<1>2. /\ \A f \in Fields :
           Told(f)' = IF p.findings[f] = "unsaid" THEN Told(f) ELSE p.findings[f] = "yes"
      /\ ToldSignals' = IF p.risk_signals = {} THEN ToldSignals ELSE p.risk_signals
  BY <1>1, AcceptingLine
<1>3. /\ \A f \in Fields : flags'[f] = Told(f)'
      /\ flags'.risk = ToldSignals'
  BY <1>2 DEF FlagsAreToldBy
<1>4. (\A f \in Fields : Nothing.findings[f] = "unsaid") /\ Nothing.risk_signals = {}
  BY DEF Nothing
<1> QED
  BY <1>3, <1>4 DEF FlagsAreToldBy

LEMMA OtherFlags ==
  ASSUME LinesInv, UNCHANGED <<traffic, flags>>, NEW p, FlagsAreToldBy(p),
         trail' = trail \/ \E line : line.kind # "ACCEPTED" /\ trail' = Append(trail, line)
  PROVE  FlagsAreToldBy(p)'
<1>1. /\ \A f \in Fields : Told(f)' = Told(f)
      /\ ToldSignals' = ToldSignals
  <2>1. CASE trail' = trail
    BY <2>1 DEF Told, ToldSignals, LastFinding, LastSignals, LastOf, Accepted
  <2>2. CASE \E line : line.kind # "ACCEPTED" /\ trail' = Append(trail, line)
    BY <2>2, OtherLine
  <2> QED
    BY <2>1, <2>2
<1> QED
  BY <1>1 DEF FlagsAreToldBy

LEMMA FlagsStep == CheckedInv /\ LinesInv /\ FlagsInv /\ [Next]_languageVars => FlagsInv'
<1> SUFFICES ASSUME CheckedInv, LinesInv, FlagsInv, [Next]_languageVars
             PROVE  FlagsInv'
  OBVIOUS
<1>1. UNCHANGED traffic
  BY ByOneExtraction
<1>2. CASE UNCHANGED <<flags, trail, extraction, overlapped>>
  <2>1. \A p : FlagsAreToldBy(p) => FlagsAreToldBy(p)'
    BY <1>1, <1>2, OtherFlags
  <2>2. Accepting' = Accepting /\ Nothing' = Nothing
    BY <1>2 DEF Accepting, Nothing
  <2>3. \A q : Promised(q)' = Promised(q)
    BY <1>2 DEF Promised
  <2> QED
    BY <1>2, <2>1, <2>2, <2>3 DEF FlagsInv
<1>3. ASSUME NEW q \in Extractions, NEW text, NEW prefer_llm, NEW apply,
             Extract(q, text, prefer_llm, apply)
      PROVE  FlagsInv'
  <2>1. /\ extraction[q].pc = "idle" /\ extraction'[q].pc = "proposing"
        /\ \A o \in Extractions : o # q => extraction'[o] = extraction[o]
        /\ UNCHANGED <<flags, trail, overlapped>>
    BY <1>3, BeginsOne
  <2>2. \A p : FlagsAreToldBy(p) => FlagsAreToldBy(p)'
    BY <1>1, <2>1, OtherFlags
  <2>3. Accepting' = Accepting /\ \A o : Promised(o)' = Promised(o)
    BY <2>1 DEF Accepting, Promised
  <2>4. \A o \in Extractions :
          extraction[o].pc \in {"dead", "accepting"} => extraction'[o] = extraction[o]
    BY <2>1
  <2>5. ASSUME NEW o \in Extractions, Accepting = {o}, FlagsAreToldBy(extraction[o].proposal)
        PROVE  FlagsInv'
    <3>1. extraction'[o] = extraction[o]
      BY <2>4, <2>5 DEF Accepting
    <3> QED
      BY <2>2, <2>3, <2>5, <3>1 DEF FlagsInv
  <2> QED
    BY <2>1, <2>2, <2>3, <2>4, <2>5 DEF FlagsInv
<1>4. ASSUME NEW q \in Extractions,
             Propose(q) \/ SetFlags(q) \/ Accept(q) \/ Reject(q) \/ Dies(q)
      PROVE  FlagsInv'
  <2>1. \A o \in Extractions : o # q => extraction'[o] = extraction[o]
    BY <1>4, Proceeds
  <2>2. overlapped => overlapped'
    BY <1>4 DEF Propose, SetFlags, Accept, Reject, Dies
  <2>3. ASSUME NEW o \in Extractions, extraction[o].pc = "dead", Promised(o)
        PROVE  FlagsInv'
    <3>1. o # q
      BY <1>4, <2>3 DEF Propose, SetFlags, Accept, Reject, Dies
    <3>2. Promised(o)'
      BY <1>4, <2>3, PromisedStays, TrailWrites
    <3> QED
      BY <2>1, <2>3, <3>1, <3>2 DEF FlagsInv
  <2>4. CASE SetFlags(q)
    <3>1. /\ flags' = Updated(flags, extraction[q].proposal) /\ UNCHANGED trail
          /\ overlapped' = (overlapped \/ \E o \in Extractions : extraction[o].pc = "accepting")
      BY <2>4 DEF SetFlags
    <3>2. CASE Accepting # {}
      BY <3>1, <3>2 DEF Accepting, FlagsInv
    <3>3. CASE Accepting = {} /\ FlagsAreToldBy(Nothing)
      <4>1. FlagsAreToldBy(extraction[q].proposal)'
        <5> DEFINE p == extraction[q].proposal
        <5>1. extraction'[q].proposal = p
          BY <1>4, Proceeds
        <5>2. ASSUME NEW x, x = p
              PROVE  FlagsAreToldBy(x)'
          BY <1>1, <3>1, <3>3, <5>2, SettingFlags
        <5> QED
          BY <5>1, <5>2 DEF FlagsAreToldBy
      <4>2. Accepting' = {q}
        BY <1>4, <2>1, <2>4, <3>3, Proceeds DEF Accepting
      <4> QED
        BY <4>1, <4>2 DEF FlagsInv
    <3> QED
      BY <2>2, <2>3, <3>2, <3>3 DEF FlagsInv
  <2>5. CASE ~SetFlags(q)
    <3>1. UNCHANGED flags
      BY <1>4, <2>5 DEF Propose, Accept, Reject, Dies
    <3>2. Accepting' = Accepting \ {q}
      BY <1>4, <2>1, <2>5, Proceeds DEF Accepting
    <3>3. ASSUME Accepting = {}, FlagsAreToldBy(Nothing)
          PROVE  FlagsInv'
      <4>1. ~Accept(q)
        BY <3>3 DEF Accept, Accepting
      <4>2. FlagsAreToldBy(Nothing)'
        <5>1. /\ Line("PROPOSED", q).kind # "ACCEPTED"
              /\ Line("REJECTED", q).kind # "ACCEPTED"
          BY DEF Line
        <5>2. FlagsAreToldBy(Nothing)
          BY <3>3
        <5> QED
          BY <1>1, <1>4, <3>1, <4>1, <5>1, <5>2, TrailWrites, OtherFlags DEF Nothing
      <4> QED
        BY <3>2, <3>3, <4>2 DEF FlagsInv
    <3>4. ASSUME NEW o \in Extractions, Accepting = {o},
                 FlagsAreToldBy(extraction[o].proposal)
          PROVE  FlagsInv'
      <4>1. CASE Accept(q)
        <5>1. o = q
          BY <3>4, <4>1 DEF Accept, Accepting
        <5>2. FlagsAreToldBy(Nothing)'
          BY <1>1, <3>1, <3>4, <4>1, <5>1, AcceptingFlags DEF Accept
        <5> QED
          BY <3>2, <3>4, <5>1, <5>2 DEF FlagsInv
      <4>2. CASE o # q
        <5>1. ~Accept(q) /\ extraction'[o] = extraction[o]
          BY <2>1, <3>4, <4>2 DEF Accept, Accepting
        <5>2. ASSUME NEW x, x = extraction[o].proposal
              PROVE  FlagsAreToldBy(x)'
          <6>1. /\ Line("PROPOSED", q).kind # "ACCEPTED"
                /\ Line("REJECTED", q).kind # "ACCEPTED"
            BY DEF Line
          <6> QED
            BY <1>1, <1>4, <3>1, <3>4, <5>1, <5>2, <6>1, TrailWrites, OtherFlags
        <5>3. FlagsAreToldBy(extraction[o].proposal)'
          BY <5>1, <5>2 DEF FlagsAreToldBy
        <5> QED
          BY <3>2, <3>4, <4>2, <5>3 DEF FlagsInv
      <4>3. CASE o = q /\ ~Accept(q)
        <5>1. extraction[q].pc = "accepting"
          BY <3>4, <4>3 DEF Accepting
        <5>2. Dies(q)
          BY <1>4, <2>5, <4>3, <5>1 DEF Propose, Reject
        <5>3. Promised(q)'
          <6>1. Promised(q)
            BY <5>1 DEF LinesInv
          <6> QED
            BY <5>2, <6>1 DEF Dies, Promised
        <5> QED
          BY <1>4, <5>2, <5>3, Proceeds DEF FlagsInv
      <4> QED
        BY <4>1, <4>2, <4>3
    <3> QED
      BY <2>2, <2>3, <3>3, <3>4 DEF FlagsInv
  <2> QED
    BY <2>4, <2>5
<1> QED
  BY <1>2, <1>3, <1>4, ByOneExtraction

\* The trail accounts for the flags, for any extractions and any updates: what was
\* written and has its line is what the trail tells; what was written and has none
\* yet is the one update of the one extraction between the two, or of one that died
\* there, whose proposal stays on the trail without a verdict.
THEOREM TrailAccountsForFlags == Spec => []TrailTellsFlags
<1>1. Init => CheckedInv /\ LinesInv /\ FlagsInv
  <2> SUFFICES ASSUME Init PROVE CheckedInv /\ LinesInv /\ FlagsInv
    OBVIOUS
  <2>1. CheckedInv
    BY DEF Init, CheckedInv, ExtractionIsChecked, Idle
  <2>2. trail = << >> /\ \A q \in Extractions : extraction[q].pc = "idle"
    BY DEF Init, Idle
  <2>3. Accepted = {} /\ Accepting = {}
    BY <2>2 DEF Accepted, Accepting
  <2>4. LinesInv
    <3>1. trail \in Seq({}) /\ DOMAIN trail = {}
      BY <2>2
    <3> QED
      BY <2>2, <2>3, <3>1 DEF LinesInv, Telling, TellingSignals
  <2>5. FlagsAreToldBy(Nothing)
    <3>1. flags = traffic.flags
      BY DEF Init
    <3>2. /\ \A f \in Fields : LastFinding(f) = "unsaid"
          /\ LastSignals = {}
      BY <2>3 DEF LastFinding, LastSignals, LastOf, Nothing
    <3> QED
      BY <3>1, <3>2 DEF FlagsAreToldBy, Nothing, Told, ToldSignals
  <2> QED
    BY <2>1, <2>3, <2>4, <2>5 DEF FlagsInv
<1>2. LinesInv /\ FlagsInv => TrailTellsFlags
  <2> SUFFICES ASSUME LinesInv, FlagsInv, ~overlapped PROVE TrailTellsFlags
    BY DEF TrailTellsFlags
  <2>1. ASSUME NEW q \in Extractions, Promised(q), extraction[q].pc # "answered"
        PROVE  TrailTellsFlags
    <3>1. ~Settled(q)
      BY <2>1 DEF Settled, LinesInv
    <3> QED
      BY <2>1, <3>1 DEF Promised, TrailTellsFlags
  <2>2. ASSUME NEW q \in Extractions, Accepting = {q}
        PROVE  TrailTellsFlags
    <3>1. extraction[q].pc = "accepting"
      BY <2>2 DEF Accepting
    <3> QED
      BY <2>1, <3>1 DEF LinesInv
  <2>3. CASE FlagsAreToldBy(Nothing)
    BY <2>3 DEF FlagsAreToldBy, Nothing, Told, ToldSignals, TrailTellsFlags
  <2> QED
    BY <2>1, <2>2, <2>3 DEF FlagsInv
<1> QED
  BY <1>1, <1>2, CheckedStep, LinesStep, FlagsStep, PTL DEF Spec
=============================================================================
