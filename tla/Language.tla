------------------------------- MODULE Language -------------------------------
(***************************************************************************)
(* The language layer of a recovery case.  It extracts facts from what a   *)
(* customer wrote, which may then become flags of the customer; and it     *)
(* explains the case and answers questions about it.  A language model may *)
(* be asked, and may be unavailable or say anything; there is always an    *)
(* answer that needs none.                                                 *)
(*                                                                         *)
(* A text is the set of the phrases it has; a span that is quoted as       *)
(* evidence is one phrase.                                                 *)
(***************************************************************************)
EXTENDS PolicyV1, Sequences, FiniteSetsExt

CONSTANTS
  Extractions,  \* calls of POST /recovery-cases/{id}/extract
  Readers,      \* calls of GET .../explanation and POST .../ask
  Texts,        \* what customers write
  Signals,      \* risk signals
  Proposals,    \* extractions a model may generate
  Explanations, \* explanations it may generate
  Questions,    \* what users ask
  Traffic       \* who calls in a behaviour, about what case and flags

Fields == {"has_dispute", "customer_opted_out"}

Findings == [Fields -> {"unsaid", "yes", "no"}]

\* ExtractionProposal.
Proposal ==
  [findings : Findings, risk_signals : SUBSET Signals,
   evidence : SUBSET [field : Fields, span : STRING]]

\* The customer's flags.
CustomerFlags == [has_dispute : BOOLEAN, customer_opted_out : BOOLEAN, risk : SUBSET Signals]

ASSUME LanguageAssumption ==
  /\ Texts \subseteq SUBSET STRING
  /\ \A p \in Proposals : p.findings \in Findings /\ p.risk_signals \subseteq Signals
  /\ \A t \in Traffic : t.extractions \subseteq Extractions /\ t.readers \subseteq Readers

VARIABLES
  traffic,    \* this behaviour's callers and case
  provider,   \* whether a language provider is configured
  flags,      \* the customer's flags
  trail,      \* the audit lines of extractions
  extraction, \* each extraction's progress and local state
  reader,     \* each reader's answer
  overlapped  \* whether flags were ever set before the last update's line was

languageVars == <<traffic, provider, flags, trail, extraction, reader, overlapped>>

fixed == <<traffic, provider>>

Idle == [pc |-> "idle"]

Init ==
  /\ traffic \in Traffic
  /\ provider \in {"off", "on"}
  /\ flags = traffic.flags
  /\ trail = << >>
  /\ extraction = [q \in Extractions |-> Idle]
  /\ reader = [r \in Readers |-> Idle]
  /\ overlapped = FALSE

-----------------------------------------------------------------------------
(* Extraction.                                                             *)

\* extraction_is_supported: what is raised is quoted, and nothing that is quoted
\* is invented.  What is cleared, and risk, need no evidence.
IsSupported(p, text) ==
  /\ \A f \in Fields : p.findings[f] = "yes" =>
       \E e \in p.evidence : e.field = f /\ e.span # "" /\ e.span \in text
  /\ \A e \in p.evidence : e.span = "" \/ e.span \in text

Nothing ==
  [findings |-> [f \in Fields |-> "unsaid"], risk_signals |-> {}, evidence |-> {}]

Needles == <<"do not want", "opt out", "no further">>

\* The first needle of the text; "opted out" is looked for, and is none.
Quoted(text) ==
  {[field |-> "customer_opted_out", span |-> Needles[i]] :
     i \in {k \in 1..3 : Needles[k] \in text /\ \A j \in 1..(k - 1) : Needles[j] \notin text}}

ExtractWithoutModel(text) ==
  LET opted_out == text \cap ({"opted out"} \cup {Needles[i] : i \in 1..3}) # {}
      dispute == "dispute" \in text
  IN  [findings |-> [has_dispute |-> IF dispute THEN "yes" ELSE "unsaid",
                     customer_opted_out |-> IF opted_out THEN "yes" ELSE "unsaid"],
       risk_signals |-> {},
       evidence |-> {[field |-> "has_dispute", span |-> s] : s \in text \cap {"dispute"}}
                      \cup Quoted(text)]

\* An unsupported proposal gives way to one that says nothing.
Checked(p, text) == IF IsSupported(p, text) THEN p ELSE Nothing

\* CaseExplanationService.extract: what it may answer.  Only the words that stand
\* in for an unavailable model go out as they are.
MayExtract(text, prefer_llm) ==
  IF ~prefer_llm \/ provider = "off"
  THEN {Checked(ExtractWithoutModel(text), text)}
  ELSE {ExtractWithoutModel(text)} \cup {Checked(p, text) : p \in Proposals}

HasFacts(p) == (\E f \in Fields : p.findings[f] = "yes") \/ p.risk_signals # {}

\* Fault: what was checked by the service is not checked again.
IsSupportedAgain(p, text) == TRUE

\* The route checks again what it was given.
Supported(p, text) == IsSupported(p, text)

\* The case is read and its text extracted, without an await in between.
Extract(q, text, prefer_llm, apply) ==
  /\ q \in traffic.extractions
  /\ extraction[q] = Idle
  /\ \E p \in MayExtract(text, prefer_llm) :
       extraction' = [extraction EXCEPT ![q] =
         [pc |-> "proposing", text |-> text, apply |-> apply, proposal |-> p]]
  /\ UNCHANGED <<fixed, flags, trail, reader, overlapped>>

Line(kind, q) == [kind |-> kind, by |-> q, apply |-> extraction[q].apply,
                  proposal |-> extraction[q].proposal]

\* CONTEXT_EXTRACTION_PROPOSED.
Propose(q) ==
  LET me == extraction[q]
      supported == Supported(me.proposal, me.text)
  IN  /\ me.pc = "proposing"
      /\ trail' = Append(trail, Line("PROPOSED", q))
      /\ extraction' = [extraction EXCEPT ![q].pc =
           IF me.apply /\ supported /\ HasFacts(me.proposal) THEN "applying"
           ELSE IF me.apply /\ ~supported THEN "rejecting"
           ELSE "answered"]
      /\ UNCHANGED <<fixed, flags, reader, overlapped>>

\* Fault: no signal is written as an empty list.
UpdatedAll(old, p) ==
  [has_dispute |-> IF p.findings.has_dispute = "unsaid" THEN old.has_dispute
                   ELSE p.findings.has_dispute = "yes",
   customer_opted_out |->
     IF p.findings.customer_opted_out = "unsaid" THEN old.customer_opted_out
     ELSE p.findings.customer_opted_out = "yes",
   risk |-> p.risk_signals]

\* set_flags: what a proposal does not say stays, signals replace signals.
Updated(old, p) ==
  [has_dispute |-> IF p.findings.has_dispute = "unsaid" THEN old.has_dispute
                   ELSE p.findings.has_dispute = "yes",
   customer_opted_out |->
     IF p.findings.customer_opted_out = "unsaid" THEN old.customer_opted_out
     ELSE p.findings.customer_opted_out = "yes",
   risk |-> IF p.risk_signals = {} THEN old.risk ELSE p.risk_signals]

SetFlags(q) ==
  /\ extraction[q].pc = "applying"
  /\ flags' = Updated(flags, extraction[q].proposal)
  /\ extraction' = [extraction EXCEPT ![q].pc = "accepting"]
  /\ overlapped' = (overlapped \/ \E o \in Extractions : extraction[o].pc = "accepting")
  /\ UNCHANGED <<fixed, trail, reader>>

\* CONTEXT_UPDATE_ACCEPTED, with the whole proposal.
Accept(q) ==
  /\ extraction[q].pc = "accepting"
  /\ trail' = Append(trail, Line("ACCEPTED", q))
  /\ extraction' = [extraction EXCEPT ![q].pc = "answered"]
  /\ UNCHANGED <<fixed, flags, reader, overlapped>>

\* CONTEXT_UPDATE_REJECTED.
Reject(q) ==
  /\ extraction[q].pc = "rejecting"
  /\ trail' = Append(trail, Line("REJECTED", q))
  /\ extraction' = [extraction EXCEPT ![q].pc = "answered"]
  /\ UNCHANGED <<fixed, flags, reader, overlapped>>

\* The process dies, or a call raises: nobody takes the request up again.
Dies(q) ==
  /\ extraction[q].pc \in {"proposing", "applying", "accepting", "rejecting"}
  /\ extraction' = [extraction EXCEPT ![q].pc = "dead"]
  /\ UNCHANGED <<fixed, flags, trail, reader, overlapped>>

-----------------------------------------------------------------------------
(* Explanations and answers, of the case and the customer as read.         *)

Context ==
  [domestic |-> traffic.case.domestic, backlog |-> traffic.case.backlog, mandate |-> 1,
   risk |-> flags.risk # {}, dispute |-> flags.has_dispute,
   opted_out |-> flags.customer_opted_out,
   attempts |-> traffic.case.attempts, max_attempts |-> 3, now |-> 24,
   last_contact |-> traffic.case.contact, cooldown |-> 24]

\* The reason codes of the rules that apply.
ReasonCodes(c) ==
  LET applies ==
        [DOMESTIC_CARD_MANUAL_CHARGE_UNSUPPORTED |-> c.domestic,
         MANDATE_CAP_EXCEEDED                    |-> c.backlog > c.mandate,
         RISK_FLAG_PRESENT                       |-> c.risk,
         ACTIVE_DISPUTE                          |-> c.dispute,
         CUSTOMER_OPTED_OUT                      |-> c.opted_out,
         MAX_ATTEMPTS_REACHED                    |-> MaxAttempts(c) # {},
         CONTACT_COOLDOWN_ACTIVE                 |-> ContactCooldown(c) # {}]
  IN  {code \in DOMAIN applies : applies[code]}

\* explanation_facts, as far as anything is said of them.  A model, if there is
\* one, hands over what policy wants escalated and is for one action otherwise;
\* without one the first allowed action is called the recommended one.
Facts ==
  LET decision == EvaluateV1(Context) IN
  [codes |-> ReasonCodes(Context), blocked |-> decision.blocked,
   analysed |-> traffic.model # "none",
   recommended |->
     CASE traffic.model = "none" -> NoAction
       [] traffic.model # "none" /\ (decision.escalates \/ decision.stops) -> Escalate
       [] OTHER -> IF traffic.model \in decision.allowed THEN traffic.model ELSE NoAction]

\* REASON_SENTENCES: what a sentence says is blocked.
SentenceBlocks(code) ==
  CASE code \in {"DOMESTIC_CARD_MANUAL_CHARGE_UNSUPPORTED", "MANDATE_CAP_EXCEEDED"} ->
         {ManualCharge}
    [] code \in {"RISK_FLAG_PRESENT", "ACTIVE_DISPUTE", "MAX_ATTEMPTS_REACHED"} ->
         AutomatedCollection
    [] code \in {"CUSTOMER_OPTED_OUT", "CONTACT_COOLDOWN_ACTIVE"} -> {PaymentLink}

\* deterministic.explain: a sentence of each reason.
DeterministicExplain(facts) ==
  [source |-> "deterministic", codes |-> facts.codes, forbidden |-> FALSE]

\* The codes an ungrounded explanation is recognised by; the others pass.
Suffixed(code) ==
  code \in {"DOMESTIC_CARD_MANUAL_CHARGE_UNSUPPORTED", "MANDATE_CAP_EXCEEDED",
            "INVENTED_CODE_EXCEEDED"}

\* explanation_is_grounded.
IsGrounded(e, facts) ==
  /\ ~e.forbidden
  /\ \A code \in e.codes \ facts.codes : ~Suffixed(code)

\* CaseExplanationService.explain.
MayExplain(facts, prefer_llm) ==
  {DeterministicExplain(facts)} \cup
  (IF ~prefer_llm \/ provider = "off" THEN {}
   ELSE {[source |-> "llm", codes |-> e.codes, forbidden |-> e.forbidden] :
           e \in {x \in Explanations : IsGrounded(x, facts)}})

Explain(r, prefer_llm) ==
  /\ r \in traffic.readers
  /\ reader[r] = Idle
  /\ \E e \in MayExplain(Facts, prefer_llm) :
       reader' = [reader EXCEPT ![r] = [pc |-> "explained", facts |-> Facts, said |-> e]]
  /\ UNCHANGED <<fixed, flags, trail, extraction, overlapped>>

\* The topics answer() looks for, in its order.
Topics ==
  <<"created", "manual charge", "no action", "recommended", "incremental", "policy">>

TopicOf(question) ==
  LET found == {i \in DOMAIN Topics : Topics[i] \in question} IN
  IF found = {} THEN "unknown" ELSE Topics[CHOOSE i \in found : \A j \in found : i <= j]

ChargeCodes ==
  {"DOMESTIC_CARD_MANUAL_CHARGE_UNSUPPORTED", "MANDATE_CAP_EXCEEDED",
   "RISK_FLAG_PRESENT", "ACTIVE_DISPUTE"}

\* Fault: the reasons of every block are given.
ReasonsOfAnyBlock(facts) == IF ManualCharge \in facts.blocked THEN facts.codes ELSE {}

\* The reasons given for a manual charge that is blocked.
ChargeReasons(facts) ==
  IF ManualCharge \in facts.blocked THEN facts.codes \cap ChargeCodes ELSE {}

\* deterministic.answer.
Answer(question, facts) ==
  LET topic == TopicOf(question) IN
  [topic |-> topic,
   insufficient |-> topic = "unknown" \/ (topic = "incremental" /\ ~facts.analysed),
   reasons |-> CASE topic = "manual charge" -> ChargeReasons(facts)
                 [] topic = "policy" -> facts.codes
                 [] OTHER -> {},
   recommended |-> IF topic \in {"no action", "recommended"} THEN facts.recommended
                   ELSE "unsaid"]

\* CaseExplanationService.ask, without a model: nothing a model says is checked.
Ask(r, question) ==
  /\ r \in traffic.readers
  /\ reader[r] = Idle
  /\ reader' = [reader EXCEPT ![r] =
                  [pc |-> "answered", facts |-> Facts, said |-> Answer(question, Facts)]]
  /\ UNCHANGED <<fixed, flags, trail, extraction, overlapped>>

-----------------------------------------------------------------------------
Next ==
  \/ \E q \in Extractions, text \in Texts, prefer_llm, apply \in BOOLEAN :
       Extract(q, text, prefer_llm, apply)
  \/ \E q \in Extractions : Propose(q) \/ SetFlags(q) \/ Accept(q) \/ Reject(q) \/ Dies(q)
  \/ \E r \in Readers, prefer_llm \in BOOLEAN : Explain(r, prefer_llm)
  \/ \E r \in Readers, question \in Questions : Ask(r, question)

Spec == Init /\ [][Next]_languageVars

-----------------------------------------------------------------------------
\* A customer is put in dispute, or opted out, by an extraction only when that
\* very flag is backed by a phrase of that customer's text: on every path, also
\* the one that answers for an unavailable model without looking.
RaisedFlagsAreQuoted ==
  [][\A f \in Fields :
       (~flags[f] /\ flags'[f]) =>
         \E q \in Extractions :
           /\ extraction[q].pc = "applying"
           /\ \E e \in extraction[q].proposal.evidence :
                e.field = f /\ e.span \in extraction[q].text]_languageVars

Settled(q) ==
  \E i \in DOMAIN trail : trail[i].by = q /\ trail[i].kind \in {"ACCEPTED", "REJECTED"}

Accepted == {i \in DOMAIN trail : trail[i].kind = "ACCEPTED"}

\* The last update of some lines of the trail.
LastOf(lines) == IF lines = {} THEN Nothing ELSE trail[Max(lines)].proposal

LastFinding(f) == LastOf({i \in Accepted : trail[i].proposal.findings[f] # "unsaid"}).findings[f]

LastSignals == LastOf({i \in Accepted : trail[i].proposal.risk_signals # {}}).risk_signals

\* The audit trail accounts for the flags: each is as the last accepted update
\* that says anything of it has it, or as it was before, unless an update that was
\* proposed has no verdict on the trail, or one was written between another and
\* its line.
TrailTellsFlags ==
  \/ overlapped
  \/ /\ \A f \in Fields :
          flags[f] = IF LastFinding(f) = "unsaid" THEN traffic.flags[f]
                     ELSE LastFinding(f) = "yes"
     /\ flags.risk = IF LastSignals = {} THEN traffic.flags.risk ELSE LastSignals
  \/ \E i \in DOMAIN trail :
       /\ trail[i].kind = "PROPOSED" /\ trail[i].apply
       /\ HasFacts(trail[i].proposal) /\ ~Settled(trail[i].by)

\* What users are told of policy without a language model is what policy decided.
\* The sentences of an explanation worded without one say exactly which collections
\* are blocked, no more and no less; and the reasons the deterministic answer gives
\* for a manual charge are reasons that block one.  Nothing of the kind holds of what
\* a model words: IsGrounded lets it name most codes the case does not have.
TellsThePolicy ==
  \A r \in Readers :
    LET facts == reader[r].facts
        said == reader[r].said
    IN  /\ (reader[r].pc = "explained" /\ said.source = "deterministic") =>
             UNION {SentenceBlocks(code) : code \in said.codes} = facts.blocked
        /\ (reader[r].pc = "answered" /\ said.topic = "manual charge") =>
             /\ \A code \in said.reasons : ManualCharge \in SentenceBlocks(code)
             /\ said.reasons # {} => ManualCharge \in facts.blocked
=============================================================================
