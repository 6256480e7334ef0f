------------------------------ MODULE MCLanguage ------------------------------
(***************************************************************************)
(* Two extractions of three texts race; or readers look at every case,     *)
(* with every flag.                                                        *)
(***************************************************************************)
EXTENDS Language

\* One text disputes, one opts out in words that cannot be quoted.
SomeTexts == {{"dispute", "no further", "card"}, {"opted out", "card"}, {"card"}}

Found(dispute, opted_out, signals, evidence) ==
  [findings |-> [has_dispute |-> dispute, customer_opted_out |-> opted_out],
   risk_signals |-> signals, evidence |-> evidence]

Quote(field, span) == [field |-> field, span |-> span]

\* A dispute quoted, a dispute on the evidence of an opt-out, an invented quote, a
\* clearance with an opt-out, and a risk.
SomeProposals ==
  {Found("yes", "unsaid", {}, {Quote("has_dispute", "card")}),
   Found("yes", "unsaid", {}, {Quote("customer_opted_out", "card")}),
   Found("unsaid", "yes", {}, {Quote("customer_opted_out", "stop it")}),
   Found("no", "yes", {}, {Quote("customer_opted_out", "card")}),
   Found("unsaid", "no", {"fraud"}, {})}

SomeExplanations ==
  {[codes |-> {"MANDATE_CAP_EXCEEDED"}, forbidden |-> FALSE],
   [codes |-> {"ACTIVE_DISPUTE", "INVENTED_CODE_EXCEEDED"}, forbidden |-> FALSE],
   [codes |-> {}, forbidden |-> TRUE],
   [codes |-> {"ACTIVE_DISPUTE"}, forbidden |-> FALSE]}

SomeQuestions ==
  {{"created"}, {"manual charge", "policy"}, {"no action"}, {"recommended"},
   {"incremental"}, {"policy"}, {"weather"}}

CleanFlags == [has_dispute |-> FALSE, customer_opted_out |-> FALSE, risk |-> {}]

PlainCase == [domestic |-> FALSE, backlog |-> 1, attempts |-> 0, contact |-> NeverContacted]

Extracting ==
  [extractions : {{"p", "q"}}, readers : {{}}, case : {PlainCase},
   flags : {CleanFlags, [has_dispute |-> TRUE, customer_opted_out |-> FALSE,
                         risk |-> {"chargeback"}]},
   model : {"none"}]

AllCases ==
  [domestic : BOOLEAN, backlog : {1, 2}, attempts : {2, 3}, contact : {NeverContacted, 0, 1}]

Reading ==
  [extractions : {{}}, readers : {{"r"}}, case : AllCases,
   flags : [has_dispute : BOOLEAN, customer_opted_out : BOOLEAN, risk : {{}, {"fraud"}}],
   model : {"none", PaymentLink, NoAction}]

Callers == Extracting \cup Reading
=============================================================================
