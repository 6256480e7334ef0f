----------------------------- MODULE WorldProofs -----------------------------
(***************************************************************************)
(* Theorems about World, for any configurations, any population and any    *)
(* number of subscribers: the generator posts a legal history, its cases   *)
(* are those the harness reconstructs from the plans, and its summary is   *)
(* backed by its invoices.                                                 *)
(***************************************************************************)
EXTENDS World, FiniteSums, SequenceTheorems

-----------------------------------------------------------------------------
(* The calendar.                                                           *)

LEMMA DaysOfMonth ==
  ASSUME NEW month \in Nat
  PROVE  DaysIn(month) \in Nat /\ 28 <= DaysIn(month) /\ DaysIn(month) <= 31
<1> DEFINE m == month % 12
           leap == (2024 + ((month - 1) \div 12)) % 4 = 0
<1>1. DaysIn(month) = CASE m \in {4, 6, 9, 11} -> 30
                        [] m = 2 -> IF leap THEN 29 ELSE 28
                        [] OTHER -> 31
  BY DEF DaysIn
<1> HIDE DEF m, leap
<1>2. CASE m \in {4, 6, 9, 11}
  BY <1>1, <1>2
<1>3. CASE m = 2
  BY <1>1, <1>3
<1>4. CASE m \notin {2, 4, 6, 9, 11}
  BY <1>1, <1>4
<1> QED
  BY <1>2, <1>3, <1>4

\* h begins the months up to n as the calendar does.
Begins(n, h) ==
  \A m \in 0..n : h[m] = IF m <= 1 THEN 0 ELSE h[m - 1] + DaysIn(m - 1)

LEMMA BeginningsExist ==
  ASSUME NEW n \in Nat
  PROVE  \E h \in [Nat -> Nat] : Begins(n, h)
<1> DEFINE Bad == {k \in Nat : ~ \E h \in [Nat -> Nat] : Begins(k, h)}
<1> SUFFICES ASSUME Bad # {} PROVE FALSE
  OBVIOUS
<1>1. PICK k \in Bad : \A j \in Bad : k <= j
  BY LeastOf
<1>2. k \in Nat /\ \A h \in [Nat -> Nat] : ~Begins(k, h)
  BY <1>1
<1>3. CASE k <= 1
  <2> DEFINE h == [m \in Nat |-> 0]
  <2>1. h \in [Nat -> Nat]
    OBVIOUS
  <2>2. Begins(k, h)
    BY <1>2, <1>3 DEF Begins
  <2> QED
    BY <1>2, <2>1, <2>2
<1>4. CASE ~(k <= 1)
  <2>1. k - 1 \in Nat /\ k - 1 \notin Bad
    <3>1. k - 1 \in Nat /\ ~(k <= k - 1)
      BY <1>2, <1>4
    <3> HIDE DEF Bad
    <3> QED
      BY <1>1, <3>1
  <2>2. PICK g \in [Nat -> Nat] : Begins(k - 1, g)
    BY <2>1
  <2> DEFINE h == [m \in Nat |-> IF m = k THEN g[k - 1] + DaysIn(k - 1) ELSE g[m]]
  <2>3. g[k - 1] + DaysIn(k - 1) \in Nat
    <3>1. g[k - 1] \in Nat /\ DaysIn(k - 1) \in Nat
      BY <2>1, DaysOfMonth
    <3> QED
      BY <3>1
  <2>4. h \in [Nat -> Nat]
    BY <2>3
  <2>5. ASSUME NEW m \in 0..k
        PROVE  h[m] = IF m <= 1 THEN 0 ELSE h[m - 1] + DaysIn(m - 1)
    <3>1. CASE m = k
      <4>1. k - 1 # k /\ h[k - 1] = g[k - 1]
        BY <1>2, <2>1
      <4> QED
        BY <1>2, <1>4, <3>1, <4>1
    <3>2. CASE m # k
      <4>1. m \in 0..(k - 1)
        BY <1>2, <3>2
      <4>2. g[m] = IF m <= 1 THEN 0 ELSE g[m - 1] + DaysIn(m - 1)
        BY <2>2, <4>1 DEF Begins
      <4>3. h[m] = g[m]
        BY <3>2, <4>1
      <4>4. ~(m <= 1) => h[m - 1] = g[m - 1]
        <5> SUFFICES ASSUME ~(m <= 1) PROVE h[m - 1] = g[m - 1]
          OBVIOUS
        <5>1. m - 1 \in Nat /\ m - 1 # k
          BY <1>2, <4>1
        <5> QED
          BY <5>1
      <4> HIDE DEF h
      <4> QED
        BY <4>2, <4>3, <4>4
    <3> QED
      BY <3>1, <3>2
  <2> HIDE DEF h
  <2>6. Begins(k, h)
    BY <2>5 DEF Begins
  <2> QED
    BY <1>2, <2>4, <2>6
<1> QED
  BY <1>3, <1>4

LEMMA BeginningsAgree ==
  ASSUME NEW n \in Nat, NEW p \in Nat, NEW g, NEW h, Begins(n, g), Begins(p, h),
         NEW m \in 0..n, m <= p
  PROVE  g[m] = h[m]
<1> DEFINE Bad == {k \in Nat : k <= n /\ k <= p /\ g[k] # h[k]}
<1> SUFFICES ASSUME Bad # {} PROVE FALSE
  BY DEF Bad
<1>1. PICK k \in Bad : \A j \in Bad : k <= j
  BY LeastOf
<1>2. k \in Nat /\ k \in 0..n /\ k \in 0..p /\ g[k] # h[k]
  BY <1>1
<1>3. ~(k <= 1)
  BY <1>2 DEF Begins
<1>4. k - 1 \in Nat /\ k - 1 <= n /\ k - 1 <= p /\ ~(k <= k - 1)
  BY <1>2, <1>3
<1>5. g[k - 1] = h[k - 1]
  BY <1>1, <1>4
<1>6. g[k] = g[k - 1] + DaysIn(k - 1) /\ h[k] = h[k - 1] + DaysIn(k - 1)
  BY <1>2, <1>3 DEF Begins
<1> QED
  BY <1>2, <1>5, <1>6

\* A month begins when the one before it has ended.
LEMMA MonthsBegin ==
  /\ \A m \in Nat : MonthStart[m] \in Nat
  /\ MonthStart[1] = 0
  /\ \A m \in Nat \ {0} : MonthStart[m + 1] = MonthStart[m] + DaysIn(m)
<1> DEFINE Of(m) == CHOOSE h \in [Nat -> Nat] : Begins(m, h)
           f == [m \in Nat |-> Of(m)[m]]
           Is(s) == s = [m \in Nat |-> IF m <= 1 THEN 0 ELSE s[m - 1] + DaysIn(m - 1)]
<1>1. \A m \in Nat : Of(m) \in [Nat -> Nat] /\ Begins(m, Of(m))
  BY BeginningsExist
<1> HIDE DEF Of
<1>2. ASSUME NEW m \in Nat
      PROVE  f[m] = IF m <= 1 THEN 0 ELSE f[m - 1] + DaysIn(m - 1)
  <2>1. m \in 0..m /\ Begins(m, Of(m))
    BY <1>1
  <2>2. Of(m)[m] = IF m <= 1 THEN 0 ELSE Of(m)[m - 1] + DaysIn(m - 1)
    BY <2>1 DEF Begins
  <2>3. CASE m <= 1
    BY <2>2, <2>3
  <2>4. CASE ~(m <= 1)
    <3>1. m - 1 \in Nat /\ m - 1 \in 0..m /\ m - 1 <= m - 1
      BY <2>4
    <3>2. Of(m)[m - 1] = Of(m - 1)[m - 1]
      BY <1>1, <3>1, BeginningsAgree
    <3> QED
      BY <2>2, <2>4, <3>1, <3>2
  <2> QED
    BY <2>3, <2>4
<1>3. Is(f)
  BY <1>2
<1>4. MonthStart = CHOOSE s : Is(s)
  BY DEF MonthStart
<1>5. Is(MonthStart)
  BY <1>3, <1>4
<1>6. \A m \in Nat : MonthStart[m] = IF m <= 1 THEN 0
                                     ELSE MonthStart[m - 1] + DaysIn(m - 1)
  BY <1>5
<1>7. Begins(0, MonthStart) /\ \A n \in Nat : Begins(n, MonthStart)
  BY <1>6 DEF Begins
<1>8. ASSUME NEW m \in Nat PROVE MonthStart[m] \in Nat
  <2>1. Of(m)[m] \in Nat /\ Begins(m, Of(m)) /\ m \in 0..m /\ m <= m
    BY <1>1
  <2>2. MonthStart[m] = Of(m)[m]
    BY <1>7, <2>1, BeginningsAgree
  <2> QED
    BY <2>1, <2>2
<1>9. ASSUME NEW m \in Nat \ {0} PROVE MonthStart[m + 1] = MonthStart[m] + DaysIn(m)
  <2>1. m + 1 \in Nat /\ ~(m + 1 <= 1) /\ (m + 1) - 1 = m
    OBVIOUS
  <2> QED
    BY <1>6, <2>1
<1>10. MonthStart[1] = 0
  BY <1>6
<1> QED
  BY <1>8, <1>9, <1>10

LEMMA MonthsAreLong ==
  ASSUME NEW n \in Nat \ {0}
  PROVE  MonthStart[n] >= 28 * (n - 1)
<1> DEFINE Bad == {m \in Nat : m >= 1 /\ ~(MonthStart[m] >= 28 * (m - 1))}
<1> SUFFICES ASSUME Bad # {} PROVE FALSE
  OBVIOUS
<1>1. PICK m \in Bad : \A j \in Bad : m <= j
  BY LeastOf
<1>2. m \in Nat /\ m >= 1 /\ ~(MonthStart[m] >= 28 * (m - 1))
  BY <1>1
<1>3. m # 1
  BY <1>2, MonthsBegin
<1>4. m - 1 \in Nat \ {0} /\ ~(m <= m - 1) /\ m - 1 >= 1
  BY <1>2, <1>3
<1>5. MonthStart[m - 1] >= 28 * ((m - 1) - 1)
  BY <1>1, <1>4
<1>6. MonthStart[m] = MonthStart[m - 1] + DaysIn(m - 1)
  <2>1. MonthStart[(m - 1) + 1] = MonthStart[m - 1] + DaysIn(m - 1)
    BY <1>4, MonthsBegin
  <2>2. (m - 1) + 1 = m
    BY <1>2
  <2> QED
    BY <2>1, <2>2
<1>7. DaysIn(m - 1) \in Nat /\ 28 <= DaysIn(m - 1) /\ MonthStart[m - 1] \in Nat
  BY <1>4, MonthsBegin, DaysOfMonth
<1> HIDE DEF Bad
<1> QED
  BY <1>2, <1>5, <1>6, <1>7

\* Every day has its billing cycle.
LEMMA CycleOfDay ==
  ASSUME NEW day \in Nat
  PROVE  /\ BillingCycle(day) \in Nat \ {0}
         /\ MonthStart[BillingCycle(day)] <= day
         /\ day < MonthStart[BillingCycle(day) + 1]
<1> DEFINE Later == {m \in Nat : m >= 1 /\ day < MonthStart[m + 1]}
<1>1. Later # {}
  <2>1. day + 2 \in Nat \ {0} /\ day + 1 \in Nat /\ day + 1 >= 1
    OBVIOUS
  <2>2. MonthStart[day + 2] >= 28 * ((day + 2) - 1) /\ MonthStart[day + 2] \in Nat
    BY <2>1, MonthsAreLong, MonthsBegin
  <2>3. day < MonthStart[(day + 1) + 1]
    BY <2>2
  <2> QED
    BY <2>1, <2>3
<1>2. PICK m \in Later : \A j \in Later : m <= j
  BY <1>1, LeastOf
<1>3. m \in Nat /\ m >= 1 /\ day < MonthStart[m + 1]
  BY <1>2
<1>4. MonthStart[m] \in Nat
  BY <1>3, MonthsBegin
<1>5. MonthStart[m] <= day
  <2>1. CASE m = 1
    BY <2>1, MonthsBegin
  <2>2. CASE m # 1
    <3>1. m - 1 \in Nat /\ m - 1 >= 1 /\ ~(m <= m - 1) /\ (m - 1) + 1 = m
      BY <1>3, <2>2
    <3>2. ~(day < MonthStart[m])
      BY <1>2, <3>1
    <3> QED
      BY <1>4, <3>2
  <2> QED
    BY <2>1, <2>2
<1>6. m \in 1..(day \div 28 + 1)
  <2>1. 28 * (m - 1) <= day
    BY <1>3, <1>4, <1>5, MonthsAreLong
  <2> DEFINE q == day \div 28
  <2>2. q \in Int /\ day < 28 * (q + 1)
    OBVIOUS
  <2> HIDE DEF q
  <2>3. m - 1 < q + 1
    BY <1>3, <2>1, <2>2
  <2> QED
    BY <1>3, <2>2, <2>3 DEF q
<1>7. BillingCycle(day) \in 1..(day \div 28 + 1)
      /\ MonthStart[BillingCycle(day)] <= day /\ day < MonthStart[BillingCycle(day) + 1]
  BY <1>3, <1>5, <1>6 DEF BillingCycle
<1>8. \A k \in 1..(day \div 28 + 1) : k \in Nat \ {0}
  <2>1. day \div 28 + 1 \in Int
    OBVIOUS
  <2> QED
    BY <2>1
<1> QED
  BY <1>7, <1>8

\* Two days that are thirty or more apart and in one month are thirty apart, and the
\* month has 31 days.
LEMMA LongMonth ==
  ASSUME NEW d \in Nat, NEW e \in Nat, d + 30 <= e, BillingCycle(d) = BillingCycle(e)
  PROVE  d + 30 = e /\ DaysIn(BillingCycle(e)) = 31
<1> DEFINE m == BillingCycle(e)
<1>1. /\ m \in Nat \ {0} /\ MonthStart[m] <= d /\ e < MonthStart[m + 1]
  BY CycleOfDay
<1>2. /\ MonthStart[m] \in Nat /\ DaysIn(m) \in Nat /\ DaysIn(m) <= 31
      /\ MonthStart[m + 1] = MonthStart[m] + DaysIn(m)
  BY <1>1, MonthsBegin, DaysOfMonth
<1> HIDE DEF m
<1> QED
  BY <1>1, <1>2 DEF m
-----------------------------------------------------------------------------
(* Scripts.                                                                *)

Event ==
  [type : Lifecycle, at : Nat]
    \cup [type : {"invoice"}, at : Nat, cycle : Nat, delivery : Deliveries]

IsInvoice(e) == e.type = "invoice"

\* Which events may come after one of a type.
After(type) ==
  CASE type = "pending" -> {"halted"}
    [] type \in {"halted", "invoice"} -> {"invoice", "activated"}
    [] type = "activated" -> {"pending"}

Follows(e, f) == e.at <= f.at /\ f.type \in After(e.type)

\* A script is in order, its invoices are thirty days apart, each of the billing
\* cycle its period begins in, and it has two halts at most.
IsScript(s) ==
  /\ s \in Seq(Event)
  /\ \A j \in 1..(Len(s) - 1) : Follows(s[j], s[j + 1])
  /\ \A j \in 1..Len(s) : IsInvoice(s[j]) =>
       s[j].at - 8 \in Nat /\ s[j].cycle = BillingCycle(s[j].at - 8)
  /\ \A j, k \in 1..Len(s) : j < k /\ IsInvoice(s[j]) /\ IsInvoice(s[k]) =>
       s[j].at + 30 <= s[k].at

LEMMA ConcatOf ==
  ASSUME NEW S, NEW s \in Seq(S), NEW t \in Seq(S)
  PROVE  /\ s \o t \in Seq(S)
         /\ Len(s) \in Nat /\ Len(t) \in Nat /\ Len(s \o t) = Len(s) + Len(t)
         /\ \A j \in 1..Len(s) : (s \o t)[j] = s[j]
         /\ \A j \in 1..Len(t) : (s \o t)[Len(s) + j] = t[j]
<1>1. Len(s) \in Nat /\ Len(t) \in Nat
  BY LenProperties
<1>2. /\ s \o t \in Seq(S) /\ Len(s \o t) = Len(s) + Len(t)
      /\ \A j \in 1 .. Len(s) + Len(t) :
           (s \o t)[j] = IF j <= Len(s) THEN s[j] ELSE t[j - Len(s)]
  BY ConcatProperties
<1>3. ASSUME NEW j \in 1..Len(s) PROVE (s \o t)[j] = s[j]
  BY <1>1, <1>2
<1>4. ASSUME NEW j \in 1..Len(t) PROVE (s \o t)[Len(s) + j] = t[j]
  <2>1. /\ Len(s) + j \in 1 .. Len(s) + Len(t) /\ ~(Len(s) + j <= Len(s))
        /\ (Len(s) + j) - Len(s) = j
    BY <1>1
  <2> QED
    BY <1>2, <2>1
<1> QED
  BY <1>1, <1>2, <1>3, <1>4

\* A sequence of events goes forward in time.
Rising(s) == \A j, k \in 1..Len(s) : j < k => s[j].at < s[k].at

InvoiceOf(halt, q, delivery) ==
  [type |-> "invoice", at |-> (halt + 30 * (q - 1) + 1) + 8,
   cycle |-> BillingCycle(halt + 30 * (q - 1) + 1),
   delivery |-> IF q <= Len(delivery) THEN delivery[q] ELSE "UNKNOWN"]

\* H is the script of one halt, event by event.
HaltIs(H, halt, cycles, delivery, reactivate) ==
  /\ H \in Seq(Event)
  /\ Len(H) = IF reactivate THEN cycles + 3 ELSE cycles + 2
  /\ H[1] = [type |-> "pending", at |-> halt - 5]
  /\ H[2] = [type |-> "halted", at |-> halt]
  /\ \A q \in 1..cycles : H[q + 2] = InvoiceOf(halt, q, delivery)
  /\ reactivate => H[cycles + 3] = [type |-> "activated", at |-> halt + 30 * cycles + 12]

\* H is the script of one halt: pending, halted, an invoice a cycle, the return.
IsHalt(H, halt, cycles, reactivate) ==
  /\ IsScript(H)
  /\ Rising(H)
  /\ Len(H) = IF reactivate THEN cycles + 3 ELSE cycles + 2
  /\ H[1].type = "pending" /\ H[1].at = halt - 5
  /\ \A j \in 1..Len(H) : H[j].type = "halted" => j = 2
  /\ \A j \in 1..Len(H) : IsInvoice(H[j]) =>
       halt + 9 <= H[j].at /\ H[j].at <= halt + 30 * cycles + 9
  /\ reactivate => /\ H[Len(H)].type = "activated"
                   /\ H[Len(H)].at = halt + 30 * cycles + 12

LEMMA InvoiceIs ==
  ASSUME NEW halt \in Nat, NEW cycles \in Nat, NEW delivery \in Seq(Deliveries),
         NEW q \in 1..cycles
  PROVE  LET x == InvoiceOf(halt, q, delivery)
         IN  /\ x \in Event /\ IsInvoice(x) /\ x.type = "invoice"
             /\ x.at = halt + 30 * q - 21 /\ x.at \in Nat
             /\ x.at - 8 \in Nat /\ x.cycle = BillingCycle(x.at - 8)
<1> DEFINE x == InvoiceOf(halt, q, delivery)
           period == halt + 30 * (q - 1) + 1
           d == IF q <= Len(delivery) THEN delivery[q] ELSE "UNKNOWN"
<1>1. period \in Nat /\ period + 8 \in Nat /\ period = (period + 8) - 8
      /\ period + 8 = halt + 30 * q - 21
  OBVIOUS
<1>2. BillingCycle(period) \in Nat
  BY <1>1, CycleOfDay
<1>3. d \in Deliveries
  <2>1. CASE q <= Len(delivery)
    BY <2>1
  <2>2. CASE ~(q <= Len(delivery))
    BY <2>2 DEF Deliveries
  <2> QED
    BY <2>1, <2>2
<1>4. x = [type |-> "invoice", at |-> period + 8, cycle |-> BillingCycle(period),
           delivery |-> d]
  BY DEF InvoiceOf
<1> HIDE DEF period, d, x
<1>5. /\ x \in Event /\ IsInvoice(x) /\ x.type = "invoice"
      /\ x.at = halt + 30 * q - 21 /\ x.at \in Nat
      /\ x.at - 8 \in Nat /\ x.cycle = BillingCycle(x.at - 8)
  BY <1>1, <1>2, <1>3, <1>4 DEF Event, IsInvoice
<1> QED
  BY <1>5 DEF x

LEMMA HaltEventsAre ==
  ASSUME NEW halt \in Nat, halt >= 5, NEW cycles \in Nat, NEW delivery \in Seq(Deliveries),
         NEW reactivate \in BOOLEAN
  PROVE  HaltIs(HaltEvents(halt, cycles, delivery, reactivate), halt, cycles, delivery,
                reactivate)
<1> DEFINE H == HaltEvents(halt, cycles, delivery, reactivate)
           Inv(q) == InvoiceOf(halt, q, delivery)
           A == <<[type |-> "pending", at |-> halt - 5], [type |-> "halted", at |-> halt]>>
           B == [q \in 1..cycles |-> Inv(q)]
           ret == [type |-> "activated", at |-> halt + 30 * cycles + 12]
           C == IF reactivate THEN <<ret>> ELSE << >>
<1>1. H = A \o B \o C
  BY DEF HaltEvents, InvoiceOf
<1> HIDE DEF H
<1>2. /\ A \in Seq(Event) /\ Len(A) = 2
      /\ A[1] = [type |-> "pending", at |-> halt - 5]
      /\ A[2] = [type |-> "halted", at |-> halt]
  <2>1. halt - 5 \in Nat
    OBVIOUS
  <2> QED
    BY <2>1 DEF Event, Lifecycle
<1>3. ASSUME NEW q \in 1..cycles PROVE Inv(q) \in Event
  BY InvoiceIs
<1> HIDE DEF Inv
<1>4. /\ B \in Seq(Event) /\ Len(B) = cycles /\ \A q \in 1..cycles : B[q] = Inv(q)
  BY <1>3
<1>5. ret \in Event
  <2>1. halt + 30 * cycles + 12 \in Nat
    OBVIOUS
  <2> QED
    BY <2>1 DEF Event, Lifecycle
<1> HIDE DEF A, B, ret
<1>6. /\ C \in Seq(Event) /\ Len(C) = IF reactivate THEN 1 ELSE 0
      /\ reactivate => C[1] = ret
  <2>1. CASE reactivate
    BY <1>5, <2>1
  <2>2. CASE ~reactivate
    BY <2>2
  <2> QED
    BY <2>1, <2>2
<1> HIDE DEF C
<1> DEFINE D == A \o B
<1>7. /\ D \in Seq(Event) /\ Len(D) = 2 + cycles
      /\ D[1] = A[1] /\ D[2] = A[2]
      /\ \A q \in 1..cycles : D[2 + q] = B[q]
  <2>1. A \in Seq(Event) /\ B \in Seq(Event)
    BY <1>2, <1>4
  <2>2. /\ D \in Seq(Event) /\ Len(D) = Len(A) + Len(B)
        /\ \A j \in 1..Len(A) : D[j] = A[j]
        /\ \A j \in 1..Len(B) : D[Len(A) + j] = B[j]
    BY <2>1, ConcatOf
  <2>3. Len(A) = 2 /\ Len(B) = cycles
    BY <1>2, <1>4
  <2> HIDE DEF D
  <2>4. 1 \in 1..Len(A) /\ 2 \in 1..Len(A)
    BY <2>3
  <2> QED
    BY <2>2, <2>3, <2>4
<1> HIDE DEF D
<1>8. /\ H \in Seq(Event)
      /\ Len(H) = IF reactivate THEN cycles + 3 ELSE cycles + 2
      /\ \A j \in 1..(cycles + 2) : H[j] = D[j]
      /\ reactivate => H[cycles + 3] = ret
  <2>1. H = D \o C
    BY <1>1 DEF D
  <2>2. /\ D \o C \in Seq(Event) /\ Len(D \o C) = Len(D) + Len(C)
        /\ \A j \in 1..Len(D) : (D \o C)[j] = D[j]
        /\ \A j \in 1..Len(C) : (D \o C)[Len(D) + j] = C[j]
    <3>1. D \in Seq(Event) /\ C \in Seq(Event)
      BY <1>6, <1>7
    <3> QED
      BY <3>1, ConcatOf
  <2>6. /\ H \in Seq(Event) /\ Len(H) = Len(D) + Len(C)
        /\ \A j \in 1..Len(D) : H[j] = D[j]
        /\ \A j \in 1..Len(C) : H[Len(D) + j] = C[j]
    BY <2>1, <2>2
  <2>3. Len(D) = cycles + 2
    BY <1>7
  <2>4. CASE reactivate
    <3>1. 1 \in 1..Len(C) /\ Len(D) + 1 = cycles + 3 /\ Len(H) = cycles + 3
      BY <1>6, <2>6, <2>3, <2>4
    <3> QED
      BY <1>6, <2>6, <2>3, <2>4, <3>1
  <2>5. CASE ~reactivate
    <3>1. Len(H) = cycles + 2
      BY <1>6, <2>6, <2>3, <2>5
    <3> QED
      BY <2>6, <2>3, <2>5, <3>1
  <2> QED
    BY <2>4, <2>5
<1>9. ASSUME NEW q \in 1..cycles PROVE H[q + 2] = Inv(q)
  <2>1. q + 2 \in 1..(cycles + 2) /\ q + 2 = 2 + q
    OBVIOUS
  <2> QED
    BY <1>4, <1>7, <1>8, <2>1
<1>10. H[1] = A[1] /\ H[2] = A[2]
  <2>1. 1 \in 1..(cycles + 2) /\ 2 \in 1..(cycles + 2)
    OBVIOUS
  <2> QED
    BY <1>7, <1>8, <2>1
<1> QED
  BY <1>2, <1>8, <1>9, <1>10 DEF HaltIs, H, Inv, ret

LEMMA HaltEventsScript ==
  ASSUME NEW halt \in Nat, halt >= 5, NEW cycles \in Nat, NEW delivery \in Seq(Deliveries),
         NEW reactivate \in BOOLEAN
  PROVE  IsHalt(HaltEvents(halt, cycles, delivery, reactivate), halt, cycles, reactivate)
<1> DEFINE H == HaltEvents(halt, cycles, delivery, reactivate)
<1>1. HaltIs(H, halt, cycles, delivery, reactivate)
  BY HaltEventsAre
<1> HIDE DEF H
<1>2. /\ H \in Seq(Event)
      /\ Len(H) = IF reactivate THEN cycles + 3 ELSE cycles + 2
  BY <1>1 DEF HaltIs
<1>3. /\ H[1].type = "pending" /\ H[1].at = halt - 5
      /\ H[2].type = "halted" /\ H[2].at = halt
      /\ \A q \in 1..cycles :
           /\ H[q + 2].type = "invoice" /\ H[q + 2].at = halt + 30 * q - 21
           /\ H[q + 2].at - 8 \in Nat /\ H[q + 2].cycle = BillingCycle(H[q + 2].at - 8)
      /\ reactivate => /\ H[cycles + 3].type = "activated"
                       /\ H[cycles + 3].at = halt + 30 * cycles + 12
  <2>1. /\ H[1].type = "pending" /\ H[1].at = halt - 5
        /\ H[2].type = "halted" /\ H[2].at = halt
    BY <1>1 DEF HaltIs
  <2>2. reactivate => /\ H[cycles + 3].type = "activated"
                      /\ H[cycles + 3].at = halt + 30 * cycles + 12
    BY <1>1 DEF HaltIs
  <2>3. \A q \in 1..cycles :
          /\ H[q + 2].type = "invoice" /\ H[q + 2].at = halt + 30 * q - 21
          /\ H[q + 2].at - 8 \in Nat /\ H[q + 2].cycle = BillingCycle(H[q + 2].at - 8)
    <3> TAKE q \in 1..cycles
    <3> DEFINE x == InvoiceOf(halt, q, delivery)
    <3>1. H[q + 2] = x
      BY <1>1 DEF HaltIs
    <3>2. /\ x.type = "invoice" /\ x.at = halt + 30 * q - 21
          /\ x.at - 8 \in Nat /\ x.cycle = BillingCycle(x.at - 8)
      BY InvoiceIs
    <3> HIDE DEF x
    <3> QED
      BY <3>1, <3>2
  <2> QED
    BY <2>1, <2>2, <2>3
<1>4. ASSUME NEW j \in 1..Len(H)
      PROVE  \/ j = 1 \/ j = 2
             \/ \E q \in 1..cycles : j = q + 2
             \/ reactivate /\ j = cycles + 3
  <2>1. CASE j >= 3 /\ j <= cycles + 2
    <3>1. j - 2 \in 1..cycles /\ j = (j - 2) + 2
      BY <2>1
    <3> QED
      BY <3>1
  <2> QED
    BY <1>2, <2>1
<1>5. ASSUME NEW j \in 1..Len(H), IsInvoice(H[j])
      PROVE  /\ \E q \in 1..cycles : j = q + 2
             /\ H[j].at = halt + 30 * (j - 2) - 21
             /\ H[j].at - 8 \in Nat /\ H[j].cycle = BillingCycle(H[j].at - 8)
  <2>1. PICK q \in 1..cycles : j = q + 2
    BY <1>3, <1>4, <1>5 DEF IsInvoice
  <2>2. j - 2 = q
    BY <2>1
  <2> QED
    BY <1>3, <2>1, <2>2
<1>6. ASSUME NEW j \in 1..(Len(H) - 1) PROVE Follows(H[j], H[j + 1])
  <2>1. j \in 1..Len(H) /\ j + 1 \in 1..Len(H)
    BY <1>2
  <2>2. CASE j = 1
    BY <1>3, <2>2 DEF Follows, After
  <2>3. CASE j = 2
    <3>1. CASE j + 1 = cycles + 3
      BY <1>2, <1>3, <2>1, <2>3, <3>1 DEF Follows, After
    <3>2. CASE j + 1 # cycles + 3
      <4>1. 1 \in 1..cycles /\ j + 1 = 1 + 2
        BY <1>2, <2>1, <2>3, <3>2
      <4>2. H[j + 1].type = "invoice" /\ H[j + 1].at = halt + 30 * 1 - 21
        BY <1>3, <4>1
      <4> QED
        BY <1>3, <2>3, <4>2 DEF Follows, After
    <3> QED
      BY <3>1, <3>2
  <2>4. CASE j > 2
    <3>1. j - 2 \in 1..cycles /\ (j - 2) + 2 = j
      BY <1>2, <2>4
    <3>2. H[j].type = "invoice" /\ H[j].at = halt + 30 * (j - 2) - 21
      BY <1>3, <3>1
    <3>3. CASE j + 1 = cycles + 3
      <4>1. reactivate
        BY <1>2, <2>1, <3>3
      <4>2. H[j + 1].type = "activated" /\ H[j + 1].at = halt + 30 * cycles + 12
        BY <1>3, <3>3, <4>1
      <4>3. H[j].at <= H[j + 1].at
        BY <3>1, <3>2, <4>2
      <4> QED
        BY <3>2, <4>2, <4>3 DEF Follows, After
    <3>4. CASE j + 1 # cycles + 3
      <4>1. j - 1 \in 1..cycles /\ (j - 1) + 2 = j + 1
        BY <1>2, <2>1, <2>4, <3>4
      <4>2. H[j + 1].type = "invoice" /\ H[j + 1].at = halt + 30 * (j - 1) - 21
        BY <1>3, <4>1
      <4>3. H[j].at <= H[j + 1].at
        BY <3>2, <4>2
      <4> QED
        BY <3>2, <4>2, <4>3 DEF Follows, After
    <3> QED
      BY <3>3, <3>4
  <2> QED
    BY <2>2, <2>3, <2>4
<1>7. ASSUME NEW j \in 1..Len(H), NEW k \in 1..Len(H), j < k,
             IsInvoice(H[j]), IsInvoice(H[k])
      PROVE  H[j].at + 30 <= H[k].at
  <2>1. H[j].at = halt + 30 * (j - 2) - 21 /\ H[k].at = halt + 30 * (k - 2) - 21
    BY <1>5, <1>7
  <2>2. j \in Int /\ k \in Int /\ Len(H) \in Nat
    BY <1>2
  <2> QED
    BY <1>7, <2>1, <2>2
<1>8. IsScript(H)
  BY <1>2, <1>5, <1>6, <1>7 DEF IsScript
<1>9. Rising(H)
  <2> SUFFICES ASSUME NEW j \in 1..Len(H), NEW k \in 1..Len(H), j < k
               PROVE  H[j].at < H[k].at
    BY DEF Rising
  <2> DEFINE At(q) == IF q = 1 THEN halt - 5 ELSE IF q = 2 THEN halt
                      ELSE IF q = cycles + 3 THEN halt + 30 * cycles + 12
                      ELSE halt + 30 * (q - 2) - 21
  <2>1. ASSUME NEW q \in 1..Len(H) PROVE H[q].at = At(q)
    <3>1. CASE q = 1 \/ q = 2
      BY <1>3, <3>1
    <3>2. CASE reactivate /\ q = cycles + 3
      <4>1. q # 1 /\ q # 2
        BY <3>2
      <4> QED
        BY <1>3, <3>2, <4>1
    <3>3. CASE \E p \in 1..cycles : q = p + 2
      <4>1. PICK p \in 1..cycles : q = p + 2
        BY <3>3
      <4>2. q # 1 /\ q # 2 /\ q # cycles + 3 /\ q - 2 = p
        BY <4>1
      <4> QED
        BY <1>3, <4>1, <4>2
    <3> QED
      BY <1>4, <3>1, <3>2, <3>3
  <2>2. H[j].at = At(j) /\ H[k].at = At(k)
    BY <2>1
  <2>3. At(j) < At(k)
    <3>1. j \in Nat /\ k \in Nat /\ 1 <= j /\ k <= cycles + 3 /\ j < k
      BY <1>2
    <3> HIDE DEF H
    <3> QED
      BY <3>1
  <2> QED
    BY <2>2, <2>3
<1>10. ASSUME NEW j \in 1..Len(H), H[j].type = "halted" PROVE j = 2
  BY <1>3, <1>4, <1>10
<1>11. ASSUME NEW j \in 1..Len(H), IsInvoice(H[j])
       PROVE  halt + 9 <= H[j].at /\ H[j].at <= halt + 30 * cycles + 9
  <2>1. PICK q \in 1..cycles : j = q + 2
    BY <1>5, <1>11
  <2>2. H[j].at = halt + 30 * q - 21
    BY <1>3, <2>1
  <2> QED
    BY <2>1, <2>2
<1>12. reactivate => H[Len(H)].type = "activated" /\ H[Len(H)].at = halt + 30 * cycles + 12
  BY <1>2, <1>3
<1> QED
  BY <1>2, <1>3, <1>8, <1>10, <1>11, <1>12, <1>9 DEF IsHalt, H

LEMMA ConcatScripts ==
  ASSUME NEW s, NEW t, IsScript(s), IsScript(t), Len(s) > 0, Len(t) > 0,
         Follows(s[Len(s)], t[1]),
         \A j \in 1..Len(s), k \in 1..Len(t) :
           IsInvoice(s[j]) /\ IsInvoice(t[k]) => s[j].at + 30 <= t[k].at
  PROVE  IsScript(s \o t)
<1> DEFINE u == s \o t
<1>1. s \in Seq(Event) /\ t \in Seq(Event)
  BY DEF IsScript
<1>2. /\ u \in Seq(Event)
      /\ Len(s) \in Nat /\ Len(t) \in Nat /\ Len(u) = Len(s) + Len(t)
      /\ \A j \in 1..Len(s) : u[j] = s[j]
      /\ \A j \in 1..Len(t) : u[Len(s) + j] = t[j]
  BY <1>1, ConcatOf
<1> HIDE DEF u
<1>3. ASSUME NEW j \in 1..Len(u)
      PROVE  \/ j \in 1..Len(s) /\ u[j] = s[j]
             \/ /\ j > Len(s) /\ j - Len(s) \in 1..Len(t)
                /\ u[j] = t[j - Len(s)]
  <2>1. CASE j <= Len(s)
    BY <1>2, <2>1
  <2>2. CASE ~(j <= Len(s))
    <3>1. j - Len(s) \in 1..Len(t) /\ Len(s) + (j - Len(s)) = j /\ j > Len(s)
      BY <1>2, <2>2
    <3> QED
      BY <1>2, <3>1
  <2> QED
    BY <2>1, <2>2
<1>4. ASSUME NEW j \in 1..(Len(u) - 1) PROVE Follows(u[j], u[j + 1])
  <2>1. CASE j < Len(s)
    <3>1. j \in 1..(Len(s) - 1) /\ j \in 1..Len(s) /\ j + 1 \in 1..Len(s)
      BY <1>2, <2>1
    <3> QED
      BY <1>2, <3>1 DEF IsScript
  <2>2. CASE j = Len(s)
    <3>1. Len(s) \in 1..Len(s) /\ 1 \in 1..Len(t)
      BY <1>2
    <3> QED
      BY <1>2, <2>2, <3>1
  <2>3. CASE j > Len(s)
    <3> DEFINE k == j - Len(s)
    <3>1. /\ k \in 1..(Len(t) - 1) /\ k \in 1..Len(t) /\ k + 1 \in 1..Len(t)
          /\ j = Len(s) + k /\ j + 1 = Len(s) + (k + 1)
      BY <1>2, <2>3
    <3> HIDE DEF k
    <3>2. u[j] = t[k] /\ u[j + 1] = t[k + 1]
      BY <1>2, <3>1
    <3> QED
      BY <3>1, <3>2 DEF IsScript
  <2> QED
    BY <1>2, <2>1, <2>2, <2>3
<1>5. ASSUME NEW j \in 1..Len(u), IsInvoice(u[j])
      PROVE  u[j].at - 8 \in Nat /\ u[j].cycle = BillingCycle(u[j].at - 8)
  BY <1>3, <1>5 DEF IsScript
<1>6. ASSUME NEW j \in 1..Len(u), NEW k \in 1..Len(u), j < k,
             IsInvoice(u[j]), IsInvoice(u[k])
      PROVE  u[j].at + 30 <= u[k].at
  <2>1. CASE j \in 1..Len(s) /\ k \in 1..Len(s)
    BY <1>2, <1>6, <2>1 DEF IsScript
  <2>2. CASE j \in 1..Len(s) /\ k \notin 1..Len(s)
    BY <1>3, <1>6, <2>2
  <2>3. CASE j \notin 1..Len(s)
    <3>1. k > Len(s) /\ j > Len(s)
      BY <1>2, <1>6, <2>3
    <3>2. /\ j - Len(s) \in 1..Len(t) /\ k - Len(s) \in 1..Len(t)
          /\ u[j] = t[j - Len(s)] /\ u[k] = t[k - Len(s)]
      BY <1>2, <1>3, <3>1
    <3>3. j - Len(s) < k - Len(s)
      BY <1>2, <1>6
    <3> QED
      BY <1>6, <3>2, <3>3 DEF IsScript
  <2> QED
    BY <2>1, <2>2, <2>3
<1> QED
  BY <1>2, <1>4, <1>5, <1>6 DEF IsScript, u

\* A script has at most n halts, and never more than two.
Fits(s, n) ==
  /\ \A j \in 1..Len(s) : s[j].type = "halted" => n >= 1
  /\ \A j, k \in 1..Len(s) :
       j < k /\ s[j].type = "halted" /\ s[k].type = "halted" => n >= 2
  /\ \A j, k, m \in 1..Len(s) :
       ~(j < k /\ k < m /\ s[j].type = "halted" /\ s[k].type = "halted"
           /\ s[m].type = "halted")

Fates == {"always_active", "halted_never_returned", "reactivated"}

HaltCounts == {0, 1, 2}

Offsets == 40..240

Plan ==
  [fate : Fates, missed : Nat, halts : HaltCounts, first : Seq(Deliveries),
   second : Seq(Deliveries), offset : Offsets, amount : Nat, flagged : BOOLEAN]

DrawnDeliveries == {"DELIVERED", "SUSPENDED", "UNKNOWN"}

\* A drawn subscriber, as far as its timeline goes.
IsPlan(p) ==
  /\ p \in Plan
  /\ p.fate = "always_active" => p.halts = 0
  /\ p.fate # "always_active" => p.first \in [1..p.missed -> DrawnDeliveries]
  /\ p.halts = 2 => p.second \in [1..AtLeastOne(p.missed \div 2) -> DrawnDeliveries]
  /\ p.fate = "halted_never_returned" => p.halts = 1
  /\ p.fate = "reactivated" => p.halts \in {1, 2}

LEMMA ScriptsAreScripts ==
  ASSUME NEW i \in Nat \ {0}, IsPlan(plans[i])
  PROVE  /\ IsScript(ScriptOf(i))
         /\ ScriptOf(i) # << >> => ScriptOf(i)[1].type = "pending"
         /\ Fits(ScriptOf(i), plans[i].halts)
<1> DEFINE p == plans[i]
           F == FirstHalt(i)
           G == SecondHalt(i)
           two == AtLeastOne(p.missed \div 2)
           H1 == HaltEvents(F, p.missed, p.first, p.fate = "reactivated")
           H2 == HaltEvents(G, two, p.second, TRUE)
<1>1. /\ p.missed \in Nat /\ p.halts \in {0, 1, 2} /\ p.offset \in 40..240
      /\ p.first \in Seq(Deliveries) /\ p.second \in Seq(Deliveries)
      /\ p.fate \in {"always_active", "halted_never_returned", "reactivated"}
      /\ p.fate = "halted_never_returned" => p.halts = 1
      /\ p.fate = "reactivated" => p.halts \in {1, 2}
  BY DEF IsPlan, Plan, Fates, HaltCounts, Offsets
<1>2. F = (i - 1) + p.offset /\ G = F + 30 * p.missed + 50
  BY DEF FirstHalt, SecondHalt
<1>3. F \in Nat /\ F >= 40 /\ G \in Nat /\ G >= 40
  <2> HIDE DEF p, F, G
  <2>1. i - 1 \in Nat /\ p.offset \in Nat /\ p.offset >= 40
    <3>1. p.offset \in 40..240
      BY <1>1
    <3> QED
      BY <3>1
  <2>2. F \in Nat /\ F >= 40
    BY <1>2, <2>1
  <2> QED
    BY <1>1, <1>2, <2>2
<1>4. two \in Nat
  <2>1. p.missed \div 2 \in Nat
    BY <1>1
  <2> QED
    BY <2>1 DEF AtLeastOne
<1>5. ScriptOf(i) = IF p.fate = "always_active" THEN << >>
                    ELSE H1 \o (IF p.fate = "reactivated" /\ p.halts = 2
                                THEN H2 ELSE << >>)
  BY DEF ScriptOf
<1> HIDE DEF p, F, G, two
<1>6. /\ IsScript(H1)
      /\ Len(H1) = IF p.fate = "reactivated" THEN p.missed + 3 ELSE p.missed + 2
      /\ H1[1].type = "pending" /\ H1[1].at = F - 5
      /\ \A j \in 1..Len(H1) : H1[j].type = "halted" => j = 2
      /\ \A j \in 1..Len(H1) : IsInvoice(H1[j]) =>
           F + 9 <= H1[j].at /\ H1[j].at <= F + 30 * p.missed + 9
      /\ p.fate = "reactivated" =>
           /\ H1[Len(H1)].type = "activated"
           /\ H1[Len(H1)].at = F + 30 * p.missed + 12
  <2> DEFINE react == p.fate = "reactivated"
  <2>1. react \in BOOLEAN /\ F >= 5
    BY <1>3
  <2>2. H1 = HaltEvents(F, p.missed, p.first, react)
    BY DEF react
  <2>3. p.missed \in Nat /\ p.first \in Seq(Deliveries) /\ F \in Nat
    BY <1>1, <1>3
  <2> HIDE DEF react, H1
  <2>4. IsHalt(H1, F, p.missed, react)
    BY <2>1, <2>2, <2>3, HaltEventsScript
  <2> QED
    BY <2>4 DEF react, IsHalt
<1>7. /\ IsScript(H2) /\ Len(H2) = two + 3
      /\ H2[1].type = "pending" /\ H2[1].at = G - 5
      /\ \A j \in 1..Len(H2) : H2[j].type = "halted" => j = 2
      /\ \A j \in 1..Len(H2) : IsInvoice(H2[j]) => G + 9 <= H2[j].at
  <2>1. TRUE \in BOOLEAN /\ G >= 5
    BY <1>3
  <2>2. H2 = HaltEvents(G, two, p.second, TRUE)
    OBVIOUS
  <2>3. two \in Nat /\ p.second \in Seq(Deliveries) /\ G \in Nat
    BY <1>1, <1>3, <1>4
  <2> HIDE DEF H2
  <2>4. IsHalt(H2, G, two, TRUE)
    BY <2>1, <2>2, <2>3, HaltEventsScript
  <2> QED
    BY <2>4 DEF IsHalt
<1> HIDE DEF H1, H2
<1>8. Len(H1) \in Nat /\ Len(H1) > 0 /\ Len(H2) \in Nat /\ Len(H2) > 0
  BY <1>1, <1>4, <1>6, <1>7
<1>9. CASE p.fate = "always_active"
  <2>1. ScriptOf(i) = << >> /\ << >> \in Seq(Event) /\ Len(<< >>) = 0
    BY <1>5, <1>9
  <2> QED
    BY <2>1 DEF IsScript, Fits
<1>10. CASE p.fate # "always_active" /\ ~(p.fate = "reactivated" /\ p.halts = 2)
  <2>1. ScriptOf(i) = H1
    <3>1. H1 \in Seq(Event)
      BY <1>6 DEF IsScript
    <3> QED
      BY <1>5, <1>10, <3>1, ConcatEmptySeq
  <2>2. Fits(H1, p.halts)
    <3>1. p.halts >= 1
      BY <1>1, <1>10
    <3>2. \A j, k \in 1..Len(H1) : ~(j < k /\ H1[j].type = "halted" /\ H1[k].type = "halted")
      BY <1>6
    <3> QED
      BY <3>1, <3>2 DEF Fits
  <2> QED
    BY <1>6, <2>1, <2>2 DEF p
<1>11. CASE p.fate = "reactivated" /\ p.halts = 2
  <2> DEFINE u == H1 \o H2
  <2>1. ScriptOf(i) = u
    BY <1>5, <1>11
  <2>2. Follows(H1[Len(H1)], H2[1])
    <3>1. H1[Len(H1)].at <= H2[1].at
      <4>1. H1[Len(H1)].at = F + 30 * p.missed + 12 /\ H2[1].at = G - 5
        BY <1>6, <1>7, <1>11
      <4>2. G = F + 30 * p.missed + 50 /\ p.missed \in Nat /\ F \in Nat
        BY <1>1, <1>2, <1>3
      <4> DEFINE m == p.missed
      <4>3. m \in Nat /\ G = F + 30 * m + 50 /\ H1[Len(H1)].at = F + 30 * m + 12
        BY <4>1, <4>2
      <4> HIDE DEF m
      <4>4. F + 30 * m + 12 <= (F + 30 * m + 50) - 5
        BY <4>2, <4>3
      <4> QED
        BY <4>1, <4>3, <4>4
    <3> QED
      BY <1>6, <1>7, <1>11, <3>1 DEF Follows, After
  <2>3. \A j \in 1..Len(H1), k \in 1..Len(H2) :
          IsInvoice(H1[j]) /\ IsInvoice(H2[k]) => H1[j].at + 30 <= H2[k].at
    <3> SUFFICES ASSUME NEW j \in 1..Len(H1), NEW k \in 1..Len(H2),
                        IsInvoice(H1[j]), IsInvoice(H2[k])
                 PROVE  H1[j].at + 30 <= H2[k].at
      OBVIOUS
    <3>1. H1[j].at <= F + 30 * p.missed + 9 /\ G + 9 <= H2[k].at
      BY <1>6, <1>7
    <3>2. H1[j].at - 8 \in Nat /\ H2[k].at - 8 \in Nat
      BY <1>6, <1>7 DEF IsScript
    <3>3. H1[j] \in Event /\ H2[k] \in Event
      BY <1>6, <1>7, ElementOfSeq DEF IsScript
    <3>4. H1[j].at \in Nat /\ H2[k].at \in Nat
      BY <3>3 DEF Event
    <3> DEFINE m == p.missed
               x == H1[j].at
               y == H2[k].at
    <3>5. /\ m \in Nat /\ F \in Nat /\ x \in Nat /\ y \in Nat
          /\ G = F + 30 * m + 50 /\ x <= F + 30 * m + 9 /\ G + 9 <= y
      BY <1>1, <1>2, <1>3, <3>1, <3>4
    <3> HIDE DEF m, x, y
    <3>6. x + 30 <= y
      BY <3>5
    <3> QED
      BY <3>6 DEF x, y
  <2>4. IsScript(u)
    BY <1>6, <1>7, <1>8, <2>2, <2>3, ConcatScripts
  <2>5. /\ Len(u) = Len(H1) + Len(H2)
        /\ \A j \in 1..Len(H1) : u[j] = H1[j]
        /\ \A j \in 1..Len(H2) : u[Len(H1) + j] = H2[j]
    <3>1. H1 \in Seq(Event) /\ H2 \in Seq(Event)
      BY <1>6, <1>7 DEF IsScript
    <3> QED
      BY <3>1, ConcatOf
  <2> HIDE DEF u
  <2>6. \A j \in 1..Len(u) : u[j].type = "halted" => j = 2 \/ j = Len(H1) + 2
    <3> SUFFICES ASSUME NEW j \in 1..Len(u), u[j].type = "halted"
                 PROVE  j = 2 \/ j = Len(H1) + 2
      OBVIOUS
    <3>1. CASE j <= Len(H1)
      <4>1. j \in 1..Len(H1)
        BY <1>8, <2>5, <3>1
      <4> QED
        BY <1>6, <2>5, <4>1
    <3>2. CASE ~(j <= Len(H1))
      <4> DEFINE k == j - Len(H1)
      <4>1. k \in 1..Len(H2) /\ j = Len(H1) + k
        BY <1>8, <2>5, <3>2
      <4> HIDE DEF k
      <4>2. k = 2
        BY <1>7, <2>5, <4>1
      <4> QED
        BY <4>1, <4>2
    <3> QED
      BY <3>1, <3>2
  <2>7. Fits(u, 2)
    <3>1. \A j, k, m \in 1..Len(u) :
            ~(j < k /\ k < m /\ u[j].type = "halted" /\ u[k].type = "halted"
                /\ u[m].type = "halted")
      BY <1>8, <2>6
    <3> QED
      BY <3>1 DEF Fits
  <2>8. u[1].type = "pending"
    BY <1>6, <1>8, <2>5
  <2> QED
    BY <1>11, <2>1, <2>4, <2>7, <2>8 DEF p
<1> QED
  BY <1>1, <1>9, <1>10, <1>11

-----------------------------------------------------------------------------
(* The population.                                                         *)

LEMMA DeliveriesDrawn ==
  ASSUME NEW mode \in Modes, NEW cycles \in Nat, NEW grace \in Nat
  PROVE  /\ DrawDelivery(mode, cycles, grace) \subseteq Seq(Deliveries)
         /\ DrawDelivery(mode, cycles, grace) \subseteq [1..cycles -> DrawnDeliveries]
<1> DEFINE D == DrawDelivery(mode, cycles, grace)
<1>1. \A f \in [1..cycles -> Deliveries] : f \in Seq(Deliveries)
  BY IsASeq
<1>2. DrawnDeliveries \subseteq Deliveries
  BY DEF Deliveries, DrawnDeliveries
<1>3. [i \in 1..cycles |-> "SUSPENDED"] \in [1..cycles -> DrawnDeliveries]
  BY DEF DrawnDeliveries
<1>4. [i \in 1..cycles |-> IF i <= grace THEN "DELIVERED" ELSE "SUSPENDED"]
        \in [1..cycles -> DrawnDeliveries]
  BY DEF DrawnDeliveries
<1>5. D \subseteq [1..cycles -> DrawnDeliveries]
  <2>1. CASE mode = "suspend_on_halt"
    BY <1>3, <2>1 DEF DrawDelivery
  <2>2. CASE mode = "continue_during_grace"
    BY <1>4, <2>2 DEF DrawDelivery
  <2>3. CASE mode = "mixed_or_unknown"
    BY <2>3 DEF DrawDelivery, DrawnDeliveries
  <2> QED
    BY <2>1, <2>2, <2>3 DEF Modes
<1>6. [1..cycles -> DrawnDeliveries] \subseteq [1..cycles -> Deliveries]
  BY <1>2
<1> HIDE DEF D
<1>7. D \subseteq Seq(Deliveries)
  BY <1>1, <1>5, <1>6
<1> QED
  BY <1>5, <1>7 DEF D

LEMMA AmountsDrawn ==
  ASSUME NEW c \in Configs
  PROVE  DrawPlanAmount(c) \subseteq Nat
BY ConfigAssumption DEF DrawPlanAmount, SimulationConfig

LEMMA SecondCycles ==
  ASSUME NEW missed \in Nat
  PROVE  AtLeastOne(missed \div 2) \in Nat
<1>1. missed \div 2 \in Nat
  OBVIOUS
<1> QED
  BY <1>1 DEF AtLeastOne

\* The plans of one draw of a fate, its months, its halts and its offset.
PlanChoice(fate, missed, halts, first, second, offset, amount, flagged) ==
  [fate : {fate}, missed : {missed}, halts : {halts}, first : first,
   second : second, offset : {offset}, amount : amount, flagged : flagged]

LEMMA ChoiceIsPlan ==
  ASSUME NEW fate \in Fates, NEW missed \in Nat, NEW halts \in HaltCounts,
         NEW first \in SUBSET Seq(Deliveries), NEW second \in SUBSET Seq(Deliveries),
         NEW offset \in Offsets, NEW amount \in SUBSET Nat, NEW flagged \in SUBSET BOOLEAN
  PROVE  PlanChoice(fate, missed, halts, first, second, offset, amount, flagged)
           \subseteq Plan
<1> DEFINE Seqs == Seq(Deliveries)
<1>1. /\ {fate} \subseteq Fates /\ {missed} \subseteq Nat /\ {halts} \subseteq HaltCounts
      /\ first \subseteq Seqs /\ second \subseteq Seqs /\ {offset} \subseteq Offsets
      /\ amount \subseteq Nat /\ flagged \subseteq BOOLEAN
  OBVIOUS
<1>2. Plan = [fate : Fates, missed : Nat, halts : HaltCounts, first : Seqs, second : Seqs,
              offset : Offsets, amount : Nat, flagged : BOOLEAN]
  BY DEF Plan
<1> HIDE DEF Seqs
<1> QED
  BY <1>1, <1>2 DEF PlanChoice

LEMMA PlansAreDrawn ==
  ASSUME NEW c \in Configs, NEW p \in DrawPlans(c)
  PROVE  IsPlan(p)
<1> DEFINE Drawn(fate, missed, halts, first, second, offset) ==
             PlanChoice(fate, missed, halts, first, second, offset, DrawPlanAmount(c),
                        c.flagged)
           Second(missed, halts) == IF halts = 2 THEN AtLeastOne(missed \div 2) ELSE 0
           Halted(fate, halts) ==
             UNION {UNION {Drawn(fate, missed, halts,
                                 DrawDelivery(mode, missed, c.grace),
                                 DrawDelivery(mode, Second(missed, halts), c.grace), o) :
                           mode \in c.modes, o \in c.offsets} :
                    missed \in c.min_missed..c.max_missed}
<1>1. /\ DrawPlanAmount(c) \subseteq Nat /\ c.flagged \subseteq BOOLEAN
      /\ c.offsets \subseteq 40..240 /\ c.modes \subseteq Modes /\ c.grace \in Nat
      /\ c.min_missed \in 1..12 /\ c.max_missed \in 1..12
  BY ConfigAssumption, AmountsDrawn DEF SimulationConfig
<1>2. \/ \E o \in c.offsets : p \in Drawn("always_active", 0, 0, {<< >>}, {<< >>}, o)
      \/ p \in Halted("halted_never_returned", 1)
      \/ p \in Halted("reactivated", 1)
      \/ p \in Halted("reactivated", 2)
  BY DEF DrawPlans, PlanChoice
<1>3. ASSUME NEW fate \in {"halted_never_returned", "reactivated"}, NEW halts \in {1, 2},
             p \in Halted(fate, halts)
      PROVE  /\ p \in Plan /\ p.fate = fate /\ p.halts = halts
             /\ p.first \in [1..p.missed -> DrawnDeliveries]
             /\ p.halts = 2 => p.second \in [1..AtLeastOne(p.missed \div 2) -> DrawnDeliveries]
  <2> DEFINE Choice(missed, mode, o) ==
               Drawn(fate, missed, halts, DrawDelivery(mode, missed, c.grace),
                     DrawDelivery(mode, Second(missed, halts), c.grace), o)
  <2>1. PICK missed \in c.min_missed..c.max_missed, mode \in c.modes, o \in c.offsets :
          p \in Choice(missed, mode, o)
    <3> HIDE DEF Choice
    <3>1. p \in UNION {UNION {Choice(missed, mode, o) : mode \in c.modes, o \in c.offsets} :
                      missed \in c.min_missed..c.max_missed}
      BY <1>3 DEF Choice
    <3> QED
      BY <3>1
  <2>2. missed \in Nat /\ mode \in Modes /\ o \in 40..240
    BY <1>1
  <2>3. Second(missed, halts) \in Nat
    BY <2>2, SecondCycles
  <2> HIDE DEF Second
  <2> DEFINE first == DrawDelivery(mode, missed, c.grace)
             second == DrawDelivery(mode, Second(missed, halts), c.grace)
  <2>4. /\ first \in SUBSET Seq(Deliveries) /\ second \in SUBSET Seq(Deliveries)
        /\ DrawPlanAmount(c) \in SUBSET Nat /\ c.flagged \in SUBSET BOOLEAN
    BY <1>1, <2>2, <2>3, DeliveriesDrawn
  <2>8. /\ first \subseteq [1..missed -> DrawnDeliveries]
        /\ second \subseteq [1..Second(missed, halts) -> DrawnDeliveries]
    BY <1>1, <2>2, <2>3, DeliveriesDrawn
  <2>5. p \in Drawn(fate, missed, halts, first, second, o)
    BY <2>1
  <2> HIDE DEF first, second
  <2>6. PlanChoice(fate, missed, halts, first, second, o, DrawPlanAmount(c), c.flagged)
          \subseteq Plan
    <3> DEFINE amounts == DrawPlanAmount(c)
               flags == c.flagged
    <3>1. missed \in Nat /\ o \in Offsets /\ amounts \in SUBSET Nat
          /\ flags \in SUBSET BOOLEAN
      BY <2>2, <2>4 DEF Offsets
    <3>2. fate \in Fates /\ halts \in HaltCounts
      BY DEF Fates, HaltCounts
    <3> HIDE DEF amounts, flags
    <3>3. PlanChoice(fate, missed, halts, first, second, o, amounts, flags) \subseteq Plan
      BY <2>4, <3>1, <3>2, ChoiceIsPlan
    <3> QED
      BY <3>3 DEF amounts, flags
  <2>7. /\ p.fate = fate /\ p.halts = halts /\ p.missed = missed
        /\ p.first \in first /\ p.second \in second
    BY <2>5 DEF PlanChoice
  <2>9. p.first \in [1..p.missed -> DrawnDeliveries]
    BY <2>7, <2>8
  <2>10. p.halts = 2 => p.second \in [1..AtLeastOne(p.missed \div 2) -> DrawnDeliveries]
    BY <2>7, <2>8 DEF Second
  <2> QED
    BY <2>5, <2>6, <2>7, <2>9, <2>10
<1>4. CASE \E o \in c.offsets : p \in Drawn("always_active", 0, 0, {<< >>}, {<< >>}, o)
  <2>1. PICK o \in c.offsets : p \in Drawn("always_active", 0, 0, {<< >>}, {<< >>}, o)
    BY <1>4
  <2>2. << >> \in Seq(Deliveries) /\ o \in 40..240
    BY <1>1
  <2> DEFINE none == {<< >>}
  <2>3. none \in SUBSET Seq(Deliveries) /\ 0 \in Nat /\ 0 \in {0, 1, 2}
    BY <2>2
  <2>4. p \in Drawn("always_active", 0, 0, none, none, o)
    BY <2>1
  <2> HIDE DEF none
  <2>5. p \in Plan /\ p.fate = "always_active" /\ p.halts = 0
    <3>1. /\ DrawPlanAmount(c) \in SUBSET Nat /\ c.flagged \in SUBSET BOOLEAN
          /\ "always_active" \in Fates /\ 0 \in HaltCounts /\ o \in Offsets
      BY <1>1, <2>2 DEF Fates, HaltCounts, Offsets
    <3>2. PlanChoice("always_active", 0, 0, none, none, o, DrawPlanAmount(c), c.flagged)
            \subseteq Plan
      BY ONLY <2>2, <2>3, <3>1, ChoiceIsPlan
    <3>3. p.fate = "always_active" /\ p.halts = 0
      BY <2>4 DEF PlanChoice
    <3> QED
      BY <2>4, <3>2, <3>3
  <2> QED
    BY <2>5 DEF IsPlan
<1> HIDE DEF Halted
<1>5. CASE p \in Halted("halted_never_returned", 1)
  <2>1. /\ p \in Plan /\ p.fate = "halted_never_returned" /\ p.halts = 1
        /\ p.first \in [1..p.missed -> DrawnDeliveries]
    BY <1>3, <1>5
  <2> QED
    BY <2>1 DEF IsPlan
<1>6. ASSUME NEW halts \in {1, 2}, p \in Halted("reactivated", halts)
      PROVE  IsPlan(p)
  <2>1. /\ p \in Plan /\ p.fate = "reactivated" /\ p.halts = halts
        /\ p.first \in [1..p.missed -> DrawnDeliveries]
        /\ p.halts = 2 => p.second \in [1..AtLeastOne(p.missed \div 2) -> DrawnDeliveries]
    BY <1>3, <1>6
  <2> QED
    BY <2>1 DEF IsPlan
<1> QED
  BY <1>2, <1>4, <1>5, <1>6
-----------------------------------------------------------------------------
(* The invariant.                                                          *)

Episode == [halted : Nat, react : Nat \cup {NoDay}]

Sub == [status : Statuses, last : Nat \cup {NoDay}, eps : Seq(Episode)]

RowFields == {"sub", "at", "cycle", "ep", "delivery", "verdict"}

CaseFields ==
  {"sub", "ep", "status", "collectible", "review", "excluded", "halted", "days", "key"}

\* What a subscription in a status is to be sent next.
Expected(status) ==
  CASE status = "ACTIVE"  -> {"pending"}
    [] status = "PENDING" -> {"halted"}
    [] status = "HALTED"  -> {"invoice", "activated"}

PopulationDrawn ==
  /\ Count \in Nat
  /\ \A i \in 1..Count : IsPlan(plans[i])

SubsKept ==
  /\ next \in 0..Count
  /\ subs \in Seq(Sub)
  /\ Len(subs) = next
  /\ \A i \in 1..next : Len(subs[i].eps) <= plans[i].halts

\* A halted subscription's last halt is open.
HaltIsOpen ==
  \A i \in 1..next :
    subs[i].status = "HALTED" =>
      LET n == Len(subs[i].eps)
      IN  /\ n >= 1
          /\ subs[i].eps[n].react = NoDay
          /\ subs[i].eps[n].halted <= subs[i].last

ScriptKept ==
  /\ IsScript(script)
  /\ script # << >> =>
       /\ next >= 1
       /\ script[1].type \in Expected(subs[next].status)
       /\ subs[next].last <= script[1].at
       /\ Fits(script, plans[next].halts - Len(subs[next].eps))

RowsKept ==
  \A r \in rows :
    /\ DOMAIN r = RowFields
    /\ r.sub \in 1..next
    /\ r.ep \in 1..Len(subs[r.sub].eps)
    /\ r.at \in Nat /\ r.at - 8 \in Nat
    /\ r.cycle = BillingCycle(r.at - 8)

\* What was billed in the halts so far is thirty days before what is still to be.
RowsAreEarlier ==
  \A r \in rows, k \in 1..Len(script) :
    r.sub = next /\ IsInvoice(script[k]) => r.at + 30 <= script[k].at

CasesKept ==
  \A c \in cases :
    /\ DOMAIN c = CaseFields
    /\ c.sub \in 1..next
    /\ c.ep \in 1..Len(subs[c.sub].eps)

WorldInv ==
  /\ PopulationDrawn
  /\ SubsKept
  /\ HaltIsOpen
  /\ ScriptKept
  /\ RowsKept
  /\ RowsAreEarlier
  /\ CasesKept
  /\ OnlyLongMonthsAreRefused

LEMMA WorldInvInit == Init => WorldInv
<1> SUFFICES ASSUME Init PROVE WorldInv
  OBVIOUS
<1>1. PICK c \in Configs : plans \in [1..c.count -> DrawPlans(c)]
  BY DEF Init
<1>2. c.count \in Nat
  BY ConfigAssumption DEF SimulationConfig
<1>3. PopulationDrawn
  <2>1. Count = c.count
    BY <1>1, <1>2 DEF Count
  <2> QED
    BY <1>1, <1>2, <2>1, PlansAreDrawn DEF PopulationDrawn
<1>4. script = << >> /\ subs = << >> /\ next = 0 /\ rows = {} /\ cases = {} /\ refused = {}
  BY DEF Init
<1>5. SubsKept /\ HaltIsOpen
  BY <1>3, <1>4 DEF SubsKept, HaltIsOpen, PopulationDrawn
<1>6. ScriptKept
  BY <1>4 DEF ScriptKept, IsScript
<1> QED
  BY <1>3, <1>4, <1>5, <1>6
     DEF WorldInv, RowsKept, RowsAreEarlier, CasesKept, OnlyLongMonthsAreRefused
-----------------------------------------------------------------------------
(* What is left of a script.                                               *)

LEMMA RestOfScript ==
  ASSUME NEW s, IsScript(s), s # << >>
  PROVE  /\ s[1] \in Event /\ Head(s) = s[1]
         /\ Len(s) \in Nat /\ Len(s) >= 1
         /\ Len(Tail(s)) \in Nat /\ Len(Tail(s)) = Len(s) - 1
         /\ \A k \in 1..Len(Tail(s)) : k + 1 \in 1..Len(s) /\ Tail(s)[k] = s[k + 1]
         /\ IsScript(Tail(s))
         /\ Tail(s) # << >> => Follows(s[1], Tail(s)[1]) /\ Tail(s)[1] \in Event
         /\ IsInvoice(s[1]) =>
              /\ s[1].at - 8 \in Nat /\ s[1].cycle = BillingCycle(s[1].at - 8)
              /\ \A k \in 1..Len(Tail(s)) : IsInvoice(Tail(s)[k]) =>
                   s[1].at + 30 <= Tail(s)[k].at
<1> DEFINE t == Tail(s)
<1>1. s \in Seq(Event)
  BY DEF IsScript
<1>2. Len(s) \in Nat /\ Len(s) >= 1
  BY <1>1, LenProperties, EmptySeq
<1>3. /\ t \in Seq(Event) /\ Len(t) = Len(s) - 1
      /\ \A k \in 1..Len(t) : t[k] = s[k + 1]
  BY <1>1, HeadTailProperties
<1>4. Head(s) = s[1] /\ s[1] \in Event
  BY <1>1, <1>2
<1> HIDE DEF t
<1>5. \A k \in 1..Len(t) : k + 1 \in 1..Len(s) /\ t[k] = s[k + 1]
  BY <1>2, <1>3
<1>6. \A j \in 1..(Len(t) - 1) : Follows(t[j], t[j + 1])
  <2> TAKE j \in 1..(Len(t) - 1)
  <2>1. j \in 1..Len(t) /\ j + 1 \in 1..Len(t) /\ j + 1 \in 1..(Len(s) - 1)
    BY <1>2, <1>3
  <2> QED
    BY <1>5, <2>1 DEF IsScript
<1>7. \A j \in 1..Len(t) : IsInvoice(t[j]) =>
        t[j].at - 8 \in Nat /\ t[j].cycle = BillingCycle(t[j].at - 8)
  BY <1>5 DEF IsScript
<1>8. \A j, k \in 1..Len(t) : j < k /\ IsInvoice(t[j]) /\ IsInvoice(t[k]) =>
        t[j].at + 30 <= t[k].at
  <2> SUFFICES ASSUME NEW j \in 1..Len(t), NEW k \in 1..Len(t), j < k,
                      IsInvoice(t[j]), IsInvoice(t[k])
               PROVE  t[j].at + 30 <= t[k].at
    OBVIOUS
  <2>1. j + 1 < k + 1 /\ j + 1 \in 1..Len(s) /\ k + 1 \in 1..Len(s)
    BY <1>5
  <2>2. t[j] = s[j + 1] /\ t[k] = s[k + 1]
    BY <1>5
  <2> QED
    BY <2>1, <2>2 DEF IsScript
<1>9. IsScript(t)
  BY <1>3, <1>6, <1>7, <1>8 DEF IsScript
<1>10. t # << >> => Follows(s[1], t[1]) /\ t[1] \in Event
  <2> SUFFICES ASSUME t # << >> PROVE Follows(s[1], t[1]) /\ t[1] \in Event
    OBVIOUS
  <2>1. Len(t) \in Nat /\ Len(t) # 0
    BY <1>3, LenProperties, EmptySeq
  <2>2. 1 \in 1..Len(t) /\ 1 \in 1..(Len(s) - 1) /\ t[1] = s[1 + 1]
    BY <1>2, <1>3, <2>1
  <2>3. Follows(s[1], s[1 + 1])
    BY <2>2 DEF IsScript
  <2> QED
    BY <1>3, <2>2, <2>3
<1>11. IsInvoice(s[1]) =>
         /\ s[1].at - 8 \in Nat /\ s[1].cycle = BillingCycle(s[1].at - 8)
         /\ \A k \in 1..Len(t) : IsInvoice(t[k]) => s[1].at + 30 <= t[k].at
  <2>1. 1 \in 1..Len(s)
    BY <1>2
  <2>2. \A k \in 1..Len(t) : 1 < k + 1 /\ k + 1 \in 1..Len(s) /\ t[k] = s[k + 1]
    BY <1>2, <1>3
  <2> QED
    BY <2>1, <2>2 DEF IsScript
<1>12. Len(t) \in Nat
  BY <1>2, <1>3
<1> QED
  BY <1>2, <1>3, <1>4, <1>5, <1>9, <1>10, <1>11, <1>12 DEF t

LEMMA RestFits ==
  ASSUME NEW s, IsScript(s), s # << >>, NEW n \in Int, Fits(s, n)
  PROVE  /\ Fits(Tail(s), n)
         /\ s[1].type = "halted" => n >= 1 /\ Fits(Tail(s), n - 1)
<1> DEFINE t == Tail(s)
<1>1. /\ Len(s) \in Nat /\ Len(s) >= 1 /\ Len(t) \in Nat
      /\ \A k \in 1..Len(t) : k + 1 \in 1..Len(s) /\ t[k] = s[k + 1]
  BY RestOfScript
<1> HIDE DEF t
<1>2. ASSUME NEW j \in 1..Len(t), t[j].type = "halted" PROVE n >= 1
  BY <1>1, <1>2 DEF Fits
<1>3. ASSUME NEW j \in 1..Len(t), NEW k \in 1..Len(t), j < k, t[j].type = "halted",
             t[k].type = "halted"
      PROVE  n >= 2 /\ s[1].type # "halted"
  <2>1. /\ 1 \in 1..Len(s) /\ j + 1 \in 1..Len(s) /\ k + 1 \in 1..Len(s)
        /\ 1 < j + 1 /\ j + 1 < k + 1
    BY <1>1, <1>3
  <2>2. s[j + 1].type = "halted" /\ s[k + 1].type = "halted"
    BY <1>1, <1>3
  <2> QED
    BY <2>1, <2>2 DEF Fits
<1>4. ASSUME NEW j \in 1..Len(t), NEW k \in 1..Len(t), NEW m \in 1..Len(t),
             j < k, k < m, t[j].type = "halted", t[k].type = "halted", t[m].type = "halted"
      PROVE  FALSE
  <2>1. /\ j + 1 \in 1..Len(s) /\ k + 1 \in 1..Len(s) /\ m + 1 \in 1..Len(s)
        /\ j + 1 < k + 1 /\ k + 1 < m + 1
    BY <1>1, <1>4
  <2>2. s[j + 1].type = "halted" /\ s[k + 1].type = "halted" /\ s[m + 1].type = "halted"
    BY <1>1, <1>4
  <2> QED
    BY <2>1, <2>2 DEF Fits
<1>5. Fits(t, n)
  BY <1>2, <1>3, <1>4 DEF Fits
<1>6. ASSUME s[1].type = "halted" PROVE n >= 1 /\ Fits(t, n - 1)
  <2>1. n >= 1
    BY <1>1, <1>6 DEF Fits
  <2>2. ASSUME NEW j \in 1..Len(t), t[j].type = "halted" PROVE n - 1 >= 1
    <3>1. 1 \in 1..Len(s) /\ j + 1 \in 1..Len(s) /\ 1 < j + 1 /\ s[j + 1].type = "halted"
      BY <1>1, <2>2
    <3>2. n >= 2
      BY <1>6, <3>1 DEF Fits
    <3> QED
      BY <3>2
  <2>3. Fits(t, n - 1)
    BY <1>3, <1>4, <1>6, <2>2 DEF Fits
  <2> QED
    BY <2>1, <2>3
<1> QED
  BY <1>5, <1>6 DEF t

-----------------------------------------------------------------------------
(* One event, of a subscription.                                           *)

LEMMA Verdict ==
  ASSUME NEW status \in Statuses, NEW type \in Lifecycle, type \in Expected(status)
  PROVE  /\ ~IsIllegal(status, type) /\ ~IsNoOp(status, type)
         /\ status = "ACTIVE" => /\ type = "pending" /\ Target[type] = "PENDING"
                                 /\ ~Opens(status, type) /\ ~Closes(status, type)
         /\ status = "PENDING" => /\ type = "halted" /\ Target[type] = "HALTED"
                                  /\ Opens(status, type) /\ ~Closes(status, type)
         /\ status = "HALTED" => /\ type = "activated" /\ Target[type] = "ACTIVE"
                                 /\ ~Opens(status, type) /\ Closes(status, type)
<1>1. CASE status = "ACTIVE"
  BY <1>1 DEF Lifecycle, Expected, IsIllegal, IsNoOp, Target, Permitted, Opens, Closes,
              IsTransition
<1>2. CASE status = "PENDING"
  BY <1>2 DEF Lifecycle, Expected, IsIllegal, IsNoOp, Target, Permitted, Opens, Closes,
              IsTransition
<1>3. CASE status = "HALTED"
  BY <1>3 DEF Lifecycle, Expected, IsIllegal, IsNoOp, Target, Permitted, Opens, Closes,
              IsTransition
<1> QED
  BY <1>1, <1>2, <1>3 DEF Statuses

\* What a lifecycle event that was expected makes of a subscription.
LEMMA MovedIs ==
  ASSUME NEW s \in Sub, NEW e \in Event, e.type \in Lifecycle,
         e.type \in Expected(s.status)
  PROVE  /\ Moved(s, e) \in Sub
         /\ Moved(s, e).last = e.at
         /\ s.status = "ACTIVE" => /\ Moved(s, e).status = "PENDING"
                                   /\ Len(Moved(s, e).eps) = Len(s.eps)
         /\ s.status = "PENDING" =>
              /\ Moved(s, e).status = "HALTED"
              /\ Len(Moved(s, e).eps) = Len(s.eps) + 1
              /\ Moved(s, e).eps[Len(s.eps) + 1] = [halted |-> e.at, react |-> NoDay]
         /\ s.status = "HALTED" => /\ Moved(s, e).status = "ACTIVE"
                                   /\ Len(Moved(s, e).eps) = Len(s.eps)
<1> DEFINE M == Moved(s, e)
           t == e.type
           st == s.status
           eps == s.eps
           Same == [n \in DOMAIN eps |->
                      IF Closes(st, t) /\ eps[n].react = NoDay
                      THEN [eps[n] EXCEPT !.react = e.at]
                      ELSE eps[n]]
           Opened == Append(eps, [halted |-> e.at, react |-> NoDay])
<1>1. st \in Statuses /\ s.last \in Nat \cup {NoDay} /\ eps \in Seq(Episode)
  BY DEF Sub
<1>2. e.at \in Nat
  BY DEF Event
<1>3. M = [status |-> Target[t], last |-> e.at, eps |-> IF Opens(st, t) THEN Opened ELSE Same]
  BY DEF Moved
<1>4. t \in Lifecycle /\ t \in Expected(st)
  OBVIOUS
<1> HIDE DEF M, t, st, eps
<1>5. Len(eps) \in Nat /\ DOMAIN eps = 1..Len(eps)
  BY <1>1, LenProperties
<1>6. [halted |-> e.at, react |-> NoDay] \in Episode
  BY <1>2 DEF Episode
<1>7. /\ Opened \in Seq(Episode) /\ Len(Opened) = Len(eps) + 1
      /\ Opened[Len(eps) + 1] = [halted |-> e.at, react |-> NoDay]
  BY <1>1, <1>6, AppendProperties
<1>8. Same \in Seq(Episode) /\ Len(Same) = Len(eps)
  <2>1. ASSUME NEW n \in 1..Len(eps)
        PROVE  (IF Closes(st, t) /\ eps[n].react = NoDay
                THEN [eps[n] EXCEPT !.react = e.at] ELSE eps[n]) \in Episode
    <3>1. eps[n] \in Episode
      BY <1>1
    <3>2. [eps[n] EXCEPT !.react = e.at] \in Episode
      BY <1>2, <3>1 DEF Episode
    <3> QED
      BY <3>1, <3>2
  <2>2. Same \in [1..Len(eps) -> Episode]
    BY <1>5, <2>1
  <2> HIDE DEF Same
  <2>3. Same \in Seq(Episode)
    BY <1>5, <2>2, IsASeq
  <2>4. DOMAIN Same = 1..Len(eps) /\ DOMAIN Same = 1..Len(Same) /\ Len(Same) \in Nat
    BY <2>2, <2>3, LenProperties
  <2> QED
    BY <1>5, <2>3, <2>4
<1> HIDE DEF Opened, Same
<1>9. /\ st = "ACTIVE" => Target[t] = "PENDING" /\ ~Opens(st, t)
      /\ st = "PENDING" => Target[t] = "HALTED" /\ Opens(st, t)
      /\ st = "HALTED" => Target[t] = "ACTIVE" /\ ~Opens(st, t)
  BY <1>1, <1>4, Verdict
<1>10. M.status = Target[t] /\ M.last = e.at
       /\ M.eps = IF Opens(st, t) THEN Opened ELSE Same
  BY <1>3
<1>11. Target[t] \in Statuses
  BY <1>1, <1>9 DEF Statuses
<1>12. M \in Sub
  BY <1>2, <1>3, <1>7, <1>8, <1>11 DEF Sub
<1> QED
  BY <1>7, <1>8, <1>9, <1>10, <1>12 DEF M, st, eps

LEMMA PostedIs ==
  ASSUME WorldInv, script # << >>
  PROVE  /\ Posted = script[1] /\ Posted \in Event
         /\ next \in 1..Len(subs) /\ Current \in Sub /\ Current = subs[next]
         /\ Posted.type \in Expected(Current.status)
         /\ Posted.at \in Nat /\ Current.last <= Posted.at
         /\ Fits(script, plans[next].halts - Len(Current.eps))
         /\ Len(Current.eps) \in Nat /\ plans[next].halts \in Nat
<1>1. IsScript(script) /\ subs \in Seq(Sub) /\ Len(subs) = next /\ next \in 0..Count
      /\ Count \in Nat /\ next >= 1
  BY DEF WorldInv, ScriptKept, SubsKept, PopulationDrawn
<1>2. Posted = script[1] /\ Posted \in Event
  BY <1>1, RestOfScript DEF Posted
<1>3. Posted.at \in Nat
  BY <1>2 DEF Event
<1>4. next \in 1..Len(subs) /\ next \in 1..Count
  BY <1>1
<1>5. subs[next] \in Sub
  BY <1>1, <1>4, ElementOfSeq
<1>6. Len(subs[next].eps) \in Nat
  BY <1>5, LenProperties DEF Sub
<1>7. plans[next].halts \in Nat
  <2>1. plans[next] \in Plan
    BY <1>4 DEF WorldInv, PopulationDrawn, IsPlan
  <2>2. plans[next].halts \in {0, 1, 2}
    BY <2>1 DEF Plan, HaltCounts
  <2> QED
    BY <2>2
<1> QED
  BY <1>2, <1>3, <1>4, <1>5, <1>6, <1>7 DEF Current, WorldInv, ScriptKept

\* Nothing of the generator's is refused but an invoice.
LEMMA LifecycleIsAccepted ==
  ASSUME WorldInv, script # << >>, Posted.type \in Lifecycle
  PROVE  Acceptable
<1>1. /\ Posted \in Event /\ Current \in Sub /\ Posted.type \in Expected(Current.status)
      /\ Posted.at \in Nat /\ Current.last <= Posted.at
  BY PostedIs
<1>2. Current.status \in Statuses /\ Current.last \in Nat \cup {NoDay}
  BY <1>1 DEF Sub
<1>3. ~IsStale
  BY <1>1, <1>2 DEF IsStale, NoDay
<1>4. ~IsIllegal(Current.status, Posted.type)
  BY <1>1, <1>2, Verdict
<1> QED
  BY <1>3, <1>4 DEF Acceptable

\* An event of a subscription that leaves the subscription alone or moves it.
LEMMA SubMoves ==
  ASSUME NEW m \in Sub, subs \in Seq(Sub), Len(subs) = next, next \in 1..Len(subs)
  PROVE  LET S == [subs EXCEPT ![next] = m]
         IN  /\ S \in Seq(Sub) /\ Len(S) = next
             /\ \A i \in 1..next : S[i] = IF i = next THEN m ELSE subs[i]
  BY ExceptSeq

-----------------------------------------------------------------------------
(* An event is posted and the generator goes on to the next.               *)

\* The last halt of a halted subscription is open.
OpenIn(s) ==
  s.status = "HALTED" =>
    LET n == Len(s.eps)
    IN  /\ n >= 1
        /\ s.eps[n].react = NoDay
        /\ s.eps[n].halted <= s.last

LEMMA ScriptProceeds ==
  ASSUME WorldInv, script # << >>, Proceed, NEW m \in Sub, subs' = [subs EXCEPT ![next] = m],
         m.last <= Posted.at, After(Posted.type) \subseteq Expected(m.status), OpenIn(m),
         Len(m.eps) = Len(Current.eps) + (IF Posted.type = "halted" THEN 1 ELSE 0)
  PROVE  /\ PopulationDrawn' /\ SubsKept' /\ HaltIsOpen' /\ ScriptKept'
         /\ \A i \in 1..next : /\ Len(subs[i].eps) \in Nat /\ Len(subs'[i].eps) \in Nat
                               /\ Len(subs[i].eps) <= Len(subs'[i].eps)
<1>1. plans' = plans /\ next' = next /\ script' = Tail(script) /\ Count' = Count
  BY DEF Proceed, Count
<1>2. /\ Posted = script[1] /\ Posted \in Event /\ next \in 1..Len(subs)
      /\ Current \in Sub /\ Current = subs[next] /\ Posted.at \in Nat
      /\ Fits(script, plans[next].halts - Len(Current.eps))
      /\ Len(Current.eps) \in Nat /\ plans[next].halts \in Nat
  BY PostedIs
<1>3. /\ subs \in Seq(Sub) /\ Len(subs) = next /\ next \in 0..Count /\ Count \in Nat
      /\ IsScript(script)
      /\ \A i \in 1..next : Len(subs[i].eps) <= plans[i].halts
  BY DEF WorldInv, SubsKept, PopulationDrawn, ScriptKept
<1>4. /\ subs' \in Seq(Sub) /\ Len(subs') = next
      /\ \A i \in 1..next : subs'[i] = IF i = next THEN m ELSE subs[i]
  BY <1>2, <1>3, SubMoves
<1>5. next \in Nat /\ next \in 1..next /\ subs'[next] = m
  BY <1>2, <1>3, <1>4
<1> DEFINE n == plans[next].halts - Len(Current.eps)
<1>6. n \in Int
  BY <1>2
<1>7. /\ IsScript(Tail(script))
      /\ Tail(script) # << >> => Follows(Posted, Tail(script)[1]) /\ Tail(script)[1] \in Event
  BY <1>2, <1>3, RestOfScript
<1>8. /\ Fits(Tail(script), n)
      /\ Posted.type = "halted" => n >= 1 /\ Fits(Tail(script), n - 1)
  <2>1. Fits(script, n)
    BY <1>2
  <2> HIDE DEF n
  <2> QED
    BY <1>2, <1>3, <1>6, <2>1, RestFits
<1>9. Len(m.eps) \in Nat
  BY LenProperties DEF Sub
<1>10. /\ Len(m.eps) <= plans[next].halts
       /\ Fits(Tail(script), plans[next].halts - Len(m.eps))
       /\ Len(Current.eps) <= Len(m.eps)
  <2> DEFINE a == Len(Current.eps)
             b == Len(m.eps)
             h == plans[next].halts
             halt == Posted.type = "halted"
  <2>1. /\ a \in Nat /\ h \in Nat /\ a <= h /\ b = a + (IF halt THEN 1 ELSE 0) /\ n = h - a
        /\ Fits(Tail(script), n)
        /\ halt => n >= 1 /\ Fits(Tail(script), n - 1)
    BY <1>2, <1>3, <1>5, <1>8
  <2> HIDE DEF a, b, h, n, halt
  <2>2. CASE halt
    <3>1. b = a + 1 /\ h - b = n - 1 /\ b <= h /\ a <= b
      BY <2>1, <2>2
    <3> QED
      BY <2>1, <2>2, <3>1 DEF a, b, h
  <2>3. CASE ~halt
    <3>1. b = a /\ h - b = n
      BY <2>1, <2>3
    <3>2. b <= h /\ a <= b
      BY <2>1, <3>1
    <3> QED
      BY <2>1, <3>1, <3>2 DEF a, b, h
  <2> QED
    BY <2>2, <2>3
<1>11. PopulationDrawn'
  BY <1>1 DEF WorldInv, PopulationDrawn
<1>12. SubsKept'
  <2>1. \A i \in 1..next : Len(subs'[i].eps) <= plans[i].halts
    BY <1>3, <1>4, <1>10
  <2> QED
    BY <1>1, <1>3, <1>4, <2>1 DEF SubsKept
<1>13. HaltIsOpen'
  <2>1. \A i \in 1..next : OpenIn(subs[i])
    BY DEF WorldInv, HaltIsOpen, OpenIn
  <2>2. \A i \in 1..next : OpenIn(subs'[i])
    BY <1>4, <2>1
  <2> QED
    BY <1>1, <2>2 DEF HaltIsOpen, OpenIn
<1>14. ScriptKept'
  <2>1. ASSUME Tail(script) # << >>
        PROVE  /\ Tail(script)[1].type \in Expected(m.status)
               /\ m.last <= Tail(script)[1].at
    <3>1. /\ Tail(script)[1].type \in After(Posted.type)
          /\ Posted.at <= Tail(script)[1].at /\ Tail(script)[1].at \in Nat
      BY <1>7, <2>1 DEF Follows, Event
    <3>2. m.last \in Int
      BY DEF Sub, NoDay
    <3> DEFINE x == m.last
               y == Posted.at
               z == Tail(script)[1].at
    <3>3. x \in Int /\ y \in Nat /\ z \in Nat /\ x <= y /\ y <= z
      BY <1>2, <3>1, <3>2
    <3> HIDE DEF x, y, z
    <3>4. x <= z
      BY <3>3
    <3> QED
      BY <3>1, <3>4 DEF x, z
  <2>2. next >= 1
    BY <1>2
  <2> QED
    BY <1>1, <1>5, <1>7, <1>10, <2>1, <2>2 DEF ScriptKept
<1>15. ASSUME NEW i \in 1..next
       PROVE  /\ Len(subs[i].eps) \in Nat /\ Len(subs'[i].eps) \in Nat
              /\ Len(subs[i].eps) <= Len(subs'[i].eps)
  <2>1. subs[i] \in Sub
    BY <1>3
  <2>2. Len(subs[i].eps) \in Nat
    BY <2>1, LenProperties DEF Sub
  <2>3. CASE i = next
    <3>1. subs'[i] = m /\ subs[i] = Current
      BY <1>2, <1>5, <2>3
    <3> QED
      BY <1>9, <1>10, <2>2, <3>1
  <2>4. CASE i # next
    <3>1. subs'[i] = subs[i]
      BY <1>4, <2>4
    <3> QED
      BY <2>2, <3>1
  <2> QED
    BY <2>3, <2>4
<1> QED
  BY <1>11, <1>12, <1>13, <1>14, <1>15

\* Two rows of one invoice, whatever their verdicts.
SameRow(g, r) ==
  /\ DOMAIN g = DOMAIN r
  /\ g.sub = r.sub /\ g.at = r.at /\ g.cycle = r.cycle /\ g.ep = r.ep

Grown ==
  \A i \in 1..next : /\ Len(subs[i].eps) \in Nat /\ Len(subs'[i].eps) \in Nat
                     /\ Len(subs[i].eps) <= Len(subs'[i].eps)

LEMMA RowsProceed ==
  ASSUME WorldInv, next' = next, Grown, NEW g, NEW r \in rows, SameRow(g, r)
  PROVE  /\ DOMAIN g = RowFields /\ g.sub \in 1..next' /\ g.ep \in 1..Len(subs'[g.sub].eps)
         /\ g.at \in Nat /\ g.at - 8 \in Nat /\ g.cycle = BillingCycle(g.at - 8)
<1>1. /\ DOMAIN r = RowFields /\ r.sub \in 1..next /\ r.ep \in 1..Len(subs[r.sub].eps)
      /\ r.at \in Nat /\ r.at - 8 \in Nat /\ r.cycle = BillingCycle(r.at - 8)
  BY DEF WorldInv, RowsKept
<1>2. r.ep \in 1..Len(subs'[r.sub].eps)
  BY <1>1 DEF Grown
<1> QED
  BY <1>1, <1>2 DEF SameRow

\* A row is thirty days before the rest of the script as it was before it all.
LEMMA RowsStayEarlier ==
  ASSUME WorldInv, script # << >>, Proceed, NEW g, NEW r \in rows, SameRow(g, r)
  PROVE  \A k \in 1..Len(script') :
           g.sub = next' /\ IsInvoice(script'[k]) => g.at + 30 <= script'[k].at
<1>1. next' = next /\ script' = Tail(script)
  BY DEF Proceed
<1>2. \A k \in 1..Len(Tail(script)) : k + 1 \in 1..Len(script) /\ Tail(script)[k] = script[k + 1]
  BY RestOfScript DEF WorldInv, ScriptKept
<1> QED
  BY <1>1, <1>2 DEF SameRow, WorldInv, RowsAreEarlier

\* The refused stay explained as long as no row is lost.
LEMMA RefusedStay ==
  ASSUME WorldInv, refused' = refused, \A r \in rows : \E g \in rows' : SameRow(g, r)
  PROVE  OnlyLongMonthsAreRefused'
<1> SUFFICES ASSUME NEW x \in refused
             PROVE  /\ x.event.type = "invoice" /\ DaysIn(x.event.cycle) = 31
                    /\ \E g \in rows' : /\ g.sub = x.sub /\ g.cycle = x.event.cycle
                                        /\ g.at = x.event.at - 30
  BY DEF OnlyLongMonthsAreRefused
<1>1. /\ x.event.type = "invoice" /\ DaysIn(x.event.cycle) = 31
      /\ \E r \in rows : /\ r.sub = x.sub /\ r.cycle = x.event.cycle
                         /\ r.at = x.event.at - 30
  BY DEF WorldInv, OnlyLongMonthsAreRefused
<1> QED
  BY <1>1 DEF SameRow

LEMMA CasesStay ==
  ASSUME WorldInv, next' = next, Grown, cases' = cases
  PROVE  CasesKept'
<1> SUFFICES ASSUME NEW c \in cases
             PROVE  /\ DOMAIN c = CaseFields /\ c.sub \in 1..next
                    /\ c.ep \in 1..Len(subs'[c.sub].eps)
  BY DEF CasesKept
<1>1. /\ DOMAIN c = CaseFields /\ c.sub \in 1..next /\ c.ep \in 1..Len(subs[c.sub].eps)
  BY DEF WorldInv, CasesKept
<1> QED
  BY <1>1 DEF Grown

LEMMA SameAsItself == \A r : SameRow(r, r)
  BY DEF SameRow
-----------------------------------------------------------------------------
(* The actions.                                                            *)

LEMMA MaterialiseInv ==
  ASSUME WorldInv, Materialise
  PROVE  WorldInv'
<1> DEFINE fresh == [status |-> "ACTIVE", last |-> NoDay, eps |-> << >>]
<1>1. /\ next < Count /\ next' = next + 1 /\ subs' = Append(subs, fresh)
      /\ script' = ScriptOf(next + 1) /\ plans' = plans /\ rows' = rows
      /\ refused' = refused /\ cases' = cases /\ Count' = Count
  BY DEF Materialise, Count
<1>2. /\ next \in Nat /\ next + 1 \in Nat \ {0} /\ next + 1 \in 1..Count /\ Count \in Nat
      /\ subs \in Seq(Sub) /\ Len(subs) = next
      /\ \A i \in 1..next : Len(subs[i].eps) <= plans[i].halts
      /\ \A i \in 1..Count : IsPlan(plans[i])
  BY <1>1 DEF WorldInv, SubsKept, PopulationDrawn
<1>3. fresh \in Sub /\ fresh.status = "ACTIVE" /\ fresh.last = NoDay /\ Len(fresh.eps) = 0
  <2>1. << >> \in Seq(Episode) /\ Len(<< >>) = 0
    OBVIOUS
  <2> QED
    BY <2>1 DEF Sub, Statuses
<1> HIDE DEF fresh
<1>4. /\ subs' \in Seq(Sub) /\ Len(subs') = next + 1 /\ subs'[next + 1] = fresh
      /\ \A i \in 1..next : subs'[i] = subs[i]
  BY <1>1, <1>2, <1>3, AppendProperties
<1>5. ASSUME NEW i \in 1..(next + 1) PROVE i \in 1..next \/ i = next + 1
  BY <1>2
<1>6. PopulationDrawn'
  BY <1>1 DEF WorldInv, PopulationDrawn
<1>7. plans[next + 1].halts \in Nat
  <2>1. plans[next + 1] \in Plan
    BY <1>2 DEF IsPlan
  <2>2. plans[next + 1].halts \in {0, 1, 2}
    BY <2>1 DEF Plan, HaltCounts
  <2> QED
    BY <2>2
<1>8. SubsKept'
  <2>1. \A i \in 1..(next + 1) : Len(subs'[i].eps) <= plans[i].halts
    BY <1>2, <1>3, <1>4, <1>5, <1>7
  <2> QED
    BY <1>1, <1>2, <1>4, <2>1 DEF SubsKept
<1>9. HaltIsOpen'
  <2>1. \A i \in 1..next : OpenIn(subs[i])
    BY DEF WorldInv, HaltIsOpen, OpenIn
  <2>2. OpenIn(fresh)
    BY <1>3 DEF OpenIn
  <2>3. \A i \in 1..(next + 1) : OpenIn(subs'[i])
    BY <1>4, <1>5, <2>1, <2>2
  <2> QED
    BY <1>1, <2>3 DEF HaltIsOpen, OpenIn
<1>10. ScriptKept'
  <2> DEFINE s == ScriptOf(next + 1)
  <2>1. /\ IsScript(s) /\ Fits(s, plans[next + 1].halts)
        /\ s # << >> => s[1].type = "pending"
    BY <1>2, ScriptsAreScripts
  <2> HIDE DEF s
  <2>2. ASSUME s # << >>
        PROVE  /\ next + 1 >= 1 /\ s[1].type \in Expected(fresh.status)
               /\ fresh.last <= s[1].at
               /\ Fits(s, plans[next + 1].halts - Len(fresh.eps))
    <3>1. s[1] \in Event
      BY <2>1, <2>2, RestOfScript
    <3>2. s[1].at \in Nat
      BY <3>1 DEF Event
    <3>3. plans[next + 1].halts - Len(fresh.eps) = plans[next + 1].halts
      BY <1>3, <1>7
    <3> QED
      BY <1>2, <1>3, <2>1, <2>2, <3>2, <3>3 DEF Expected, NoDay
  <2>3. script' = s
    BY <1>1 DEF s
  <2> QED
    BY <1>1, <1>4, <2>1, <2>2, <2>3 DEF ScriptKept
<1>11. RowsKept'
  <2> SUFFICES ASSUME NEW r \in rows
               PROVE  /\ DOMAIN r = RowFields /\ r.sub \in 1..(next + 1)
                      /\ r.ep \in 1..Len(subs'[r.sub].eps)
                      /\ r.at \in Nat /\ r.at - 8 \in Nat /\ r.cycle = BillingCycle(r.at - 8)
    BY <1>1 DEF RowsKept
  <2>1. /\ DOMAIN r = RowFields /\ r.sub \in 1..next /\ r.ep \in 1..Len(subs[r.sub].eps)
        /\ r.at \in Nat /\ r.at - 8 \in Nat /\ r.cycle = BillingCycle(r.at - 8)
    BY DEF WorldInv, RowsKept
  <2>2. r.sub \in 1..(next + 1) /\ subs'[r.sub] = subs[r.sub]
    BY <1>2, <1>4, <2>1
  <2> QED
    BY <2>1, <2>2
<1>12. RowsAreEarlier'
  <2>1. \A r \in rows : r.sub # next + 1
    <3>1. \A r \in rows : r.sub \in 1..next
      BY DEF WorldInv, RowsKept
    <3> QED
      BY <1>2, <3>1
  <2> QED
    BY <1>1, <2>1 DEF RowsAreEarlier
<1>13. CasesKept'
  <2> SUFFICES ASSUME NEW c \in cases
               PROVE  /\ DOMAIN c = CaseFields /\ c.sub \in 1..(next + 1)
                      /\ c.ep \in 1..Len(subs'[c.sub].eps)
    BY <1>1 DEF CasesKept
  <2>1. DOMAIN c = CaseFields /\ c.sub \in 1..next /\ c.ep \in 1..Len(subs[c.sub].eps)
    BY DEF WorldInv, CasesKept
  <2>2. c.sub \in 1..(next + 1) /\ subs'[c.sub] = subs[c.sub]
    BY <1>2, <1>4, <2>1
  <2> QED
    BY <2>1, <2>2
<1>14. OnlyLongMonthsAreRefused'
  BY <1>1, RefusedStay, SameAsItself
<1> QED
  BY <1>6, <1>8, <1>9, <1>10, <1>11, <1>12, <1>13, <1>14 DEF WorldInv

\* A lifecycle event that moves the subscription, whatever it does to the rows.
LEMMA LifecycleProceeds ==
  ASSUME WorldInv, PostsLifecycle, Proceed,
         subs' = [subs EXCEPT ![next] = Moved(Current, Posted)]
  PROVE  /\ PopulationDrawn' /\ SubsKept' /\ HaltIsOpen' /\ ScriptKept'
         /\ Grown
<1> DEFINE m == Moved(Current, Posted)
<1>1. /\ script # << >> /\ Posted.type \in Lifecycle
  BY DEF PostsLifecycle
<1>2. /\ Posted \in Event /\ Current \in Sub /\ Posted.at \in Nat
      /\ Posted.type \in Expected(Current.status)
      /\ Len(Current.eps) \in Nat
  BY <1>1, PostedIs
<1>3. Current.status \in Statuses
  BY <1>2 DEF Sub
<1>4. /\ m \in Sub /\ m.last = Posted.at
      /\ Current.status = "ACTIVE" => m.status = "PENDING" /\ Len(m.eps) = Len(Current.eps)
      /\ Current.status = "PENDING" =>
           /\ m.status = "HALTED" /\ Len(m.eps) = Len(Current.eps) + 1
           /\ m.eps[Len(Current.eps) + 1] = [halted |-> Posted.at, react |-> NoDay]
      /\ Current.status = "HALTED" => m.status = "ACTIVE" /\ Len(m.eps) = Len(Current.eps)
  BY <1>1, <1>2, MovedIs
<1>5. /\ Current.status = "ACTIVE" => Posted.type = "pending"
      /\ Current.status = "PENDING" => Posted.type = "halted"
      /\ Current.status = "HALTED" => Posted.type = "activated"
  BY <1>1, <1>2, <1>3, Verdict
<1> HIDE DEF m
<1>6. After(Posted.type) \subseteq Expected(m.status)
  BY <1>3, <1>4, <1>5 DEF After, Expected, Statuses
<1>7. OpenIn(m)
  <2>1. CASE Current.status = "PENDING"
    <3> DEFINE n == Len(m.eps)
    <3>1. n = Len(Current.eps) + 1 /\ m.eps[n] = [halted |-> Posted.at, react |-> NoDay]
      BY <1>4, <2>1
    <3>2. n >= 1 /\ m.eps[n].react = NoDay /\ m.eps[n].halted = Posted.at
      BY <1>2, <3>1
    <3> QED
      BY <1>2, <1>4, <3>2 DEF OpenIn
  <2>2. CASE Current.status # "PENDING"
    BY <1>3, <1>4, <2>2 DEF OpenIn, Statuses
  <2> QED
    BY <2>1, <2>2
<1>8. Len(m.eps) = Len(Current.eps) + (IF Posted.type = "halted" THEN 1 ELSE 0)
  <2>1. CASE Current.status = "PENDING"
    BY <1>4, <1>5, <2>1
  <2>2. CASE Current.status \in {"ACTIVE", "HALTED"}
    <3>1. Posted.type # "halted" /\ Len(m.eps) = Len(Current.eps)
      BY <1>4, <1>5, <2>2
    <3> QED
      BY <1>2, <3>1
  <2> QED
    BY <1>3, <2>1, <2>2 DEF Statuses
<1>9. subs' = [subs EXCEPT ![next] = m] /\ m.last <= Posted.at
  BY <1>2, <1>4 DEF m
<1>10. /\ PopulationDrawn' /\ SubsKept' /\ HaltIsOpen' /\ ScriptKept'
       /\ \A i \in 1..next : /\ Len(subs[i].eps) \in Nat /\ Len(subs'[i].eps) \in Nat
                             /\ Len(subs[i].eps) <= Len(subs'[i].eps)
  BY <1>1, <1>4, <1>6, <1>7, <1>8, <1>9, ScriptProceeds
<1> QED
  BY <1>10 DEF Grown

\* An event that leaves the subscription as it was: an invoice.
LEMMA InvoiceProceeds ==
  ASSUME WorldInv, script # << >>, IsInvoice(Posted), Proceed, subs' = subs
  PROVE  /\ PopulationDrawn' /\ SubsKept' /\ HaltIsOpen' /\ ScriptKept'
         /\ Grown
         /\ Current.status = "HALTED"
<1>1. /\ Posted \in Event /\ Current \in Sub /\ Posted.at \in Nat /\ Current.last <= Posted.at
      /\ Posted.type \in Expected(Current.status) /\ next \in 1..Len(subs)
      /\ Len(Current.eps) \in Nat /\ Current = subs[next]
  BY PostedIs
<1>2. Posted.type = "invoice"
  BY DEF IsInvoice
<1>3. Current.status = "HALTED"
  <2>1. Current.status \in Statuses
    BY <1>1 DEF Sub
  <2> QED
    BY <1>1, <1>2, <2>1 DEF Expected, Statuses
<1>4. After(Posted.type) \subseteq Expected(Current.status)
  BY <1>2, <1>3 DEF After, Expected
<1>5. subs' = [subs EXCEPT ![next] = Current]
  <2>1. subs \in Seq(Sub)
    BY DEF WorldInv, SubsKept
  <2>2. subs = [i \in DOMAIN subs |-> subs[i]]
    BY <2>1
  <2> QED
    BY <1>1, <2>2
<1>6. OpenIn(Current)
  <2>1. next \in 1..next
    BY <1>1 DEF WorldInv, SubsKept
  <2> QED
    BY <1>1, <2>1 DEF OpenIn, WorldInv, HaltIsOpen
<1>7. Len(Current.eps) = Len(Current.eps) + (IF Posted.type = "halted" THEN 1 ELSE 0)
  BY <1>1, <1>2
<1>8. /\ PopulationDrawn' /\ SubsKept' /\ HaltIsOpen' /\ ScriptKept'
      /\ \A i \in 1..next : /\ Len(subs[i].eps) \in Nat /\ Len(subs'[i].eps) \in Nat
                            /\ Len(subs[i].eps) <= Len(subs'[i].eps)
  BY <1>1, <1>4, <1>5, <1>6, <1>7, ScriptProceeds
<1> QED
  BY <1>3, <1>8 DEF Grown

\* The rows and cases stay in order when every row has its counterpart.
LEMMA RowsCorrespond ==
  ASSUME WorldInv, script # << >>, Proceed, Grown,
         \A g \in rows' : \E r \in rows : SameRow(g, r)
  PROVE  RowsKept' /\ RowsAreEarlier'
<1>1. next' = next
  BY DEF Proceed
<1>2. ASSUME NEW g \in rows'
      PROVE  /\ DOMAIN g = RowFields /\ g.sub \in 1..next' /\ g.ep \in 1..Len(subs'[g.sub].eps)
             /\ g.at \in Nat /\ g.at - 8 \in Nat /\ g.cycle = BillingCycle(g.at - 8)
             /\ \A k \in 1..Len(script') :
                  g.sub = next' /\ IsInvoice(script'[k]) => g.at + 30 <= script'[k].at
  <2>1. PICK r \in rows : SameRow(g, r)
    OBVIOUS
  <2> QED
    BY <1>1, <2>1, RowsProceed, RowsStayEarlier
<1> QED
  BY <1>2 DEF RowsKept, RowsAreEarlier

LEMMA PostTransitionInv ==
  ASSUME WorldInv, PostTransition
  PROVE  WorldInv'
<1>1. /\ PostsLifecycle /\ Proceed /\ script # << >>
      /\ rows' = rows /\ refused' = refused /\ cases' = cases
  BY DEF PostTransition, PostsLifecycle
<1>2. subs' = [subs EXCEPT ![next] = Moved(Current, Posted)]
  <2>1. /\ Current \in Sub /\ Posted.type \in Expected(Current.status)
        /\ Posted.type \in Lifecycle
    BY <1>1, PostedIs DEF PostsLifecycle
  <2>2. ~IsNoOp(Current.status, Posted.type)
    BY <2>1, Verdict DEF Sub
  <2> QED
    BY <2>2 DEF PostTransition, Current
<1>3. PopulationDrawn' /\ SubsKept' /\ HaltIsOpen' /\ ScriptKept' /\ Grown
  BY <1>1, <1>2, LifecycleProceeds
<1>4. RowsKept' /\ RowsAreEarlier'
  BY <1>1, <1>3, RowsCorrespond, SameAsItself
<1>5. CasesKept'
  BY <1>1, <1>3, CasesStay DEF Proceed
<1>6. OnlyLongMonthsAreRefused'
  BY <1>1, RefusedStay, SameAsItself
<1> QED
  BY <1>3, <1>4, <1>5, <1>6 DEF WorldInv

LEMMA GatedRows ==
  ASSUME WorldInv, NEW i, NEW n, NEW last
  PROVE  /\ \A g \in Gated(i, n, last) : \E r \in rows : SameRow(g, r)
         /\ \A r \in rows : \E g \in Gated(i, n, last) : SameRow(g, r)
<1> DEFINE Of(r) == IF r \in InHalt(i, n) /\ r.at <= last
                    THEN [r EXCEPT !.verdict = VerdictOf(r)] ELSE r
<1>1. Gated(i, n, last) = {Of(r) : r \in rows}
  BY DEF Gated
<1>2. ASSUME NEW r \in rows PROVE SameRow(Of(r), r)
  <2>1. DOMAIN r = RowFields
    BY DEF WorldInv, RowsKept
  <2>2. SameRow([r EXCEPT !.verdict = VerdictOf(r)], r)
    BY <2>1 DEF SameRow, RowFields
  <2> QED
    BY <2>2, SameAsItself
<1> HIDE DEF Of
<1> QED
  BY <1>1, <1>2

LEMMA PostReturnInv ==
  ASSUME WorldInv, PostReturn
  PROVE  WorldInv'
<1> DEFINE n == Len(Current.eps)
           episode == [Current.eps[n] EXCEPT !.react = Posted.at]
<1>1. /\ PostsLifecycle /\ Proceed /\ script # << >> /\ refused' = refused
      /\ next' = next /\ Closes(Current.status, Posted.type)
      /\ subs' = [subs EXCEPT ![next] = Moved(Current, Posted)]
      /\ Window(next, n, episode)
  BY DEF PostReturn, PostsLifecycle, Proceed, Current
<1>2. PopulationDrawn' /\ SubsKept' /\ HaltIsOpen' /\ ScriptKept' /\ Grown
  BY <1>1, LifecycleProceeds
<1> HIDE DEF n, episode
<1>3. /\ \A g \in rows' : \E r \in rows : SameRow(g, r)
      /\ \A r \in rows : \E g \in rows' : SameRow(g, r)
  <2>1. \E last : rows' = Gated(next, n, last)
    BY <1>1 DEF Window
  <2> QED
    BY <2>1, GatedRows
<1>4. RowsKept' /\ RowsAreEarlier'
  BY <1>1, <1>2, <1>3, RowsCorrespond
<1>5. OnlyLongMonthsAreRefused'
  BY <1>1, <1>3, RefusedStay
<1>6. next \in 1..next /\ n \in 1..Len(subs'[next].eps)
  <2>1. /\ Current = subs[next] /\ next \in 1..Len(subs) /\ n \in Nat
    BY <1>1, PostedIs DEF n
  <2>2. next \in 1..next
    BY <2>1 DEF WorldInv, SubsKept
  <2>3. Current.status = "HALTED"
    BY <1>1 DEF Closes
  <2>4. n >= 1
    BY <2>1, <2>2, <2>3 DEF WorldInv, HaltIsOpen, n
  <2>5. n <= Len(subs'[next].eps) /\ Len(subs'[next].eps) \in Nat
    BY <1>2, <2>1, <2>2 DEF Grown, n
  <2> QED
    BY <2>1, <2>2, <2>4, <2>5
<1>7. CasesKept'
  <2>1. \A c \in cases : /\ DOMAIN c = CaseFields /\ c.sub \in 1..next
                         /\ c.ep \in 1..Len(subs'[c.sub].eps)
    <3> SUFFICES ASSUME NEW c \in cases
                 PROVE  /\ DOMAIN c = CaseFields /\ c.sub \in 1..next
                        /\ c.ep \in 1..Len(subs'[c.sub].eps)
      OBVIOUS
    <3>1. DOMAIN c = CaseFields /\ c.sub \in 1..next /\ c.ep \in 1..Len(subs[c.sub].eps)
      BY DEF WorldInv, CasesKept
    <3> QED
      BY <1>2, <3>1 DEF Grown
  <2>2. ASSUME NEW escalates, NEW c \in NewCases(next, n, episode, escalates)
        PROVE  DOMAIN c = CaseFields /\ c.sub = next /\ c.ep = n
    BY <2>2 DEF NewCases, CaseFields
  <2>3. \/ cases' = cases
        \/ \E escalates : cases' = cases \cup NewCases(next, n, episode, escalates)
    BY <1>1 DEF Window
  <2>4. \A c \in cases' : /\ DOMAIN c = CaseFields /\ c.sub \in 1..next
                          /\ c.ep \in 1..Len(subs'[c.sub].eps)
    BY <1>6, <2>1, <2>2, <2>3
  <2> QED
    BY <1>1, <2>4 DEF CasesKept
<1> QED
  BY <1>2, <1>4, <1>5, <1>7 DEF WorldInv

\* The halt an invoice of a halted subscription is raised in.
LEMMA LineageIsOpen ==
  ASSUME WorldInv, script # << >>, Current.status = "HALTED"
  PROVE  LineageOf(Current, Posted.at) \in 1..Len(Current.eps)
<1> DEFINE eps == Current.eps
           hits == {m \in DOMAIN eps : Contains(eps[m], Posted.at)}
           n == Len(eps)
<1>1. /\ Current = subs[next] /\ next \in 1..Len(subs) /\ Current \in Sub
      /\ Posted.at \in Nat /\ Current.last <= Posted.at
  BY PostedIs
<1>2. next \in 1..next
  BY <1>1 DEF WorldInv, SubsKept
<1>3. n >= 1 /\ eps[n].react = NoDay /\ eps[n].halted <= Current.last
  BY <1>1, <1>2 DEF WorldInv, HaltIsOpen
<1>4. eps \in Seq(Episode) /\ n \in Nat /\ DOMAIN eps = 1..n
  BY <1>1, LenProperties DEF Sub
<1>5. n \in DOMAIN eps /\ eps[n] \in Episode
  BY <1>3, <1>4
<1>6. eps[n].halted \in Nat /\ Current.last \in Int
  BY <1>1, <1>5 DEF Episode, Sub, NoDay
<1>7. eps[n].halted <= Posted.at
  BY <1>1, <1>3, <1>6
<1>8. n \in hits
  BY <1>3, <1>5, <1>7 DEF Contains
<1> HIDE DEF n, eps
<1>9. hits # {} /\ hits \in SUBSET Nat
  BY <1>4, <1>8
<1>10. PICK x \in hits : \A y \in hits : x <= y
  BY <1>9, LeastOf
<1> HIDE DEF hits
<1>11. Min(hits) \in hits
  BY <1>10 DEF Min
<1>12. LineageOf(Current, Posted.at) = Min(hits)
  BY <1>9 DEF LineageOf, hits, eps
<1> QED
  BY <1>4, <1>11, <1>12 DEF hits, n, eps

LEMMA PostInvoiceInv ==
  ASSUME WorldInv, PostInvoice
  PROVE  WorldInv'
<1> DEFINE new == [sub |-> next, at |-> Posted.at, cycle |-> Posted.cycle,
                   ep |-> LineageOf(Current, Posted.at), delivery |-> Posted.delivery,
                   verdict |-> "REVIEW_REQUIRED"]
<1>1. /\ script # << >> /\ IsInvoice(Posted) /\ Proceed /\ subs' = subs
      /\ rows' = rows \cup {new} /\ refused' = refused /\ cases' = cases /\ next' = next
      /\ script' = Tail(script)
  BY DEF PostInvoice, PostsInvoice, IsInvoice, Proceed
<1>2. /\ PopulationDrawn' /\ SubsKept' /\ HaltIsOpen' /\ ScriptKept' /\ Grown
      /\ Current.status = "HALTED"
  BY <1>1, InvoiceProceeds
<1>3. /\ next \in 1..Len(subs) /\ Current = subs[next] /\ Posted = script[1] /\ Posted.at \in Nat
  BY <1>1, PostedIs
<1>4. /\ Posted.at - 8 \in Nat /\ Posted.cycle = BillingCycle(Posted.at - 8)
      /\ \A k \in 1..Len(Tail(script)) : IsInvoice(Tail(script)[k]) =>
           Posted.at + 30 <= Tail(script)[k].at
  BY <1>1, <1>3, RestOfScript DEF WorldInv, ScriptKept
<1>5. next \in 1..next
  BY <1>3 DEF WorldInv, SubsKept
<1>6. LineageOf(Current, Posted.at) \in 1..Len(Current.eps)
  BY <1>1, <1>2, LineageIsOpen
<1>7. /\ DOMAIN new = RowFields /\ new.sub = next /\ new.at = Posted.at
      /\ new.cycle = Posted.cycle /\ new.ep = LineageOf(Current, Posted.at)
  BY DEF RowFields
<1> HIDE DEF new
<1>8. ASSUME NEW r \in rows
      PROVE  /\ DOMAIN r = RowFields /\ r.sub \in 1..next' /\ r.ep \in 1..Len(subs'[r.sub].eps)
             /\ r.at \in Nat /\ r.at - 8 \in Nat /\ r.cycle = BillingCycle(r.at - 8)
             /\ \A k \in 1..Len(script') :
                  r.sub = next' /\ IsInvoice(script'[k]) => r.at + 30 <= script'[k].at
  BY <1>1, <1>2, RowsProceed, RowsStayEarlier, SameAsItself
<1>9. RowsKept'
  <2>1. /\ DOMAIN new = RowFields /\ new.sub \in 1..next'
        /\ new.ep \in 1..Len(subs'[new.sub].eps)
        /\ new.at \in Nat /\ new.at - 8 \in Nat /\ new.cycle = BillingCycle(new.at - 8)
    BY <1>1, <1>3, <1>4, <1>5, <1>6, <1>7
  <2> QED
    BY <1>1, <1>8, <2>1 DEF RowsKept
<1>10. RowsAreEarlier'
  <2>1. \A k \in 1..Len(script') : IsInvoice(script'[k]) => new.at + 30 <= script'[k].at
    BY <1>1, <1>4, <1>7
  <2> QED
    BY <1>1, <1>8, <2>1 DEF RowsAreEarlier
<1>11. CasesKept'
  BY <1>1, <1>2, CasesStay
<1>12. OnlyLongMonthsAreRefused'
  BY <1>1, RefusedStay, SameAsItself
<1> QED
  BY <1>2, <1>9, <1>10, <1>11, <1>12 DEF WorldInv

LEMMA RefuseInv ==
  ASSUME WorldInv, Refuse
  PROVE  WorldInv'
<1>1. /\ script # << >> /\ Proceed /\ subs' = subs /\ rows' = rows /\ cases' = cases
      /\ refused' = refused \cup {[sub |-> next, event |-> Posted]} /\ next' = next
  BY DEF Refuse, Proceed
<1>2. /\ Posted \in Event /\ Posted = script[1] /\ Posted.at \in Nat
  BY <1>1, PostedIs
<1>3. Posted.type = "invoice" /\ IsInvoice(Posted) /\ CycleTaken
  <2>1. Posted.type \notin Lifecycle
    BY <1>1, LifecycleIsAccepted DEF Refuse, PostsLifecycle
  <2>2. Posted.type = "invoice"
    BY <1>2, <2>1 DEF Event
  <2> QED
    BY <1>1, <2>2 DEF Refuse, PostsInvoice, IsInvoice
<1>4. PICK r \in rows : r.sub = next /\ r.cycle = Posted.cycle
  BY <1>3 DEF CycleTaken
<1>5. r.at \in Nat /\ r.at - 8 \in Nat /\ r.cycle = BillingCycle(r.at - 8)
  BY DEF WorldInv, RowsKept
<1>6. /\ Posted.at - 8 \in Nat /\ Posted.cycle = BillingCycle(Posted.at - 8)
      /\ 1 \in 1..Len(script)
  BY <1>1, <1>2, <1>3, RestOfScript DEF WorldInv, ScriptKept
<1>7. r.at + 30 <= Posted.at
  BY <1>2, <1>3, <1>4, <1>6 DEF WorldInv, RowsAreEarlier
<1>8. DaysIn(Posted.cycle) = 31 /\ r.at = Posted.at - 30
  <2> DEFINE d == r.at - 8
             e == Posted.at - 8
  <2>1. d \in Nat /\ e \in Nat /\ d + 30 <= e /\ BillingCycle(d) = BillingCycle(e)
    <3>1. d \in Nat /\ e \in Nat /\ BillingCycle(d) = BillingCycle(e)
      BY <1>4, <1>5, <1>6
    <3>2. d + 30 <= e
      <4> DEFINE x == r.at
                 y == Posted.at
      <4>1. x \in Nat /\ y \in Nat /\ x + 30 <= y
        BY <1>2, <1>5, <1>7
      <4> HIDE DEF x, y
      <4>2. (x - 8) + 30 <= y - 8
        BY <4>1
      <4> QED
        BY <4>2 DEF x, y
    <3> QED
      BY <3>1, <3>2
  <2>2. d + 30 = e /\ DaysIn(BillingCycle(e)) = 31
    <3> HIDE DEF d, e
    <3> QED
      BY <2>1, LongMonth
  <2> QED
    BY <1>2, <1>5, <1>6, <2>2
<1>9. PopulationDrawn' /\ SubsKept' /\ HaltIsOpen' /\ ScriptKept' /\ Grown
  BY <1>1, <1>3, InvoiceProceeds
<1>10. RowsKept' /\ RowsAreEarlier'
  BY <1>1, <1>9, RowsCorrespond, SameAsItself
<1>11. CasesKept'
  BY <1>1, <1>9, CasesStay
<1>12. OnlyLongMonthsAreRefused'
  <2> SUFFICES ASSUME NEW x \in refused'
               PROVE  /\ x.event.type = "invoice" /\ DaysIn(x.event.cycle) = 31
                      /\ \E g \in rows : /\ g.sub = x.sub /\ g.cycle = x.event.cycle
                                         /\ g.at = x.event.at - 30
    BY <1>1 DEF OnlyLongMonthsAreRefused
  <2>1. CASE x \in refused
    BY <2>1 DEF WorldInv, OnlyLongMonthsAreRefused
  <2>2. CASE x = [sub |-> next, event |-> Posted]
    <3>1. x.sub = next /\ x.event = Posted
      BY <2>2
    <3> QED
      BY <1>3, <1>4, <1>8, <3>1
  <2> QED
    BY <1>1, <2>1, <2>2
<1> QED
  BY <1>9, <1>10, <1>11, <1>12 DEF WorldInv

LEMMA StampInv ==
  ASSUME WorldInv, Stamp
  PROVE  WorldInv'
<1>1. /\ plans' = plans /\ next' = next /\ script' = script /\ subs' = subs /\ rows' = rows
      /\ refused' = refused
  BY DEF Stamp
<1>2. PICK c \in Unstamped : cases' = (cases \ {c}) \cup {[c EXCEPT !.key = KeyOf(c)]}
  BY DEF Stamp
<1>3. c \in cases
  BY DEF Unstamped
<1>4. CasesKept'
  <2>1. DOMAIN c = CaseFields /\ c.sub \in 1..next /\ c.ep \in 1..Len(subs[c.sub].eps)
    BY <1>3 DEF WorldInv, CasesKept
  <2> DEFINE d == [c EXCEPT !.key = KeyOf(c)]
  <2>2. DOMAIN d = CaseFields /\ d.sub = c.sub /\ d.ep = c.ep
    BY <2>1 DEF CaseFields
  <2> HIDE DEF d
  <2>3. cases' = (cases \ {c}) \cup {d}
    BY <1>2 DEF d
  <2> QED
    BY <1>1, <2>1, <2>2, <2>3 DEF WorldInv, CasesKept
<1> QED
  BY <1>1, <1>4 DEF WorldInv, PopulationDrawn, SubsKept, HaltIsOpen, ScriptKept, RowsKept,
                    RowsAreEarlier, OnlyLongMonthsAreRefused, Count

LEMMA WorldInvNext ==
  ASSUME WorldInv, [Next]_worldVars
  PROVE  WorldInv'
<1>1. CASE Materialise
  BY <1>1, MaterialiseInv
<1>2. CASE PostTransition
  BY <1>2, PostTransitionInv
<1>3. CASE PostReturn
  BY <1>3, PostReturnInv
<1>4. CASE PostInvoice
  BY <1>4, PostInvoiceInv
<1>5. CASE Refuse
  BY <1>5, RefuseInv
<1>6. CASE Stamp
  BY <1>6, StampInv
<1>7. CASE Summarise \/ UNCHANGED worldVars
  <2>1. /\ plans' = plans /\ next' = next /\ script' = script /\ subs' = subs /\ rows' = rows
        /\ refused' = refused /\ cases' = cases
    BY <1>7 DEF Summarise, worldVars
  <2> QED
    BY <2>1 DEF WorldInv, PopulationDrawn, SubsKept, HaltIsOpen, ScriptKept, RowsKept,
                RowsAreEarlier, CasesKept, OnlyLongMonthsAreRefused, Count
<1> QED
  BY <1>1, <1>2, <1>3, <1>4, <1>5, <1>6, <1>7 DEF Next

LEMMA WorldInvIsInvariant == Spec => []WorldInv
<1>1. Init => WorldInv
  BY WorldInvInit
<1>2. WorldInv /\ [Next]_worldVars => WorldInv'
  BY WorldInvNext
<1> QED
  BY <1>1, <1>2, PTL DEF Spec

LEMMA WorldInvTypes == WorldInv => WorldTypeOK
<1> SUFFICES ASSUME WorldInv PROVE WorldTypeOK
  OBVIOUS
<1>1. /\ next \in 0..Count /\ subs \in Seq(Sub) /\ Len(subs) = next /\ DOMAIN subs = 1..next
      /\ \A i \in 1..next : Len(subs[i].eps) <= plans[i].halts
  BY LenProperties DEF WorldInv, SubsKept
<1>2. \A i \in 1..next : subs[i].status \in Statuses /\ subs[i].eps \in Seq(Episode)
  <2> TAKE i \in 1..next
  <2>1. subs[i] \in Sub
    BY <1>1, ElementOfSeq
  <2> QED
    BY <2>1 DEF Sub
<1>3. \A i \in 1..next : DOMAIN subs[i].eps = 1..Len(subs[i].eps)
  BY <1>2, LenProperties
<1>4. \A r \in rows : r.ep \in DOMAIN subs[r.sub].eps
  BY <1>3 DEF WorldInv, RowsKept
<1>5. \A c \in cases : c.ep \in DOMAIN subs[c.sub].eps
  BY <1>3 DEF WorldInv, CasesKept
<1> QED
  BY <1>1, <1>2, <1>4, <1>5 DEF WorldTypeOK

\* Every row and every case of a run belongs to a halt that its subscription has,
\* and no subscription has more halts than its plan: the invoice of a period finds
\* the halt it is raised in open (_halt_cycle, find_episode_containing).
THEOREM WorldTypesHold == Spec => []WorldTypeOK
BY WorldInvIsInvariant, WorldInvTypes, PTL

\* Ingestion refuses no transition of the generator's, and an invoice only when a
\* month of 31 days holds the starts of two periods of thirty (_halt_cycle).
THEOREM RefusalsAreLongMonths == Spec => []OnlyLongMonthsAreRefused
<1>1. WorldInv => OnlyLongMonthsAreRefused
  BY DEF WorldInv
<1> QED
  BY <1>1, WorldInvIsInvariant, PTL

-----------------------------------------------------------------------------
(* The history of a run, read off the plans.                               *)

\* The n-th halt of subscriber i, as its plan says.
HaltAt(i, n) == IF n = 1 THEN FirstHalt(i) ELSE SecondHalt(i)

Cycles(i, n) == IF n = 1 THEN plans[i].missed ELSE AtLeastOne(plans[i].missed \div 2)

DeliveryOf(i, n) == IF n = 1 THEN plans[i].first ELSE plans[i].second

Returns(i) == plans[i].fate = "reactivated"

ReturnAt(i, n) == HaltAt(i, n) + 30 * Cycles(i, n) + 12

BillAt(i, n, k) == HaltAt(i, n) + 30 * (k - 1) + 9

\* Its events.
PendingOf(i, n) == [type |-> "pending", at |-> HaltAt(i, n) - 5]

HaltedOf(i, n) == [type |-> "halted", at |-> HaltAt(i, n)]

BillOf(i, n, k) ==
  [type |-> "invoice", at |-> BillAt(i, n, k), cycle |-> BillingCycle(BillAt(i, n, k) - 8),
   delivery |-> DeliveryOf(i, n)[k]]

ReturnOf(i, n) == [type |-> "activated", at |-> ReturnAt(i, n)]

Halts(i) == 1..plans[i].halts

IsEvent(i, e) ==
  \E n \in Halts(i) :
    \/ e = PendingOf(i, n)
    \/ e = HaltedOf(i, n)
    \/ \E k \in 1..Cycles(i, n) : e = BillOf(i, n, k)
    \/ Returns(i) /\ e = ReturnOf(i, n)

LEMMA PlanIs ==
  ASSUME PopulationDrawn, NEW i \in 1..Count, NEW n \in Halts(i)
  PROVE  /\ i \in Nat /\ i >= 1
         /\ n \in {1, 2}
         /\ FirstHalt(i) \in Nat /\ FirstHalt(i) >= 40
         /\ SecondHalt(i) = FirstHalt(i) + 30 * plans[i].missed + 50
         /\ plans[i].missed \in Nat /\ AtLeastOne(plans[i].missed \div 2) \in Nat
         /\ DeliveryOf(i, n) \in [1..Cycles(i, n) -> DrawnDeliveries]
         /\ plans[i].amount \in Nat /\ plans[i].halts \in {1, 2}
         /\ plans[i].halts = 2 => Returns(i)
<1> DEFINE p == plans[i]
<1>1. IsPlan(p) /\ Count \in Nat
  BY DEF PopulationDrawn
<1>2. i \in Nat /\ i >= 1
  BY <1>1
<1>3. /\ p.missed \in Nat /\ p.halts \in {0, 1, 2} /\ p.offset \in 40..240 /\ p.amount \in Nat
      /\ p.fate \in {"always_active", "halted_never_returned", "reactivated"}
      /\ p.fate = "always_active" => p.halts = 0
      /\ p.fate = "halted_never_returned" => p.halts = 1
      /\ p.fate # "always_active" => p.first \in [1..p.missed -> DrawnDeliveries]
      /\ p.halts = 2 => p.second \in [1..AtLeastOne(p.missed \div 2) -> DrawnDeliveries]
  BY <1>1 DEF IsPlan, Plan, Fates, HaltCounts, Offsets
<1>4. n \in 1..p.halts
  BY DEF Halts
<1>5. FirstHalt(i) = (i - 1) + p.offset /\ SecondHalt(i) = FirstHalt(i) + 30 * p.missed + 50
  BY DEF FirstHalt, SecondHalt
<1> HIDE DEF p
<1>6. p.halts \in {1, 2} /\ n \in {1, 2} /\ (n = 2 => p.halts = 2)
  BY <1>3, <1>4
<1>7. p.fate # "always_active" /\ (p.halts = 2 => p.fate = "reactivated")
  BY <1>3, <1>6
<1>8. FirstHalt(i) \in Nat /\ FirstHalt(i) >= 40
  <2>1. p.offset \in Nat /\ p.offset >= 40
    <3>1. p.offset \in 40..240
      BY <1>3
    <3> QED
      BY <3>1
  <2> QED
    BY <1>2, <1>5, <2>1
<1>9. DeliveryOf(i, n) \in [1..Cycles(i, n) -> DrawnDeliveries]
  <2>1. CASE n = 1
    BY <1>3, <1>7, <2>1 DEF DeliveryOf, Cycles, p
  <2>2. CASE n = 2
    <3>1. n # 1 /\ p.halts = 2
      BY <1>6, <2>2
    <3> QED
      BY <1>3, <3>1 DEF DeliveryOf, Cycles, p
  <2> QED
    BY <1>6, <2>1, <2>2
<1>10. AtLeastOne(p.missed \div 2) \in Nat
  BY <1>3, SecondCycles
<1> QED
  BY <1>2, <1>3, <1>5, <1>6, <1>7, <1>8, <1>9, <1>10 DEF p, Returns

\* When things happen in a halt.
LEMMA Timeline ==
  ASSUME PopulationDrawn, NEW i \in 1..Count, NEW n \in Halts(i)
  PROVE  /\ n \in {1, 2}
         /\ HaltAt(i, n) \in Nat /\ HaltAt(i, n) >= 40
         /\ Cycles(i, n) \in Nat
         /\ ReturnAt(i, n) \in Nat /\ ReturnAt(i, n) = HaltAt(i, n) + 30 * Cycles(i, n) + 12
         /\ HaltAt(i, n) < ReturnAt(i, n)
         /\ DeliveryOf(i, n) \in [1..Cycles(i, n) -> DrawnDeliveries]
<1>1. /\ n \in {1, 2} /\ FirstHalt(i) \in Nat /\ FirstHalt(i) >= 40
      /\ SecondHalt(i) = FirstHalt(i) + 30 * plans[i].missed + 50
      /\ plans[i].missed \in Nat /\ AtLeastOne(plans[i].missed \div 2) \in Nat
      /\ DeliveryOf(i, n) \in [1..Cycles(i, n) -> DrawnDeliveries]
  BY PlanIs
<1>2. SecondHalt(i) \in Nat /\ SecondHalt(i) >= 40
  BY <1>1
<1>3. HaltAt(i, n) \in Nat /\ HaltAt(i, n) >= 40 /\ Cycles(i, n) \in Nat
  BY <1>1, <1>2 DEF HaltAt, Cycles
<1>4. ReturnAt(i, n) = HaltAt(i, n) + 30 * Cycles(i, n) + 12
  BY DEF ReturnAt
<1>5. ReturnAt(i, n) \in Nat /\ HaltAt(i, n) < ReturnAt(i, n)
  BY <1>3, <1>4
<1> QED
  BY <1>1, <1>3, <1>4, <1>5

LEMMA BillTimes ==
  ASSUME PopulationDrawn, NEW i \in 1..Count, NEW n \in Halts(i), NEW k \in 1..Cycles(i, n)
  PROVE  /\ k \in Nat /\ k >= 1
         /\ BillAt(i, n, k) = HaltAt(i, n) + 30 * k - 21
         /\ BillAt(i, n, k) \in Nat /\ BillAt(i, n, k) - 8 \in Nat
         /\ HaltAt(i, n) < BillAt(i, n, k) /\ BillAt(i, n, k) < ReturnAt(i, n)
         /\ DeliveryOf(i, n)[k] \in DrawnDeliveries
<1>1. /\ HaltAt(i, n) \in Nat /\ HaltAt(i, n) >= 40 /\ Cycles(i, n) \in Nat
      /\ ReturnAt(i, n) = HaltAt(i, n) + 30 * Cycles(i, n) + 12
      /\ DeliveryOf(i, n) \in [1..Cycles(i, n) -> DrawnDeliveries]
  BY Timeline
<1>2. k \in Nat /\ k >= 1 /\ k <= Cycles(i, n)
  BY <1>1
<1>3. BillAt(i, n, k) = HaltAt(i, n) + 30 * k - 21
  BY <1>1, <1>2 DEF BillAt
<1>4. DeliveryOf(i, n)[k] \in DrawnDeliveries
  BY <1>1
<1>5. /\ BillAt(i, n, k) \in Nat /\ BillAt(i, n, k) - 8 \in Nat
      /\ HaltAt(i, n) < BillAt(i, n, k) /\ BillAt(i, n, k) < ReturnAt(i, n)
  BY <1>1, <1>2, <1>3
<1> QED
  BY <1>2, <1>3, <1>4, <1>5

\* The second halt begins after the first has ended.
LEMMA HaltsApart ==
  ASSUME PopulationDrawn, NEW i \in 1..Count, NEW n \in Halts(i), NEW m \in Halts(i), n < m
  PROVE  /\ n = 1 /\ m = 2 /\ Returns(i)
         /\ ReturnAt(i, n) + 30 < HaltAt(i, m)
<1>1. /\ n \in {1, 2} /\ m \in {1, 2} /\ HaltAt(i, n) \in Nat /\ Cycles(i, n) \in Nat
      /\ ReturnAt(i, n) = HaltAt(i, n) + 30 * Cycles(i, n) + 12
  BY Timeline
<1>2. n = 1 /\ m = 2
  BY <1>1
<1>3. /\ SecondHalt(i) = FirstHalt(i) + 30 * plans[i].missed + 50
      /\ plans[i].halts \in {1, 2} /\ (plans[i].halts = 2 => Returns(i))
  BY PlanIs
<1>4. Returns(i)
  BY <1>2, <1>3 DEF Halts
<1>5. HaltAt(i, n) = FirstHalt(i) /\ Cycles(i, n) = plans[i].missed
      /\ HaltAt(i, m) = SecondHalt(i)
  BY <1>2 DEF HaltAt, Cycles
<1>6. ReturnAt(i, n) + 30 < HaltAt(i, m)
  <2> DEFINE x == FirstHalt(i)
             y == plans[i].missed
             z == SecondHalt(i)
             w == ReturnAt(i, n)
  <2>1. x \in Nat /\ y \in Nat /\ z = x + 30 * y + 50 /\ w = x + 30 * y + 12
    BY <1>1, <1>3, <1>5
  <2> HIDE DEF x, y, z, w
  <2>2. w + 30 < z
    BY <2>1
  <2> QED
    BY <1>5, <2>2 DEF w, z
<1> QED
  BY <1>2, <1>4, <1>6

\* A day is of one bill.
LEMMA BillsApart ==
  ASSUME PopulationDrawn, NEW i \in 1..Count, NEW n \in Halts(i), NEW m \in Halts(i),
         NEW k \in 1..Cycles(i, n), NEW l \in 1..Cycles(i, m),
         BillAt(i, n, k) = BillAt(i, m, l)
  PROVE  n = m /\ k = l
<1>1. /\ n \in {1, 2} /\ m \in {1, 2}
      /\ HaltAt(i, n) \in Nat /\ HaltAt(i, m) \in Nat
      /\ ReturnAt(i, n) \in Nat /\ ReturnAt(i, m) \in Nat
  BY Timeline
<1>2. /\ k \in Nat /\ BillAt(i, n, k) = HaltAt(i, n) + 30 * k - 21 /\ BillAt(i, n, k) \in Nat
      /\ HaltAt(i, n) < BillAt(i, n, k) /\ BillAt(i, n, k) < ReturnAt(i, n)
  BY BillTimes
<1>3. /\ l \in Nat /\ BillAt(i, m, l) = HaltAt(i, m) + 30 * l - 21
      /\ HaltAt(i, m) < BillAt(i, m, l) /\ BillAt(i, m, l) < ReturnAt(i, m)
  BY BillTimes
<1>4. ~(n < m)
  <2> SUFFICES ASSUME n < m PROVE FALSE
    OBVIOUS
  <2>1. ReturnAt(i, n) + 30 < HaltAt(i, m)
    BY HaltsApart
  <2> QED
    BY <1>1, <1>2, <1>3, <2>1
<1>5. ~(m < n)
  <2> SUFFICES ASSUME m < n PROVE FALSE
    OBVIOUS
  <2>1. ReturnAt(i, m) + 30 < HaltAt(i, n)
    BY HaltsApart
  <2> QED
    BY <1>1, <1>2, <1>3, <2>1
<1>6. n = m
  BY <1>1, <1>4, <1>5
<1>7. k = l
  <2> DEFINE x == HaltAt(i, n)
             y == BillAt(i, n, k)
  <2>1. x \in Nat /\ k \in Nat /\ l \in Nat /\ y = x + 30 * k - 21 /\ y = x + 30 * l - 21
    BY <1>1, <1>2, <1>3, <1>6
  <2> HIDE DEF x, y
  <2> QED
    BY <2>1
<1> QED
  BY <1>6, <1>7

\* What is in the script of a halt.
HaltHas(H, halt, cycles, delivery, reactivate) ==
  \A e : (\E j \in 1..Len(H) : H[j] = e) <=>
           \/ e = [type |-> "pending", at |-> halt - 5]
           \/ e = [type |-> "halted", at |-> halt]
           \/ \E q \in 1..cycles : e = InvoiceOf(halt, q, delivery)
           \/ reactivate /\ e = [type |-> "activated", at |-> halt + 30 * cycles + 12]

LEMMA InAHalt ==
  ASSUME NEW halt \in Nat, NEW cycles \in Nat, NEW delivery, NEW reactivate \in BOOLEAN,
         NEW H, HaltIs(H, halt, cycles, delivery, reactivate)
  PROVE  HaltHas(H, halt, cycles, delivery, reactivate)
<1> SUFFICES ASSUME NEW e
             PROVE  (\E j \in 1..Len(H) : H[j] = e) <=>
           \/ e = [type |-> "pending", at |-> halt - 5]
           \/ e = [type |-> "halted", at |-> halt]
           \/ \E q \in 1..cycles : e = InvoiceOf(halt, q, delivery)
           \/ reactivate /\ e = [type |-> "activated", at |-> halt + 30 * cycles + 12]
  BY DEF HaltHas
<1> DEFINE first == [type |-> "pending", at |-> halt - 5]
           begin == [type |-> "halted", at |-> halt]
           end == [type |-> "activated", at |-> halt + 30 * cycles + 12]
<1>1. /\ Len(H) = IF reactivate THEN cycles + 3 ELSE cycles + 2
      /\ H[1] = first /\ H[2] = begin
      /\ \A q \in 1..cycles : H[q + 2] = InvoiceOf(halt, q, delivery)
      /\ reactivate => H[cycles + 3] = end
  BY DEF HaltIs
<1> HIDE DEF first, begin, end
<1>2. ASSUME NEW j \in 1..Len(H)
      PROVE  \/ H[j] = first \/ H[j] = begin
             \/ \E q \in 1..cycles : H[j] = InvoiceOf(halt, q, delivery)
             \/ reactivate /\ H[j] = end
  <2>1. CASE j = 1 \/ j = 2
    BY <1>1, <2>1
  <2>2. CASE j >= 3 /\ j <= cycles + 2
    <3>1. j - 2 \in 1..cycles /\ j = (j - 2) + 2
      BY <2>2
    <3> QED
      BY <1>1, <3>1
  <2>3. CASE j > cycles + 2
    <3>1. reactivate /\ j = cycles + 3
      BY <1>1, <2>3
    <3> QED
      BY <1>1, <3>1
  <2>4. j \in Int /\ j >= 1
    BY <1>1
  <2> QED
    BY <2>1, <2>2, <2>3, <2>4
<1>3. 1 \in 1..Len(H) /\ 2 \in 1..Len(H) /\ (reactivate => cycles + 3 \in 1..Len(H))
  BY <1>1
<1>4. \A q \in 1..cycles : q + 2 \in 1..Len(H)
  BY <1>1
<1>5. ASSUME \/ e = first \/ e = begin
             \/ \E q \in 1..cycles : e = InvoiceOf(halt, q, delivery)
             \/ reactivate /\ e = end
      PROVE  \E j \in 1..Len(H) : H[j] = e
  BY <1>1, <1>3, <1>4, <1>5
<1> QED
  BY <1>2, <1>5 DEF first, begin, end

LEMMA BillIsInvoice ==
  ASSUME PopulationDrawn, NEW i \in 1..Count, NEW n \in Halts(i), NEW k \in 1..Cycles(i, n)
  PROVE  InvoiceOf(HaltAt(i, n), k, DeliveryOf(i, n)) = BillOf(i, n, k)
<1> DEFINE h == HaltAt(i, n)
           c == Cycles(i, n)
           d == DeliveryOf(i, n)
           at == BillAt(i, n, k)
<1>1. h \in Nat /\ c \in Nat /\ d \in [1..c -> DrawnDeliveries] /\ k \in 1..c
  BY Timeline
<1>2. at = h + 30 * (k - 1) + 9
  BY DEF BillAt
<1>3. BillOf(i, n, k) = [type |-> "invoice", at |-> at, cycle |-> BillingCycle(at - 8),
                         delivery |-> d[k]]
  BY DEF BillOf
<1>4. InvoiceOf(h, k, d) =
        [type |-> "invoice", at |-> (h + 30 * (k - 1) + 1) + 8,
         cycle |-> BillingCycle(h + 30 * (k - 1) + 1),
         delivery |-> IF k <= Len(d) THEN d[k] ELSE "UNKNOWN"]
  BY DEF InvoiceOf
<1> HIDE DEF h, c, d, at
<1>5. k <= Len(d)
  <2>1. d \in Seq(DrawnDeliveries)
    BY <1>1, IsASeq
  <2>2. DOMAIN d = 1..c /\ DOMAIN d = 1..Len(d) /\ Len(d) \in Nat
    BY <1>1, <2>1, LenProperties
  <2> QED
    BY <1>1, <2>2
<1>6. (h + 30 * (k - 1) + 1) + 8 = at /\ h + 30 * (k - 1) + 1 = at - 8
  BY <1>1, <1>2
<1> QED
  BY <1>3, <1>4, <1>5, <1>6 DEF h, d

\* The events of halt n.
IsEventOf(i, n, e) ==
  \/ e = PendingOf(i, n)
  \/ e = HaltedOf(i, n)
  \/ \E k \in 1..Cycles(i, n) : e = BillOf(i, n, k)
  \/ Returns(i) /\ e = ReturnOf(i, n)

\* H is the script of halt n.
Tells(H, i, n) ==
  /\ H \in Seq(Event) /\ Len(H) \in Nat
  /\ Rising(H)
  /\ \A e : (\E j \in 1..Len(H) : H[j] = e) <=> IsEventOf(i, n, e)

LEMMA HaltTold ==
  ASSUME PopulationDrawn, NEW i \in 1..Count, NEW n \in Halts(i)
  PROVE  Tells(HaltEvents(HaltAt(i, n), Cycles(i, n), DeliveryOf(i, n), Returns(i)), i, n)
<1> DEFINE h == HaltAt(i, n)
           c == Cycles(i, n)
           d == DeliveryOf(i, n)
           r == Returns(i)
           H == HaltEvents(h, c, d, r)
<1>1. h \in Nat /\ h >= 40 /\ c \in Nat /\ d \in [1..c -> DrawnDeliveries]
  BY Timeline
<1>2. d \in Seq(Deliveries) /\ r \in BOOLEAN
  <2>1. d \in [1..c -> Deliveries]
    <3>1. DrawnDeliveries \subseteq Deliveries
      BY DEF DrawnDeliveries, Deliveries
    <3> HIDE DEF d, c
    <3> QED
      BY <1>1, <3>1
  <2> HIDE DEF d, c
  <2> QED
    BY <1>1, <2>1, IsASeq DEF Returns
<1>3. \A k \in 1..c : InvoiceOf(h, k, d) = BillOf(i, n, k)
  BY BillIsInvoice
<1>4. /\ PendingOf(i, n) = [type |-> "pending", at |-> h - 5]
      /\ HaltedOf(i, n) = [type |-> "halted", at |-> h]
      /\ ReturnOf(i, n) = [type |-> "activated", at |-> h + 30 * c + 12]
  BY DEF PendingOf, HaltedOf, ReturnOf, ReturnAt
<1>5. h >= 5
  BY <1>1
<1> HIDE DEF h, c, d, r
<1>6. HaltIs(H, h, c, d, r) /\ IsHalt(H, h, c, r)
  BY <1>1, <1>2, <1>5, HaltEventsAre, HaltEventsScript
<1> HIDE DEF H
<1>7. H \in Seq(Event) /\ Rising(H)
  BY <1>6 DEF HaltIs, IsHalt
<1>8. ASSUME NEW e PROVE (\E j \in 1..Len(H) : H[j] = e) <=> IsEventOf(i, n, e)
  <2>1. (\E j \in 1..Len(H) : H[j] = e) <=>
           \/ e = [type |-> "pending", at |-> h - 5]
           \/ e = [type |-> "halted", at |-> h]
           \/ \E q \in 1..c : e = InvoiceOf(h, q, d)
           \/ r /\ e = [type |-> "activated", at |-> h + 30 * c + 12]
    <3>1. HaltHas(H, h, c, d, r)
      BY <1>1, <1>2, <1>6, InAHalt
    <3> QED
      BY <3>1 DEF HaltHas
  <2>2. (\E q \in 1..c : e = InvoiceOf(h, q, d)) <=> (\E k \in 1..c : e = BillOf(i, n, k))
    BY <1>3
  <2>3. IsEventOf(i, n, e) <=>
           \/ e = PendingOf(i, n)
           \/ e = HaltedOf(i, n)
           \/ \E k \in 1..c : e = BillOf(i, n, k)
           \/ r /\ e = ReturnOf(i, n)
    BY DEF IsEventOf, c, r
  <2> QED
    BY <1>4, <2>1, <2>2, <2>3
<1>9. Len(H) \in Nat
  BY <1>7, LenProperties
<1>10. Tells(H, i, n)
  BY <1>7, <1>8, <1>9 DEF Tells
<1> QED
  BY <1>10 DEF H, h, c, d, r

LEMMA EventTimes ==
  ASSUME PopulationDrawn, NEW i \in 1..Count, NEW n \in Halts(i), NEW e, IsEventOf(i, n, e)
  PROVE  e.at \in Nat /\ HaltAt(i, n) - 5 <= e.at /\ e.at <= ReturnAt(i, n)
<1>1. /\ HaltAt(i, n) \in Nat /\ HaltAt(i, n) >= 40 /\ HaltAt(i, n) < ReturnAt(i, n)
      /\ ReturnAt(i, n) \in Nat
  BY Timeline
<1>2. CASE e = PendingOf(i, n)
  BY <1>1, <1>2 DEF PendingOf
<1>3. CASE e = HaltedOf(i, n)
  BY <1>1, <1>3 DEF HaltedOf
<1>4. CASE \E k \in 1..Cycles(i, n) : e = BillOf(i, n, k)
  <2>1. PICK k \in 1..Cycles(i, n) : e = BillOf(i, n, k)
    BY <1>4
  <2>2. e.at = BillAt(i, n, k)
    BY <2>1 DEF BillOf
  <2>3. /\ BillAt(i, n, k) \in Nat /\ HaltAt(i, n) < BillAt(i, n, k)
        /\ BillAt(i, n, k) < ReturnAt(i, n)
    BY BillTimes
  <2> QED
    BY <1>1, <2>2, <2>3
<1>5. CASE e = ReturnOf(i, n)
  BY <1>1, <1>5 DEF ReturnOf
<1> QED
  BY <1>2, <1>3, <1>4, <1>5 DEF IsEventOf

\* A script tells its subscriber's halts, forward in time.
LEMMA ScriptTold ==
  ASSUME PopulationDrawn, NEW i \in 1..Count
  PROVE  /\ Rising(ScriptOf(i))
         /\ \A e : (\E j \in 1..Len(ScriptOf(i)) : ScriptOf(i)[j] = e) <=> IsEvent(i, e)
<1> DEFINE p == plans[i]
           H(n) == HaltEvents(HaltAt(i, n), Cycles(i, n), DeliveryOf(i, n), Returns(i))
<1>1. IsPlan(p)
  BY DEF PopulationDrawn
<1>2. /\ p.halts \in {0, 1, 2}
      /\ p.fate \in {"always_active", "halted_never_returned", "reactivated"}
      /\ p.fate = "always_active" => p.halts = 0
      /\ p.fate = "halted_never_returned" => p.halts = 1
      /\ p.fate = "reactivated" => p.halts \in {1, 2}
  BY <1>1 DEF IsPlan, Plan, Fates, HaltCounts
<1>3. ScriptOf(i) = IF p.fate = "always_active" THEN << >>
                    ELSE H(1) \o (IF p.fate = "reactivated" /\ p.halts = 2
                                  THEN H(2) ELSE << >>)
  <2>1. H(1) = HaltEvents(FirstHalt(i), p.missed, p.first, p.fate = "reactivated")
    BY DEF HaltAt, Cycles, DeliveryOf, Returns
  <2>2. H(2) = HaltEvents(SecondHalt(i), AtLeastOne(p.missed \div 2), p.second,
                          p.fate = "reactivated")
    BY DEF HaltAt, Cycles, DeliveryOf, Returns
  <2>3. ScriptOf(i) =
          IF p.fate = "always_active" THEN << >>
          ELSE HaltEvents(FirstHalt(i), p.missed, p.first, p.fate = "reactivated")
               \o (IF p.fate = "reactivated" /\ p.halts = 2
                   THEN HaltEvents(SecondHalt(i), AtLeastOne(p.missed \div 2), p.second, TRUE)
                   ELSE << >>)
    BY DEF ScriptOf
  <2>4. p.fate = "reactivated" =>
          HaltEvents(SecondHalt(i), AtLeastOne(p.missed \div 2), p.second, TRUE) = H(2)
    BY <2>2
  <2> HIDE DEF H, p
  <2>5. CASE p.fate = "reactivated"
    BY <2>1, <2>3, <2>4, <2>5
  <2>6. CASE p.fate # "reactivated"
    BY <2>1, <2>3, <2>6
  <2> QED
    BY <2>5, <2>6 DEF p
<1>4. \A n \in Halts(i) : Tells(H(n), i, n)
  BY HaltTold
<1>5. \A e : IsEvent(i, e) <=> \E n \in Halts(i) : IsEventOf(i, n, e)
  BY DEF IsEvent, IsEventOf
<1> HIDE DEF H
<1>6. CASE p.fate = "always_active"
  <2>1. Halts(i) = {} /\ Len(<< >>) = 0
    BY <1>2, <1>6 DEF Halts
  <2>2. ScriptOf(i) = << >>
    BY <1>3, <1>6
  <2> QED
    BY <1>5, <2>1, <2>2 DEF Rising
<1>7. CASE p.fate # "always_active" /\ ~(p.fate = "reactivated" /\ p.halts = 2)
  <2>1. p.halts = 1
    BY <1>2, <1>7
  <2>2. Halts(i) = {1}
    BY <2>1 DEF Halts
  <2>3. Tells(H(1), i, 1)
    BY <1>4, <2>2
  <2>4. ScriptOf(i) = H(1)
    <3>1. H(1) \in Seq(Event)
      BY <2>3 DEF Tells
    <3>2. H(1) \o << >> = H(1)
      BY <3>1, ConcatEmptySeq
    <3> QED
      BY <1>3, <1>7, <3>2
  <2> QED
    BY <1>5, <2>2, <2>3, <2>4 DEF Tells
<1>8. CASE p.fate = "reactivated" /\ p.halts = 2
  <2>1. Halts(i) = {1, 2}
    BY <1>8 DEF Halts
  <2> DEFINE s == H(1)
             t == H(2)
             u == s \o t
  <2>2. ScriptOf(i) = u
    BY <1>3, <1>8
  <2>3. Tells(s, i, 1) /\ Tells(t, i, 2)
    BY <1>4, <2>1
  <2> HIDE DEF s, t
  <2>4. /\ s \in Seq(Event) /\ t \in Seq(Event) /\ Len(s) \in Nat /\ Len(t) \in Nat
        /\ Rising(s) /\ Rising(t)
    BY <2>3 DEF Tells
  <2>5. /\ Len(u) = Len(s) + Len(t)
        /\ \A j \in 1..Len(s) : u[j] = s[j]
        /\ \A j \in 1..Len(t) : u[Len(s) + j] = t[j]
    BY <2>4, ConcatOf
  <2> HIDE DEF u
  <2>6. ASSUME NEW j \in 1..Len(u)
        PROVE  \/ j \in 1..Len(s) /\ u[j] = s[j]
               \/ j > Len(s) /\ j - Len(s) \in 1..Len(t) /\ u[j] = t[j - Len(s)]
    <3>1. CASE j <= Len(s)
      BY <2>4, <2>5, <3>1
    <3>2. CASE ~(j <= Len(s))
      <4>1. j - Len(s) \in 1..Len(t) /\ Len(s) + (j - Len(s)) = j /\ j > Len(s)
        BY <2>4, <2>5, <3>2
      <4> QED
        BY <2>5, <4>1
    <3> QED
      BY <3>1, <3>2
  <2>7. ASSUME NEW j \in 1..Len(s), NEW k \in 1..Len(t) PROVE s[j].at < t[k].at
    <3>1. IsEventOf(i, 1, s[j]) /\ IsEventOf(i, 2, t[k])
      BY <2>3 DEF Tells
    <3>2. 1 \in Halts(i) /\ 2 \in Halts(i) /\ 1 < 2
      BY <2>1
    <3>3. /\ s[j].at \in Nat /\ s[j].at <= ReturnAt(i, 1)
          /\ t[k].at \in Nat /\ HaltAt(i, 2) - 5 <= t[k].at
      BY <3>1, <3>2, EventTimes
    <3>4. ReturnAt(i, 1) + 30 < HaltAt(i, 2)
      BY <3>2, HaltsApart
    <3>5. ReturnAt(i, 1) \in Nat /\ HaltAt(i, 2) \in Nat
      BY <3>2, Timeline
    <3> DEFINE a == s[j].at
               b == t[k].at
               r == ReturnAt(i, 1)
               h == HaltAt(i, 2)
    <3>6. a \in Nat /\ b \in Nat /\ r \in Nat /\ h \in Nat
          /\ a <= r /\ r + 30 < h /\ h - 5 <= b
      BY <3>3, <3>4, <3>5
    <3> HIDE DEF a, b, r, h
    <3>7. a < b
      BY <3>6
    <3> QED
      BY <3>7 DEF a, b
  <2>8. ASSUME NEW j \in 1..Len(u), NEW k \in 1..Len(u), j < k PROVE u[j].at < u[k].at
    <3>1. CASE j \in 1..Len(s) /\ k \in 1..Len(s)
      BY <2>4, <2>5, <2>8, <3>1 DEF Rising
    <3>2. CASE j \in 1..Len(s) /\ k \notin 1..Len(s)
      BY <2>5, <2>6, <2>7, <3>2
    <3>3. CASE j \notin 1..Len(s)
      <4>1. j > Len(s) /\ j - Len(s) \in 1..Len(t) /\ u[j] = t[j - Len(s)]
        BY <2>6, <3>3
      <4>2. k > Len(s)
        BY <2>4, <2>5, <2>8, <4>1
      <4>3. k - Len(s) \in 1..Len(t) /\ u[k] = t[k - Len(s)]
        BY <2>4, <2>6, <4>2
      <4>4. j - Len(s) < k - Len(s)
        BY <2>4, <2>5, <2>8
      <4> QED
        BY <2>4, <4>1, <4>3, <4>4 DEF Rising
    <3> QED
      BY <3>1, <3>2, <3>3
  <2>9. ASSUME NEW e PROVE (\E j \in 1..Len(u) : u[j] = e) <=> IsEvent(i, e)
    <3>1. IsEvent(i, e) <=> IsEventOf(i, 1, e) \/ IsEventOf(i, 2, e)
      BY <1>5, <2>1
    <3>2. /\ (\E j \in 1..Len(s) : s[j] = e) <=> IsEventOf(i, 1, e)
          /\ (\E j \in 1..Len(t) : t[j] = e) <=> IsEventOf(i, 2, e)
      BY <2>3 DEF Tells
    <3>3. /\ \A j \in 1..Len(s) : j \in 1..Len(u)
          /\ \A j \in 1..Len(t) : Len(s) + j \in 1..Len(u)
      BY <2>4, <2>5
    <3>4. (\E j \in 1..Len(u) : u[j] = e) <=>
            (\E j \in 1..Len(s) : s[j] = e) \/ (\E j \in 1..Len(t) : t[j] = e)
      BY <2>5, <2>6, <3>3
    <3> QED
      BY <3>1, <3>2, <3>4
  <2> QED
    BY <2>2, <2>8, <2>9 DEF Rising
<1> QED
  BY <1>2, <1>6, <1>7, <1>8

-----------------------------------------------------------------------------
(* What holds of the history.                                              *)

\* What is still to be posted of the last subscriber's events, and what of
\* subscriber i has been.
Todo == {script[j] : j \in 1..Len(script)}

IsDone(i, e) == i < next \/ (i = next /\ e \notin Todo)

\* The script is what is left of the last subscriber's events, in order.
ScriptIsRest ==
  /\ Rising(script)
  /\ \A t \in Todo :
       /\ IsEvent(next, t)
       /\ \A e : IsEvent(next, e) /\ e \notin Todo => e.at < t.at

Begun(i, n) == IsDone(i, HaltedOf(i, n))

IsBilled(i, n, k) == IsDone(i, BillOf(i, n, k))

Ended(i, n) == Returns(i) /\ IsDone(i, ReturnOf(i, n))

\* A subscription has the halts that have begun, and those are closed that ended.
EpisodesKept ==
  \A i \in 1..next : \A n \in Halts(i) :
    /\ n <= Len(subs[i].eps) <=> Begun(i, n)
    /\ n <= Len(subs[i].eps) =>
         /\ subs[i].eps[n].halted = HaltAt(i, n)
         /\ subs[i].eps[n].react = IF Ended(i, n) THEN ReturnAt(i, n) ELSE NoDay

\* r is the row of the k-th bill of its halt.
IsRowOf(r, k) ==
  /\ r.at = BillAt(r.sub, r.ep, k)
  /\ r.delivery = DeliveryOf(r.sub, r.ep)[k]
  /\ IsBilled(r.sub, r.ep, k)

RowsAreBills ==
  \A r \in rows : /\ r.sub \in 1..Count /\ r.ep \in Halts(r.sub)
                  /\ \E k \in 1..Cycles(r.sub, r.ep) : IsRowOf(r, k)

RefusalOf(i, n, k) == [sub |-> i, event |-> BillOf(i, n, k)]

RefusedAreBills ==
  \A x \in refused : \E i \in 1..Count : \E n \in Halts(i) : \E k \in 1..Cycles(i, n) :
    x = RefusalOf(i, n, k) /\ IsBilled(i, n, k)

HasRow(i, n, k) == \E r \in rows : r.sub = i /\ r.at = BillAt(i, n, k)

HasRefusal(i, n, k) == RefusalOf(i, n, k) \in refused

\* A bill that was posted became a row or a refusal, and one only.
BillsAreRows ==
  \A i \in 1..Count : \A n \in Halts(i) : \A k \in 1..Cycles(i, n) :
    IsBilled(i, n, k) => HasRow(i, n, k) \/ HasRefusal(i, n, k)

RowsOnce ==
  /\ \A r, s \in rows : r.sub = s.sub /\ r.at = s.at => r = s
  /\ \A r \in rows, x \in refused : r.sub = x.sub => r.at # x.event.at

\* A verdict is the gate's, and the gate ran when the halt ended.
VerdictsKept ==
  \A r \in rows :
    r.verdict = "REVIEW_REQUIRED" \/ (r.verdict = VerdictOf(r) /\ Ended(r.sub, r.ep))

\* The bills of a halt that became rows, by how the service was delivered.
BilledIn(i, n, d) ==
  {k \in 1..Cycles(i, n) : DeliveryOf(i, n)[k] = d /\ HasRow(i, n, k)}

WorthIn(i, n, d) == plans[i].amount * Cardinality(BilledIn(i, n, d))

IsGated(i, n) == \A r \in rows : r.sub = i /\ r.ep = n => r.verdict = VerdictOf(r)

\* c is the case of a halt that ended, of what the halt's rows are worth.
IsCaseOf(c, i, n) ==
  /\ c.sub = i /\ c.ep = n
  /\ Ended(i, n) /\ IsGated(i, n)
  /\ c.key \in {NoKey, <<i, n>>}
  /\ c.halted = HaltAt(i, n)
  /\ c.days = 30 * Cycles(i, n) + 12
  /\ c.collectible = WorthIn(i, n, "DELIVERED")
  /\ c.review = WorthIn(i, n, "UNKNOWN")
  /\ c.excluded = WorthIn(i, n, "SUSPENDED")
  /\ c.collectible + c.review # 0
  /\ c.status = "review_required" <=> c.collectible = 0

CasesAreHalts ==
  \A c \in cases : \E i \in 1..Count : \E n \in Halts(i) : IsCaseOf(c, i, n)

CasesOnce == \A c, d \in cases : c.sub = d.sub /\ c.ep = d.ep => c = d

HasCase(i, n) == \E c \in cases : c.sub = i /\ c.ep = n

\* Unless a window was cut short, the halts that ended are gated and have their cases.
WholeUnlessBroken ==
  ~broken =>
    \A i \in 1..Count : \A n \in Halts(i) : Ended(i, n) =>
      /\ IsGated(i, n)
      /\ HasCase(i, n) \/ WorthIn(i, n, "DELIVERED") + WorthIn(i, n, "UNKNOWN") = 0

HistoryFinite == IsFiniteSet(rows) /\ IsFiniteSet(refused) /\ IsFiniteSet(cases)

HistoryInv ==
  /\ ScriptIsRest
  /\ EpisodesKept
  /\ RowsAreBills /\ RefusedAreBills /\ BillsAreRows /\ RowsOnce
  /\ VerdictsKept
  /\ CasesAreHalts /\ CasesOnce /\ WholeUnlessBroken
  /\ HistoryFinite

-----------------------------------------------------------------------------
(* The plans do not change, and so neither does what is to happen.         *)

LEMMA PlansStay ==
  ASSUME plans' = plans
  PROVE  /\ Count' = Count
         /\ \A i : Halts(i)' = Halts(i) /\ Returns(i)' = Returns(i)
         /\ \A i, n : /\ HaltAt(i, n)' = HaltAt(i, n) /\ Cycles(i, n)' = Cycles(i, n)
                      /\ DeliveryOf(i, n)' = DeliveryOf(i, n)
                      /\ ReturnAt(i, n)' = ReturnAt(i, n)
                      /\ HaltedOf(i, n)' = HaltedOf(i, n) /\ ReturnOf(i, n)' = ReturnOf(i, n)
         /\ \A i, n, k : /\ BillAt(i, n, k)' = BillAt(i, n, k)
                         /\ BillOf(i, n, k)' = BillOf(i, n, k)
                         /\ RefusalOf(i, n, k)' = RefusalOf(i, n, k)
         /\ \A i, e : IsEvent(i, e)' = IsEvent(i, e)
         /\ \A i : ScriptOf(i)' = ScriptOf(i)
<1>1. \A i : /\ FirstHalt(i)' = FirstHalt(i) /\ SecondHalt(i)' = SecondHalt(i)
             /\ Halts(i)' = Halts(i) /\ Returns(i)' = Returns(i)
  BY DEF FirstHalt, SecondHalt, Halts, Returns
<1>2. \A i, n : /\ HaltAt(i, n)' = HaltAt(i, n) /\ Cycles(i, n)' = Cycles(i, n)
                /\ DeliveryOf(i, n)' = DeliveryOf(i, n)
  BY <1>1 DEF HaltAt, Cycles, DeliveryOf
<1>3. \A i, n : /\ ReturnAt(i, n)' = ReturnAt(i, n)
                /\ PendingOf(i, n)' = PendingOf(i, n)
                /\ HaltedOf(i, n)' = HaltedOf(i, n)
  BY <1>2 DEF ReturnAt, PendingOf, HaltedOf
<1>4. \A i, n : ReturnOf(i, n)' = ReturnOf(i, n)
  BY <1>3 DEF ReturnOf
<1>5. \A i, n, k : BillAt(i, n, k)' = BillAt(i, n, k)
  BY <1>2 DEF BillAt
<1>6. \A i, n, k : BillOf(i, n, k)' = BillOf(i, n, k)
  BY <1>2, <1>5 DEF BillOf
<1>7. \A i, n, k : RefusalOf(i, n, k)' = RefusalOf(i, n, k)
  BY <1>6 DEF RefusalOf
<1>8. \A i, e : IsEvent(i, e)' = IsEvent(i, e)
  BY <1>1, <1>2, <1>3, <1>4, <1>6 DEF IsEvent
<1>9. Count' = Count
  BY DEF Count
<1>10. \A i : ScriptOf(i)' = ScriptOf(i)
  BY <1>1 DEF ScriptOf
<1> QED
  BY <1>1, <1>2, <1>3, <1>4, <1>5, <1>6, <1>7, <1>8, <1>9, <1>10

LEMMA AnEvent ==
  ASSUME PopulationDrawn, NEW i \in 1..Count
  PROVE  /\ \A e : IsEvent(i, e) => e.at \in Nat
         /\ \A n \in Halts(i) : /\ IsEvent(i, HaltedOf(i, n))
                                /\ Returns(i) => IsEvent(i, ReturnOf(i, n))
                                /\ \A k \in 1..Cycles(i, n) : IsEvent(i, BillOf(i, n, k))
<1>1. ASSUME NEW e, IsEvent(i, e) PROVE e.at \in Nat
  <2>1. PICK n \in Halts(i) : IsEventOf(i, n, e)
    BY <1>1 DEF IsEvent, IsEventOf
  <2> QED
    BY <2>1, EventTimes
<1>2. ASSUME NEW n \in Halts(i)
      PROVE  /\ IsEvent(i, HaltedOf(i, n)) /\ (Returns(i) => IsEvent(i, ReturnOf(i, n)))
             /\ \A k \in 1..Cycles(i, n) : IsEvent(i, BillOf(i, n, k))
  BY DEF IsEvent
<1> QED
  BY <1>1, <1>2

\* Of the last subscriber's events, those before the one to be posted are done.
IsThePresent(at) ==
  \A e : IsEvent(next, e) => /\ e \in Todo <=> at <= e.at
                             /\ e.at = at => e = Posted

LEMMA PostedIsNext ==
  ASSUME WorldInv, ScriptIsRest, script # << >>, Proceed
  PROVE  /\ next \in 1..Count /\ Posted \in Todo /\ IsEvent(next, Posted) /\ Posted.at \in Nat
         /\ Todo' = Todo \ {Posted}
         /\ IsThePresent(Posted.at)
         /\ ScriptIsRest'
<1>1. /\ Len(script) \in Nat /\ Len(script) >= 1 /\ Posted = script[1]
      /\ script' = Tail(script) /\ Len(script') \in Nat /\ Len(script') = Len(script) - 1
      /\ \A k \in 1..Len(script') : k + 1 \in 1..Len(script) /\ script'[k] = script[k + 1]
      /\ next' = next /\ plans' = plans
  BY RestOfScript DEF Proceed, Posted, WorldInv, ScriptKept
<1>2. next \in 1..Count /\ PopulationDrawn
  BY PostedIs DEF WorldInv, SubsKept, PopulationDrawn
<1>3. Posted \in Todo
  BY <1>1 DEF Todo
<1>4. /\ \A t \in Todo : IsEvent(next, t) /\ t.at \in Nat
      /\ \A t \in Todo : \A e : IsEvent(next, e) /\ e \notin Todo => e.at < t.at
      /\ \A e : IsEvent(next, e) => e.at \in Nat
  BY <1>2, AnEvent DEF ScriptIsRest
<1>5. ASSUME NEW t \in Todo PROVE t = Posted \/ (t # Posted /\ Posted.at < t.at)
  <2>1. PICK j \in 1..Len(script) : t = script[j]
    BY DEF Todo
  <2>2. CASE j = 1
    BY <1>1, <2>1, <2>2
  <2>3. CASE j # 1
    <3>1. 1 \in 1..Len(script) /\ 1 < j
      BY <1>1, <2>3
    <3>2. Posted.at < t.at
      BY <1>1, <2>1, <3>1 DEF ScriptIsRest, Rising
    <3>3. Posted.at \in Nat
      BY <1>3, <1>4
    <3>4. t # Posted
      BY <3>2, <3>3
    <3> QED
      BY <3>2, <3>4
  <2> QED
    BY <2>2, <2>3
<1>6. ASSUME NEW t PROVE t \in Todo' <=> t \in Todo \ {Posted}
  <2>1. ASSUME t \in Todo' PROVE t \in Todo \ {Posted}
    <3>1. PICK k \in 1..Len(script') : t = script'[k]
      BY <2>1 DEF Todo
    <3>2. k + 1 \in 1..Len(script) /\ t = script[k + 1] /\ 1 \in 1..Len(script) /\ 1 < k + 1
      BY <1>1, <3>1
    <3>3. t \in Todo
      BY <3>2 DEF Todo
    <3>4. Posted.at < t.at
      BY <1>1, <3>2 DEF ScriptIsRest, Rising
    <3>5. Posted.at \in Nat
      BY <1>3, <1>4
    <3> QED
      BY <3>3, <3>4, <3>5
  <2>2. ASSUME t \in Todo, t # Posted PROVE t \in Todo'
    <3>1. PICK j \in 1..Len(script) : t = script[j]
      BY <2>2 DEF Todo
    <3>2. j # 1
      BY <1>1, <2>2, <3>1
    <3>3. j - 1 \in 1..Len(script') /\ (j - 1) + 1 = j
      BY <1>1, <3>2
    <3>4. script'[j - 1] = t
      BY <1>1, <3>1, <3>3
    <3> QED
      BY <3>3, <3>4 DEF Todo
  <2> QED
    BY <2>1, <2>2
<1>7. Todo' = Todo \ {Posted}
  BY <1>6
<1>8. IsThePresent(Posted.at)
  <2> SUFFICES ASSUME NEW e, IsEvent(next, e)
               PROVE  (e \in Todo <=> Posted.at <= e.at) /\ (e.at = Posted.at => e = Posted)
    BY DEF IsThePresent
  <2>1. e.at \in Nat /\ Posted.at \in Nat
    BY <1>3, <1>4
  <2>2. CASE e \in Todo
    BY <1>5, <2>1, <2>2
  <2>3. CASE e \notin Todo
    <3>1. e.at < Posted.at
      BY <1>3, <1>4, <2>3
    <3> QED
      BY <2>1, <2>3, <3>1
  <2> QED
    BY <2>2, <2>3
<1>9. Rising(script')
  <2> SUFFICES ASSUME NEW j \in 1..Len(script'), NEW k \in 1..Len(script'), j < k
               PROVE  script'[j].at < script'[k].at
    BY DEF Rising
  <2>1. /\ j + 1 \in 1..Len(script) /\ k + 1 \in 1..Len(script) /\ j + 1 < k + 1
        /\ script'[j] = script[j + 1] /\ script'[k] = script[k + 1]
    BY <1>1
  <2> QED
    BY <2>1 DEF ScriptIsRest, Rising
<1>10. ScriptIsRest'
  <2> SUFFICES ASSUME NEW t \in Todo'
               PROVE  /\ IsEvent(next, t)'
                      /\ \A e : IsEvent(next, e)' /\ e \notin Todo' => e.at < t.at
    BY <1>9 DEF ScriptIsRest, Rising
  <2>1. \A e : IsEvent(next, e)' <=> IsEvent(next, e)
    BY <1>1, PlansStay
  <2>2. t \in Todo /\ t # Posted /\ Posted.at < t.at /\ IsEvent(next, t)
    BY <1>4, <1>5, <1>7
  <2>3. ASSUME NEW e, IsEvent(next, e), e \notin Todo' PROVE e.at < t.at
    BY <1>4, <1>7, <2>2, <2>3
  <2> QED
    BY <2>1, <2>2, <2>3
<1> QED
  BY <1>2, <1>3, <1>4, <1>7, <1>8, <1>10

-----------------------------------------------------------------------------
(* What is done by a step.                                                 *)

BegunStays == \A i \in 1..Count : \A n \in Halts(i) : Begun(i, n)' <=> Begun(i, n)

BilledStays ==
  \A i \in 1..Count : \A n \in Halts(i) : \A k \in 1..Cycles(i, n) :
    IsBilled(i, n, k)' <=> IsBilled(i, n, k)

EndedStays == \A i \in 1..Count : \A n \in Halts(i) : Ended(i, n)' <=> Ended(i, n)

\* One event is done that was not: the one posted; or none is.
OnePosts ==
  \A i \in 1..Count : \A e : IsEvent(i, e) =>
    (IsDone(i, e)' <=> IsDone(i, e) \/ (i = next /\ e = Posted))

NonePosts ==
  \A i \in 1..Count : \A e : IsEvent(i, e) => (IsDone(i, e)' <=> IsDone(i, e))

LEMMA PostingIsDone ==
  ASSUME WorldInv, ScriptIsRest, script # << >>, Proceed
  PROVE  OnePosts
<1>1. next' = next
  BY DEF Proceed
<1>2. next \in 1..Count /\ Posted \in Todo /\ Todo' = Todo \ {Posted}
  BY PostedIsNext
<1>3. Count \in Nat
  BY DEF WorldInv, PopulationDrawn
<1> SUFFICES ASSUME NEW i \in 1..Count, NEW e
             PROVE  IsDone(i, e)' <=> IsDone(i, e) \/ (i = next /\ e = Posted)
  BY DEF OnePosts
<1>4. IsDone(i, e) <=> i < next \/ (i = next /\ e \notin Todo)
  BY DEF IsDone
<1>5. IsDone(i, e)' <=> i < next \/ (i = next /\ e \notin Todo')
  BY <1>1 DEF IsDone
<1>6. next \in Nat
  BY <1>2, <1>3
<1> QED
  BY <1>2, <1>4, <1>5, <1>6

LEMMA MaterialisingIsNone ==
  ASSUME WorldInv, ScriptIsRest, Materialise
  PROVE  NonePosts /\ ScriptIsRest' /\ next \in Nat /\ next + 1 \in 1..Count
         /\ \A e : IsEvent(next + 1, e) => ~IsDone(next + 1, e)
<1>1. /\ script = << >> /\ next < Count /\ next' = next + 1 /\ script' = ScriptOf(next + 1)
      /\ plans' = plans
  BY DEF Materialise
<1>2. next \in Nat /\ Count \in Nat /\ PopulationDrawn
  BY DEF WorldInv, SubsKept, PopulationDrawn
<1>3. next + 1 \in 1..Count
  BY <1>1, <1>2
<1>4. /\ Rising(script')
      /\ \A e : (\E j \in 1..Len(script') : script'[j] = e) <=> IsEvent(next + 1, e)
  <2>1. /\ Rising(ScriptOf(next + 1))
        /\ \A e : (\E j \in 1..Len(ScriptOf(next + 1)) : ScriptOf(next + 1)[j] = e)
                    <=> IsEvent(next + 1, e)
    BY <1>2, <1>3, ScriptTold
  <2> QED
    BY <1>1, <2>1 DEF Rising
<1>5. \A e : e \in Todo' <=> IsEvent(next + 1, e)
  BY <1>4 DEF Todo
<1>6. Todo = {}
  <2>1. Len(script) = 0
    BY <1>1
  <2> QED
    BY <2>1 DEF Todo
<1>7. ScriptIsRest'
  <2>1. \A e : IsEvent(next, e)' <=> IsEvent(next + 1, e)
    BY <1>1, PlansStay
  <2> QED
    BY <1>4, <1>5, <2>1 DEF ScriptIsRest, Rising
<1>8. ASSUME NEW i \in 1..Count, NEW e, IsEvent(i, e)
      PROVE  IsDone(i, e)' <=> IsDone(i, e)
  <2>1. IsDone(i, e) <=> i <= next
    BY <1>2, <1>6 DEF IsDone
  <2>2. IsDone(i, e)' <=> i < next + 1 \/ (i = next + 1 /\ e \notin Todo')
    BY <1>1 DEF IsDone
  <2>3. i = next + 1 => e \in Todo'
    BY <1>5, <1>8
  <2> QED
    BY <1>2, <2>1, <2>2, <2>3
<1>9. ASSUME NEW e, IsEvent(next + 1, e) PROVE ~IsDone(next + 1, e)
  BY <1>2 DEF IsDone
<1>10. NonePosts
  BY <1>8 DEF NonePosts
<1> QED
  BY <1>2, <1>3, <1>7, <1>9, <1>10

LEMMA NoneIsDone ==
  ASSUME PopulationDrawn, plans' = plans, NonePosts
  PROVE  BegunStays /\ BilledStays /\ EndedStays
<1>1. ASSUME NEW i \in 1..Count, NEW n \in Halts(i)
      PROVE  /\ Begun(i, n)' <=> Begun(i, n)
             /\ Ended(i, n)' <=> Ended(i, n)
             /\ \A k \in 1..Cycles(i, n) : IsBilled(i, n, k)' <=> IsBilled(i, n, k)
  <2>1. \A e : /\ e = HaltedOf(i, n) => (Begun(i, n)' <=> IsDone(i, e)')
               /\ e = ReturnOf(i, n) => (Ended(i, n)' <=> Returns(i) /\ IsDone(i, e)')
               /\ \A k : e = BillOf(i, n, k) => (IsBilled(i, n, k)' <=> IsDone(i, e)')
    BY PlansStay DEF Begun, Ended, IsBilled, IsDone
  <2>2. /\ IsEvent(i, HaltedOf(i, n)) /\ (Returns(i) => IsEvent(i, ReturnOf(i, n)))
        /\ \A k \in 1..Cycles(i, n) : IsEvent(i, BillOf(i, n, k))
    BY AnEvent
  <2> QED
    BY <2>1, <2>2 DEF NonePosts, Begun, Ended, IsBilled
<1> QED
  BY <1>1 DEF BegunStays, BilledStays, EndedStays

\* What a posted event does.
LEMMA OneIsDone ==
  ASSUME PopulationDrawn, plans' = plans, OnePosts
  PROVE  /\ Posted.type # "halted" => BegunStays
         /\ Posted.type # "invoice" => BilledStays
         /\ Posted.type # "activated" => EndedStays
         /\ \A i \in 1..Count : \A n \in Halts(i) :
              /\ Begun(i, n)' <=> Begun(i, n) \/ (i = next /\ Posted = HaltedOf(i, n))
              /\ Ended(i, n)' <=> Ended(i, n) \/ (Returns(i) /\ i = next /\ Posted = ReturnOf(i, n))
              /\ \A k \in 1..Cycles(i, n) :
                   IsBilled(i, n, k)' <=>
                    IsBilled(i, n, k) \/ (i = next /\ Posted = BillOf(i, n, k))
<1>1. ASSUME NEW i \in 1..Count, NEW n \in Halts(i)
      PROVE  /\ Begun(i, n)' <=> Begun(i, n) \/ (i = next /\ Posted = HaltedOf(i, n))
             /\ Ended(i, n)' <=> Ended(i, n) \/ (Returns(i) /\ i = next /\ Posted = ReturnOf(i, n))
             /\ \A k \in 1..Cycles(i, n) :
                  IsBilled(i, n, k)' <=>
                    IsBilled(i, n, k) \/ (i = next /\ Posted = BillOf(i, n, k))
  <2>1. \A e : /\ e = HaltedOf(i, n) => (Begun(i, n)' <=> IsDone(i, e)')
               /\ e = ReturnOf(i, n) => (Ended(i, n)' <=> Returns(i) /\ IsDone(i, e)')
               /\ \A k : e = BillOf(i, n, k) => (IsBilled(i, n, k)' <=> IsDone(i, e)')
    BY PlansStay DEF Begun, Ended, IsBilled, IsDone
  <2>2. /\ IsEvent(i, HaltedOf(i, n)) /\ (Returns(i) => IsEvent(i, ReturnOf(i, n)))
        /\ \A k \in 1..Cycles(i, n) : IsEvent(i, BillOf(i, n, k))
    BY AnEvent
  <2> QED
    BY <2>1, <2>2 DEF OnePosts, Begun, Ended, IsBilled
<1>2. /\ \A i, n : HaltedOf(i, n).type = "halted" /\ ReturnOf(i, n).type = "activated"
      /\ \A i, n, k : BillOf(i, n, k).type = "invoice"
  BY DEF HaltedOf, ReturnOf, BillOf
<1>3. Posted.type # "halted" => BegunStays
  BY <1>1, <1>2 DEF BegunStays
<1>4. Posted.type # "invoice" => BilledStays
  BY <1>1, <1>2 DEF BilledStays
<1>5. Posted.type # "activated" => EndedStays
  BY <1>1, <1>2 DEF EndedStays
<1> QED
  BY <1>1, <1>3, <1>4, <1>5

-----------------------------------------------------------------------------
(* The halts of a subscription.                                            *)

LEMMA DoneByNow ==
  ASSUME WorldInv, ScriptIsRest, script # << >>, Proceed, NEW n \in Halts(next)
  PROVE  /\ Begun(next, n) <=> HaltAt(next, n) < Posted.at
         /\ Ended(next, n) <=> Returns(next) /\ ReturnAt(next, n) < Posted.at
         /\ Posted.at \in Nat /\ HaltAt(next, n) \in Nat /\ ReturnAt(next, n) \in Nat
         /\ HaltAt(next, n) < ReturnAt(next, n)
<1>1. /\ next \in 1..Count /\ Posted.at \in Nat /\ IsThePresent(Posted.at)
      /\ PopulationDrawn /\ Count \in Nat
  BY PostedIsNext DEF WorldInv, PopulationDrawn
<1>2. /\ IsEvent(next, HaltedOf(next, n))
      /\ Returns(next) => IsEvent(next, ReturnOf(next, n))
      /\ HaltAt(next, n) \in Nat /\ ReturnAt(next, n) \in Nat
      /\ HaltAt(next, n) < ReturnAt(next, n)
  BY <1>1, AnEvent, Timeline
<1>3. HaltedOf(next, n).at = HaltAt(next, n) /\ ReturnOf(next, n).at = ReturnAt(next, n)
  BY DEF HaltedOf, ReturnOf
<1>4. \A e : IsDone(next, e) <=> e \notin Todo
  BY <1>1 DEF IsDone
<1>5. Begun(next, n) <=> HaltAt(next, n) < Posted.at
  <2>1. HaltedOf(next, n) \in Todo <=> Posted.at <= HaltAt(next, n)
    BY <1>1, <1>2, <1>3 DEF IsThePresent
  <2> QED
    BY <1>1, <1>2, <1>4, <2>1 DEF Begun
<1>6. Ended(next, n) <=> Returns(next) /\ ReturnAt(next, n) < Posted.at
  <2>1. Returns(next) => (ReturnOf(next, n) \in Todo <=> Posted.at <= ReturnAt(next, n))
    BY <1>1, <1>2, <1>3 DEF IsThePresent
  <2> QED
    BY <1>1, <1>2, <1>4, <2>1 DEF Ended
<1> QED
  BY <1>1, <1>2, <1>5, <1>6

\* Where the subscription stands when an event of its m-th halt is posted.
LEMMA HaltsSoFar ==
  ASSUME WorldInv, ScriptIsRest, EpisodesKept, script # << >>, Proceed,
         NEW m \in Halts(next)
  PROVE  /\ Posted = HaltedOf(next, m) => Len(Current.eps) = m - 1
         /\ Posted = ReturnOf(next, m) => Len(Current.eps) = m
         /\ \A k \in 1..Cycles(next, m) :
              Posted = BillOf(next, m, k) => Len(Current.eps) = m
<1> DEFINE L == Len(Current.eps)
           at == Posted.at
           h == plans[next].halts
<1>1. /\ next \in 1..Count /\ PopulationDrawn /\ L \in Nat /\ Current = subs[next]
      /\ next \in 1..next /\ L <= h /\ Halts(next) = 1..h /\ h \in {1, 2}
      /\ next \in Nat
  <2>1. /\ next \in 1..Len(subs) /\ Current = subs[next] /\ L \in Nat
        /\ Len(subs) = next /\ PopulationDrawn /\ Count \in Nat
        /\ \A i \in 1..next : Len(subs[i].eps) <= plans[i].halts
    BY PostedIs DEF WorldInv, SubsKept, PopulationDrawn
  <2>2. next \in 1..Count
    BY PostedIsNext
  <2>3. h \in {1, 2}
    BY <2>1, <2>2, PlanIs
  <2> QED
    BY <2>1, <2>2, <2>3 DEF Halts
<1>2. \A n \in 1..h : (n <= L <=> HaltAt(next, n) < at) /\ HaltAt(next, n) \in Nat
  <2> TAKE n \in 1..h
  <2>1. n \in Halts(next)
    BY <1>1
  <2> QED
    BY <1>1, <2>1, DoneByNow DEF EpisodesKept
<1>3. at \in Nat /\ HaltAt(next, m) \in Nat /\ m \in {1, 2} /\ m <= h
  BY <1>1, DoneByNow
<1>4. ASSUME Posted = HaltedOf(next, m) PROVE L = m - 1
  <2>1. at = HaltAt(next, m)
    BY <1>4 DEF HaltedOf
  <2>2. ~(m <= L)
    BY <1>1, <1>2, <1>3, <2>1
  <2>3. CASE m = 1
    BY <1>1, <2>2, <2>3
  <2>4. CASE m = 2
    <3>1. 1 \in Halts(next) /\ 2 \in Halts(next) /\ 1 \in 1..h
      BY <1>1, <1>3, <2>4
    <3>2. /\ ReturnAt(next, 1) + 30 < HaltAt(next, 2) /\ HaltAt(next, 1) < ReturnAt(next, 1)
          /\ HaltAt(next, 1) \in Nat /\ ReturnAt(next, 1) \in Nat /\ HaltAt(next, 2) \in Nat
      <4>1. 1 < 2
        OBVIOUS
      <4>2. ReturnAt(next, 1) + 30 < HaltAt(next, 2)
        BY <1>1, <3>1, <4>1, HaltsApart
      <4>3. /\ HaltAt(next, 1) < ReturnAt(next, 1) /\ HaltAt(next, 1) \in Nat
            /\ ReturnAt(next, 1) \in Nat
        BY <1>1, <3>1, Timeline
      <4>4. HaltAt(next, 2) \in Nat
        BY <1>1, <3>1, Timeline
      <4> QED
        BY <4>2, <4>3, <4>4
    <3>3. HaltAt(next, 1) < at
      BY <2>1, <2>4, <3>2
    <3>4. 1 <= L
      BY <1>2, <3>1, <3>3
    <3> HIDE DEF L
    <3> QED
      BY <1>1, <2>2, <2>4, <3>4
  <2> QED
    BY <1>3, <2>3, <2>4
<1>5. ASSUME HaltAt(next, m) < at, at <= ReturnAt(next, m) PROVE L = m
  <2>1. m <= L
    BY <1>1, <1>2, <1>5
  <2>2. ASSUME m < L PROVE FALSE
    <3>1. L \in Halts(next) /\ L \in 1..h
      BY <1>1, <1>3, <2>2
    <3>2. HaltAt(next, L) < at /\ HaltAt(next, L) \in Nat
      BY <1>1, <1>2, <3>1
    <3>3. ReturnAt(next, m) + 30 < HaltAt(next, L) /\ ReturnAt(next, m) \in Nat
      <4> HIDE DEF L
      <4> QED
        BY <1>1, <2>2, <3>1, HaltsApart, Timeline
    <3> QED
      BY <1>3, <1>5, <3>2, <3>3
  <2> QED
    BY <1>1, <1>3, <2>1, <2>2
<1>6. ASSUME Posted = ReturnOf(next, m) PROVE L = m
  <2>1. at = ReturnAt(next, m)
    BY <1>6 DEF ReturnOf
  <2>2. HaltAt(next, m) < at /\ at <= ReturnAt(next, m)
    BY <1>3, <2>1, DoneByNow
  <2> QED
    BY <1>5, <2>2
<1>7. ASSUME NEW k \in 1..Cycles(next, m), Posted = BillOf(next, m, k) PROVE L = m
  <2>1. at = BillAt(next, m, k)
    BY <1>7 DEF BillOf
  <2>2. /\ HaltAt(next, m) < BillAt(next, m, k) /\ BillAt(next, m, k) < ReturnAt(next, m)
        /\ BillAt(next, m, k) \in Nat /\ ReturnAt(next, m) \in Nat
    BY <1>1, BillTimes, Timeline
  <2>3. HaltAt(next, m) < at /\ at <= ReturnAt(next, m)
    BY <2>1, <2>2
  <2> QED
    BY <1>5, <2>3
<1> QED
  BY <1>4, <1>6, <1>7

\* What a lifecycle event that was expected makes of the halts so far.
LEMMA HaltsMoved ==
  ASSUME NEW s \in Sub, NEW e \in Event, e.type \in Lifecycle,
         e.type \in Expected(s.status), NEW n \in 1..Len(s.eps)
  PROVE  /\ Moved(s, e).eps[n].halted = s.eps[n].halted
         /\ Moved(s, e).eps[n].react =
              IF s.status = "HALTED" /\ s.eps[n].react = NoDay THEN e.at ELSE s.eps[n].react
<1> DEFINE eps == s.eps
           closes == Closes(s.status, e.type)
           opens == Opens(s.status, e.type)
           Same == [p \in DOMAIN eps |-> IF closes /\ eps[p].react = NoDay
                                         THEN [eps[p] EXCEPT !.react = e.at] ELSE eps[p]]
           Opened == Append(eps, [halted |-> e.at, react |-> NoDay])
<1>1. s.status \in Statuses /\ eps \in Seq(Episode)
  BY DEF Sub
<1>2. Moved(s, e).eps = IF opens THEN Opened ELSE Same
  BY DEF Moved
<1>3. /\ closes <=> s.status = "HALTED"
      /\ opens => s.status # "HALTED"
  BY <1>1, Verdict DEF Statuses
<1>4. eps[n] \in Episode /\ n \in DOMAIN eps
  BY <1>1
<1>5. e.at \in Nat
  BY DEF Event
<1> HIDE DEF closes, opens, eps
<1>6. Opened[n] = eps[n]
  <2>1. [halted |-> e.at, react |-> NoDay] \in Episode
    BY <1>5 DEF Episode
  <2> QED
    BY <1>1, <2>1, AppendProperties DEF eps
<1>7. /\ Same[n].halted = eps[n].halted
      /\ Same[n].react = IF closes /\ eps[n].react = NoDay THEN e.at ELSE eps[n].react
  BY <1>4 DEF Episode
<1> HIDE DEF Opened, Same
<1>8. CASE opens
  BY <1>2, <1>3, <1>6, <1>8 DEF eps
<1>9. CASE ~opens
  BY <1>2, <1>3, <1>7, <1>9 DEF eps
<1> QED
  BY <1>8, <1>9

\* n-th halt of a subscription s of subscriber i.
EpisodeIs(s, i, n, begun, ended) ==
  /\ n <= Len(s.eps) <=> begun
  /\ n <= Len(s.eps) =>
       /\ s.eps[n].halted = HaltAt(i, n)
       /\ s.eps[n].react = IF ended THEN ReturnAt(i, n) ELSE NoDay

LEMMA EpisodesPost ==
  ASSUME WorldInv, ScriptIsRest, EpisodesKept, PostsLifecycle, Proceed,
         subs' = [subs EXCEPT ![next] = Moved(Current, Posted)]
  PROVE  EpisodesKept'
<1> DEFINE M == Moved(Current, Posted)
           L == Len(Current.eps)
<1>1. script # << >> /\ plans' = plans /\ next' = next /\ Posted.type \in Lifecycle
  BY DEF PostsLifecycle, Proceed
<1>2. /\ Posted \in Event /\ next \in 1..Len(subs) /\ Current = subs[next] /\ Current \in Sub
      /\ Posted.type \in Expected(Current.status) /\ Posted.at \in Nat /\ L \in Nat
      /\ subs \in Seq(Sub) /\ Len(subs) = next /\ PopulationDrawn /\ Count \in Nat
      /\ next \in 1..Count /\ Current.status \in Statuses
  BY <1>1, PostedIs, PostedIsNext DEF WorldInv, SubsKept, PopulationDrawn, Sub
<1>3. OnePosts
  BY <1>1, PostingIsDone
<1>4. M \in Sub
      /\ (Current.status = "PENDING" => /\ Len(M.eps) = L + 1
                                        /\ M.eps[L + 1] = [halted |-> Posted.at, react |-> NoDay])
      /\ (Current.status # "PENDING" => Len(M.eps) = L)
  <2>1. CASE Current.status = "PENDING"
    BY <1>1, <1>2, <2>1, MovedIs
  <2>2. CASE Current.status \in {"ACTIVE", "HALTED"}
    BY <1>1, <1>2, <2>2, MovedIs
  <2> QED
    BY <1>2, <2>1, <2>2 DEF Statuses
<1>5. /\ \A i \in 1..next : subs'[i] = IF i = next THEN M ELSE subs[i]
      /\ next \in 1..next /\ next \in Nat
  BY <1>2, <1>4, SubMoves
<1>6. ASSUME NEW i \in 1..next, i # next, NEW n \in Halts(i)
      PROVE  EpisodeIs(subs'[i], i, n, Begun(i, n)', Ended(i, n)')
  <2>1. subs'[i] = subs[i] /\ i \in 1..Count
    BY <1>2, <1>5, <1>6
  <2>2. (Begun(i, n)' <=> Begun(i, n)) /\ (Ended(i, n)' <=> Ended(i, n))
    BY <1>1, <1>2, <1>3, <1>6, <2>1, OneIsDone
  <2> QED
    BY <2>1, <2>2 DEF EpisodesKept, EpisodeIs
<1>7. ASSUME NEW n \in Halts(next)
      PROVE  EpisodeIs(M, next, n, Begun(next, n) \/ Posted = HaltedOf(next, n),
                       Ended(next, n) \/ (Returns(next) /\ Posted = ReturnOf(next, n)))
  <2>1. /\ n <= L <=> Begun(next, n)
        /\ n <= L => /\ Current.eps[n].halted = HaltAt(next, n)
                     /\ Current.eps[n].react = IF Ended(next, n) THEN ReturnAt(next, n) ELSE NoDay
    BY <1>2, <1>5, <1>7 DEF EpisodesKept
  <2>2. n \in Nat /\ n >= 1
    BY <1>2, <1>7, Timeline
  <2>3. n <= L =>
          /\ M.eps[n].halted = Current.eps[n].halted
          /\ M.eps[n].react = IF Current.status = "HALTED" /\ Current.eps[n].react = NoDay
                              THEN Posted.at ELSE Current.eps[n].react
    <3> SUFFICES ASSUME n <= L
                 PROVE  /\ M.eps[n].halted = Current.eps[n].halted
                        /\ M.eps[n].react =
                             IF Current.status = "HALTED" /\ Current.eps[n].react = NoDay
                             THEN Posted.at ELSE Current.eps[n].react
      OBVIOUS
    <3>1. n \in 1..L
      BY <1>2, <2>2
    <3> QED
      BY <1>1, <1>2, <3>1, HaltsMoved
  <2>4. /\ HaltedOf(next, n).type = "halted" /\ HaltedOf(next, n).at = HaltAt(next, n)
        /\ ReturnOf(next, n).type = "activated" /\ ReturnOf(next, n).at = ReturnAt(next, n)
    BY DEF HaltedOf, ReturnOf
  <2>5. /\ Begun(next, n) <=> HaltAt(next, n) < Posted.at
        /\ Ended(next, n) <=> Returns(next) /\ ReturnAt(next, n) < Posted.at
        /\ HaltAt(next, n) \in Nat /\ ReturnAt(next, n) \in Nat
        /\ HaltAt(next, n) < ReturnAt(next, n)
    BY <1>1, <1>7, DoneByNow
  <2>6. /\ Current.status = "ACTIVE" => Posted.type = "pending"
        /\ Current.status = "PENDING" => Posted.type = "halted"
        /\ Current.status = "HALTED" => Posted.type = "activated"
    BY <1>1, <1>2, Verdict
  <2>7. IsEvent(next, Posted)
    BY <1>1, PostedIsNext
  <2> HIDE DEF M, L
  <2>8. CASE Current.status = "ACTIVE"
    BY <1>4, <2>1, <2>3, <2>4, <2>6, <2>8 DEF EpisodeIs
  <2>9. CASE Current.status = "PENDING"
    <3>1. PICK m \in Halts(next) : Posted = HaltedOf(next, m)
      BY <2>6, <2>7, <2>9 DEF IsEvent, PendingOf, BillOf, ReturnOf
    <3>2. L = m - 1 /\ m \in Nat
      <4>1. m \in {1, 2}
        BY <1>2, <3>1, Timeline
      <4>2. L = m - 1
        BY <1>1, <3>1, HaltsSoFar DEF L
      <4> QED
        BY <4>1, <4>2
    <3>3. Posted.at = HaltAt(next, m)
      BY <3>1 DEF HaltedOf
    <3>4. Len(M.eps) = m /\ M.eps[m] = [halted |-> HaltAt(next, m), react |-> NoDay]
      BY <1>4, <2>9, <3>2, <3>3
    <3>5. CASE n = m
      <4>1. ~Ended(next, n) /\ Posted # ReturnOf(next, n)
        BY <2>4, <2>5, <2>6, <2>9, <3>3, <3>5
      <4>2. M.eps[n].halted = HaltAt(next, n) /\ M.eps[n].react = NoDay /\ n <= Len(M.eps)
        BY <2>2, <3>4, <3>5
      <4> QED
        BY <3>1, <3>5, <4>1, <4>2 DEF EpisodeIs
    <3>6. CASE n # m
      <4>1. n <= Len(M.eps) <=> n <= L
        BY <2>2, <3>2, <3>4, <3>6
      <4>2. Posted # HaltedOf(next, n) \/ Begun(next, n)
        <5> SUFFICES ASSUME Posted = HaltedOf(next, n) PROVE FALSE
          OBVIOUS
        <5>1. L = n - 1
          BY <1>1, <1>7, HaltsSoFar DEF L
        <5> QED
          BY <2>2, <3>2, <3>6, <5>1
      <4>3. Posted # ReturnOf(next, n)
        BY <2>4, <2>6, <2>9
      <4> QED
        BY <2>1, <2>3, <2>9, <4>1, <4>2, <4>3 DEF EpisodeIs
    <3> QED
      BY <3>5, <3>6
  <2>10. CASE Current.status = "HALTED"
    <3>1. PICK m \in Halts(next) : Returns(next) /\ Posted = ReturnOf(next, m)
      BY <2>6, <2>7, <2>10 DEF IsEvent, PendingOf, BillOf, HaltedOf
    <3>2. L = m /\ m \in Nat
      <4>1. m \in {1, 2}
        BY <1>2, <3>1, Timeline
      <4>2. L = m
        BY <1>1, <3>1, HaltsSoFar DEF L
      <4> QED
        BY <4>1, <4>2
    <3>3. Posted.at = ReturnAt(next, m)
      BY <3>1 DEF ReturnOf
    <3>4. Posted # HaltedOf(next, n)
      BY <2>4, <2>6, <2>10
    <3>5. Len(M.eps) = L
      BY <1>4, <2>10
    <3>6. CASE n = m
      <4>1. ~Ended(next, n)
        BY <2>5, <3>3, <3>6
      <4>2. n <= L
        BY <2>2, <3>2, <3>6
      <4>3. M.eps[n].halted = HaltAt(next, n) /\ M.eps[n].react = ReturnAt(next, n)
        BY <2>1, <2>3, <2>10, <3>3, <3>6, <4>1, <4>2
      <4> QED
        BY <2>1, <3>1, <3>5, <3>6, <4>2, <4>3 DEF EpisodeIs
    <3>7. CASE n # m
      <4>1. ASSUME n <= L PROVE Ended(next, n)
        <5>1. n < m
          BY <2>2, <3>2, <3>7, <4>1
        <5>2. ReturnAt(next, n) + 30 < HaltAt(next, m)
          BY <1>2, <3>1, <5>1, HaltsApart
        <5>3. HaltAt(next, m) \in Nat /\ HaltAt(next, m) < ReturnAt(next, m)
              /\ ReturnAt(next, m) \in Nat
          BY <1>2, <3>1, Timeline
        <5>4. ReturnAt(next, n) < Posted.at
          BY <2>5, <3>3, <5>2, <5>3
        <5> QED
          BY <2>5, <3>1, <5>4
      <4>2. ReturnAt(next, n) # NoDay
        BY <2>5 DEF NoDay
      <4> QED
        BY <2>1, <2>3, <3>4, <3>5, <4>1, <4>2 DEF EpisodeIs
    <3> QED
      BY <3>6, <3>7
  <2> QED
    BY <1>2, <2>8, <2>9, <2>10 DEF Statuses
<1>8. ASSUME NEW i \in 1..next, NEW n \in Halts(i)
      PROVE  EpisodeIs(subs'[i], i, n, Begun(i, n)', Ended(i, n)')
  <2>1. CASE i # next
    BY <1>6, <2>1
  <2>2. CASE i = next
    <3>1. subs'[i] = M /\ i \in 1..Count
      BY <1>2, <1>5, <2>2
    <3>2. /\ Begun(i, n)' <=> Begun(i, n) \/ Posted = HaltedOf(i, n)
          /\ Ended(i, n)' <=> Ended(i, n) \/ (Returns(i) /\ Posted = ReturnOf(i, n))
      BY <1>1, <1>2, <1>3, <2>2, <3>1, OneIsDone
    <3> HIDE DEF M
    <3>3. EpisodeIs(M, i, n, Begun(i, n) \/ Posted = HaltedOf(i, n),
                    Ended(i, n) \/ (Returns(i) /\ Posted = ReturnOf(i, n)))
      BY <1>7, <2>2
    <3> QED
      BY <3>1, <3>2, <3>3 DEF EpisodeIs
  <2> QED
    BY <2>1, <2>2
<1> QED
  BY <1>1, <1>8, PlansStay DEF EpisodesKept, EpisodeIs

LEMMA EpisodesStay ==
  ASSUME WorldInv, EpisodesKept, plans' = plans, next' = next, subs' = subs,
         BegunStays, EndedStays
  PROVE  EpisodesKept'
<1>1. \A i \in 1..next : i \in 1..Count
  BY DEF WorldInv, SubsKept, PopulationDrawn
<1> QED
  BY <1>1, PlansStay DEF EpisodesKept, BegunStays, EndedStays

LEMMA EpisodesBegin ==
  ASSUME WorldInv, ScriptIsRest, EpisodesKept, Materialise
  PROVE  EpisodesKept'
<1> DEFINE fresh == [status |-> "ACTIVE", last |-> NoDay, eps |-> << >>]
<1>1. plans' = plans /\ next' = next + 1 /\ subs' = Append(subs, fresh)
  BY DEF Materialise
<1>2. /\ NonePosts /\ next \in Nat /\ next + 1 \in 1..Count
      /\ \A e : IsEvent(next + 1, e) => ~IsDone(next + 1, e)
      /\ subs \in Seq(Sub) /\ Len(subs) = next /\ PopulationDrawn /\ Count \in Nat
  BY MaterialisingIsNone DEF WorldInv, SubsKept, PopulationDrawn
<1>3. BegunStays /\ EndedStays
  BY <1>1, <1>2, NoneIsDone
<1>4. fresh \in Sub /\ Len(fresh.eps) = 0
  <2>1. << >> \in Seq(Episode) /\ Len(<< >>) = 0
    OBVIOUS
  <2> QED
    BY <2>1 DEF Sub, Statuses
<1> HIDE DEF fresh
<1>5. subs'[next + 1] = fresh /\ \A i \in 1..next : subs'[i] = subs[i]
  BY <1>1, <1>2, <1>4, AppendProperties
<1>6. ASSUME NEW i \in 1..(next + 1), NEW n \in Halts(i)
      PROVE  EpisodeIs(subs'[i], i, n, Begun(i, n)', Ended(i, n)')
  <2>1. i \in 1..Count
    BY <1>2
  <2>2. (Begun(i, n)' <=> Begun(i, n)) /\ (Ended(i, n)' <=> Ended(i, n))
    BY <1>3, <2>1 DEF BegunStays, EndedStays
  <2>3. CASE i = next + 1
    <3>1. IsEvent(i, HaltedOf(i, n))
      BY <1>2, <2>1, AnEvent
    <3>2. ~Begun(i, n)
      BY <1>2, <2>3, <3>1 DEF Begun
    <3>3. n \in Nat /\ n >= 1
      BY <1>2, <2>1, Timeline
    <3> QED
      BY <1>4, <1>5, <2>2, <2>3, <3>2, <3>3 DEF EpisodeIs
  <2>4. CASE i # next + 1
    <3>1. i \in 1..next /\ subs'[i] = subs[i]
      BY <1>2, <1>5, <2>4
    <3> QED
      BY <2>2, <3>1 DEF EpisodeIs, EpisodesKept
  <2> QED
    BY <2>3, <2>4
<1>7. next' = next + 1 /\ \A i : Halts(i)' = Halts(i)
  BY <1>1, PlansStay
<1>8. \A i, n : HaltAt(i, n)' = HaltAt(i, n) /\ ReturnAt(i, n)' = ReturnAt(i, n)
  BY <1>1, PlansStay
<1> QED
  BY <1>6, <1>7, <1>8 DEF EpisodesKept, EpisodeIs

\* The bills of a halt are raised in it.
LEMMA LineageOfBill ==
  ASSUME WorldInv, ScriptIsRest, EpisodesKept, NEW i \in 1..next, NEW n \in Halts(i),
         n <= Len(subs[i].eps), NEW k \in 1..Cycles(i, n)
  PROVE  LineageOf(subs[i], BillAt(i, n, k)) = n
<1> DEFINE eps == subs[i].eps
           day == BillAt(i, n, k)
           hits == {m \in DOMAIN eps : Contains(eps[m], day)}
<1>1. /\ i \in 1..Count /\ PopulationDrawn /\ Len(eps) \in Nat /\ DOMAIN eps = 1..Len(eps)
      /\ Len(eps) <= plans[i].halts /\ plans[i].halts \in {1, 2}
      /\ next \in 1..Count /\ Count \in Nat
  <2>1. /\ i \in 1..Count /\ PopulationDrawn /\ Len(eps) <= plans[i].halts
        /\ subs[i] \in Sub /\ next \in 1..Count /\ Count \in Nat
    BY DEF WorldInv, SubsKept, PopulationDrawn
  <2>2. Len(eps) \in Nat /\ DOMAIN eps = 1..Len(eps)
    BY <2>1, LenProperties DEF Sub
  <2>3. plans[i].halts \in {1, 2}
    BY <2>1, PlanIs
  <2> QED
    BY <2>1, <2>2, <2>3
<1>2. /\ HaltAt(i, n) < day /\ day < ReturnAt(i, n) /\ day \in Nat
      /\ HaltAt(i, n) \in Nat /\ ReturnAt(i, n) \in Nat /\ n \in {1, 2}
  BY <1>1, BillTimes, Timeline
<1>3. \A m \in Halts(i) : m <= Len(eps) =>
        /\ eps[m].halted = HaltAt(i, m)
        /\ eps[m].react = IF Ended(i, m) THEN ReturnAt(i, m) ELSE NoDay
        /\ Begun(i, m)
  BY DEF EpisodesKept
<1>4. n \in hits
  <2>1. n \in DOMAIN eps /\ eps[n].halted <= day
    BY <1>1, <1>2, <1>3
  <2>2. eps[n].react = NoDay \/ day < eps[n].react
    BY <1>2, <1>3
  <2> QED
    BY <2>1, <2>2 DEF Contains
<1>5. ASSUME NEW m \in hits, m # n PROVE FALSE
  <2>1. /\ m \in Halts(i) /\ m <= Len(eps) /\ eps[m].halted <= day
        /\ eps[m].react = NoDay \/ day < eps[m].react
    <3>1. m \in 1..Len(eps) /\ Contains(eps[m], day)
      BY <1>1, <1>5
    <3> HIDE DEF eps, day
    <3> QED
      BY <1>1, <3>1 DEF Contains, Halts
  <2>2. m \in {1, 2} /\ HaltAt(i, m) \in Nat /\ ReturnAt(i, m) \in Nat
    BY <1>1, <2>1, Timeline
  <2>3. CASE n < m
    <3>1. ReturnAt(i, n) + 30 < HaltAt(i, m)
      BY <1>1, <2>1, <2>3, HaltsApart
    <3> QED
      BY <1>2, <1>3, <2>1, <2>2, <3>1
  <2>4. CASE m < n
    <3>1. ReturnAt(i, m) + 30 < HaltAt(i, n) /\ Returns(i)
      BY <1>1, <2>1, <2>4, HaltsApart
    <3>2. Ended(i, m)
      <4>1. Begun(i, n)
        BY <1>3
      <4>2. IsEvent(i, HaltedOf(i, n)) /\ IsEvent(i, ReturnOf(i, m))
        BY <1>1, <2>1, <3>1, AnEvent
      <4>3. HaltedOf(i, n).at = HaltAt(i, n) /\ ReturnOf(i, m).at = ReturnAt(i, m)
        BY DEF HaltedOf, ReturnOf
      <4>4. ASSUME i = next, ReturnOf(i, m) \in Todo PROVE FALSE
        <5>1. HaltedOf(i, n) \notin Todo
          BY <1>1, <4>1, <4>4 DEF Begun, IsDone
        <5>2. HaltAt(i, n) < ReturnAt(i, m)
          BY <4>2, <4>3, <4>4, <5>1 DEF ScriptIsRest
        <5> QED
          BY <1>2, <2>2, <3>1, <5>2
      <4>5. i < next \/ i = next
        BY <1>1
      <4> QED
        BY <3>1, <4>4, <4>5 DEF Ended, IsDone
    <3>3. eps[m].react = ReturnAt(i, m)
      BY <1>3, <2>1, <3>2
    <3>4. ReturnAt(i, m) # NoDay
      BY <2>2 DEF NoDay
    <3> QED
      BY <1>2, <2>1, <2>2, <3>1, <3>3, <3>4
  <2> QED
    BY <1>2, <1>5, <2>2, <2>3, <2>4
<1> HIDE DEF hits
<1>6. hits = {n}
  BY <1>4, <1>5
<1>7. Min(hits) = n
  BY <1>2, <1>6 DEF Min
<1>8. LineageOf(subs[i], day) = IF hits = {} THEN 0 ELSE Min(hits)
  BY DEF LineageOf, hits
<1> QED
  BY <1>6, <1>7, <1>8 DEF day

-----------------------------------------------------------------------------
(* The rows and the refusals of the bills.                                 *)

RowIs(r) == /\ r.sub \in 1..Count /\ r.ep \in Halts(r.sub)
            /\ \E k \in 1..Cycles(r.sub, r.ep) : IsRowOf(r, k)

RefusalIs(x) ==
  \E i \in 1..Count : \E n \in Halts(i) : \E k \in 1..Cycles(i, n) :
    x = RefusalOf(i, n, k) /\ IsBilled(i, n, k)

BillsKept == RowsAreBills /\ RefusedAreBills /\ BillsAreRows /\ RowsOnce

BilledGrows ==
  \A i \in 1..Count : \A n \in Halts(i) : \A k \in 1..Cycles(i, n) :
    IsBilled(i, n, k) => IsBilled(i, n, k)'

\* Two rows of one bill, whatever their verdicts.
SameBill(g, r) ==
  g.sub = r.sub /\ g.ep = r.ep /\ g.at = r.at /\ g.delivery = r.delivery

LEMMA RowStays ==
  ASSUME plans' = plans, BilledGrows, NEW g, NEW r, RowIs(r), SameBill(g, r)
  PROVE  RowIs(g)'
<1>1. PICK k \in 1..Cycles(r.sub, r.ep) : IsRowOf(r, k)
  BY DEF RowIs
<1>2. r.sub \in 1..Count /\ r.ep \in Halts(r.sub)
  BY DEF RowIs
<1>3. /\ r.at = BillAt(r.sub, r.ep, k) /\ r.delivery = DeliveryOf(r.sub, r.ep)[k]
      /\ IsBilled(r.sub, r.ep, k)'
  BY <1>1, <1>2 DEF IsRowOf, BilledGrows
<1>4. g.sub = r.sub /\ g.ep = r.ep /\ g.at = r.at /\ g.delivery = r.delivery
  BY DEF SameBill
<1>5. IsRowOf(g, k)'
  BY <1>3, <1>4, PlansStay DEF IsRowOf
<1> QED
  BY <1>2, <1>4, <1>5, PlansStay DEF RowIs

LEMMA RefusalStays ==
  ASSUME plans' = plans, BilledGrows, NEW x, RefusalIs(x)
  PROVE  RefusalIs(x)'
<1>1. PICK i \in 1..Count : \E n \in Halts(i) : \E k \in 1..Cycles(i, n) :
        x = RefusalOf(i, n, k) /\ IsBilled(i, n, k)
  BY DEF RefusalIs
<1>2. PICK n \in Halts(i) : \E k \in 1..Cycles(i, n) :
        x = RefusalOf(i, n, k) /\ IsBilled(i, n, k)
  BY <1>1
<1>3. PICK k \in 1..Cycles(i, n) : x = RefusalOf(i, n, k) /\ IsBilled(i, n, k)
  BY <1>2
<1>4. IsBilled(i, n, k)'
  BY <1>3 DEF BilledGrows
<1>5. /\ i \in (1..Count)' /\ n \in Halts(i)' /\ k \in (1..Cycles(i, n))'
      /\ x = RefusalOf(i, n, k)'
  BY <1>3, PlansStay
<1> QED
  BY <1>4, <1>5 DEF RefusalIs

\* The rows are those of the same bills.
RowsStay ==
  /\ \A g \in rows' : \E r \in rows : SameBill(g, r)
  /\ \A r \in rows : \E g \in rows' : SameBill(g, r)
  /\ \A g, h \in rows' : g.sub = h.sub /\ g.at = h.at => g = h

LEMMA RowStaysOf ==
  ASSUME RowsStay, plans' = plans
  PROVE  /\ \A i, n, k : HasRow(i, n, k)' <=> HasRow(i, n, k)
         /\ \A i, n, d : BilledIn(i, n, d)' = BilledIn(i, n, d)
<1>1. \A i, n, k : HasRow(i, n, k)' <=> \E g \in rows' : g.sub = i /\ g.at = BillAt(i, n, k)
  BY PlansStay DEF HasRow
<1>2. \A i, n, k : HasRow(i, n, k)' <=> HasRow(i, n, k)
  BY <1>1 DEF HasRow, RowsStay, SameBill
<1>3. ASSUME NEW i, NEW n, NEW d PROVE BilledIn(i, n, d)' = BilledIn(i, n, d)
  <2>1. BilledIn(i, n, d)' = {k \in 1..Cycles(i, n) : /\ DeliveryOf(i, n)[k] = d
                                                      /\ HasRow(i, n, k)'}
    BY PlansStay DEF BilledIn
  <2>2. \A k : k \in BilledIn(i, n, d)' <=> k \in BilledIn(i, n, d)
    BY <1>2, <2>1 DEF BilledIn
  <2> QED
    BY <2>2
<1> QED
  BY <1>2, <1>3

LEMMA BillsStay ==
  ASSUME BillsKept, plans' = plans, BilledStays, RowsStay, refused' = refused
  PROVE  BillsKept'
<1>1. BilledGrows
  BY DEF BilledStays, BilledGrows
<1>2. \A g \in rows' : RowIs(g)'
  <2> TAKE g \in rows'
  <2>1. PICK r \in rows : SameBill(g, r)
    BY DEF RowsStay
  <2>2. RowIs(r)
    BY <2>1 DEF BillsKept, RowsAreBills, RowIs
  <2> QED
    BY <1>1, <2>1, <2>2, RowStays
<1>3. \A x \in refused' : RefusalIs(x)'
  BY <1>1, RefusalStays DEF BillsKept, RefusedAreBills, RefusalIs
<1>4. BillsAreRows'
  <2> SUFFICES ASSUME NEW i \in 1..Count, NEW n \in Halts(i), NEW k \in 1..Cycles(i, n),
                      IsBilled(i, n, k)'
               PROVE  HasRow(i, n, k)' \/ HasRefusal(i, n, k)'
    BY PlansStay DEF BillsAreRows
  <2>1. HasRow(i, n, k) \/ HasRefusal(i, n, k)
    BY DEF BilledStays, BillsKept, BillsAreRows
  <2>2. HasRefusal(i, n, k)' <=> HasRefusal(i, n, k)
    BY PlansStay DEF HasRefusal
  <2> QED
    BY <2>1, <2>2, RowStaysOf
<1>5. RowsOnce'
  <2>1. \A g \in rows', x \in refused' : g.sub = x.sub => g.at # x.event.at
    BY DEF RowsStay, SameBill, BillsKept, RowsOnce
  <2> QED
    BY <2>1 DEF RowsStay, RowsOnce
<1> QED
  BY <1>2, <1>3, <1>4, <1>5 DEF BillsKept, RowsAreBills, RowIs, RefusedAreBills, RefusalIs

LEMMA RowsStaySame ==
  ASSUME RowsOnce, rows' = rows
  PROVE  RowsStay
BY DEF RowsStay, SameBill, RowsOnce

\* What was billed was billed before.
LEMMA BilledBefore ==
  ASSUME WorldInv, ScriptIsRest, script # << >>, Proceed
  PROVE  /\ \A n \in Halts(next) : \A k \in 1..Cycles(next, n) :
              IsBilled(next, n, k) => BillAt(next, n, k) < Posted.at
         /\ RowsAreBills => \A r \in rows : r.sub = next => r.at # Posted.at
         /\ RefusedAreBills => \A x \in refused : x.sub = next => x.event.at # Posted.at
<1>1. next \in 1..Count /\ IsThePresent(Posted.at) /\ PopulationDrawn /\ Posted.at \in Nat
      /\ Count \in Nat
  BY PostedIsNext DEF WorldInv, PopulationDrawn
<1>2. ASSUME NEW n \in Halts(next), NEW k \in 1..Cycles(next, n), IsBilled(next, n, k)
      PROVE  BillAt(next, n, k) < Posted.at /\ BillAt(next, n, k) \in Nat
  <2>1. IsEvent(next, BillOf(next, n, k)) /\ BillOf(next, n, k) \notin Todo
    BY <1>1, <1>2, AnEvent DEF IsBilled, IsDone
  <2>2. BillOf(next, n, k).at = BillAt(next, n, k)
    BY DEF BillOf
  <2>3. BillAt(next, n, k) \in Nat
    BY <1>1, <1>2, BillTimes
  <2>4. ~(Posted.at <= BillAt(next, n, k))
    BY <1>1, <2>1, <2>2 DEF IsThePresent
  <2> QED
    BY <1>1, <2>3, <2>4
<1>3. ASSUME RowsAreBills, NEW r \in rows, r.sub = next PROVE r.at # Posted.at
  <2>1. PICK k \in 1..Cycles(r.sub, r.ep) : IsRowOf(r, k)
    BY <1>3 DEF RowsAreBills
  <2>2. r.ep \in Halts(next)
    BY <1>3 DEF RowsAreBills
  <2>3. r.at = BillAt(next, r.ep, k) /\ IsBilled(next, r.ep, k) /\ k \in 1..Cycles(next, r.ep)
    BY <1>3, <2>1 DEF IsRowOf
  <2>4. BillAt(next, r.ep, k) < Posted.at /\ BillAt(next, r.ep, k) \in Nat
    BY <1>2, <2>2, <2>3
  <2> QED
    BY <1>1, <2>3, <2>4
<1>4. ASSUME RefusedAreBills, NEW x \in refused, x.sub = next PROVE x.event.at # Posted.at
  <2>1. PICK i \in 1..Count : \E n \in Halts(i) : \E k \in 1..Cycles(i, n) :
          x = RefusalOf(i, n, k) /\ IsBilled(i, n, k)
    BY <1>4 DEF RefusedAreBills
  <2>2. PICK n \in Halts(i) : \E k \in 1..Cycles(i, n) :
          x = RefusalOf(i, n, k) /\ IsBilled(i, n, k)
    BY <2>1
  <2>3. PICK k \in 1..Cycles(i, n) : x = RefusalOf(i, n, k) /\ IsBilled(i, n, k)
    BY <2>2
  <2>4. i = next /\ x.event = BillOf(i, n, k)
    BY <1>4, <2>3 DEF RefusalOf
  <2>5. x.event.at = BillAt(next, n, k)
    BY <2>4 DEF BillOf
  <2>6. BillAt(next, n, k) < Posted.at /\ BillAt(next, n, k) \in Nat
    BY <1>2, <2>3, <2>4
  <2> QED
    BY <1>1, <2>5, <2>6
<1> QED
  BY <1>2, <1>3, <1>4

\* The bill that is posted, of a halt that is open.
IsThisBill(m, k) ==
  /\ m \in Halts(next) /\ k \in 1..Cycles(next, m)
  /\ Posted = BillOf(next, m, k)
  /\ LineageOf(Current, Posted.at) = m
  /\ ~Ended(next, m)

LEMMA BillPosted ==
  ASSUME WorldInv, ScriptIsRest, EpisodesKept, script # << >>, IsInvoice(Posted), Proceed
  PROVE  \E m, k : IsThisBill(m, k)
<1>1. next \in 1..Count /\ IsEvent(next, Posted) /\ PopulationDrawn /\ Count \in Nat
  BY PostedIsNext DEF WorldInv, PopulationDrawn
<1>2. PICK m \in Halts(next) : \E k \in 1..Cycles(next, m) : Posted = BillOf(next, m, k)
  BY <1>1 DEF IsEvent, IsInvoice, PendingOf, HaltedOf, ReturnOf
<1>3. PICK k \in 1..Cycles(next, m) : Posted = BillOf(next, m, k)
  BY <1>2
<1>4. Posted.at = BillAt(next, m, k)
  BY <1>3 DEF BillOf
<1>5. Len(Current.eps) = m
  BY <1>2, <1>3, HaltsSoFar
<1>6. m \in {1, 2} /\ Current = subs[next] /\ next \in 1..next
  BY <1>1, <1>2, PostedIs, Timeline
<1>7. LineageOf(Current, Posted.at) = m
  <2>1. m <= Len(subs[next].eps)
    BY <1>5, <1>6
  <2>2. LineageOf(subs[next], BillAt(next, m, k)) = m
    BY <1>2, <1>3, <1>6, <2>1, LineageOfBill
  <2> QED
    BY <1>4, <1>6, <2>2
<1>8. ~Ended(next, m)
  <2>1. BillAt(next, m, k) < ReturnAt(next, m) /\ BillAt(next, m, k) \in Nat
    BY <1>1, <1>2, <1>3, BillTimes
  <2>2. /\ Ended(next, m) <=> Returns(next) /\ ReturnAt(next, m) < Posted.at
        /\ ReturnAt(next, m) \in Nat
    BY <1>2, DoneByNow
  <2> QED
    BY <1>4, <2>1, <2>2
<1> QED
  BY <1>2, <1>3, <1>7, <1>8 DEF IsThisBill

\* The row of the invoice that is posted.
NewRow ==
  [sub |-> next, at |-> Posted.at, cycle |-> Posted.cycle,
   ep |-> LineageOf(Current, Posted.at), delivery |-> Posted.delivery,
   verdict |-> "REVIEW_REQUIRED"]

LEMMA NewRowIs ==
  ASSUME NEW m, NEW k, IsThisBill(m, k)
  PROVE  /\ NewRow.sub = next /\ NewRow.at = Posted.at /\ NewRow.at = BillAt(next, m, k)
         /\ NewRow.ep = m /\ NewRow.delivery = DeliveryOf(next, m)[k]
         /\ NewRow.verdict = "REVIEW_REQUIRED"
<1>1. /\ Posted.at = BillAt(next, m, k) /\ Posted.delivery = DeliveryOf(next, m)[k]
      /\ LineageOf(Current, Posted.at) = m
  BY DEF IsThisBill, BillOf
<1> QED
  BY <1>1 DEF NewRow

LEMMA InvoiceProceeding ==
  ASSUME WorldInv, HistoryInv, script # << >>, IsInvoice(Posted), Proceed
  PROVE  /\ plans' = plans /\ next' = next /\ next \in 1..Count /\ OnePosts
         /\ BegunStays /\ EndedStays /\ BilledGrows /\ ScriptIsRest'
<1>1. plans' = plans /\ next' = next
  BY DEF Proceed
<1>2. next \in 1..Count /\ OnePosts /\ PopulationDrawn /\ ScriptIsRest'
  BY PostedIsNext, PostingIsDone DEF WorldInv, HistoryInv
<1>3. BegunStays /\ EndedStays
  BY <1>1, <1>2, OneIsDone DEF IsInvoice
<1>4. BilledGrows
  BY <1>1, <1>2, OneIsDone DEF BilledGrows
<1> QED
  BY <1>1, <1>2, <1>3, <1>4

LEMMA PostInvoiceBills ==
  ASSUME WorldInv, HistoryInv, PostInvoice
  PROVE  BillsKept'
<1>1. /\ script # << >> /\ IsInvoice(Posted) /\ Proceed
      /\ rows' = rows \cup {NewRow} /\ refused' = refused
  BY DEF PostInvoice, PostsInvoice, IsInvoice, NewRow
<1>2. /\ plans' = plans /\ next' = next /\ next \in 1..Count /\ OnePosts /\ BilledGrows
      /\ PopulationDrawn
  BY <1>1, InvoiceProceeding DEF WorldInv
<1>3. /\ RowsAreBills /\ RefusedAreBills /\ BillsAreRows /\ RowsOnce
      /\ ScriptIsRest /\ EpisodesKept
  BY DEF HistoryInv
<1>4. PICK m, k : IsThisBill(m, k)
  BY <1>1, <1>3, BillPosted
<1>5. /\ m \in Halts(next) /\ k \in 1..Cycles(next, m) /\ Posted = BillOf(next, m, k)
  BY <1>4 DEF IsThisBill
<1>6. /\ NewRow.sub = next /\ NewRow.at = Posted.at /\ NewRow.at = BillAt(next, m, k)
      /\ NewRow.ep = m /\ NewRow.delivery = DeliveryOf(next, m)[k]
  BY <1>4, NewRowIs
<1>7. /\ \A r \in rows : r.sub = next => r.at # Posted.at
      /\ \A x \in refused : x.sub = next => x.event.at # Posted.at
  BY <1>1, <1>3, BilledBefore
<1>8. PICK row : row = NewRow
  OBVIOUS
<1>9. RowIs(row)'
  <2>1. PICK s : s = next
    OBVIOUS
  <2>2. IsBilled(s, m, k)'
    BY <1>2, <1>5, <2>1, OneIsDone
  <2>3. IsRowOf(row, k)'
    BY <1>2, <1>6, <1>8, <2>1, <2>2, PlansStay DEF IsRowOf
  <2> QED
    BY <1>2, <1>5, <1>6, <1>8, <2>3, PlansStay DEF RowIs
<1>10. \A g \in rows' : RowIs(g)'
  <2> TAKE g \in rows'
  <2>1. CASE g \in rows
    <3>1. RowIs(g) /\ SameBill(g, g)
      BY <1>3, <2>1 DEF RowsAreBills, RowIs, SameBill
    <3> QED
      BY <1>2, <3>1, RowStays
  <2>2. CASE g = NewRow
    BY <1>8, <1>9, <2>2
  <2> QED
    BY <1>1, <2>1, <2>2
<1>11. \A x \in refused' : RefusalIs(x)'
  BY <1>1, <1>2, <1>3, RefusalStays DEF RefusedAreBills, RefusalIs
<1>12. BillsAreRows'
  <2> SUFFICES ASSUME NEW i \in 1..Count, NEW n \in Halts(i), NEW j \in 1..Cycles(i, n),
                      IsBilled(i, n, j)'
               PROVE  HasRow(i, n, j)' \/ HasRefusal(i, n, j)'
    BY <1>2, PlansStay DEF BillsAreRows
  <2>1. HasRow(i, n, j)' <=> \E r \in rows' : r.sub = i /\ r.at = BillAt(i, n, j)
    BY <1>2, PlansStay DEF HasRow
  <2>2. HasRefusal(i, n, j)' <=> HasRefusal(i, n, j)
    BY <1>1, <1>2, PlansStay DEF HasRefusal
  <2>3. CASE IsBilled(i, n, j)
    BY <1>1, <1>3, <2>1, <2>2, <2>3 DEF BillsAreRows, HasRow
  <2>4. CASE i = next /\ Posted = BillOf(i, n, j)
    <3>1. Posted.at = BillAt(i, n, j)
      BY <2>4 DEF BillOf
    <3> QED
      BY <1>1, <1>6, <2>1, <2>4, <3>1
  <2>5. IsBilled(i, n, j) \/ (i = next /\ Posted = BillOf(i, n, j))
    BY <1>2, OneIsDone
  <2> QED
    BY <2>3, <2>4, <2>5
<1>13. RowsOnce'
  <2>1. \A r, s \in rows' : r.sub = s.sub /\ r.at = s.at => r = s
    BY <1>1, <1>3, <1>6, <1>7 DEF RowsOnce
  <2>2. \A r \in rows', x \in refused' : r.sub = x.sub => r.at # x.event.at
    BY <1>1, <1>3, <1>6, <1>7 DEF RowsOnce
  <2> QED
    BY <2>1, <2>2 DEF RowsOnce
<1> QED
  BY <1>10, <1>11, <1>12, <1>13
     DEF BillsKept, RowsAreBills, RowIs, RefusedAreBills, RefusalIs

LEMMA RefuseBills ==
  ASSUME WorldInv, HistoryInv, Refuse, IsInvoice(Posted)
  PROVE  BillsKept'
<1>1. /\ script # << >> /\ Proceed
      /\ rows' = rows /\ refused' = refused \cup {[sub |-> next, event |-> Posted]}
  BY DEF Refuse
<1>2. /\ plans' = plans /\ next' = next /\ next \in 1..Count /\ OnePosts /\ BilledGrows
      /\ PopulationDrawn
  BY <1>1, InvoiceProceeding DEF WorldInv
<1>3. /\ RowsAreBills /\ RefusedAreBills /\ BillsAreRows /\ RowsOnce
      /\ ScriptIsRest /\ EpisodesKept
  BY DEF HistoryInv
<1>4. PICK m, k : IsThisBill(m, k)
  BY <1>1, <1>3, BillPosted
<1>5. /\ m \in Halts(next) /\ k \in 1..Cycles(next, m) /\ Posted = BillOf(next, m, k)
  BY <1>4 DEF IsThisBill
<1>6. /\ \A r \in rows : r.sub = next => r.at # Posted.at
      /\ \A x \in refused : x.sub = next => x.event.at # Posted.at
  BY <1>1, <1>3, BilledBefore
<1>7. PICK new : new = [sub |-> next, event |-> Posted]
  OBVIOUS
<1>8. new.sub = next /\ new.event = Posted /\ refused' = refused \cup {new}
  BY <1>1, <1>7
<1>9. RefusalIs(new)'
  <2>1. PICK s \in 1..Count : s = next
    BY <1>2
  <2>2. IsBilled(s, m, k)'
    BY <1>2, <1>5, <2>1, OneIsDone
  <2>3. new = RefusalOf(s, m, k)'
    BY <1>2, <1>5, <1>7, <2>1, PlansStay DEF RefusalOf
  <2> QED
    BY <1>2, <1>5, <2>1, <2>2, <2>3, PlansStay DEF RefusalIs
<1>10. \A g \in rows' : RowIs(g)'
  <2> TAKE g \in rows'
  <2>1. RowIs(g) /\ SameBill(g, g)
    BY <1>1, <1>3 DEF RowsAreBills, RowIs, SameBill
  <2> QED
    BY <1>2, <2>1, RowStays
<1>11. \A x \in refused' : RefusalIs(x)'
  <2>1. \A x \in refused : RefusalIs(x)'
    BY <1>2, <1>3, RefusalStays DEF RefusedAreBills, RefusalIs
  <2> QED
    BY <1>8, <1>9, <2>1
<1>12. BillsAreRows'
  <2> SUFFICES ASSUME NEW i \in 1..Count, NEW n \in Halts(i), NEW j \in 1..Cycles(i, n),
                      IsBilled(i, n, j)'
               PROVE  HasRow(i, n, j)' \/ HasRefusal(i, n, j)'
    BY <1>2, PlansStay DEF BillsAreRows
  <2>1. HasRow(i, n, j)' <=> HasRow(i, n, j)
    BY <1>1, <1>2, PlansStay DEF HasRow
  <2>2. HasRefusal(i, n, j)' <=> RefusalOf(i, n, j) \in refused'
    BY <1>2, PlansStay DEF HasRefusal
  <2>3. CASE IsBilled(i, n, j)
    BY <1>3, <1>8, <2>1, <2>2, <2>3 DEF BillsAreRows, HasRefusal
  <2>4. CASE i = next /\ Posted = BillOf(i, n, j)
    <3>1. new = RefusalOf(i, n, j)
      BY <1>7, <2>4 DEF RefusalOf
    <3> QED
      BY <1>8, <2>2, <3>1
  <2>5. IsBilled(i, n, j) \/ (i = next /\ Posted = BillOf(i, n, j))
    BY <1>2, OneIsDone
  <2> QED
    BY <2>3, <2>4, <2>5
<1>13. RowsOnce'
  <2>1. \A r, s \in rows' : r.sub = s.sub /\ r.at = s.at => r = s
    BY <1>1, <1>3 DEF RowsOnce
  <2>2. \A r \in rows', x \in refused' : r.sub = x.sub => r.at # x.event.at
    BY <1>1, <1>3, <1>6, <1>8 DEF RowsOnce
  <2> QED
    BY <2>1, <2>2 DEF RowsOnce
<1> QED
  BY <1>10, <1>11, <1>12, <1>13
     DEF BillsKept, RowsAreBills, RowIs, RefusedAreBills, RefusalIs

-----------------------------------------------------------------------------
(* What a halt is worth.                                                   *)

RowsOf(i, n, d) == {r \in rows : r.sub = i /\ r.ep = n /\ r.delivery = d}

\* A row is of one bill, the one of its day.
LEMMA RowOfDay ==
  ASSUME PopulationDrawn, BillsKept, NEW r \in rows,
         NEW n \in Halts(r.sub), NEW k \in 1..Cycles(r.sub, n), r.at = BillAt(r.sub, n, k)
  PROVE  r.ep = n /\ IsRowOf(r, k) /\ r.delivery = DeliveryOf(r.sub, n)[k]
<1>1. r.sub \in 1..Count /\ r.ep \in Halts(r.sub)
  BY DEF BillsKept, RowsAreBills
<1>2. PICK j \in 1..Cycles(r.sub, r.ep) : IsRowOf(r, j)
  BY DEF BillsKept, RowsAreBills
<1>3. BillAt(r.sub, r.ep, j) = BillAt(r.sub, n, k)
  BY <1>2 DEF IsRowOf
<1>4. r.ep = n /\ j = k
  BY <1>1, <1>3, BillsApart
<1> QED
  BY <1>2, <1>4 DEF IsRowOf

LEMMA RowsOfBills ==
  ASSUME PopulationDrawn, BillsKept, NEW i \in 1..Count, NEW n \in Halts(i), NEW d
  PROVE  /\ IsFiniteSet(BilledIn(i, n, d)) /\ Cardinality(BilledIn(i, n, d)) \in Nat
         /\ IsFiniteSet(RowsOf(i, n, d))
         /\ Cardinality(RowsOf(i, n, d)) = Cardinality(BilledIn(i, n, d))
<1> DEFINE S == RowsOf(i, n, d)
           K == BilledIn(i, n, d)
           a == [r \in S |-> CHOOSE k \in 1..Cycles(i, n) : IsRowOf(r, k)]
<1>1. IsFiniteSet(K) /\ Cardinality(K) \in Nat
  <2>1. Cycles(i, n) \in Nat
    BY Timeline
  <2>2. IsFiniteSet(1..Cycles(i, n))
    BY <2>1, FS_Interval
  <2>3. K \subseteq 1..Cycles(i, n)
    BY DEF BilledIn
  <2> QED
    BY <2>2, <2>3, FS_Subset, FS_CardinalityType
<1>2. ASSUME NEW r \in S
      PROVE  /\ a[r] \in 1..Cycles(i, n) /\ IsRowOf(r, a[r])
             /\ r \in rows /\ r.sub = i /\ r.ep = n /\ r.delivery = d
  <2>1. r \in rows /\ r.sub = i /\ r.ep = n /\ r.delivery = d
    BY DEF RowsOf
  <2>2. \E k \in 1..Cycles(i, n) : IsRowOf(r, k)
    BY <2>1 DEF BillsKept, RowsAreBills
  <2>3. a[r] = CHOOSE k \in 1..Cycles(i, n) : IsRowOf(r, k)
    OBVIOUS
  <2> HIDE DEF a, S
  <2> QED
    BY <2>1, <2>2, <2>3
<1> HIDE DEF a
<1>3. \A r \in S : a[r] \in K
  <2> TAKE r \in S
  <2>1. /\ r.at = BillAt(i, n, a[r]) /\ DeliveryOf(i, n)[a[r]] = d
    BY <1>2 DEF IsRowOf
  <2> QED
    BY <1>2, <2>1 DEF BilledIn, HasRow
<1>4. \A r, s \in S : a[r] = a[s] => r = s
  <2> SUFFICES ASSUME NEW r \in S, NEW s \in S, a[r] = a[s] PROVE r = s
    OBVIOUS
  <2>1. r.at = BillAt(i, n, a[r]) /\ s.at = BillAt(i, n, a[s])
    BY <1>2 DEF IsRowOf
  <2>2. r \in rows /\ s \in rows /\ r.sub = s.sub /\ r.at = s.at
    BY <1>2, <2>1
  <2> QED
    BY <2>2 DEF BillsKept, RowsOnce
<1>5. \A k \in K : \E r \in S : a[r] = k
  <2> TAKE k \in K
  <2>1. k \in 1..Cycles(i, n) /\ DeliveryOf(i, n)[k] = d /\ HasRow(i, n, k)
    BY DEF BilledIn
  <2>2. PICK r \in rows : r.sub = i /\ r.at = BillAt(i, n, k)
    BY <2>1 DEF HasRow
  <2>3. r.ep = n /\ r.delivery = DeliveryOf(i, n)[k]
    BY <2>1, <2>2, RowOfDay
  <2>4. r \in S
    BY <2>1, <2>2, <2>3 DEF RowsOf
  <2>5. a[r] \in 1..Cycles(i, n) /\ BillAt(i, n, a[r]) = BillAt(i, n, k)
    BY <1>2, <2>2, <2>4 DEF IsRowOf
  <2>6. a[r] = k
    BY <2>1, <2>5, BillsApart
  <2> QED
    BY <2>4, <2>6
<1> HIDE DEF S, K
<1>6. IsFiniteSet(S) /\ Cardinality(S) = Cardinality(K)
  BY <1>1, <1>3, <1>4, <1>5, Paired
<1> QED
  BY <1>1, <1>6 DEF S, K

\* The gate goes by how the service was delivered.
LEMMA VerdictIs ==
  ASSUME NEW r
  PROVE  VerdictOf(r) = CASE r.delivery = "SUSPENDED" -> "NOT_COLLECTIBLE"
                          [] r.delivery = "DELIVERED" -> "COLLECTIBLE"
                          [] OTHER -> "REVIEW_REQUIRED"
<1> DEFINE s == [status |-> "UNPAID", waived |-> FALSE, marked |-> FALSE,
                 delivery |-> r.delivery]
<1>1. /\ s.status = "UNPAID" /\ s.waived = FALSE /\ s.marked = FALSE
      /\ s.delivery = r.delivery
  OBVIOUS
<1>2. VerdictOf(r) = EvaluateCollectibility(s)
  BY DEF VerdictOf
<1> HIDE DEF s
<1>3. VerdictOf(r) = IF s.delivery = "SUSPENDED" THEN "NOT_COLLECTIBLE"
                     ELSE IF s.delivery = "DELIVERED" THEN "COLLECTIBLE"
                     ELSE "REVIEW_REQUIRED"
  BY <1>1, <1>2 DEF EvaluateCollectibility
<1> QED
  BY <1>1, <1>3

LEMMA RowIsDrawn ==
  ASSUME PopulationDrawn, BillsKept, NEW r \in rows
  PROVE  r.delivery \in DrawnDeliveries
<1>1. r.sub \in 1..Count /\ r.ep \in Halts(r.sub)
  BY DEF BillsKept, RowsAreBills
<1>2. PICK j \in 1..Cycles(r.sub, r.ep) : IsRowOf(r, j)
  BY DEF BillsKept, RowsAreBills
<1> QED
  BY <1>1, <1>2, BillTimes DEF IsRowOf

\* A bucket of the gate is worth the bills that became its rows.
LEMMA WorthIs ==
  ASSUME PopulationDrawn, BillsKept, NEW i \in 1..Count, NEW n \in Halts(i)
  PROVE  /\ Worth(i, n, "COLLECTIBLE") = WorthIn(i, n, "DELIVERED")
         /\ Worth(i, n, "REVIEW_REQUIRED") = WorthIn(i, n, "UNKNOWN")
         /\ Worth(i, n, "NOT_COLLECTIBLE") = WorthIn(i, n, "SUSPENDED")
         /\ \A d : WorthIn(i, n, d) \in Nat
<1> DEFINE Of(verdict) == {r \in InHalt(i, n) : VerdictOf(r) = verdict}
<1>1. \A verdict : Worth(i, n, verdict) = plans[i].amount * Cardinality(Of(verdict))
  BY DEF Worth
<1>2. \A r \in InHalt(i, n) :
        /\ r \in rows /\ r.sub = i /\ r.ep = n
        /\ VerdictOf(r) = "COLLECTIBLE" <=> r.delivery = "DELIVERED"
        /\ VerdictOf(r) = "REVIEW_REQUIRED" <=> r.delivery = "UNKNOWN"
        /\ VerdictOf(r) = "NOT_COLLECTIBLE" <=> r.delivery = "SUSPENDED"
  <2> TAKE r \in InHalt(i, n)
  <2>1. r \in rows /\ r.sub = i /\ r.ep = n
    BY DEF InHalt
  <2>2. r.delivery \in {"DELIVERED", "SUSPENDED", "UNKNOWN"}
    BY <2>1, RowIsDrawn DEF DrawnDeliveries
  <2> QED
    BY <2>1, <2>2, VerdictIs
<1>3. \A d : \A r \in RowsOf(i, n, d) : r \in InHalt(i, n) /\ r.delivery = d
  BY DEF RowsOf, InHalt
<1>4. /\ Of("COLLECTIBLE") = RowsOf(i, n, "DELIVERED")
      /\ Of("REVIEW_REQUIRED") = RowsOf(i, n, "UNKNOWN")
      /\ Of("NOT_COLLECTIBLE") = RowsOf(i, n, "SUSPENDED")
  BY <1>2, <1>3 DEF RowsOf
<1>5. plans[i].amount \in Nat
  BY PlanIs
<1>6. \A d : WorthIn(i, n, d) \in Nat
  BY <1>5, RowsOfBills DEF WorthIn
<1> QED
  BY <1>1, <1>4, <1>6, RowsOfBills DEF WorthIn

-----------------------------------------------------------------------------
(* The cases of the halts that ended.                                      *)

CaseIs(c) == \E i \in 1..Count : \E n \in Halts(i) : IsCaseOf(c, i, n)

IsWhole(i, n) ==
  /\ IsGated(i, n)
  /\ HasCase(i, n) \/ WorthIn(i, n, "DELIVERED") + WorthIn(i, n, "UNKNOWN") = 0

CaseKept == VerdictsKept /\ CasesAreHalts /\ CasesOnce /\ WholeUnlessBroken

\* What a step leaves of a halt that ended.
Settled ==
  \A i \in 1..Count : \A n \in Halts(i) : Ended(i, n) =>
    /\ Ended(i, n)'
    /\ IsGated(i, n) => IsGated(i, n)'
    /\ \A d : BilledIn(i, n, d)' = BilledIn(i, n, d)

LEMMA OldCases ==
  ASSUME plans' = plans, CasesAreHalts, Settled
  PROVE  \A c \in cases : CaseIs(c)'
<1> TAKE c \in cases
<1>1. PICK i \in 1..Count : \E n \in Halts(i) : IsCaseOf(c, i, n)
  BY DEF CasesAreHalts
<1>2. PICK n \in Halts(i) : IsCaseOf(c, i, n)
  BY <1>1
<1>3. Ended(i, n)' /\ IsGated(i, n)' /\ \A d : BilledIn(i, n, d)' = BilledIn(i, n, d)
  BY <1>2 DEF Settled, IsCaseOf
<1>4. \A d : WorthIn(i, n, d)' = WorthIn(i, n, d)
  BY <1>3 DEF WorthIn
<1>5. IsCaseOf(c, i, n)'
  BY <1>2, <1>3, <1>4, PlansStay DEF IsCaseOf
<1> QED
  BY <1>5, PlansStay DEF CaseIs

LEMMA OldHalts ==
  ASSUME plans' = plans, WholeUnlessBroken, Settled, ~broken,
         \A c \in cases : \E d \in cases' : d.sub = c.sub /\ d.ep = c.ep,
         NEW i \in 1..Count, NEW n \in Halts(i), Ended(i, n)
  PROVE  IsWhole(i, n)'
<1>1. IsWhole(i, n)
  BY DEF WholeUnlessBroken, IsWhole
<1>2. IsGated(i, n)' /\ \A d : BilledIn(i, n, d)' = BilledIn(i, n, d)
  BY <1>1 DEF Settled, IsWhole
<1>3. \A d : WorthIn(i, n, d)' = WorthIn(i, n, d)
  BY <1>2 DEF WorthIn
<1>4. HasCase(i, n) => HasCase(i, n)'
  BY DEF HasCase
<1> QED
  BY <1>1, <1>2, <1>3, <1>4 DEF IsWhole

\* No halt ends, and the rows of those that ended are let be.
LEMMA VerdictsStay ==
  ASSUME plans' = plans, RowsAreBills, VerdictsKept, Settled
  PROVE  \A r \in rows : r.verdict = "REVIEW_REQUIRED"
                          \/ (r.verdict = VerdictOf(r) /\ Ended(r.sub, r.ep)')
<1> TAKE r \in rows
<1>1. PICK i \in 1..Count : i = r.sub
  BY DEF RowsAreBills
<1>2. PICK n \in Halts(i) : n = r.ep
  BY <1>1 DEF RowsAreBills
<1> QED
  BY <1>1, <1>2 DEF VerdictsKept, Settled

LEMMA CasesUnmoved ==
  ASSUME plans' = plans, RowsAreBills, RowsOnce, CaseKept, EndedStays,
         rows' = rows, cases' = cases, broken' = broken
  PROVE  CaseKept'
<1>1. \A i, n : IsGated(i, n)' <=> IsGated(i, n)
  BY DEF IsGated
<1>2. \A i, n, d : BilledIn(i, n, d)' = BilledIn(i, n, d)
  BY RowsStaySame, RowStaysOf
<1>3. Settled
  BY <1>1, <1>2 DEF Settled, EndedStays
<1>4. VerdictsKept'
  BY <1>3, VerdictsStay DEF VerdictsKept, CaseKept
<1>5. CasesAreHalts'
  BY <1>3, OldCases DEF CasesAreHalts, CaseKept, CaseIs
<1>6. CasesOnce'
  BY DEF CasesOnce, CaseKept
<1>7. WholeUnlessBroken'
  <2> SUFFICES ASSUME ~broken', NEW i \in 1..Count, NEW n \in Halts(i), Ended(i, n)'
               PROVE  IsWhole(i, n)'
    BY PlansStay DEF WholeUnlessBroken, IsWhole
  <2>1. Ended(i, n)
    BY DEF EndedStays
  <2> QED
    BY <1>3, <2>1, OldHalts DEF CaseKept
<1> QED
  BY <1>4, <1>5, <1>6, <1>7 DEF CaseKept

LEMMA PostInvoiceCases ==
  ASSUME WorldInv, HistoryInv, PostInvoice
  PROVE  CaseKept'
<1>1. /\ script # << >> /\ IsInvoice(Posted) /\ Proceed
      /\ rows' = rows \cup {NewRow} /\ cases' = cases /\ broken' = broken
  BY DEF PostInvoice, PostsInvoice, IsInvoice, NewRow
<1>2. plans' = plans /\ next \in 1..Count /\ EndedStays /\ PopulationDrawn
  BY <1>1, InvoiceProceeding DEF WorldInv
<1>3. RowsAreBills /\ RowsOnce /\ ScriptIsRest /\ EpisodesKept /\ CaseKept
  BY DEF HistoryInv, CaseKept
<1>4. PICK m, k : IsThisBill(m, k)
  BY <1>1, <1>3, BillPosted
<1>5. m \in Halts(next) /\ k \in 1..Cycles(next, m) /\ ~Ended(next, m)
  BY <1>4 DEF IsThisBill
<1>6. /\ NewRow.sub = next /\ NewRow.at = BillAt(next, m, k) /\ NewRow.ep = m
      /\ NewRow.verdict = "REVIEW_REQUIRED"
  BY <1>4, NewRowIs
<1>7. ASSUME NEW i \in 1..Count, NEW n \in Halts(i), Ended(i, n)
      PROVE  /\ IsGated(i, n) => IsGated(i, n)'
             /\ \A d : BilledIn(i, n, d)' = BilledIn(i, n, d)
  <2>1. ~(i = next /\ n = m)
    BY <1>5, <1>7
  <2>2. IsGated(i, n) => IsGated(i, n)'
    BY <1>1, <1>6, <2>1 DEF IsGated
  <2>3. ASSUME NEW j \in 1..Cycles(i, n) PROVE HasRow(i, n, j)' <=> HasRow(i, n, j)
    <3>1. HasRow(i, n, j)' <=> \E r \in rows' : r.sub = i /\ r.at = BillAt(i, n, j)
      BY <1>2, PlansStay DEF HasRow
    <3>2. ~(NewRow.sub = i /\ NewRow.at = BillAt(i, n, j))
      BY <1>2, <1>5, <1>6, <2>1, BillsApart
    <3> QED
      BY <1>1, <3>1, <3>2 DEF HasRow
  <2>4. ASSUME NEW d PROVE BilledIn(i, n, d)' = BilledIn(i, n, d)
    <3>1. BilledIn(i, n, d)' = {j \in 1..Cycles(i, n) : /\ DeliveryOf(i, n)[j] = d
                                                        /\ HasRow(i, n, j)'}
      BY <1>2, PlansStay DEF BilledIn
    <3>2. \A j : j \in BilledIn(i, n, d)' <=> j \in BilledIn(i, n, d)
      BY <2>3, <3>1 DEF BilledIn
    <3> QED
      BY <3>2
  <2> QED
    BY <2>2, <2>4
<1>8. Settled
  BY <1>2, <1>7 DEF Settled, EndedStays
<1>9. VerdictsKept'
  <2>1. \A r \in rows : r.verdict = "REVIEW_REQUIRED"
                          \/ (r.verdict = VerdictOf(r) /\ Ended(r.sub, r.ep)')
    BY <1>2, <1>3, <1>8, VerdictsStay DEF CaseKept
  <2> QED
    BY <1>1, <1>6, <2>1 DEF VerdictsKept
<1>10. CasesAreHalts'
  BY <1>1, <1>2, <1>3, <1>8, OldCases DEF CasesAreHalts, CaseKept, CaseIs
<1>11. CasesOnce'
  BY <1>1, <1>3 DEF CasesOnce, CaseKept
<1>12. WholeUnlessBroken'
  <2> SUFFICES ASSUME ~broken', NEW i \in 1..Count, NEW n \in Halts(i), Ended(i, n)'
               PROVE  IsWhole(i, n)'
    BY <1>2, PlansStay DEF WholeUnlessBroken, IsWhole
  <2>1. Ended(i, n) /\ ~broken
    BY <1>1, <1>2 DEF EndedStays
  <2> QED
    BY <1>1, <1>2, <1>3, <1>8, <2>1, OldHalts DEF CaseKept
<1> QED
  BY <1>9, <1>10, <1>11, <1>12 DEF CaseKept

-----------------------------------------------------------------------------
(* A return, and its window.                                               *)

\* g is row r once the verdicts of halt n up to day `last` are written.
IsGatedRow(g, r, i, n, last) ==
  /\ SameBill(g, r)
  /\ VerdictOf(g) = VerdictOf(r)
  /\ g.verdict = IF r.sub = i /\ r.ep = n /\ r.at <= last THEN VerdictOf(r) ELSE r.verdict

LEMMA GatedAre ==
  ASSUME WorldInv, RowsOnce, IsFiniteSet(rows), NEW i, NEW n, NEW last,
         rows' = Gated(i, n, last)
  PROVE  /\ RowsStay /\ IsFiniteSet(rows')
         /\ \A g \in rows' : \E r \in rows : IsGatedRow(g, r, i, n, last)
<1> DEFINE Of(r) == IF r \in InHalt(i, n) /\ r.at <= last
                    THEN [r EXCEPT !.verdict = VerdictOf(r)] ELSE r
           F == [r \in rows |-> Of(r)]
<1>1. rows' = {Of(r) : r \in rows}
  BY DEF Gated
<1>2. ASSUME NEW r \in rows PROVE IsGatedRow(Of(r), r, i, n, last)
  <2> DEFINE w == VerdictOf(r)
             s == [r EXCEPT !.verdict = w]
  <2>1. DOMAIN r = RowFields
    BY DEF WorldInv, RowsKept
  <2>2. /\ s.sub = r.sub /\ s.ep = r.ep /\ s.at = r.at /\ s.delivery = r.delivery
        /\ s.verdict = w
    BY <2>1 DEF RowFields
  <2>3. r \in InHalt(i, n) <=> r.sub = i /\ r.ep = n
    BY DEF InHalt
  <2> HIDE DEF s
  <2>4. VerdictOf(s) = VerdictOf(r)
    BY <2>2 DEF VerdictOf
  <2>5. CASE r.sub = i /\ r.ep = n /\ r.at <= last
    <3>1. Of(r) = s
      BY <2>3, <2>5 DEF s
    <3> HIDE DEF Of, w
    <3>2. IsGatedRow(s, r, i, n, last)
      BY <2>2, <2>4, <2>5 DEF IsGatedRow, SameBill, w
    <3> QED
      BY <3>1, <3>2
  <2>6. CASE ~(r.sub = i /\ r.ep = n /\ r.at <= last)
    <3>1. Of(r) = r
      BY <2>3, <2>6
    <3> HIDE DEF Of
    <3>2. IsGatedRow(r, r, i, n, last)
      BY <2>6 DEF IsGatedRow, SameBill
    <3> QED
      BY <3>1, <3>2
  <2> QED
    BY <2>5, <2>6
<1> HIDE DEF Of
<1>3. \A r \in rows : SameBill(Of(r), r)
  BY <1>2 DEF IsGatedRow
<1>4. RowsStay
  <2>1. ASSUME NEW g \in rows', NEW h \in rows', g.sub = h.sub, g.at = h.at PROVE g = h
    <3>1. PICK r \in rows : g = Of(r)
      BY <1>1
    <3>2. PICK s \in rows : h = Of(s)
      BY <1>1
    <3>3. r.sub = s.sub /\ r.at = s.at
      BY <1>3, <2>1, <3>1, <3>2 DEF SameBill
    <3> QED
      BY <3>1, <3>2, <3>3 DEF RowsOnce
  <2>2. \A g \in rows' : \E r \in rows : SameBill(g, r)
    BY <1>1, <1>3
  <2>3. \A r \in rows : \E g \in rows' : SameBill(g, r)
    BY <1>1, <1>3
  <2> QED
    BY <2>1, <2>2, <2>3 DEF RowsStay
<1>5. IsFiniteSet(rows')
  <2>1. F \in Surjection(rows, rows')
    BY <1>1 DEF Surjection
  <2> HIDE DEF F
  <2> QED
    BY <2>1, FS_Surjection
<1> QED
  BY <1>1, <1>2, <1>4, <1>5

\* The return that is posted, of the halt that is open.
IsThisReturn(m) ==
  /\ m \in Halts(next) /\ Posted = ReturnOf(next, m) /\ Returns(next)
  /\ Posted.at = ReturnAt(next, m)
  /\ Len(Current.eps) = m /\ m \in {1, 2}
  /\ Current.eps[m] \in Episode /\ Current.eps[m].halted = HaltAt(next, m)
  /\ ~Ended(next, m)

LEMMA ReturnPosted ==
  ASSUME WorldInv, ScriptIsRest, EpisodesKept, PostReturn
  PROVE  \E m : IsThisReturn(m)
<1>1. /\ script # << >> /\ PostsLifecycle /\ Proceed /\ Closes(Current.status, Posted.type)
  BY DEF PostReturn, PostsLifecycle
<1>2. next \in 1..Count /\ IsEvent(next, Posted) /\ PopulationDrawn /\ Count \in Nat
  BY <1>1, PostedIsNext DEF WorldInv, PopulationDrawn
<1>3. Posted.type = "activated"
  <2>1. Posted.type \in Lifecycle /\ Posted.type \in Expected(Current.status)
        /\ Current.status \in Statuses
    BY <1>1, PostedIs DEF PostsLifecycle, Sub
  <2> QED
    BY <1>1, <2>1, Verdict DEF Statuses
<1>4. PICK m \in Halts(next) : Returns(next) /\ Posted = ReturnOf(next, m)
  BY <1>2, <1>3 DEF IsEvent, PendingOf, HaltedOf, BillOf
<1>5. Posted.at = ReturnAt(next, m)
  BY <1>4 DEF ReturnOf
<1>6. Len(Current.eps) = m /\ m \in {1, 2}
  BY <1>1, <1>2, <1>4, HaltsSoFar, Timeline
<1>7. /\ Current = subs[next] /\ Current \in Sub /\ next \in 1..next
  BY <1>1, <1>2, PostedIs
<1>8. Current.eps[m] \in Episode
  <2>1. Current.eps \in Seq(Episode) /\ m \in 1..Len(Current.eps)
    BY <1>6, <1>7 DEF Sub
  <2> QED
    BY <2>1
<1>9. Current.eps[m].halted = HaltAt(next, m)
  BY <1>4, <1>6, <1>7 DEF EpisodesKept
<1>10. ~Ended(next, m)
  <2>1. ReturnAt(next, m) \in Nat /\ (Ended(next, m) => ReturnAt(next, m) < Posted.at)
    BY <1>1, <1>4, DoneByNow
  <2> QED
    BY <1>5, <2>1
<1> QED
  BY <1>4, <1>5, <1>6, <1>8, <1>9, <1>10 DEF IsThisReturn

\* A new case is of what the halt's bills are worth.
LEMMA NewCaseIs ==
  ASSUME PopulationDrawn, BillsKept, NEW i \in 1..Count, NEW n \in Halts(i), NEW e, NEW esc
  PROVE  /\ \A c \in NewCases(i, n, e, esc) :
              /\ c.sub = i /\ c.ep = n /\ c.key = NoKey
              /\ c.halted = e.halted /\ c.days = e.react - e.halted
              /\ c.collectible = WorthIn(i, n, "DELIVERED")
              /\ c.review = WorthIn(i, n, "UNKNOWN")
              /\ c.excluded = WorthIn(i, n, "SUSPENDED")
              /\ c.collectible + c.review # 0
              /\ c.status = "review_required" <=> c.collectible = 0
         /\ \A c, d \in NewCases(i, n, e, esc) : c = d
         /\ IsFiniteSet(NewCases(i, n, e, esc))
         /\ NewCases(i, n, e, esc) = {} =>
              WorthIn(i, n, "DELIVERED") + WorthIn(i, n, "UNKNOWN") = 0
<1> DEFINE col == Worth(i, n, "COLLECTIBLE")
           rev == Worth(i, n, "REVIEW_REQUIRED")
           exc == Worth(i, n, "NOT_COLLECTIBLE")
           status == CASE col = 0 -> "review_required"
                       [] col > 0 /\ esc -> "escalated"
                       [] OTHER -> "open"
           new == [sub |-> i, ep |-> n, status |-> status, collectible |-> col,
                   review |-> rev, excluded |-> exc, halted |-> e.halted,
                   days |-> e.react - e.halted, key |-> NoKey]
<1>1. NewCases(i, n, e, esc) = IF col + rev = 0 THEN {} ELSE {new}
  BY DEF NewCases
<1>2. /\ col = WorthIn(i, n, "DELIVERED") /\ rev = WorthIn(i, n, "UNKNOWN")
      /\ exc = WorthIn(i, n, "SUSPENDED") /\ col \in Nat
  BY WorthIs
<1>3. /\ new.sub = i /\ new.ep = n /\ new.key = NoKey /\ new.status = status
      /\ new.halted = e.halted /\ new.days = e.react - e.halted
      /\ new.collectible = col /\ new.review = rev /\ new.excluded = exc
  OBVIOUS
<1> HIDE DEF col, rev, exc
<1>4. status = "review_required" <=> col = 0
  BY <1>2
<1> HIDE DEF status, new
<1>5. IsFiniteSet({new}) /\ IsFiniteSet({})
  BY FS_Singleton, FS_EmptySet
<1>6. CASE col + rev = 0
  BY <1>1, <1>2, <1>5, <1>6
<1>7. CASE col + rev # 0
  <2>1. NewCases(i, n, e, esc) = {new}
    BY <1>1, <1>7
  <2> QED
    BY <1>2, <1>3, <1>4, <1>5, <1>7, <2>1
<1> QED
  BY <1>6, <1>7

LEMMA PostReturnCases ==
  ASSUME WorldInv, HistoryInv, PostReturn
  PROVE  BillsKept' /\ CaseKept' /\ IsFiniteSet(rows') /\ IsFiniteSet(cases')
<1> DEFINE n == Len(Current.eps)
           episode == [Current.eps[n] EXCEPT !.react = Posted.at]
<1>1. /\ script # << >> /\ PostsLifecycle /\ Proceed /\ refused' = refused
      /\ plans' = plans /\ Window(next, n, episode)
  BY DEF PostReturn, PostsLifecycle, Proceed, Current
<1>2. /\ ScriptIsRest /\ EpisodesKept /\ BillsKept /\ CaseKept /\ RowsAreBills /\ RowsOnce
      /\ CasesAreHalts /\ CasesOnce /\ WholeUnlessBroken
      /\ IsFiniteSet(rows) /\ IsFiniteSet(cases)
  BY DEF HistoryInv, BillsKept, CaseKept, HistoryFinite
<1>3. next \in 1..Count /\ OnePosts /\ PopulationDrawn
  BY <1>1, <1>2, PostedIsNext, PostingIsDone DEF WorldInv
<1>4. PICK m : IsThisReturn(m)
  BY <1>2, ReturnPosted
<1>5. /\ m \in Halts(next) /\ Posted = ReturnOf(next, m) /\ Returns(next)
      /\ n = m /\ Current.eps[m] \in Episode /\ Current.eps[m].halted = HaltAt(next, m)
      /\ Posted.at = ReturnAt(next, m) /\ ~Ended(next, m)
  BY <1>4 DEF IsThisReturn
<1>6. episode.halted = HaltAt(next, m) /\ episode.react = ReturnAt(next, m)
  BY <1>5 DEF Episode
<1> HIDE DEF n, episode
<1>7. PICK last : rows' = Gated(next, m, last) /\ (~broken' \/ cases' # cases =>
                                                     last = ReturnAt(next, m))
  BY <1>1, <1>5, <1>6 DEF Window
<1>8. /\ RowsStay /\ IsFiniteSet(rows')
      /\ \A g \in rows' : \E r \in rows : IsGatedRow(g, r, next, m, last)
  BY <1>2, <1>7, GatedAre
<1>9. /\ \A i \in 1..Count : \A h \in Halts(i) :
           Ended(i, h)' <=> Ended(i, h) \/ (i = next /\ h = m)
      /\ BilledStays
  <2>1. Posted.type = "activated"
    BY <1>5 DEF ReturnOf
  <2>2. ASSUME NEW h \in Halts(next), ReturnOf(next, h) = ReturnOf(next, m) PROVE h = m
    <3>1. ReturnAt(next, h) = ReturnAt(next, m)
      BY <2>2 DEF ReturnOf
    <3>2. /\ h \in {1, 2} /\ m \in {1, 2}
          /\ HaltAt(next, h) < ReturnAt(next, h) /\ HaltAt(next, m) < ReturnAt(next, m)
          /\ HaltAt(next, h) \in Nat /\ HaltAt(next, m) \in Nat
          /\ ReturnAt(next, h) \in Nat /\ ReturnAt(next, m) \in Nat
      BY <1>3, <1>5, Timeline
    <3>3. ~(h < m)
      <4> SUFFICES ASSUME h < m PROVE FALSE
        OBVIOUS
      <4>1. ReturnAt(next, h) + 30 < HaltAt(next, m)
        BY <1>3, <1>5, HaltsApart
      <4> QED
        BY <3>1, <3>2, <4>1
    <3>4. ~(m < h)
      <4> SUFFICES ASSUME m < h PROVE FALSE
        OBVIOUS
      <4>1. ReturnAt(next, m) + 30 < HaltAt(next, h)
        BY <1>3, <1>5, HaltsApart
      <4> QED
        BY <3>1, <3>2, <4>1
    <3> QED
      BY <3>2, <3>3, <3>4
  <2>3. ASSUME NEW i \in 1..Count, NEW h \in Halts(i)
        PROVE  Ended(i, h)' <=> Ended(i, h) \/ (i = next /\ h = m)
    <3>1. Ended(i, h)' <=> Ended(i, h) \/ (Returns(i) /\ i = next /\ Posted = ReturnOf(i, h))
      BY <1>1, <1>3, OneIsDone
    <3> QED
      BY <1>5, <2>2, <3>1
  <2> QED
    BY <1>1, <1>3, <2>1, <2>3, OneIsDone
<1>10. BillsKept'
  BY <1>1, <1>2, <1>8, <1>9, BillsStay
<1>11. \A i, h, d : BilledIn(i, h, d)' = BilledIn(i, h, d)
  BY <1>1, <1>8, RowStaysOf
<1>12. ASSUME NEW i, NEW h, IsGated(i, h) PROVE IsGated(i, h)'
  <2> SUFFICES ASSUME NEW g \in rows', g.sub = i, g.ep = h PROVE g.verdict = VerdictOf(g)
    BY DEF IsGated
  <2>1. PICK r \in rows : IsGatedRow(g, r, next, m, last)
    BY <1>8
  <2>2. r.verdict = VerdictOf(r)
    BY <1>12, <2>1 DEF IsGated, IsGatedRow, SameBill
  <2> QED
    BY <2>1, <2>2 DEF IsGatedRow
<1>13. Settled
  BY <1>9, <1>11, <1>12 DEF Settled
<1>14. ~broken' \/ cases' # cases => \A g \in rows' : g.sub = next /\ g.ep = m =>
                                       g.verdict = VerdictOf(g)
  <2> SUFFICES ASSUME ~broken' \/ cases' # cases, NEW g \in rows', g.sub = next, g.ep = m
               PROVE  g.verdict = VerdictOf(g)
    OBVIOUS
  <2>1. PICK r \in rows : IsGatedRow(g, r, next, m, last)
    BY <1>8
  <2>2. r.sub = next /\ r.ep = m
    BY <2>1 DEF IsGatedRow, SameBill
  <2>3. PICK k \in 1..Cycles(next, m) : IsRowOf(r, k)
    BY <1>2, <2>2 DEF RowsAreBills
  <2>4. r.at = BillAt(next, m, k)
    BY <2>2, <2>3 DEF IsRowOf
  <2>5. /\ BillAt(next, m, k) < ReturnAt(next, m) /\ BillAt(next, m, k) \in Nat
        /\ ReturnAt(next, m) \in Nat
    BY <1>3, <1>5, BillTimes, Timeline
  <2>6. r.at <= last
    BY <1>7, <2>4, <2>5
  <2> QED
    BY <2>1, <2>2, <2>6 DEF IsGatedRow
<1>15. PICK s : s = next
  OBVIOUS
<1>16. ~broken' \/ cases' # cases => IsGated(s, m)'
  BY <1>14, <1>15 DEF IsGated
<1>17. /\ \/ cases' = cases
          \/ \E esc : cases' = cases \cup NewCases(next, m, episode, esc)
       /\ ~broken' => /\ ~broken
                      /\ \E esc : cases' = cases \cup NewCases(next, m, episode, esc)
  <2>1. CASE /\ cases' = cases \cup NewCases(next, m, episode, NeedsEscalation(next))
             /\ broken' = broken
    BY <2>1
  <2>2. CASE broken' = TRUE /\ cases' = cases
    BY <2>2
  <2>3. CASE broken' = TRUE /\ cases' = cases \cup NewCases(next, m, episode, FALSE)
    BY <2>3
  <2>4. \/ /\ cases' = cases \cup NewCases(next, m, episode, NeedsEscalation(next))
           /\ broken' = broken
        \/ broken' = TRUE /\ cases' = cases
        \/ broken' = TRUE /\ cases' = cases \cup NewCases(next, m, episode, FALSE)
    BY <1>1, <1>5 DEF Window
  <2> QED
    BY <2>1, <2>2, <2>3, <2>4
<1>18. ASSUME NEW esc, cases' = cases \cup NewCases(next, m, episode, esc)
       PROVE  /\ \A c \in NewCases(next, m, episode, esc) :
                   /\ c.sub = next /\ c.ep = m
                   /\ cases' # cases => IsCaseOf(c, s, m)'
              /\ \A c, d \in NewCases(next, m, episode, esc) : c = d
              /\ IsFiniteSet(NewCases(next, m, episode, esc))
              /\ NewCases(next, m, episode, esc) = {} =>
                   WorthIn(next, m, "DELIVERED") + WorthIn(next, m, "UNKNOWN") = 0
  <2>1. ASSUME NEW c \in NewCases(next, m, episode, esc)
        PROVE  /\ c.sub = next /\ c.ep = m /\ c.key = NoKey
               /\ c.halted = episode.halted /\ c.days = episode.react - episode.halted
               /\ c.collectible = WorthIn(next, m, "DELIVERED")
               /\ c.review = WorthIn(next, m, "UNKNOWN")
               /\ c.excluded = WorthIn(next, m, "SUSPENDED")
               /\ c.collectible + c.review # 0
               /\ c.status = "review_required" <=> c.collectible = 0
    BY <1>2, <1>3, <1>5, NewCaseIs
  <2>2. ASSUME NEW c \in NewCases(next, m, episode, esc), cases' # cases
        PROVE  IsCaseOf(c, s, m)'
    <3>1. Ended(s, m)' /\ IsGated(s, m)'
      BY <1>3, <1>5, <1>9, <1>15, <1>16, <2>2
    <3>2. \A d : WorthIn(s, m, d)' = WorthIn(s, m, d)
      BY <1>1, <1>11 DEF WorthIn
    <3>3. c.days = 30 * Cycles(s, m) + 12
      <4>1. /\ ReturnAt(s, m) = HaltAt(s, m) + 30 * Cycles(s, m) + 12
            /\ HaltAt(s, m) \in Nat /\ Cycles(s, m) \in Nat
        BY <1>3, <1>5, <1>15, Timeline
      <4>2. c.days = ReturnAt(s, m) - HaltAt(s, m)
        BY <1>6, <1>15, <2>1
      <4> QED
        BY <4>1, <4>2
    <3>4. IsCaseOf(c, s, m)' <=>
            /\ c.sub = s /\ c.ep = m
            /\ Ended(s, m)' /\ IsGated(s, m)'
            /\ c.key \in {NoKey, <<s, m>>}
            /\ c.halted = HaltAt(s, m)
            /\ c.days = 30 * Cycles(s, m) + 12
            /\ c.collectible = WorthIn(s, m, "DELIVERED")
            /\ c.review = WorthIn(s, m, "UNKNOWN")
            /\ c.excluded = WorthIn(s, m, "SUSPENDED")
            /\ c.collectible + c.review # 0
            /\ (c.status = "review_required" <=> c.collectible = 0)
      BY <1>1, <3>2, PlansStay DEF IsCaseOf
    <3> QED
      BY <1>6, <1>15, <2>1, <3>1, <3>3, <3>4
  <2>3. /\ \A c, d \in NewCases(next, m, episode, esc) : c = d
        /\ IsFiniteSet(NewCases(next, m, episode, esc))
        /\ NewCases(next, m, episode, esc) = {} =>
             WorthIn(next, m, "DELIVERED") + WorthIn(next, m, "UNKNOWN") = 0
    BY <1>2, <1>3, <1>5, NewCaseIs
  <2> QED
    BY <2>1, <2>2, <2>3
<1>19. \A c \in cases : CaseIs(c)' /\ ~(c.sub = next /\ c.ep = m)
  <2>1. \A c \in cases : CaseIs(c)'
    BY <1>1, <1>2, <1>13, OldCases
  <2>2. ASSUME NEW c \in cases, c.sub = next, c.ep = m PROVE FALSE
    <3>1. Ended(next, m)
      BY <1>2, <2>2 DEF CasesAreHalts, IsCaseOf
    <3> QED
      BY <1>5, <3>1
  <2> QED
    BY <2>1, <2>2
<1>20. VerdictsKept'
  <2>1. \A r \in rows : r.verdict = "REVIEW_REQUIRED"
                          \/ (r.verdict = VerdictOf(r) /\ Ended(r.sub, r.ep)')
    BY <1>1, <1>2, <1>13, VerdictsStay DEF CaseKept
  <2>2. \A i, h : i = next /\ h = m => Ended(i, h)'
    BY <1>3, <1>5, <1>9
  <2> SUFFICES ASSUME NEW g \in rows'
               PROVE  g.verdict = "REVIEW_REQUIRED"
                        \/ (g.verdict = VerdictOf(g) /\ Ended(g.sub, g.ep)')
    BY DEF VerdictsKept
  <2>3. PICK r \in rows : IsGatedRow(g, r, next, m, last)
    BY <1>8
  <2>4. PICK i, h : i = r.sub /\ h = r.ep /\ g.sub = i /\ g.ep = h
    BY <2>3 DEF IsGatedRow, SameBill
  <2>5. CASE i = next /\ h = m /\ r.at <= last
    <3>1. g.verdict = VerdictOf(g) /\ Ended(i, h)'
      BY <2>2, <2>3, <2>4, <2>5 DEF IsGatedRow
    <3> QED
      BY <2>4, <3>1
  <2>6. CASE ~(i = next /\ h = m /\ r.at <= last)
    <3>1. g.verdict = r.verdict /\ VerdictOf(g) = VerdictOf(r)
      BY <2>3, <2>4, <2>6 DEF IsGatedRow
    <3> QED
      BY <2>1, <2>4, <3>1
  <2> QED
    BY <2>5, <2>6
<1>21. CasesAreHalts'
  <2>1. \A c \in cases' : CaseIs(c)'
    <3>1. CASE cases' = cases
      BY <1>19, <3>1
    <3>2. CASE cases' # cases
      <4>1. PICK esc : cases' = cases \cup NewCases(next, m, episode, esc)
        BY <1>17, <3>2
      <4>2. \A c \in NewCases(next, m, episode, esc) : IsCaseOf(c, s, m)'
        BY <1>18, <3>2, <4>1
      <4>3. s \in (1..Count)' /\ m \in Halts(s)'
        BY <1>1, <1>3, <1>5, <1>15, PlansStay
      <4>4. \A c \in NewCases(next, m, episode, esc) : CaseIs(c)'
        BY <4>2, <4>3 DEF CaseIs
      <4> QED
        BY <1>19, <4>1, <4>4
    <3> QED
      BY <3>1, <3>2
  <2> QED
    BY <2>1 DEF CasesAreHalts, CaseIs
<1>22. CasesOnce'
  <2>1. CASE cases' = cases
    BY <1>2, <2>1 DEF CasesOnce
  <2>2. CASE \E esc : cases' = cases \cup NewCases(next, m, episode, esc)
    <3>1. PICK esc : cases' = cases \cup NewCases(next, m, episode, esc)
      BY <2>2
    <3>2. /\ \A c \in NewCases(next, m, episode, esc) : c.sub = next /\ c.ep = m
          /\ \A c, d \in NewCases(next, m, episode, esc) : c = d
      BY <1>18, <3>1
    <3> QED
      BY <1>2, <1>19, <3>1, <3>2 DEF CasesOnce
  <2> QED
    BY <1>17, <2>1, <2>2
<1>23. WholeUnlessBroken'
  <2> SUFFICES ASSUME ~broken', NEW i \in 1..Count, NEW h \in Halts(i), Ended(i, h)'
               PROVE  IsWhole(i, h)'
    BY <1>1, PlansStay DEF WholeUnlessBroken, IsWhole
  <2>1. PICK esc : cases' = cases \cup NewCases(next, m, episode, esc)
    BY <1>17
  <2>2. CASE Ended(i, h)
    <3>1. \A c \in cases : \E d \in cases' : d.sub = c.sub /\ d.ep = c.ep
      BY <2>1
    <3>2. ~broken
      BY <1>17
    <3> QED
      BY <1>1, <1>2, <1>13, <2>2, <3>1, <3>2, OldHalts
  <2>3. CASE i = next /\ h = m
    <3>1. IsGated(i, h)'
      BY <1>15, <1>16, <2>3
    <3>2. \A d : WorthIn(i, h, d)' = WorthIn(i, h, d)
      BY <1>1, <1>11 DEF WorthIn
    <3>3. HasCase(i, h)' \/ WorthIn(i, h, "DELIVERED") + WorthIn(i, h, "UNKNOWN") = 0
      <4>1. CASE NewCases(next, m, episode, esc) = {}
        BY <1>18, <2>1, <2>3, <4>1
      <4>2. CASE NewCases(next, m, episode, esc) # {}
        <5>1. \E c \in cases' : c.sub = i /\ c.ep = h
          BY <1>18, <2>1, <2>3, <4>2
        <5> QED
          BY <5>1 DEF HasCase
      <4> QED
        BY <4>1, <4>2
    <3> QED
      BY <3>1, <3>2, <3>3 DEF IsWhole
  <2> QED
    BY <1>9, <2>2, <2>3
<1>24. IsFiniteSet(cases')
  <2>1. CASE cases' = cases
    BY <1>2, <2>1
  <2>2. CASE \E esc : cases' = cases \cup NewCases(next, m, episode, esc)
    <3>1. PICK esc : cases' = cases \cup NewCases(next, m, episode, esc)
      BY <2>2
    <3>2. IsFiniteSet(NewCases(next, m, episode, esc))
      BY <1>18, <3>1
    <3> QED
      BY <1>2, <3>1, <3>2, FS_Union
  <2> QED
    BY <1>17, <2>1, <2>2
<1> QED
  BY <1>8, <1>10, <1>20, <1>21, <1>22, <1>23, <1>24 DEF CaseKept

-----------------------------------------------------------------------------
(* The history is kept.                                                    *)

LEMMA StampCases ==
  ASSUME WorldInv, HistoryInv, Stamp
  PROVE  /\ ScriptIsRest' /\ EpisodesKept' /\ BillsKept' /\ CaseKept'
         /\ IsFiniteSet(cases')
<1>1. /\ plans' = plans /\ next' = next /\ script' = script /\ subs' = subs /\ rows' = rows
      /\ refused' = refused /\ broken' = broken
  BY DEF Stamp
<1>2. /\ ScriptIsRest /\ EpisodesKept /\ BillsKept /\ CaseKept /\ RowsAreBills /\ RowsOnce
      /\ IsFiniteSet(cases) /\ PopulationDrawn
  BY DEF HistoryInv, BillsKept, CaseKept, HistoryFinite, WorldInv
<1>3. PICK c \in Unstamped : cases' = (cases \ {c}) \cup {[c EXCEPT !.key = KeyOf(c)]}
  BY DEF Stamp
<1>4. c \in cases /\ DOMAIN c = CaseFields
  BY <1>3 DEF Unstamped, WorldInv, CasesKept
<1> DEFINE d == [c EXCEPT !.key = KeyOf(c)]
<1>5. /\ d.sub = c.sub /\ d.ep = c.ep /\ d.status = c.status /\ d.halted = c.halted
      /\ d.days = c.days /\ d.collectible = c.collectible /\ d.review = c.review
      /\ d.excluded = c.excluded /\ d.key = <<c.sub, c.ep>>
  BY <1>4 DEF CaseFields, KeyOf
<1>6. cases' = (cases \ {c}) \cup {d}
  BY <1>3
<1> HIDE DEF d
<1>7. ScriptIsRest'
  <2>1. Todo' = Todo
    BY <1>1 DEF Todo
  <2>2. \A e : IsEvent(next, e)' <=> IsEvent(next, e)
    BY <1>1, PlansStay
  <2>3. Rising(script')
    BY <1>1, <1>2 DEF ScriptIsRest
  <2> QED
    BY <1>2, <2>1, <2>2, <2>3 DEF ScriptIsRest, Rising
<1>8. NonePosts
  <2>1. Todo' = Todo
    BY <1>1 DEF Todo
  <2> QED
    BY <1>1, <2>1 DEF NonePosts, IsDone
<1>9. BegunStays /\ BilledStays /\ EndedStays
  BY <1>1, <1>2, <1>8, NoneIsDone
<1>10. EpisodesKept'
  BY <1>1, <1>2, <1>9, EpisodesStay
<1>11. BillsKept'
  BY <1>1, <1>2, <1>9, BillsStay, RowsStaySame
<1>12. Settled
  <2>1. \A i, n : IsGated(i, n)' <=> IsGated(i, n)
    BY <1>1 DEF IsGated
  <2>2. \A i, n, e : BilledIn(i, n, e)' = BilledIn(i, n, e)
    BY <1>1, <1>2, RowsStaySame, RowStaysOf
  <2> QED
    BY <1>9, <2>1, <2>2 DEF Settled, EndedStays
<1>13. VerdictsKept'
  BY <1>1, <1>2, <1>12, VerdictsStay DEF VerdictsKept, CaseKept
<1>14. \A x \in cases : CaseIs(x)'
  BY <1>1, <1>2, <1>12, OldCases DEF CaseKept
<1>15. CaseIs(d)'
  <2>1. PICK i \in (1..Count)' : \E n \in Halts(i)' : IsCaseOf(c, i, n)'
    BY <1>4, <1>14 DEF CaseIs
  <2>2. PICK n \in Halts(i)' : IsCaseOf(c, i, n)'
    BY <2>1
  <2>3. c.sub = i /\ c.ep = n
    BY <2>2 DEF IsCaseOf
  <2>4. IsCaseOf(d, i, n)'
    BY <1>5, <2>2, <2>3 DEF IsCaseOf
  <2> QED
    BY <2>4 DEF CaseIs
<1>16. CasesAreHalts'
  <2>1. \A x \in cases' : CaseIs(x)'
    BY <1>6, <1>14, <1>15
  <2> QED
    BY <2>1 DEF CasesAreHalts, CaseIs
<1>17. CasesOnce'
  BY <1>2, <1>4, <1>5, <1>6 DEF CasesOnce, CaseKept
<1>18. WholeUnlessBroken'
  <2> SUFFICES ASSUME ~broken', NEW i \in 1..Count, NEW n \in Halts(i), Ended(i, n)'
               PROVE  IsWhole(i, n)'
    BY <1>1, PlansStay DEF WholeUnlessBroken, IsWhole
  <2>1. Ended(i, n) /\ ~broken
    BY <1>1, <1>9 DEF EndedStays
  <2>2. \A x \in cases : \E y \in cases' : y.sub = x.sub /\ y.ep = x.ep
    BY <1>5, <1>6
  <2> QED
    BY <1>1, <1>2, <1>12, <2>1, <2>2, OldHalts DEF CaseKept
<1>19. IsFiniteSet(cases')
  <2>1. IsFiniteSet(cases \ {c})
    BY <1>2, FS_Difference
  <2> QED
    BY <1>6, <2>1, FS_AddElement
<1> QED
  BY <1>7, <1>10, <1>11, <1>13, <1>16, <1>17, <1>18, <1>19 DEF CaseKept

LEMMA HistoryInvInit == Init => HistoryInv
<1> SUFFICES ASSUME Init PROVE HistoryInv
  OBVIOUS
<1>1. /\ next = 0 /\ script = << >> /\ rows = {} /\ refused = {} /\ cases = {}
  BY DEF Init
<1>2. Todo = {}
  <2>1. Len(script) = 0
    BY <1>1
  <2> QED
    BY <2>1 DEF Todo
<1>3. ScriptIsRest
  <2>1. Len(script) = 0
    BY <1>1
  <2>2. Rising(script)
    BY <2>1 DEF Rising
  <2> QED
    BY <1>2, <2>2 DEF ScriptIsRest
<1>4. EpisodesKept
  BY <1>1 DEF EpisodesKept
<1>5. \A i \in 1..Count : \A e : ~IsDone(i, e)
  <2> TAKE i \in 1..Count
  <2>1. WorldInv
    BY WorldInvInit
  <2>2. ~(i < 0) /\ i # 0
    BY <2>1 DEF WorldInv, PopulationDrawn
  <2> QED
    BY <1>1, <2>2 DEF IsDone
<1>6. RowsAreBills /\ RefusedAreBills /\ BillsAreRows /\ RowsOnce
  BY <1>1, <1>5 DEF RowsAreBills, RefusedAreBills, BillsAreRows, RowsOnce, IsBilled
<1>7. VerdictsKept /\ CasesAreHalts /\ CasesOnce /\ WholeUnlessBroken
  BY <1>1, <1>5 DEF VerdictsKept, CasesAreHalts, CasesOnce, WholeUnlessBroken, Ended
<1>8. HistoryFinite
  BY <1>1, FS_EmptySet DEF HistoryFinite
<1> QED
  BY <1>3, <1>4, <1>6, <1>7, <1>8 DEF HistoryInv

LEMMA HistoryParts ==
  HistoryInv <=> /\ ScriptIsRest /\ EpisodesKept /\ BillsKept /\ CaseKept
                 /\ IsFiniteSet(rows) /\ IsFiniteSet(refused) /\ IsFiniteSet(cases)
BY DEF HistoryInv, BillsKept, CaseKept, HistoryFinite

LEMMA HistoryInvNext ==
  ASSUME WorldInv, HistoryInv, [Next]_worldVars
  PROVE  HistoryInv'
<1>1. /\ ScriptIsRest /\ EpisodesKept /\ BillsKept /\ CaseKept /\ RowsAreBills /\ RowsOnce
      /\ IsFiniteSet(rows) /\ IsFiniteSet(refused) /\ IsFiniteSet(cases) /\ PopulationDrawn
  BY HistoryParts DEF BillsKept, WorldInv
<1> SUFFICES /\ ScriptIsRest' /\ EpisodesKept' /\ BillsKept' /\ CaseKept'
             /\ IsFiniteSet(rows') /\ IsFiniteSet(refused') /\ IsFiniteSet(cases')
  BY DEF HistoryInv, BillsKept, CaseKept, HistoryFinite
<1>2. CASE Materialise
  <2>1. /\ plans' = plans /\ rows' = rows /\ refused' = refused /\ cases' = cases
        /\ broken' = broken
    BY <1>2 DEF Materialise
  <2>2. ScriptIsRest' /\ NonePosts
    BY <1>1, <1>2, MaterialisingIsNone
  <2>3. BilledStays /\ EndedStays
    BY <1>1, <2>1, <2>2, NoneIsDone
  <2>4. EpisodesKept'
    BY <1>1, <1>2, EpisodesBegin
  <2>5. BillsKept' /\ CaseKept'
    BY <1>1, <2>1, <2>3, BillsStay, RowsStaySame, CasesUnmoved
  <2> QED
    BY <1>1, <2>1, <2>2, <2>4, <2>5
<1>3. CASE PostTransition
  <2>1. /\ PostsLifecycle /\ Proceed /\ script # << >> /\ plans' = plans
        /\ rows' = rows /\ refused' = refused /\ cases' = cases /\ broken' = broken
        /\ Posted.type \in Lifecycle
    BY <1>3 DEF PostTransition, PostsLifecycle, Proceed
  <2>2. Posted \in Event /\ next \in 1..Count /\ ScriptIsRest' /\ OnePosts
        /\ Posted.type \in Expected(Current.status) /\ Current.status \in Statuses
    BY <1>1, <2>1, PostedIs, PostedIsNext, PostingIsDone DEF Sub
  <2>3. subs' = [subs EXCEPT ![next] = Moved(Current, Posted)]
    BY <1>3, <2>1, <2>2, Verdict DEF PostTransition, Current
  <2>4. EpisodesKept'
    BY <1>1, <2>1, <2>3, EpisodesPost
  <2>5. Posted.type # "invoice" /\ Posted.type # "activated"
    BY <1>3, <2>1, <2>2, Verdict DEF PostTransition, Lifecycle, Statuses
  <2>6. BilledStays /\ EndedStays
    BY <1>1, <2>1, <2>2, <2>5, OneIsDone
  <2>7. BillsKept' /\ CaseKept'
    BY <1>1, <2>1, <2>6, BillsStay, RowsStaySame, CasesUnmoved
  <2> QED
    BY <1>1, <2>1, <2>2, <2>4, <2>7
<1>4. CASE PostReturn
  <2>1. /\ PostsLifecycle /\ Proceed /\ script # << >> /\ refused' = refused
        /\ subs' = [subs EXCEPT ![next] = Moved(Current, Posted)]
    BY <1>4 DEF PostReturn, PostsLifecycle, Proceed, Current
  <2>2. ScriptIsRest' /\ EpisodesKept'
    BY <1>1, <2>1, PostedIsNext, EpisodesPost
  <2>3. BillsKept' /\ CaseKept' /\ IsFiniteSet(rows') /\ IsFiniteSet(cases')
    BY <1>4, PostReturnCases
  <2> QED
    BY <1>1, <2>1, <2>2, <2>3
<1>5. CASE PostInvoice
  <2>1. /\ script # << >> /\ IsInvoice(Posted) /\ Proceed
        /\ rows' = rows \cup {NewRow} /\ refused' = refused /\ cases' = cases
        /\ subs' = subs
    BY <1>5 DEF PostInvoice, PostsInvoice, IsInvoice, NewRow
  <2>2. /\ plans' = plans /\ next' = next /\ BegunStays /\ EndedStays /\ ScriptIsRest'
    BY <2>1, InvoiceProceeding
  <2>3. EpisodesKept'
    BY <1>1, <2>1, <2>2, EpisodesStay
  <2>4. BillsKept' /\ CaseKept'
    BY <1>5, PostInvoiceBills, PostInvoiceCases
  <2>5. IsFiniteSet(rows')
    BY <1>1, <2>1, FS_AddElement
  <2> QED
    BY <1>1, <2>1, <2>2, <2>3, <2>4, <2>5
<1>6. CASE Refuse
  <2>1. /\ script # << >> /\ Proceed /\ subs' = subs /\ rows' = rows /\ cases' = cases
        /\ broken' = broken /\ refused' = refused \cup {[sub |-> next, event |-> Posted]}
    BY <1>6 DEF Refuse
  <2>2. IsInvoice(Posted)
    <3>1. Posted \in Event
      BY <2>1, PostedIs
    <3>2. Posted.type \notin Lifecycle
      BY <1>6, <2>1, LifecycleIsAccepted DEF Refuse, PostsLifecycle
    <3> QED
      BY <3>1, <3>2 DEF Event, IsInvoice
  <2>3. /\ plans' = plans /\ next' = next /\ BegunStays /\ EndedStays /\ ScriptIsRest'
    BY <2>1, <2>2, InvoiceProceeding
  <2>4. EpisodesKept'
    BY <1>1, <2>1, <2>3, EpisodesStay
  <2>5. BillsKept'
    BY <1>6, <2>2, RefuseBills
  <2>6. CaseKept'
    BY <1>1, <2>1, <2>3, CasesUnmoved
  <2>7. IsFiniteSet(refused')
    BY <1>1, <2>1, FS_AddElement
  <2> QED
    BY <1>1, <2>1, <2>3, <2>4, <2>5, <2>6, <2>7
<1>7. CASE Stamp
  <2>1. rows' = rows /\ refused' = refused
    BY <1>7 DEF Stamp
  <2> QED
    BY <1>1, <1>7, <2>1, StampCases
<1>8. CASE Summarise \/ UNCHANGED worldVars
  <2>1. /\ plans' = plans /\ next' = next /\ script' = script /\ subs' = subs
        /\ rows' = rows /\ refused' = refused /\ cases' = cases /\ broken' = broken
    BY <1>8 DEF Summarise, worldVars
  <2>2. Todo' = Todo
    BY <2>1 DEF Todo
  <2>3. \A e : IsEvent(next, e)' <=> IsEvent(next, e)
    BY <2>1, PlansStay
  <2>4. ScriptIsRest'
    BY <1>1, <2>1, <2>2, <2>3 DEF ScriptIsRest, Rising
  <2>5. NonePosts
    BY <2>1, <2>2 DEF NonePosts, IsDone
  <2>6. BegunStays /\ BilledStays /\ EndedStays
    BY <1>1, <2>1, <2>5, NoneIsDone
  <2>7. EpisodesKept'
    BY <1>1, <2>1, <2>6, EpisodesStay
  <2>8. BillsKept' /\ CaseKept'
    BY <1>1, <2>1, <2>6, BillsStay, RowsStaySame, CasesUnmoved
  <2> QED
    BY <1>1, <2>1, <2>4, <2>7, <2>8
<1> QED
  BY <1>2, <1>3, <1>4, <1>5, <1>6, <1>7, <1>8 DEF Next

LEMMA HistoryInvIsInvariant == Spec => [](WorldInv /\ HistoryInv)
<1>1. Init => WorldInv /\ HistoryInv
  BY WorldInvInit, HistoryInvInit
<1>2. WorldInv /\ HistoryInv /\ [Next]_worldVars => (WorldInv /\ HistoryInv)'
  BY WorldInvNext, HistoryInvNext
<1> QED
  BY <1>1, <1>2, PTL DEF Spec

-----------------------------------------------------------------------------
(* The harness's cases.                                                    *)

\* The bills of a halt by how the service was delivered, and those of them refused.
Slots(i, n, d) == {k \in 1..Cycles(i, n) : DeliveryOf(i, n)[k] = d}

RefusedIn(i, n, d) == {k \in Slots(i, n, d) : HasRefusal(i, n, k)}

LEMMA HarnessIs ==
  ASSUME PopulationDrawn, NEW i \in 1..Count, NEW n \in Halts(i)
  PROVE  LET h == HarnessCase(i, n)
             o == Observation(i, n)
             amount == plans[i].amount
         IN  /\ h.halted = HaltAt(i, n) /\ h.days = 30 * Cycles(i, n) + 12
             /\ h.collectible = amount * Cardinality(Slots(i, n, "DELIVERED"))
             /\ h.review = amount * Cardinality(Slots(i, n, "UNKNOWN"))
             /\ h.excluded = amount * Cardinality(Slots(i, n, "SUSPENDED"))
             /\ h.historical = amount * Cycles(i, n)
             /\ o.invoices = Cardinality(Slots(i, n, "DELIVERED"))
             /\ o.backlog = amount * Cardinality(Slots(i, n, "DELIVERED"))
             /\ o.days = 30 * Cycles(i, n) + 12
<1> DEFINE p == plans[i]
           halt_at == IF n = 1 THEN (i - 1) + p.offset ELSE (i - 1) + p.offset + 30 * p.missed + 50
           cycles == IF n = 1 THEN p.missed ELSE AtLeastOne(p.missed \div 2)
           delivery == IF n = 1 THEN p.first ELSE p.second
           In(d) == Cardinality({k \in DOMAIN delivery : delivery[k] = d})
           h == [halted |-> halt_at, days |-> 30 * cycles + 12,
                 collectible |-> p.amount * In("DELIVERED"), review |-> p.amount * In("UNKNOWN"),
                 excluded |-> p.amount * In("SUSPENDED"), historical |-> p.amount * Len(delivery)]
           o == [backlog |-> p.amount * In("DELIVERED"), invoices |-> In("DELIVERED"),
                 days |-> 30 * cycles + 12]
<1>1. HarnessCase(i, n) = h /\ Observation(i, n) = o
  BY DEF HarnessCase, Observation
<1>2. cycles = Cycles(i, n) /\ delivery = DeliveryOf(i, n)
  BY DEF Cycles, DeliveryOf
<1>3. halt_at = HaltAt(i, n)
  BY DEF HaltAt, FirstHalt, SecondHalt
<1>4. /\ h.halted = halt_at /\ h.days = 30 * cycles + 12
      /\ h.collectible = p.amount * In("DELIVERED") /\ h.review = p.amount * In("UNKNOWN")
      /\ h.excluded = p.amount * In("SUSPENDED") /\ h.historical = p.amount * Len(delivery)
      /\ o.backlog = p.amount * In("DELIVERED") /\ o.invoices = In("DELIVERED")
      /\ o.days = 30 * cycles + 12
  OBVIOUS
<1>5. DOMAIN delivery = 1..Cycles(i, n) /\ Len(delivery) = Cycles(i, n)
  <2>1. DeliveryOf(i, n) \in [1..Cycles(i, n) -> DrawnDeliveries] /\ Cycles(i, n) \in Nat
    BY Timeline
  <2> HIDE DEF delivery
  <2>2. DOMAIN DeliveryOf(i, n) = 1..Cycles(i, n)
    BY <2>1
  <2>3. Len(DeliveryOf(i, n)) = Cycles(i, n)
    BY <2>1
  <2> QED
    BY <1>2, <2>2, <2>3
<1> HIDE DEF halt_at, cycles, delivery, h, o
<1>6. \A d : In(d) = Cardinality(Slots(i, n, d))
  BY <1>2, <1>5 DEF Slots
<1> HIDE DEF In
<1> QED
  BY <1>1, <1>2, <1>3, <1>4, <1>5, <1>6

\* A halt that ended is one that began, and all of its bills were posted.
LEMMA EndedIsWhole ==
  ASSUME WorldInv, HistoryInv, NEW i \in 1..Count, NEW n \in Halts(i), Ended(i, n)
  PROVE  /\ i \in 1..next /\ n \in 1..Len(subs[i].eps)
         /\ \A k \in 1..Cycles(i, n) : IsBilled(i, n, k)
<1>1. PopulationDrawn /\ ScriptIsRest /\ EpisodesKept /\ next \in 0..Count /\ Count \in Nat
      /\ subs \in Seq(Sub) /\ Len(subs) = next
  BY DEF WorldInv, HistoryInv, SubsKept, PopulationDrawn
<1>2. i \in 1..next
  BY <1>1 DEF Ended, IsDone
<1>3. ASSUME NEW e, IsEvent(i, e), e.at <= ReturnAt(i, n) PROVE IsDone(i, e)
  <2>1. CASE i < next
    BY <2>1 DEF IsDone
  <2>2. CASE i = next
    <3>1. IsEvent(next, ReturnOf(i, n)) /\ ReturnOf(i, n) \notin Todo
      BY <1>1, <2>2, AnEvent DEF Ended, IsDone
    <3>2. ReturnOf(i, n).at = ReturnAt(i, n)
      BY DEF ReturnOf
    <3>3. e \notin Todo
      <4> SUFFICES ASSUME e \in Todo PROVE FALSE
        OBVIOUS
      <4>1. ReturnAt(i, n) < e.at
        BY <1>1, <3>1, <3>2 DEF ScriptIsRest
      <4>2. e.at \in Nat /\ ReturnAt(i, n) \in Nat
        BY <1>1, <1>3, AnEvent, Timeline
      <4> QED
        BY <1>3, <4>1, <4>2
    <3> QED
      BY <2>2, <3>3 DEF IsDone
  <2> QED
    BY <1>1, <1>2, <2>1, <2>2
<1>4. /\ HaltAt(i, n) \in Nat /\ ReturnAt(i, n) \in Nat /\ HaltAt(i, n) < ReturnAt(i, n)
      /\ n \in {1, 2}
  BY <1>1, Timeline
<1>5. n \in 1..Len(subs[i].eps)
  <2>1. HaltedOf(i, n).at = HaltAt(i, n) /\ IsEvent(i, HaltedOf(i, n))
    BY <1>1, AnEvent DEF HaltedOf
  <2>2. Begun(i, n)
    BY <1>3, <1>4, <2>1 DEF Begun
  <2>3. n <= Len(subs[i].eps)
    BY <1>1, <1>2, <2>2 DEF EpisodesKept
  <2>4. subs[i].eps \in Seq(Episode)
    <3>1. subs[i] \in Sub
      BY <1>1, <1>2
    <3> QED
      BY <3>1 DEF Sub
  <2>5. Len(subs[i].eps) \in Nat
    BY <2>4, LenProperties
  <2> QED
    BY <1>4, <2>3, <2>5
<1>6. ASSUME NEW k \in 1..Cycles(i, n) PROVE IsBilled(i, n, k)
  <2>1. BillOf(i, n, k).at = BillAt(i, n, k) /\ IsEvent(i, BillOf(i, n, k))
    BY <1>1, AnEvent DEF BillOf
  <2>2. BillAt(i, n, k) <= ReturnAt(i, n)
    BY <1>1, <1>4, BillTimes
  <2> QED
    BY <1>3, <2>1, <2>2 DEF IsBilled
<1> QED
  BY <1>2, <1>5, <1>6

\* What was billed is of a halt that began.
LEMMA BilledHasBegun ==
  ASSUME WorldInv, HistoryInv, NEW i \in 1..Count, NEW n \in Halts(i),
         NEW k \in 1..Cycles(i, n), IsBilled(i, n, k)
  PROVE  i \in 1..next /\ n <= Len(subs[i].eps)
<1>1. PopulationDrawn /\ ScriptIsRest /\ EpisodesKept /\ next \in 0..Count /\ Count \in Nat
  BY DEF WorldInv, HistoryInv, SubsKept, PopulationDrawn
<1>2. i \in 1..next
  BY <1>1 DEF IsBilled, IsDone
<1>3. /\ IsEvent(i, HaltedOf(i, n)) /\ IsEvent(i, BillOf(i, n, k))
      /\ HaltedOf(i, n).at = HaltAt(i, n) /\ BillOf(i, n, k).at = BillAt(i, n, k)
      /\ HaltAt(i, n) < BillAt(i, n, k)
      /\ HaltAt(i, n) \in Nat /\ BillAt(i, n, k) \in Nat
  BY <1>1, AnEvent, Timeline, BillTimes DEF HaltedOf, BillOf
<1>4. Begun(i, n)
  <2>1. CASE i < next
    BY <2>1 DEF Begun, IsDone
  <2>2. CASE i = next
    <3>1. BillOf(i, n, k) \notin Todo
      BY <1>1, <2>2 DEF IsBilled, IsDone
    <3>2. HaltedOf(i, n) \notin Todo
      <4> SUFFICES ASSUME HaltedOf(i, n) \in Todo PROVE FALSE
        OBVIOUS
      <4>1. BillAt(i, n, k) < HaltAt(i, n)
        BY <1>1, <1>3, <2>2, <3>1 DEF ScriptIsRest
      <4> QED
        BY <1>3, <4>1
    <3> QED
      BY <2>2, <3>2 DEF Begun, IsDone
  <2> QED
    BY <1>1, <1>2, <2>1, <2>2
<1> QED
  BY <1>1, <1>2, <1>4 DEF EpisodesKept

\* The bills of a halt that ended became rows or refusals.
LEMMA SlotsSplit ==
  ASSUME WorldInv, HistoryInv, NEW i \in 1..Count, NEW n \in Halts(i), Ended(i, n), NEW d
  PROVE  /\ Cardinality(Slots(i, n, d)) \in Nat
         /\ IsFiniteSet(RefusedIn(i, n, d)) /\ Cardinality(RefusedIn(i, n, d)) \in Nat
         /\ Cardinality(BilledIn(i, n, d)) \in Nat
         /\ Cardinality(Slots(i, n, d))
              = Cardinality(BilledIn(i, n, d)) + Cardinality(RefusedIn(i, n, d))
<1> DEFINE A == BilledIn(i, n, d)
           B == RefusedIn(i, n, d)
<1>1. PopulationDrawn /\ BillsAreRows /\ RowsOnce
  BY DEF WorldInv, HistoryInv
<1>2. IsFiniteSet(Slots(i, n, d))
  <2>1. IsFiniteSet(1..Cycles(i, n))
    BY <1>1, Timeline, FS_Interval
  <2>2. Slots(i, n, d) \subseteq 1..Cycles(i, n)
    BY DEF Slots
  <2> QED
    BY <2>1, <2>2, FS_Subset
<1>3. A \subseteq Slots(i, n, d) /\ B \subseteq Slots(i, n, d)
  BY DEF BilledIn, RefusedIn, Slots
<1>4. Slots(i, n, d) \subseteq A \cup B
  <2> SUFFICES ASSUME NEW k \in Slots(i, n, d) PROVE k \in A \cup B
    OBVIOUS
  <2>1. k \in 1..Cycles(i, n) /\ DeliveryOf(i, n)[k] = d
    BY DEF Slots
  <2>2. HasRow(i, n, k) \/ HasRefusal(i, n, k)
    BY <1>1, <2>1, EndedIsWhole DEF BillsAreRows
  <2> QED
    BY <2>1, <2>2 DEF BilledIn, RefusedIn
<1>5. A \cap B = {}
  <2> SUFFICES ASSUME NEW k \in A, k \in B PROVE FALSE
    OBVIOUS
  <2>1. HasRow(i, n, k) /\ HasRefusal(i, n, k)
    BY DEF BilledIn, RefusedIn
  <2>2. PICK r \in rows : r.sub = i /\ r.at = BillAt(i, n, k)
    BY <2>1 DEF HasRow
  <2>3. PICK x \in refused : x = RefusalOf(i, n, k)
    BY <2>1 DEF HasRefusal
  <2>4. x.sub = i /\ x.event.at = BillAt(i, n, k)
    BY <2>3 DEF RefusalOf, BillOf
  <2> QED
    BY <1>1, <2>2, <2>4 DEF RowsOnce
<1>6. Slots(i, n, d) = A \cup B /\ IsFiniteSet(A) /\ IsFiniteSet(B)
  BY <1>2, <1>3, <1>4, FS_Subset
<1> HIDE DEF A, B
<1>7. Cardinality(A) \in Nat /\ Cardinality(B) \in Nat
  BY <1>6, FS_CardinalityType
<1>8. Cardinality(A \cup B) = Cardinality(A) + Cardinality(B)
  <2>1. Cardinality(A \cup B) = Cardinality(A) + Cardinality(B) - Cardinality(A \cap B)
    BY <1>6, FS_Union
  <2>2. Cardinality(A \cap B) = 0
    BY <1>5, FS_EmptySet
  <2> QED
    BY <1>7, <2>1, <2>2
<1> QED
  BY <1>6, <1>7, <1>8 DEF A, B

\* The refusals that are a halt's.
LEMMA RefusedOfHalt ==
  ASSUME WorldInv, HistoryInv, NEW i \in 1..Count, NEW n \in Halts(i), Ended(i, n), NEW d
  PROVE  /\ IsFiniteSet(RefusedOf(i, n, d))
         /\ Cardinality(RefusedOf(i, n, d)) = Cardinality(RefusedIn(i, n, d))
<1> DEFINE S == RefusedOf(i, n, d)
           K == RefusedIn(i, n, d)
           a == [x \in S |-> CHOOSE k \in K : x = RefusalOf(i, n, k)]
<1>1. /\ PopulationDrawn /\ ScriptIsRest /\ EpisodesKept /\ RefusedAreBills
      /\ IsFiniteSet(K) /\ i \in 1..next /\ n \in 1..Len(subs[i].eps)
  BY EndedIsWhole, SlotsSplit DEF WorldInv, HistoryInv
<1>2. \A k \in 1..Cycles(i, n) :
        LET x == RefusalOf(i, n, k)
        IN  x.sub = i /\ x.event.delivery = DeliveryOf(i, n)[k] /\ x.event.at = BillAt(i, n, k)
  BY DEF RefusalOf, BillOf
<1>3. ASSUME NEW x \in S PROVE \E k \in K : x = RefusalOf(i, n, k)
  <2>1. /\ x \in refused /\ x.sub = i /\ x.event.delivery = d
        /\ LineageOf(subs[i], x.event.at) = n
    BY DEF RefusedOf
  <2>2. PICK j \in 1..Count : \E m \in Halts(j) : \E k \in 1..Cycles(j, m) :
          x = RefusalOf(j, m, k) /\ IsBilled(j, m, k)
    BY <1>1, <2>1 DEF RefusedAreBills
  <2>3. PICK m \in Halts(j) : \E k \in 1..Cycles(j, m) :
          x = RefusalOf(j, m, k) /\ IsBilled(j, m, k)
    BY <2>2
  <2>4. PICK k \in 1..Cycles(j, m) : x = RefusalOf(j, m, k) /\ IsBilled(j, m, k)
    BY <2>3
  <2>5. /\ j = i /\ x.event.delivery = DeliveryOf(j, m)[k] /\ x.event.at = BillAt(j, m, k)
    BY <2>1, <2>4 DEF RefusalOf, BillOf
  <2>6. m <= Len(subs[i].eps)
    BY <1>1, <2>4, <2>5, BilledHasBegun
  <2>7. LineageOf(subs[i], x.event.at) = m
    BY <1>1, <2>5, <2>6, LineageOfBill
  <2>8. m = n
    BY <2>1, <2>7
  <2> QED
    BY <2>1, <2>4, <2>5, <2>8 DEF RefusedIn, Slots, HasRefusal
<1>4. ASSUME NEW x \in S PROVE a[x] \in K /\ x = RefusalOf(i, n, a[x])
  <2>1. a[x] = CHOOSE k \in K : x = RefusalOf(i, n, k)
    OBVIOUS
  <2> HIDE DEF a, S, K
  <2> QED
    BY <1>3, <2>1
<1> HIDE DEF a
<1>5. \A k \in K : \E x \in S : a[x] = k
  <2> TAKE k \in K
  <2>1. k \in 1..Cycles(i, n) /\ DeliveryOf(i, n)[k] = d /\ RefusalOf(i, n, k) \in refused
    BY DEF RefusedIn, Slots, HasRefusal
  <2>2. LineageOf(subs[i], BillAt(i, n, k)) = n
    BY <1>1, <2>1, LineageOfBill
  <2>3. RefusalOf(i, n, k) \in S
    BY <1>2, <2>1, <2>2 DEF RefusedOf
  <2>4. a[RefusalOf(i, n, k)] \in 1..Cycles(i, n)
    BY <1>4, <2>3 DEF RefusedIn, Slots
  <2>5. RefusalOf(i, n, k) = RefusalOf(i, n, a[RefusalOf(i, n, k)])
    BY <1>4, <2>3
  <2>6. BillAt(i, n, k) = BillAt(i, n, a[RefusalOf(i, n, k)])
    BY <1>2, <2>1, <2>4, <2>5
  <2>7. k = a[RefusalOf(i, n, k)]
    BY <1>1, <2>1, <2>4, <2>6, BillsApart
  <2> QED
    BY <2>3, <2>7
<1>6. \A x, y \in S : a[x] = a[y] => x = y
  BY <1>4
<1> HIDE DEF S, K
<1>7. IsFiniteSet(S) /\ Cardinality(S) = Cardinality(K)
  BY <1>1, <1>4, <1>5, <1>6, Paired
<1> QED
  BY <1>7 DEF S, K

\* A bucket of a case is the harness's, less what was refused.
LEMMA BucketIs ==
  ASSUME WorldInv, HistoryInv, NEW i \in 1..Count, NEW n \in Halts(i), Ended(i, n), NEW d
  PROVE  /\ WorthIn(i, n, d) = plans[i].amount * Cardinality(Slots(i, n, d))
                                 - plans[i].amount * Cardinality(RefusedOf(i, n, d))
         /\ Cardinality(Slots(i, n, d)) \in Nat
         /\ WorthIn(i, n, d) # 0 =>
              plans[i].amount > 0 /\ Cardinality(Slots(i, n, d)) > 0 /\ Cycles(i, n) > 0
<1> DEFINE b == Cardinality(BilledIn(i, n, d))
           r == Cardinality(RefusedIn(i, n, d))
           s == Cardinality(Slots(i, n, d))
           amount == plans[i].amount
<1>1. PopulationDrawn
  BY DEF WorldInv
<1>2. b \in Nat /\ r \in Nat /\ s \in Nat /\ s = b + r
  BY SlotsSplit
<1>3. amount \in Nat /\ Cycles(i, n) \in Nat
  BY <1>1, PlanIs, Timeline
<1>4. Cardinality(RefusedOf(i, n, d)) = r /\ WorthIn(i, n, d) = amount * b
  BY RefusedOfHalt DEF WorthIn
<1>5. s > 0 => Cycles(i, n) > 0
  <2> SUFFICES ASSUME Cycles(i, n) = 0 PROVE s = 0
    BY <1>2, <1>3
  <2>1. Slots(i, n, d) = {}
    BY <2>1 DEF Slots
  <2> QED
    BY <2>1, FS_EmptySet
<1> HIDE DEF b, r, s, amount
<1>6. amount * s = amount * b + amount * r
  BY <1>2, <1>3
<1>7. amount * b \in Nat /\ amount * r \in Nat /\ amount * s \in Nat
  BY <1>2, <1>3
<1>8. amount * b # 0 => amount > 0 /\ b > 0
  BY <1>2, <1>3
<1>9. WorthIn(i, n, d) = amount * s - amount * r
  BY <1>4, <1>6, <1>7
<1>10. WorthIn(i, n, d) # 0 => amount > 0 /\ s > 0 /\ Cycles(i, n) > 0
  BY <1>2, <1>4, <1>5, <1>8
<1> QED
  BY <1>2, <1>4, <1>9, <1>10 DEF b, r, s, amount

LEMMA HistoryHasTheHarness ==
  ASSUME WorldInv, HistoryInv
  PROVE  StampedCaseIsTheHarness
<1> SUFFICES ASSUME NEW c \in cases, c.key # NoKey
             PROVE  LET h == HarnessCase(c.key[1], c.key[2])
                        Lost(d) == plans[c.sub].amount * Cardinality(RefusedOf(c.sub, c.ep, d))
                    IN  /\ c.key \in HarnessKeys
                        /\ c.halted = h.halted
                        /\ c.days = h.days
                        /\ c.collectible = h.collectible - Lost("DELIVERED")
                        /\ c.review = h.review - Lost("UNKNOWN")
                        /\ c.excluded = h.excluded - Lost("SUSPENDED")
                        /\ c.key \in Observed <=> h.collectible > 0
                        /\ c.key \in Observed =>
                             /\ Observation(c.key[1], c.key[2]).backlog = h.collectible
                             /\ Observation(c.key[1], c.key[2]).days = c.days
  BY DEF StampedCaseIsTheHarness
<1>1. PICK i \in 1..Count : \E n \in Halts(i) : IsCaseOf(c, i, n)
  BY DEF HistoryInv, CasesAreHalts
<1>2. PICK n \in Halts(i) : IsCaseOf(c, i, n)
  BY <1>1
<1>3. /\ c.key = <<i, n>> /\ c.key[1] = i /\ c.key[2] = n /\ c.sub = i /\ c.ep = n
      /\ Ended(i, n) /\ Returns(i)
  BY <1>2 DEF IsCaseOf, Ended
<1> DEFINE h == HarnessCase(i, n)
           o == Observation(i, n)
           amount == plans[i].amount
           s == Cardinality(Slots(i, n, "DELIVERED"))
           Lost(d) == amount * Cardinality(RefusedOf(i, n, d))
<1>4. PopulationDrawn
  BY DEF WorldInv
<1>5. /\ h.halted = HaltAt(i, n) /\ h.days = 30 * Cycles(i, n) + 12
      /\ h.collectible = amount * s
      /\ h.review = amount * Cardinality(Slots(i, n, "UNKNOWN"))
      /\ h.excluded = amount * Cardinality(Slots(i, n, "SUSPENDED"))
      /\ h.historical = amount * Cycles(i, n)
      /\ o.invoices = s /\ o.backlog = amount * s /\ o.days = 30 * Cycles(i, n) + 12
  BY <1>4, HarnessIs
<1>6. /\ c.collectible = amount * s - Lost("DELIVERED")
      /\ c.review = h.review - Lost("UNKNOWN")
      /\ c.excluded = h.excluded - Lost("SUSPENDED")
      /\ s \in Nat
  BY <1>2, <1>3, <1>5, BucketIs DEF IsCaseOf
<1>7. amount > 0 /\ Cycles(i, n) > 0 /\ amount \in Nat /\ Cycles(i, n) \in Nat
  <2>1. WorthIn(i, n, "DELIVERED") # 0 \/ WorthIn(i, n, "UNKNOWN") # 0
    BY <1>2 DEF IsCaseOf
  <2>2. amount \in Nat /\ Cycles(i, n) \in Nat
    BY <1>4, PlanIs, Timeline
  <2> QED
    BY <1>3, <2>1, <2>2, BucketIs
<1>8. /\ i \in 1..Count /\ n \in {1, 2} /\ n <= plans[i].halts /\ plans[i].fate = "reactivated"
      /\ n = 2 => plans[i].halts = 2
  <2>1. n \in 1..plans[i].halts /\ plans[i].halts \in {1, 2} /\ n \in {1, 2}
    BY <1>4, PlanIs DEF Halts
  <2> QED
    BY <1>3, <2>1 DEF Returns
<1> HIDE DEF h, o, amount, s, Lost
<1>9. amount * Cycles(i, n) > 0
  BY <1>7
<1>10. <<i, n>> \in HarnessKeys
  <2>1. <<i, n>> \in (1..Count) \X {1, 2} /\ <<i, n>>[1] = i /\ <<i, n>>[2] = n
    BY <1>8
  <2>2. HarnessCase(i, n).historical > 0
    BY <1>5, <1>9 DEF h
  <2> QED
    BY <1>8, <2>1, <2>2 DEF HarnessKeys
<1>11. <<i, n>> \in Observed <=> s > 0
  <2>1. <<i, n>> \in (1..Count) \X {1, 2} /\ <<i, n>>[1] = i /\ <<i, n>>[2] = n
    BY <1>8
  <2>2. Observation(i, n).invoices = s
    BY <1>5 DEF o
  <2> QED
    BY <1>8, <2>1, <2>2 DEF Observed
<1>12. s > 0 <=> amount * s > 0
  BY <1>6, <1>7
<1>13. c.halted = h.halted /\ c.days = h.days
  BY <1>2, <1>5 DEF IsCaseOf
<1> QED
  BY <1>3, <1>5, <1>6, <1>10, <1>11, <1>12, <1>13 DEF h, o, amount, s, Lost

-----------------------------------------------------------------------------
(* The world's sums.                                                       *)

AmountOfRow == [r \in rows |-> plans[r.sub].amount]

LEMMA RowAmounts ==
  ASSUME PopulationDrawn, BillsKept
  PROVE  AmountOfRow \in [rows -> Int] /\ \A r \in rows : AmountOfRow[r] \in Nat
<1>1. ASSUME NEW r \in rows PROVE plans[r.sub].amount \in Nat
  <2>1. PICK i \in 1..Count : i = r.sub
    BY DEF BillsKept, RowsAreBills
  <2>2. PICK n \in Halts(i) : n = r.ep
    BY <2>1 DEF BillsKept, RowsAreBills
  <2> QED
    BY <2>1, <2>2, PlanIs
<1> QED
  BY <1>1 DEF AmountOfRow

LEMMA AmountAdds ==
  ASSUME NEW U, NEW f, IsFiniteSet(U), f = [r \in U |-> plans[r.sub].amount], f \in [U -> Int]
  PROVE  \E g : Adds(f, U, g) /\ AmountOf(U) = g[U]
<1> DEFINE Is(h) == h = [t \in SUBSET U |-> IF t = {} THEN 0
                           ELSE plans[Item(t).sub].amount + h[t \ {Item(t)}]]
<1>1. \A h : Is(h) <=> Folds(f, U, h)
  <2>1. ASSUME NEW t \in SUBSET U, t # {}
        PROVE  f[Item(t)] = plans[Item(t).sub].amount
    BY <2>1, ItemOf
  <2> QED
    BY <2>1 DEF Folds
<1>2. Is(CHOOSE h : Is(h))
  BY <1>1, FoldsExist
<1>3. AmountOf(U) = (CHOOSE h : Is(h))[U]
  BY DEF AmountOf, MapThenSumSet, MapThenFoldSet, Item
<1> QED
  BY <1>1, <1>2, <1>3, FoldsAdd

LEMMA RiskAdds ==
  ASSUME NEW U, NEW f, IsFiniteSet(U), U = {c \in cases : IsStrategyEligible(c)},
         f = [c \in U |-> c.collectible], f \in [U -> Int]
  PROVE  \E g : Adds(f, U, g) /\ AtRisk = g[U]
<1> DEFINE Is(h) == h = [t \in SUBSET U |-> IF t = {} THEN 0
                           ELSE Item(t).collectible + h[t \ {Item(t)}]]
<1>1. \A h : Is(h) <=> Folds(f, U, h)
  <2>1. ASSUME NEW t \in SUBSET U, t # {}
        PROVE  f[Item(t)] = Item(t).collectible
    BY <2>1, ItemOf
  <2> QED
    BY <2>1 DEF Folds
<1>2. Is(CHOOSE h : Is(h))
  BY <1>1, FoldsExist
<1>3. AtRisk = (CHOOSE h : Is(h))[U]
  BY DEF AtRisk, MapThenSumSet, MapThenFoldSet, Item
<1> QED
  BY <1>1, <1>2, <1>3, FoldsAdd

\* The invoices planned for subscriber i.
PlannedOf(i) ==
  IF plans[i].fate = "always_active" THEN 0
  ELSE plans[i].missed +
         (IF plans[i].fate = "reactivated" /\ plans[i].halts = 2
          THEN AtLeastOne(plans[i].missed \div 2) ELSE 0)

LEMMA PlannedAdds ==
  ASSUME NEW U, NEW f, IsFiniteSet(U), U = 1..Count,
         f = [i \in U |-> PlannedOf(i)], f \in [U -> Int]
  PROVE  \E g : Adds(f, U, g) /\ Planned = g[U]
<1> DEFINE Is(h) == h = [t \in SUBSET U |-> IF t = {} THEN 0
                           ELSE PlannedOf(Item(t)) + h[t \ {Item(t)}]]
<1>1. \A h : Is(h) <=> Folds(f, U, h)
  <2>1. ASSUME NEW t \in SUBSET U, t # {}
        PROVE  f[Item(t)] = PlannedOf(Item(t))
    BY <2>1, ItemOf
  <2> QED
    BY <2>1 DEF Folds
<1>2. Is(CHOOSE h : Is(h))
  BY <1>1, FoldsExist
<1>3. Planned = (CHOOSE h : Is(h))[U]
  BY DEF Planned, PlannedOf, MapThenSumSet, MapThenFoldSet, Item
<1> QED
  BY <1>1, <1>2, <1>3, FoldsAdd

\* One sum gives the amounts of all sets of rows.
LEMMA AmountOfRows ==
  ASSUME PopulationDrawn, BillsKept, IsFiniteSet(rows), NEW g, Adds(AmountOfRow, rows, g),
         NEW U \in SUBSET rows
  PROVE  AmountOf(U) = g[U]
<1> DEFINE f == [r \in U |-> plans[r.sub].amount]
<1>1. IsFiniteSet(U)
  BY FS_Subset
<1>2. \A r \in U : f[r] = AmountOfRow[r] /\ f[r] \in Int
  BY RowAmounts DEF AmountOfRow
<1>3. f \in [U -> Int]
  BY <1>2
<1>4. PICK h : Adds(f, U, h) /\ AmountOf(U) = h[U]
  BY <1>1, <1>3, AmountAdds
<1> HIDE DEF f
<1>5. h[U] = g[U]
  BY <1>1, <1>2, <1>4, SumSame
<1> QED
  BY <1>4, <1>5

-----------------------------------------------------------------------------
(* The summary.                                                            *)

Historical == {r \in rows : r.ep \in ClosedEpisodes}

Judged == {r \in Historical : r.verdict = "COLLECTIBLE"}

\* The summary, once made, is of a world that no longer changes.
SummaryKept ==
  \/ summary = NoSummary
  \/ /\ AllPosted /\ Unstamped = {} /\ summary.made = TRUE
     /\ summary.planned = Planned
     /\ summary.historical = AmountOf(Historical)
     /\ summary.collectible = AmountOf(Judged)
     /\ summary.at_risk = AtRisk

\* The sums, as functions of what they are taken over.
AmountIn(p, s) == MapThenSumSet(LAMBDA r : p[r.sub].amount, s)

PlannedIn(p) ==
  LET Of(i) == IF p[i].fate = "always_active" THEN 0
               ELSE p[i].missed + (IF p[i].fate = "reactivated" /\ p[i].halts = 2
                                   THEN AtLeastOne(p[i].missed \div 2) ELSE 0)
  IN  MapThenSumSet(Of, 1..Len(p))

RiskIn(s) == MapThenSumSet(LAMBDA c : c.collectible, {c \in s : IsStrategyEligible(c)})

LEMMA SumsAreOf ==
  /\ \A s : AmountOf(s) = AmountIn(plans, s) /\ AmountOf(s)' = AmountIn(plans', s)
  /\ Planned = PlannedIn(plans) /\ Planned' = PlannedIn(plans')
  /\ AtRisk = RiskIn(cases) /\ AtRisk' = RiskIn(cases')
<1>1. \A s : AmountOf(s) = AmountIn(plans, s)
  BY DEF AmountOf, AmountIn
<1>2. \A s : AmountOf(s)' = AmountIn(plans', s)
  BY DEF AmountOf, AmountIn, MapThenSumSet, MapThenFoldSet
<1>3. Planned = PlannedIn(plans)
  BY DEF Planned, PlannedIn, Count
<1>4. Planned' = PlannedIn(plans')
  BY DEF Planned, PlannedIn, Count, MapThenSumSet, MapThenFoldSet
<1>5. AtRisk = RiskIn(cases)
  BY DEF AtRisk, RiskIn
<1>6. AtRisk' = RiskIn(cases')
  BY DEF AtRisk, RiskIn, MapThenSumSet, MapThenFoldSet
<1> QED
  BY <1>1, <1>2, <1>3, <1>4, <1>5, <1>6

LEMMA SummaryStays ==
  ASSUME WorldInv, SummaryKept, [Next]_worldVars
  PROVE  SummaryKept'
<1>1. CASE Materialise \/ PostTransition \/ PostReturn \/ PostInvoice \/ Refuse \/ Stamp
  <2>1. summary' = summary
    BY <1>1 DEF Materialise, PostTransition, PostReturn, PostInvoice, Refuse, Stamp, Proceed
  <2>2. ~(AllPosted /\ Unstamped = {})
    <3>1. CASE Materialise
      BY <3>1 DEF Materialise, AllPosted, WorldInv, SubsKept, PopulationDrawn
    <3>2. CASE PostTransition \/ PostReturn \/ PostInvoice \/ Refuse
      BY <3>2 DEF PostTransition, PostReturn, PostInvoice, Refuse, PostsLifecycle, PostsInvoice,
                  AllPosted
    <3>3. CASE Stamp
      BY <3>3 DEF Stamp
    <3> QED
      BY <1>1, <3>1, <3>2, <3>3
  <2> QED
    BY <2>1, <2>2 DEF SummaryKept
<1>2. CASE Summarise \/ UNCHANGED worldVars
  <2>1. /\ plans' = plans /\ next' = next /\ script' = script /\ subs' = subs
        /\ rows' = rows /\ cases' = cases
    BY <1>2 DEF Summarise, worldVars
  <2>2. Historical' = Historical /\ Judged' = Judged
    BY <2>1 DEF Historical, Judged, ClosedEpisodes
  <2>3. \A s : AmountOf(s)' = AmountOf(s)
    BY <2>1, SumsAreOf
  <2>4. Planned' = Planned
    BY <2>1, SumsAreOf
  <2>5. AtRisk' = AtRisk
    BY <2>1, SumsAreOf
  <2>6. (AllPosted' <=> AllPosted) /\ Unstamped' = Unstamped
    BY <2>1 DEF AllPosted, Unstamped, Count
  <2>7. \A s, t : s = t => AmountOf(s)' = AmountOf(t)
    BY <2>3
  <2>8. CASE Summarise
    <3>1. AllPosted /\ Unstamped = {}
      BY <2>8 DEF Summarise
    <3>2. /\ summary'.made = TRUE
          /\ summary'.planned = Planned
          /\ summary'.historical = AmountOf(Historical)
          /\ summary'.collectible = AmountOf(Judged)
          /\ summary'.at_risk = AtRisk
      BY <2>8 DEF Summarise, Historical, Judged
    <3> QED
      BY <2>2, <2>3, <2>4, <2>5, <2>6, <3>1, <3>2 DEF SummaryKept
  <2>9. CASE UNCHANGED worldVars
    <3>1. summary' = summary
      BY <2>9 DEF worldVars
    <3> QED
      BY <2>2, <2>3, <2>4, <2>5, <2>6, <3>1 DEF SummaryKept
  <2> QED
    BY <1>2, <2>8, <2>9
<1> QED
  BY <1>1, <1>2 DEF Next

-----------------------------------------------------------------------------
(* What the summary is backed by, once all is posted.                      *)

LEMMA AllIsDone ==
  ASSUME WorldInv, AllPosted
  PROVE  \A i \in 1..Count : \A e : IsDone(i, e)
<1>1. next = Count /\ script = << >> /\ Count \in Nat
  BY DEF AllPosted, WorldInv, PopulationDrawn
<1>2. Todo = {}
  <2>1. Len(script) = 0
    BY <1>1
  <2> QED
    BY <2>1 DEF Todo
<1> QED
  BY <1>1, <1>2 DEF IsDone

LEMMA EndedIsClosed ==
  ASSUME WorldInv, HistoryInv, NEW i \in 1..Count, NEW n \in Halts(i), Ended(i, n)
  PROVE  n \in ClosedEpisodes
<1>1. /\ i \in 1..next /\ n \in 1..Len(subs[i].eps) /\ EpisodesKept /\ PopulationDrawn
      /\ subs \in Seq(Sub) /\ Len(subs) = next
  BY EndedIsWhole DEF WorldInv, HistoryInv, SubsKept
<1>2. ReturnAt(i, n) \in Nat
  BY <1>1, Timeline
<1>3. subs[i].eps[n].react = ReturnAt(i, n)
  BY <1>1 DEF EpisodesKept
<1>4. subs[i].eps[n].react # NoDay
  BY <1>2, <1>3 DEF NoDay
<1>5. i \in DOMAIN subs /\ n \in DOMAIN subs[i].eps
  <2>1. i \in DOMAIN subs /\ subs[i] \in Sub
    BY <1>1
  <2>2. subs[i].eps \in Seq(Episode)
    BY <2>1 DEF Sub
  <2> QED
    BY <1>1, <2>1, <2>2
<1> QED
  BY <1>4, <1>5 DEF ClosedEpisodes

Eligible == {c \in cases : IsStrategyEligible(c)}

\* The rows a case is of.
Backing(c) == RowsOf(c.sub, c.ep, "DELIVERED")

AllBacking == UNION {Backing(c) : c \in Eligible}

LEMMA CaseIsBacked ==
  ASSUME WorldInv, HistoryInv, NEW c \in cases,
         NEW g, Adds(AmountOfRow, rows, g)
  PROVE  /\ c.collectible \in Nat /\ Backing(c) \in SUBSET rows
         /\ c.collectible = g[Backing(c)]
         /\ IsStrategyEligible(c) <=> c.collectible > 0
         /\ Backing(c) \subseteq Judged
<1>1. /\ PopulationDrawn /\ BillsKept /\ IsFiniteSet(rows) /\ CasesAreHalts
  BY HistoryParts DEF WorldInv, CaseKept
<1>2. PICK i \in 1..Count : \E n \in Halts(i) : IsCaseOf(c, i, n)
  BY <1>1 DEF CasesAreHalts
<1>3. PICK n \in Halts(i) : IsCaseOf(c, i, n)
  BY <1>2
<1>4. /\ c.sub = i /\ c.ep = n /\ Ended(i, n) /\ IsGated(i, n)
      /\ c.collectible = plans[i].amount * Cardinality(BilledIn(i, n, "DELIVERED"))
      /\ c.collectible = WorthIn(i, n, "DELIVERED")
      /\ c.status = "review_required" <=> c.collectible = 0
  BY <1>3 DEF IsCaseOf, WorthIn
<1>5. c.collectible \in Nat
  BY <1>1, <1>4, WorthIs
<1> DEFINE R == RowsOf(i, n, "DELIVERED")
<1>6. Backing(c) = R /\ R \in SUBSET rows
  BY <1>4 DEF Backing, RowsOf
<1>7. Cardinality(R) = Cardinality(BilledIn(i, n, "DELIVERED"))
  BY <1>1, RowsOfBills
<1>8. \A r \in R : /\ r \in rows /\ r.sub = i /\ r.ep = n /\ r.delivery = "DELIVERED"
                   /\ AmountOfRow[r] = plans[i].amount
  BY DEF RowsOf, AmountOfRow
<1> HIDE DEF R
<1>9. c.collectible = g[R]
  <2>1. plans[i].amount \in Int
    BY <1>1, PlanIs
  <2>2. g[R] = plans[i].amount * Cardinality(R)
    BY <1>1, <1>6, <1>8, <2>1, SumOfEqual
  <2> QED
    BY <1>4, <1>7, <2>2
<1>10. ASSUME NEW r \in R PROVE r \in Judged
  <2>1. r.ep \in ClosedEpisodes
    BY <1>4, <1>8, EndedIsClosed
  <2>2. r.verdict = "COLLECTIBLE"
    BY <1>4, <1>8, VerdictIs DEF IsGated
  <2> QED
    BY <1>8, <2>1, <2>2 DEF Judged, Historical
<1>11. IsStrategyEligible(c) <=> c.collectible > 0
  BY <1>4, <1>5 DEF IsStrategyEligible
<1> QED
  BY <1>5, <1>6, <1>9, <1>10, <1>11

\* What is at risk is the sum over the rows of the eligible cases.
LEMMA RiskIsBacked ==
  ASSUME WorldInv, HistoryInv, NEW g, Adds(AmountOfRow, rows, g)
  PROVE  /\ AtRisk = g[AllBacking]
         /\ AllBacking \in SUBSET Judged /\ Judged \in SUBSET rows
         /\ Historical \in SUBSET rows
<1> DEFINE T == Eligible
           h == [c \in T |-> c.collectible]
           B == [c \in T |-> Backing(c)]
<1>1. /\ PopulationDrawn /\ BillsKept /\ IsFiniteSet(rows) /\ IsFiniteSet(cases) /\ CasesOnce
  BY HistoryParts DEF WorldInv, CaseKept
<1>2. IsFiniteSet(T)
  <2>1. T \subseteq cases
    BY DEF Eligible
  <2> QED
    BY <1>1, <2>1, FS_Subset
<1>3. \A c \in T : /\ c \in cases /\ h[c] = c.collectible /\ h[c] \in Nat
                   /\ B[c] = Backing(c) /\ B[c] \in SUBSET rows /\ h[c] = g[B[c]]
                   /\ B[c] \subseteq Judged
  BY CaseIsBacked DEF Eligible
<1>4. h \in [T -> Int]
  BY <1>3
<1>5. PICK k : Adds(h, T, k) /\ AtRisk = k[T]
  BY <1>2, <1>4, RiskAdds DEF Eligible
<1>6. \A c, d \in T : c # d => B[c] \cap B[d] = {}
  <2> SUFFICES ASSUME NEW c \in T, NEW d \in T, NEW r \in B[c], r \in B[d]
               PROVE  c = d
    OBVIOUS
  <2>1. r \in Backing(c) /\ r \in Backing(d) /\ c \in cases /\ d \in cases
    BY <1>3
  <2>2. c.sub = d.sub /\ c.ep = d.ep
    BY <2>1 DEF Backing, RowsOf
  <2> QED
    BY <1>1, <2>1, <2>2 DEF CasesOnce
<1>7. \A r \in rows : AmountOfRow[r] \in Int
  BY <1>1, RowAmounts
<1>8. UNION {B[c] : c \in T} = AllBacking
  BY DEF AllBacking
<1> HIDE DEF T, h, B
<1>9. k[T] = g[UNION {B[c] : c \in T}]
  <2>1. \A c \in T : B[c] \in SUBSET rows /\ h[c] = g[B[c]]
    BY <1>3
  <2> QED
    BY <1>1, <1>2, <1>5, <1>6, <1>7, <2>1, SumOfFibers
<1>10. AllBacking \subseteq Judged
  BY <1>3, <1>8
<1> QED
  BY <1>5, <1>9, <1>8, <1>10 DEF Judged, Historical

\* When no window failed, what is judged collectible and backs no eligible case is free.
LEMMA RiskIsWhole ==
  ASSUME WorldInv, HistoryInv, ~broken, NEW g, Adds(AmountOfRow, rows, g)
  PROVE  g[Judged] = g[AllBacking]
<1>1. /\ PopulationDrawn /\ BillsKept /\ IsFiniteSet(rows) /\ RowsAreBills
      /\ VerdictsKept /\ CasesAreHalts /\ WholeUnlessBroken
  BY HistoryParts DEF WorldInv, CaseKept, BillsKept
<1>2. ASSUME NEW r \in Judged \ AllBacking PROVE AmountOfRow[r] = 0
  <2>1. r \in rows /\ r.verdict = "COLLECTIBLE" /\ r \notin AllBacking
    BY DEF Judged, Historical
  <2>2. PICK i \in 1..Count : i = r.sub
    BY <1>1, <2>1 DEF RowsAreBills
  <2>3. PICK n \in Halts(i) : n = r.ep
    BY <1>1, <2>1, <2>2 DEF RowsAreBills
  <2>4. VerdictOf(r) = "COLLECTIBLE" /\ Ended(i, n)
    BY <1>1, <2>1, <2>2, <2>3 DEF VerdictsKept
  <2>5. r.delivery = "DELIVERED"
    BY <1>1, <2>1, <2>4, RowIsDrawn, VerdictIs DEF DrawnDeliveries
  <2>6. r \in RowsOf(i, n, "DELIVERED")
    BY <2>1, <2>2, <2>3, <2>5 DEF RowsOf
  <2> DEFINE a == plans[i].amount
             b == Cardinality(BilledIn(i, n, "DELIVERED"))
  <2>7. a \in Nat /\ b \in Nat /\ b > 0
    <3>1. /\ IsFiniteSet(RowsOf(i, n, "DELIVERED")) /\ b \in Nat
          /\ Cardinality(RowsOf(i, n, "DELIVERED")) = b
      BY <1>1, RowsOfBills
    <3>2. b # 0
      BY <2>6, <3>1, FS_EmptySet
    <3> QED
      BY <1>1, <3>1, <3>2, PlanIs
  <2>8. WorthIn(i, n, "DELIVERED") = a * b /\ AmountOfRow[r] = a
    BY <2>1, <2>2 DEF WorthIn, AmountOfRow
  <2>9. WorthIn(i, n, "DELIVERED") = 0
    <3>1. CASE HasCase(i, n)
      <4>1. PICK c \in cases : c.sub = i /\ c.ep = n
        BY <3>1 DEF HasCase
      <4>2. Backing(c) = RowsOf(i, n, "DELIVERED")
        BY <4>1 DEF Backing
      <4>3. c \notin Eligible
        BY <2>1, <2>6, <4>2 DEF AllBacking
      <4>4. c.collectible \in Nat /\ ~(c.collectible > 0)
        BY <4>1, <4>3, CaseIsBacked DEF Eligible
      <4>5. c.collectible = WorthIn(i, n, "DELIVERED")
        <5>1. PICK j \in 1..Count : \E m \in Halts(j) : IsCaseOf(c, j, m)
          BY <1>1, <4>1 DEF CasesAreHalts
        <5>2. PICK m \in Halts(j) : IsCaseOf(c, j, m)
          BY <5>1
        <5> QED
          BY <4>1, <5>2 DEF IsCaseOf
      <4> QED
        BY <4>4, <4>5
    <3>2. CASE WorthIn(i, n, "DELIVERED") + WorthIn(i, n, "UNKNOWN") = 0
      <4>1. WorthIn(i, n, "DELIVERED") \in Nat /\ WorthIn(i, n, "UNKNOWN") \in Nat
        BY <1>1, WorthIs
      <4> QED
        BY <3>2, <4>1
    <3> QED
      BY <1>1, <2>4, <3>1, <3>2 DEF WholeUnlessBroken
  <2> HIDE DEF a, b
  <2> QED
    BY <2>7, <2>8, <2>9
<1>3. Judged \in SUBSET rows /\ AllBacking \in SUBSET Judged
  BY RiskIsBacked
<1> QED
  BY <1>1, <1>2, <1>3, SumWhere

\* The halts the harness has a case of have theirs, unless what they would be worth was
\* refused.
LEMMA KeysHaveCases ==
  ASSUME WorldInv, HistoryInv, AllPosted, Unstamped = {}, ~broken, NEW key \in HarnessKeys,
         HarnessCase(key[1], key[2]).collectible > 0,
         RefusedOf(key[1], key[2], "DELIVERED") = {}
  PROVE  \E c \in cases : c.key = key /\ IsStrategyEligible(c)
<1>1. PICK i \in 1..Count : i = key[1]
  BY DEF HarnessKeys
<1>2. key = <<i, key[2]>> /\ Returns(i) /\ key[2] \in {1, 2} /\ key[2] <= plans[i].halts
  BY <1>1 DEF HarnessKeys, Returns
<1>3. PopulationDrawn /\ Count \in Nat /\ CasesAreHalts /\ WholeUnlessBroken
  BY DEF WorldInv, HistoryInv, PopulationDrawn
<1>4. key[2] \in Halts(i)
  <2>1. plans[i].halts \in {0, 1, 2}
    BY <1>3 DEF PopulationDrawn, IsPlan, Plan, HaltCounts
  <2> QED
    BY <1>2, <2>1 DEF Halts
<1>5. PICK n \in Halts(i) : n = key[2]
  BY <1>4
<1>6. Ended(i, n)
  BY <1>2, AllIsDone DEF Ended
<1>7. WorthIn(i, n, "DELIVERED") > 0 /\ WorthIn(i, n, "DELIVERED") \in Nat
      /\ WorthIn(i, n, "UNKNOWN") \in Nat
  <2> DEFINE a == plans[i].amount
             s == Cardinality(Slots(i, n, "DELIVERED"))
  <2>1. HarnessCase(i, n).collectible = a * s
    BY <1>3, HarnessIs
  <2>2. Cardinality(RefusedOf(i, n, "DELIVERED")) = 0
    BY <1>1, <1>5, FS_EmptySet
  <2>3. WorthIn(i, n, "DELIVERED") = a * s - a * 0 /\ s \in Nat
    BY <1>6, <2>2, BucketIs
  <2>4. a \in Nat
    BY <1>3, PlanIs
  <2>5. a * s > 0
    BY <1>1, <1>5, <2>1
  <2>6. WorthIn(i, n, "DELIVERED") \in Nat /\ WorthIn(i, n, "UNKNOWN") \in Nat
    BY <1>3, HistoryParts, WorthIs
  <2> HIDE DEF a, s
  <2>7. a * 0 = 0 /\ a * s \in Nat
    BY <2>3, <2>4
  <2> QED
    BY <2>3, <2>5, <2>6, <2>7
<1>8. HasCase(i, n)
  <2>1. ~(WorthIn(i, n, "DELIVERED") + WorthIn(i, n, "UNKNOWN") = 0)
    BY <1>7
  <2> QED
    BY <1>3, <1>6, <2>1 DEF WholeUnlessBroken
<1>9. PICK c \in cases : c.sub = i /\ c.ep = n
  BY <1>8 DEF HasCase
<1>10. IsCaseOf(c, i, n)
  BY <1>3, <1>9 DEF CasesAreHalts, IsCaseOf
<1>11. c.key = <<i, n>>
  <2>1. c.key # NoKey
    BY <1>9 DEF Unstamped
  <2> QED
    BY <1>10, <2>1 DEF IsCaseOf
<1>12. IsStrategyEligible(c)
  <2>1. c.collectible = WorthIn(i, n, "DELIVERED")
        /\ (c.status = "review_required" <=> c.collectible = 0)
    BY <1>10 DEF IsCaseOf
  <2> QED
    BY <1>7, <2>1 DEF IsStrategyEligible
<1> QED
  BY <1>2, <1>5, <1>9, <1>11, <1>12

-----------------------------------------------------------------------------
(* The invoices planned are those that became rows and those refused.      *)

\* The bills of the whole run: the k-th of the n-th halt of subscriber i is <<i, n, k>>.
AllBills ==
  {b \in (1..Count) \X {1, 2} \X Nat : b[2] \in Halts(b[1]) /\ b[3] \in 1..Cycles(b[1], b[2])}

WithRow == {b \in AllBills : HasRow(b[1], b[2], b[3])}

WithRefusal == {b \in AllBills : HasRefusal(b[1], b[2], b[3])}

LEMMA BillIs ==
  ASSUME PopulationDrawn
  PROVE  /\ \A b \in AllBills : /\ b[1] \in 1..Count /\ b[2] \in Halts(b[1])
                                /\ b[3] \in 1..Cycles(b[1], b[2])
                                /\ b = <<b[1], b[2], b[3]>>
         /\ \A i \in 1..Count : \A n \in Halts(i) : \A k \in 1..Cycles(i, n) :
              <<i, n, k>> \in AllBills
<1>1. ASSUME NEW b \in AllBills
      PROVE  /\ b[1] \in 1..Count /\ b[2] \in Halts(b[1]) /\ b[3] \in 1..Cycles(b[1], b[2])
             /\ b = <<b[1], b[2], b[3]>>
  BY DEF AllBills
<1>2. ASSUME NEW i \in 1..Count, NEW n \in Halts(i), NEW k \in 1..Cycles(i, n)
      PROVE  <<i, n, k>> \in AllBills
  <2>1. n \in {1, 2} /\ Cycles(i, n) \in Nat
    BY Timeline
  <2>2. k \in Nat
    BY <2>1
  <2> DEFINE b == <<i, n, k>>
  <2>3. b \in (1..Count) \X {1, 2} \X Nat /\ b[1] = i /\ b[2] = n /\ b[3] = k
    BY <2>1, <2>2
  <2> HIDE DEF b
  <2>4. b \in AllBills
    BY <2>3 DEF AllBills
  <2> QED
    BY <2>4 DEF b
<1> QED
  BY <1>1, <1>2

\* The bills that have a row are as many as the rows.
LEMMA RowsOfAllBills ==
  ASSUME PopulationDrawn, BillsKept, IsFiniteSet(rows)
  PROVE  IsFiniteSet(WithRow) /\ Cardinality(WithRow) = Cardinality(rows)
<1> DEFINE S == WithRow
           Day(b) == BillAt(b[1], b[2], b[3])
           a == [b \in S |-> CHOOSE r \in rows : r.sub = b[1] /\ r.at = Day(b)]
<1>1. \A b \in S : /\ b[1] \in 1..Count /\ b[2] \in Halts(b[1])
                   /\ b[3] \in 1..Cycles(b[1], b[2]) /\ b = <<b[1], b[2], b[3]>>
  BY BillIs DEF WithRow
<1>2. ASSUME NEW b \in S PROVE \E r \in rows : r.sub = b[1] /\ r.at = Day(b)
  BY DEF WithRow, HasRow
<1>3. ASSUME NEW b \in S PROVE a[b] \in rows /\ a[b].sub = b[1] /\ a[b].at = Day(b)
  <2>1. a[b] = CHOOSE r \in rows : r.sub = b[1] /\ r.at = Day(b)
    OBVIOUS
  <2> HIDE DEF a, S, Day
  <2> QED
    BY <1>2, <2>1
<1> HIDE DEF a
<1>4. ASSUME NEW b \in S, NEW c \in S, a[b] = a[c] PROVE b = c
  <2>1. b[1] = c[1] /\ Day(b) = Day(c)
    BY <1>3, <1>4
  <2>2. /\ b[1] \in 1..Count /\ b[2] \in Halts(b[1]) /\ b[3] \in 1..Cycles(b[1], b[2])
        /\ c[2] \in Halts(b[1]) /\ c[3] \in 1..Cycles(b[1], c[2])
    BY <1>1, <2>1
  <2>3. BillAt(b[1], b[2], b[3]) = BillAt(b[1], c[2], c[3])
    BY <2>1
  <2>4. b[2] = c[2] /\ b[3] = c[3]
    BY <2>2, <2>3, BillsApart
  <2> QED
    BY <1>1, <2>1, <2>4
<1>5. ASSUME NEW r \in rows PROVE \E b \in S : a[b] = r
  <2>1. r.sub \in 1..Count /\ r.ep \in Halts(r.sub)
    BY DEF BillsKept, RowsAreBills
  <2>2. PICK k \in 1..Cycles(r.sub, r.ep) : IsRowOf(r, k)
    BY DEF BillsKept, RowsAreBills
  <2> DEFINE b == <<r.sub, r.ep, k>>
  <2>3. b \in AllBills /\ b[1] = r.sub /\ b[2] = r.ep /\ b[3] = k
    BY <2>1, <2>2, BillIs
  <2>4. r.at = Day(b)
    BY <2>2, <2>3 DEF IsRowOf
  <2>5. HasRow(b[1], b[2], b[3])
    BY <2>3, <2>4 DEF HasRow
  <2>6. b \in S
    BY <2>3, <2>5 DEF WithRow
  <2>7. a[b] \in rows /\ a[b].sub = r.sub /\ a[b].at = r.at
    BY <1>3, <2>3, <2>4, <2>6
  <2>8. a[b] = r
    BY <2>7 DEF BillsKept, RowsOnce
  <2> QED
    BY <2>6, <2>8
<1> HIDE DEF S
<1>6. IsFiniteSet(S) /\ Cardinality(S) = Cardinality(rows)
  BY <1>3, <1>4, <1>5, Paired
<1> QED
  BY <1>6 DEF S

\* The bills that were refused are as many as the refusals.
LEMMA RefusalsOfAllBills ==
  ASSUME PopulationDrawn, BillsKept, IsFiniteSet(refused)
  PROVE  IsFiniteSet(WithRefusal) /\ Cardinality(WithRefusal) = Cardinality(refused)
<1> DEFINE S == WithRefusal
           a == [b \in S |-> RefusalOf(b[1], b[2], b[3])]
<1>1. \A b \in S : /\ b[1] \in 1..Count /\ b[2] \in Halts(b[1])
                   /\ b[3] \in 1..Cycles(b[1], b[2]) /\ b = <<b[1], b[2], b[3]>>
  BY BillIs DEF WithRefusal
<1>2. \A b \in S : a[b] = RefusalOf(b[1], b[2], b[3])
  OBVIOUS
<1>3. \A b \in S : a[b] \in refused
  BY <1>2 DEF WithRefusal, HasRefusal
<1>4. \A b \in S : a[b].sub = b[1] /\ a[b].event.at = BillAt(b[1], b[2], b[3])
  BY <1>2 DEF RefusalOf, BillOf
<1> HIDE DEF a
<1>5. ASSUME NEW b \in S, NEW c \in S, a[b] = a[c] PROVE b = c
  <2>1. b[1] = c[1] /\ BillAt(b[1], b[2], b[3]) = BillAt(c[1], c[2], c[3])
    BY <1>4, <1>5
  <2>2. /\ b[1] \in 1..Count /\ b[2] \in Halts(b[1]) /\ b[3] \in 1..Cycles(b[1], b[2])
        /\ c[2] \in Halts(b[1]) /\ c[3] \in 1..Cycles(b[1], c[2])
    BY <1>1, <2>1
  <2>3. b[2] = c[2] /\ b[3] = c[3]
    BY <2>1, <2>2, BillsApart
  <2> QED
    BY <1>1, <2>1, <2>3
<1>6. ASSUME NEW x \in refused PROVE \E b \in S : a[b] = x
  <2>1. PICK i \in 1..Count : \E n \in Halts(i) : \E k \in 1..Cycles(i, n) :
          x = RefusalOf(i, n, k) /\ IsBilled(i, n, k)
    BY DEF BillsKept, RefusedAreBills
  <2>2. PICK n \in Halts(i) : \E k \in 1..Cycles(i, n) :
          x = RefusalOf(i, n, k) /\ IsBilled(i, n, k)
    BY <2>1
  <2>3. PICK k \in 1..Cycles(i, n) : x = RefusalOf(i, n, k) /\ IsBilled(i, n, k)
    BY <2>2
  <2> DEFINE b == <<i, n, k>>
  <2>4. b \in AllBills /\ b[1] = i /\ b[2] = n /\ b[3] = k
    BY BillIs
  <2>5. b \in S
    BY <2>3, <2>4 DEF WithRefusal, HasRefusal
  <2>6. a[b] = x
    BY <1>2, <2>3, <2>4, <2>5
  <2> QED
    BY <2>5, <2>6
<1> HIDE DEF S
<1>7. IsFiniteSet(S) /\ Cardinality(S) = Cardinality(refused)
  BY <1>3, <1>5, <1>6, Paired
<1> QED
  BY <1>7 DEF S

\* Once all is posted, every bill has its row or its refusal.
LEMMA AllBillsAre ==
  ASSUME WorldInv, HistoryInv, AllPosted
  PROVE  /\ IsFiniteSet(AllBills)
         /\ Cardinality(AllBills) = Cardinality(rows) + Cardinality(refused)
<1>1. PopulationDrawn /\ BillsKept /\ IsFiniteSet(rows) /\ IsFiniteSet(refused)
  BY HistoryParts DEF WorldInv
<1>2. /\ IsFiniteSet(WithRow) /\ Cardinality(WithRow) = Cardinality(rows)
      /\ IsFiniteSet(WithRefusal) /\ Cardinality(WithRefusal) = Cardinality(refused)
  BY <1>1, RowsOfAllBills, RefusalsOfAllBills
<1>3. AllBills \subseteq WithRow \cup WithRefusal
  <2> SUFFICES ASSUME NEW b \in AllBills PROVE b \in WithRow \cup WithRefusal
    OBVIOUS
  <2>1. b[1] \in 1..Count /\ b[2] \in Halts(b[1]) /\ b[3] \in 1..Cycles(b[1], b[2])
    BY <1>1, BillIs
  <2>2. IsBilled(b[1], b[2], b[3])
    BY <2>1, AllIsDone DEF IsBilled
  <2>3. HasRow(b[1], b[2], b[3]) \/ HasRefusal(b[1], b[2], b[3])
    BY <1>1, <2>1, <2>2 DEF BillsKept, BillsAreRows
  <2> QED
    BY <2>3 DEF WithRow, WithRefusal
<1>4. AllBills = WithRow \cup WithRefusal
  BY <1>3 DEF WithRow, WithRefusal
<1>5. WithRow \cap WithRefusal = {}
  <2> SUFFICES ASSUME NEW b \in WithRow, b \in WithRefusal PROVE FALSE
    OBVIOUS
  <2>1. PICK r \in rows : r.sub = b[1] /\ r.at = BillAt(b[1], b[2], b[3])
    BY DEF WithRow, HasRow
  <2>2. PICK x \in refused : x = RefusalOf(b[1], b[2], b[3])
    BY DEF WithRefusal, HasRefusal
  <2>3. x.sub = b[1] /\ x.event.at = BillAt(b[1], b[2], b[3])
    BY <2>2 DEF RefusalOf, BillOf
  <2> QED
    BY <1>1, <2>1, <2>3 DEF BillsKept, RowsOnce
<1>6. Cardinality(rows) \in Nat /\ Cardinality(refused) \in Nat
  BY <1>1, FS_CardinalityType
<1>7. /\ IsFiniteSet(AllBills)
      /\ Cardinality(AllBills)
           = Cardinality(rows) + Cardinality(refused) - Cardinality(WithRow \cap WithRefusal)
  BY <1>2, <1>4, FS_Union
<1>8. Cardinality(WithRow \cap WithRefusal) = 0
  BY <1>5, FS_EmptySet
<1> QED
  BY <1>6, <1>7, <1>8

BillsOf(i) == {b \in AllBills : b[1] = i}

BillsIn(i, n) == {b \in AllBills : b[1] = i /\ b[2] = n}

LEMMA BillsInHalt ==
  ASSUME PopulationDrawn, NEW i \in 1..Count, NEW n \in Halts(i)
  PROVE  /\ IsFiniteSet(BillsIn(i, n)) /\ Cardinality(BillsIn(i, n)) = Cycles(i, n)
         /\ Cycles(i, n) \in Nat
<1> DEFINE S == BillsIn(i, n)
           a == [b \in S |-> b[3]]
<1>1. Cycles(i, n) \in Nat
  BY Timeline
<1>2. IsFiniteSet(1..Cycles(i, n)) /\ Cardinality(1..Cycles(i, n)) = Cycles(i, n)
  <2>1. 1 \in Int /\ Cycles(i, n) \in Int /\ Cycles(i, n) >= 0
    BY <1>1
  <2>2. /\ IsFiniteSet(1..Cycles(i, n))
        /\ Cardinality(1..Cycles(i, n)) = IF 1 > Cycles(i, n) THEN 0 ELSE Cycles(i, n) - 1 + 1
    BY <2>1, FS_Interval
  <2> QED
    BY <1>1, <2>2
<1>3. \A b \in S : b[3] \in 1..Cycles(i, n) /\ b = <<i, n, b[3]>> /\ a[b] = b[3]
  BY BillIs DEF BillsIn
<1>4. ASSUME NEW k \in 1..Cycles(i, n) PROVE \E b \in S : a[b] = k
  <2> DEFINE b == <<i, n, k>>
  <2>1. b \in AllBills /\ b[1] = i /\ b[2] = n /\ b[3] = k
    BY BillIs
  <2>2. b \in S
    BY <2>1 DEF BillsIn
  <2> QED
    BY <1>3, <2>1, <2>2
<1> HIDE DEF S, a
<1>5. \A b, c \in S : a[b] = a[c] => b = c
  BY <1>3
<1>6. IsFiniteSet(S) /\ Cardinality(S) = Cardinality(1..Cycles(i, n))
  <2>1. \A b \in S : a[b] \in 1..Cycles(i, n)
    BY <1>3
  <2> QED
    BY <1>2, <1>4, <1>5, <2>1, Paired
<1> QED
  BY <1>1, <1>2, <1>6 DEF S

\* A subscriber's bills are as many as are planned.
LEMMA BillsOfPlan ==
  ASSUME PopulationDrawn, NEW i \in 1..Count
  PROVE  /\ IsFiniteSet(BillsOf(i)) /\ Cardinality(BillsOf(i)) = PlannedOf(i)
         /\ PlannedOf(i) \in Nat
<1> DEFINE p == plans[i]
           two == AtLeastOne(p.missed \div 2)
<1>1. IsPlan(p)
  BY DEF PopulationDrawn
<1>2. /\ p.halts \in {0, 1, 2}
      /\ p.fate \in {"always_active", "halted_never_returned", "reactivated"}
      /\ p.fate = "always_active" => p.halts = 0
      /\ p.fate = "halted_never_returned" => p.halts = 1
      /\ p.fate = "reactivated" => p.halts \in {1, 2}
  BY <1>1 DEF IsPlan, Plan, Fates, HaltCounts
<1>3. /\ PlannedOf(i) = IF p.fate = "always_active" THEN 0
                        ELSE p.missed + (IF p.fate = "reactivated" /\ p.halts = 2
                                         THEN two ELSE 0)
      /\ Cycles(i, 1) = p.missed /\ Cycles(i, 2) = two
      /\ Halts(i) = 1..p.halts
  BY DEF PlannedOf, Cycles, Halts
<1>4. ASSUME NEW b \in BillsOf(i) PROVE b[1] = i /\ b[2] \in Halts(i)
  BY BillIs DEF BillsOf
<1> HIDE DEF p, two
<1>5. CASE p.halts = 0
  <2>1. p.fate = "always_active" /\ PlannedOf(i) = 0 /\ Halts(i) = {}
    BY <1>2, <1>3, <1>5
  <2>2. BillsOf(i) = {}
    BY <1>4, <2>1
  <2> QED
    BY <2>1, <2>2, FS_EmptySet
<1>6. CASE p.halts = 1
  <2>1. Halts(i) = {1} /\ p.fate # "always_active"
    BY <1>2, <1>3, <1>6
  <2>2. BillsOf(i) = BillsIn(i, 1)
    BY <1>4, <2>1 DEF BillsOf, BillsIn
  <2>3. /\ IsFiniteSet(BillsIn(i, 1)) /\ Cardinality(BillsIn(i, 1)) = Cycles(i, 1)
        /\ Cycles(i, 1) \in Nat
    BY <2>1, BillsInHalt
  <2>4. PlannedOf(i) = p.missed
    <3>1. PlannedOf(i) = p.missed + 0
      BY <1>3, <1>6, <2>1
    <3> QED
      BY <1>3, <2>3, <3>1
  <2> QED
    BY <1>3, <2>2, <2>3, <2>4
<1>7. CASE p.halts = 2
  <2>1. Halts(i) = {1, 2} /\ p.fate = "reactivated"
    BY <1>2, <1>3, <1>7
  <2>2. BillsOf(i) = BillsIn(i, 1) \cup BillsIn(i, 2)
    BY <1>4, <2>1 DEF BillsOf, BillsIn
  <2>3. /\ IsFiniteSet(BillsIn(i, 1)) /\ Cardinality(BillsIn(i, 1)) = Cycles(i, 1)
        /\ IsFiniteSet(BillsIn(i, 2)) /\ Cardinality(BillsIn(i, 2)) = Cycles(i, 2)
        /\ Cycles(i, 1) \in Nat /\ Cycles(i, 2) \in Nat
    BY <2>1, BillsInHalt
  <2>4. BillsIn(i, 1) \cap BillsIn(i, 2) = {}
    BY DEF BillsIn
  <2>5. Cardinality(BillsIn(i, 1) \cap BillsIn(i, 2)) = 0
    BY <2>4, FS_EmptySet
  <2>6. /\ IsFiniteSet(BillsOf(i))
        /\ Cardinality(BillsOf(i)) = Cycles(i, 1) + Cycles(i, 2)
                                       - Cardinality(BillsIn(i, 1) \cap BillsIn(i, 2))
    BY <2>2, <2>3, FS_Union
  <2>7. PlannedOf(i) = p.missed + two
    BY <1>3, <1>7, <2>1
  <2> QED
    BY <1>3, <2>3, <2>5, <2>6, <2>7
<1> QED
  BY <1>2, <1>5, <1>6, <1>7

\* The bills of the run are as many as are planned.
LEMMA PlannedIsAll ==
  ASSUME PopulationDrawn, IsFiniteSet(AllBills)
  PROVE  Planned = Cardinality(AllBills)
<1> DEFINE T == 1..Count
           h == [i \in T |-> PlannedOf(i)]
           f == [b \in AllBills |-> 1]
           B == [i \in T |-> BillsOf(i)]
<1>1. IsFiniteSet(T)
  BY FS_Interval DEF PopulationDrawn
<1>2. \A i \in T : /\ h[i] = PlannedOf(i) /\ h[i] \in Int /\ B[i] = BillsOf(i)
                   /\ B[i] \in SUBSET AllBills /\ Cardinality(B[i]) = h[i]
  BY BillsOfPlan DEF BillsOf
<1>3. h \in [T -> Int] /\ f \in [AllBills -> Int]
  BY <1>2
<1>4. PICK k : Adds(h, T, k) /\ Planned = k[T]
  BY <1>1, <1>3, PlannedAdds
<1>5. \A b \in AllBills : f[b] = 1 /\ f[b] \in Int
  OBVIOUS
<1>6. UNION {B[i] : i \in T} = AllBills
  BY BillIs DEF BillsOf
<1>7. \A i, j \in T : i # j => B[i] \cap B[j] = {}
  BY <1>2 DEF BillsOf
<1> HIDE DEF T, h, f, B
<1>8. PICK g : Adds(f, AllBills, g)
  BY <1>3, SumExists
<1>9. ASSUME NEW U \in SUBSET AllBills PROVE g[U] = Cardinality(U)
  <2>1. IsFiniteSet(U) /\ Cardinality(U) \in Nat
    BY FS_Subset, FS_CardinalityType
  <2>2. \A b \in U : f[b] = 1
    BY <1>5
  <2>3. g[U] = 1 * Cardinality(U)
    BY <1>8, <2>2, SumOfEqual
  <2> QED
    BY <2>1, <2>3
<1>10. \A i \in T : B[i] \in SUBSET AllBills /\ h[i] = g[B[i]]
  BY <1>2, <1>9
<1>11. k[T] = g[UNION {B[i] : i \in T}]
  BY <1>1, <1>4, <1>5, <1>7, <1>8, <1>10, SumOfFibers
<1> QED
  BY <1>4, <1>6, <1>9, <1>11

-----------------------------------------------------------------------------
(* The summary is backed by the invoices.                                  *)

\* What is historical leaves out no row of a halt that ended.
LEMMA HistoricalIsWhole ==
  ASSUME WorldInv
  PROVE  {r \in rows : subs[r.sub].eps[r.ep].react # NoDay} \in SUBSET Historical
<1>1. SubsKept /\ RowsKept
  BY DEF WorldInv
<1> SUFFICES ASSUME NEW r \in rows, subs[r.sub].eps[r.ep].react # NoDay
             PROVE  r \in Historical
  OBVIOUS
<1>2. r.sub \in 1..next /\ r.ep \in 1..Len(subs[r.sub].eps)
  BY <1>1 DEF RowsKept
<1>3. r.sub \in DOMAIN subs /\ subs[r.sub] \in Sub
  BY <1>1, <1>2 DEF SubsKept
<1>4. subs[r.sub].eps \in Seq(Episode)
  BY <1>3 DEF Sub
<1>5. r.ep \in DOMAIN subs[r.sub].eps
  BY <1>2, <1>4
<1>6. r.ep \in ClosedEpisodes
  BY <1>3, <1>5 DEF ClosedEpisodes
<1> QED
  BY <1>6 DEF Historical

LEMMA PlannedIsPosted ==
  ASSUME WorldInv, HistoryInv, AllPosted
  PROVE  Planned = Cardinality(rows) + Cardinality({x \in refused : x.event.type = "invoice"})
<1>1. PopulationDrawn /\ BillsKept
  BY HistoryParts DEF WorldInv
<1>2. \A x \in refused : x.event.type = "invoice"
  <2> TAKE x \in refused
  <2>1. PICK i \in 1..Count : \E n \in Halts(i) : \E k \in 1..Cycles(i, n) :
          x = RefusalOf(i, n, k) /\ IsBilled(i, n, k)
    BY <1>1 DEF BillsKept, RefusedAreBills
  <2>2. PICK n \in Halts(i) : \E k \in 1..Cycles(i, n) :
          x = RefusalOf(i, n, k) /\ IsBilled(i, n, k)
    BY <2>1
  <2> QED
    BY <2>2 DEF RefusalOf, BillOf
<1>3. {x \in refused : x.event.type = "invoice"} = refused
  BY <1>2
<1> QED
  BY <1>1, <1>3, AllBillsAre, PlannedIsAll

LEMMA SummaryIsBacked ==
  ASSUME WorldInv, HistoryInv, SummaryKept
  PROVE  SummaryIsBackedByInvoices
<1> DEFINE ended == {r \in rows : subs[r.sub].eps[r.ep].react # NoDay}
<1> SUFFICES ASSUME summary.made
             PROVE  /\ summary.at_risk <= summary.collectible
                    /\ summary.historical >= AmountOf(ended)
                    /\ summary.planned = Cardinality(rows) +
                         Cardinality({x \in refused : x.event.type = "invoice"})
                    /\ ~broken =>
                         /\ summary.at_risk = summary.collectible
                         /\ \A key \in HarnessKeys :
                              HarnessCase(key[1], key[2]).collectible > 0 =>
                                \/ \E c \in cases : c.key = key /\ IsStrategyEligible(c)
                                \/ RefusedOf(key[1], key[2], "DELIVERED") # {}
  BY DEF SummaryIsBackedByInvoices
<1>1. /\ AllPosted /\ Unstamped = {}
      /\ summary.planned = Planned
      /\ summary.historical = AmountOf(Historical)
      /\ summary.collectible = AmountOf(Judged)
      /\ summary.at_risk = AtRisk
  BY DEF SummaryKept, NoSummary
<1>2. PopulationDrawn /\ BillsKept /\ IsFiniteSet(rows)
  BY HistoryParts DEF WorldInv
<1>3. AmountOfRow \in [rows -> Int] /\ \A r \in rows : AmountOfRow[r] \in Nat
  BY <1>2, RowAmounts
<1>4. PICK g : Adds(AmountOfRow, rows, g)
  BY <1>2, <1>3, SumExists
<1>5. /\ AtRisk = g[AllBacking]
      /\ AllBacking \in SUBSET Judged /\ Judged \in SUBSET rows /\ Historical \in SUBSET rows
  BY <1>4, RiskIsBacked
<1>6. ended \in SUBSET Historical /\ ended \in SUBSET rows
  BY HistoricalIsWhole
<1> HIDE DEF ended
<1>7. /\ AmountOf(Historical) = g[Historical] /\ AmountOf(Judged) = g[Judged]
      /\ AmountOf(ended) = g[ended]
  BY <1>2, <1>4, <1>5, <1>6, AmountOfRows
<1>8. \A U, T \in SUBSET rows : T \subseteq U => g[T] <= g[U]
  <2> TAKE U, T \in SUBSET rows
  <2> HAVE T \subseteq U
  <2>1. /\ \A r \in rows : AmountOfRow[r] \in Int
        /\ \A r \in U : AmountOfRow[r] >= 0
    BY <1>3
  <2> QED
    BY <1>2, <1>4, <2>1, SumGrows
<1>9. g[AllBacking] <= g[Judged]
  BY <1>5, <1>8
<1>10. g[Historical] >= g[ended]
  <2>1. g[Historical] \in Int /\ g[ended] \in Int
    BY <1>4, <1>5, <1>6, SumIsInt
  <2>2. g[ended] <= g[Historical]
    BY <1>5, <1>6, <1>8
  <2> QED
    BY <2>1, <2>2
<1>11. ~broken => g[Judged] = g[AllBacking]
  BY <1>4, RiskIsWhole
<1>12. ~broken =>
         \A key \in HarnessKeys :
           HarnessCase(key[1], key[2]).collectible > 0 =>
             \/ \E c \in cases : c.key = key /\ IsStrategyEligible(c)
             \/ RefusedOf(key[1], key[2], "DELIVERED") # {}
  BY <1>1, KeysHaveCases
<1>13. Planned = Cardinality(rows) +
         Cardinality({x \in refused : x.event.type = "invoice"})
  BY <1>1, PlannedIsPosted
<1> QED
  BY <1>1, <1>5, <1>7, <1>9, <1>10, <1>11, <1>12, <1>13

LEMMA SummaryKeptIsInvariant == Spec => [](WorldInv /\ HistoryInv /\ SummaryKept)
<1>1. Init => WorldInv /\ HistoryInv /\ SummaryKept
  BY WorldInvInit, HistoryInvInit DEF Init, SummaryKept
<1>2. WorldInv /\ HistoryInv /\ SummaryKept /\ [Next]_worldVars
        => (WorldInv /\ HistoryInv /\ SummaryKept)'
  BY WorldInvNext, HistoryInvNext, SummaryStays
<1> QED
  BY <1>1, <1>2, PTL DEF Spec

\* The case a halt gets, once it is stamped with its seed-stable key, is the case the
\* evaluation harness builds under that key from the plan alone, less what ingestion
\* refused, whatever windows failed; and the training data observes the same backlog
\* and days (_stamp_synthetic_identities against _one_case and _observation).
THEOREM StampedCasesAreTheHarness == Spec => []StampedCaseIsTheHarness
BY HistoryInvIsInvariant, HistoryHasTheHarness, PTL

\* The summary of a run never puts at risk what no invoice backs, plans the invoices
\* that were posted, and leaves out none of a halt that ended; when no window failed,
\* what is at risk is what the invoices say is collectible, and every halt of the
\* harness with something to collect has its case (_summarise).
THEOREM SummariesAreBacked == Spec => []SummaryIsBackedByInvoices
BY SummaryKeptIsInvariant, SummaryIsBacked, PTL
=============================================================================
