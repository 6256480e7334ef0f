------------------------------ MODULE AuditTrail ------------------------------
(***************************************************************************)
(* The audit trail of ingestion.  A line is written by two calls: the next *)
(* number of the subscription, by $inc, and the insert.  A worker awaits   *)
(* the lines of what it has just done before it does anything else, so     *)
(* here the steps of Ledger leave lines due and the lines are written in   *)
(* between.  The lines of recovery and of the agent are numbered likewise, *)
(* from the same counter; they are left out.                               *)
(***************************************************************************)
EXTENDS Ledger, FiniteSets

CONSTANT MaxLines  \* bound: no request is taken once a trail is this long

ASSUME TrailAssumption == MaxLines \in Nat

VARIABLES
  seq,    \* audit_seq of each subscription document
  trail,  \* audit_logs collection: a set of lines
  due,    \* the lines each worker has still to write before it goes on
  held    \* the number it has allocated for the first of them, 0 for none

trailVars == <<seq, trail, due, held>>
allVars == <<vars, trailVars>>

\* What a line is about: an event, and an episode where its details name one.
LineTypes == {"EVENT_RECEIVED", "EVENT_DUPLICATE", "STATE_NO_OP",
              "STATE_TRANSITION", "HALT_EPISODE_OPENED", "HALT_EPISODE_CLOSED",
              "INVOICE_RECORDED", "INVOICE_PAID", "EVENT_PROCESSED",
              "EVENT_REJECTED"}

Entry == [sub : Subs, type : LineTypes, event : EventIds, ep : Nat]

Line == [seq : Nat \ {0}, entry : Entry]

-----------------------------------------------------------------------------
TrailInit ==
  /\ Init
  /\ seq = [s \in Subs |-> 0]
  /\ trail = {}
  /\ due = [w \in Workers |-> <<>>]
  /\ held = [w \in Workers |-> 0]

About(w, type, ep) == [sub |-> ev[w].sub, type |-> type, event |-> ev[w].id, ep |-> ep]

Tell(w, type) == About(w, type, NoEpisode)

Owes(w, entries) ==
  /\ due' = [due EXCEPT ![w] = entries]
  /\ UNCHANGED <<seq, trail, held>>

\* Fault: the episode is told before the move that opened or closed it.
EpisodeTold(w) ==
  (IF Opens(snap[w].status, ev[w].type)
   THEN <<About(w, "HALT_EPISODE_OPENED", NewEpisode(w)[1].id)>> ELSE <<>>) \o
  <<Tell(w, "STATE_TRANSITION")>>

\* The lines of a transition: the move, the episode it opened, the one it
\* believes it closed.
Moved(w) ==
  <<Tell(w, "STATE_TRANSITION")>> \o
  (IF Opens(snap[w].status, ev[w].type)
   THEN <<About(w, "HALT_EPISODE_OPENED", NewEpisode(w)[1].id)>> ELSE <<>>) \o
  (IF Closes(snap[w].status, ev[w].type)
   THEN <<About(w, "HALT_EPISODE_CLOSED",
                IF Updated(w).eps = <<>> THEN NoEpisode
                ELSE JustClosed(Updated(w), ev[w].at).id)>> ELSE <<>>)

Recorded(w) == <<About(w, "INVOICE_RECORDED", LineageOf(w))>>

\* Fault: the move is told before it is known to have won.
TellEarly(w) ==
  \/ /\ \/ RejectStale(w) \/ RejectIllegal(w) \/ HookReturns(w)
        \/ RefuseInvoice(w) \/ InvoiceNotFound(w) \/ NoteOrRefusePayload(w)
     /\ Owes(w, <<>>)
  \/ TransitionLost(w) /\ Owes(w, <<Tell(w, "STATE_TRANSITION")>>)

\* Refusals are told when the verdict is stored, and not before.
Silent(w) ==
  /\ \/ RejectStale(w) \/ RejectIllegal(w) \/ TransitionLost(w) \/ HookReturns(w)
     \/ RefuseInvoice(w) \/ InvoiceNotFound(w) \/ NoteOrRefusePayload(w)
  /\ Owes(w, <<>>)

Telling(w) ==
  \/ Claim(w) /\ Owes(w, <<Tell(w, "EVENT_RECEIVED")>>)
  \/ Duplicate(w) /\ Owes(w, <<Tell(w, "EVENT_DUPLICATE")>>)
  \/ NoOp(w) /\ Owes(w, <<Tell(w, "STATE_NO_OP")>>)
  \/ Transition(w) /\ Owes(w, Moved(w))
  \/ InsertInvoice(w) /\ Owes(w, IF LineageOf(w) = NoEpisode THEN Recorded(w) ELSE <<>>)
  \/ AttachInvoice(w) /\ Owes(w, Recorded(w))
  \/ SettleInvoice(w) /\ Owes(w, IF invoices' = invoices THEN <<>>
                                 ELSE <<Tell(w, "INVOICE_PAID")>>)
  \/ Mark(w) /\ Owes(w, <<Tell(w, IF res[w] \in Processed THEN "EVENT_PROCESSED"
                                  ELSE "EVENT_REJECTED")>>)

\* Fault: the number is read off the trail and not counted.
NumberFromTrail(w) ==
  LET s == Head(due[w]).sub IN
  /\ due[w] # <<>>
  /\ held[w] = 0
  /\ held' = [held EXCEPT ![w] =
       Cardinality({l \in trail : l.entry.sub = s}) + 1]
  /\ seq' = [seq EXCEPT ![s] = @ + 1]
  /\ UNCHANGED <<vars, trail, due>>

\* subscriptions.next_audit_seq.
Number(w) ==
  LET s == Head(due[w]).sub IN
  /\ due[w] # <<>>
  /\ held[w] = 0
  /\ seq' = [seq EXCEPT ![s] = @ + 1]
  /\ held' = [held EXCEPT ![w] = seq[s] + 1]
  /\ UNCHANGED <<vars, trail, due>>

\* audit.append.
AppendLine(w) ==
  /\ held[w] # 0
  /\ trail' = trail \cup {[seq |-> held[w], entry |-> Head(due[w])]}
  /\ due' = [due EXCEPT ![w] = Tail(@)]
  /\ held' = [held EXCEPT ![w] = 0]
  /\ UNCHANGED <<vars, seq>>

\* The process dies, or either call raises: the number it held is lost, and
\* what it still had to tell is never told.
Dies(w) ==
  /\ \/ Crash(w)
     \/ pc[w] = "idle" /\ due[w] # <<>> /\ UNCHANGED vars
  /\ due' = [due EXCEPT ![w] = <<>>]
  /\ held' = [held EXCEPT ![w] = 0]
  /\ UNCHANGED <<seq, trail>>

Takes(w) ==
  \E e \in Feed : /\ seq[e.sub] < MaxLines
                  /\ due[w] = <<>>
                  /\ Receive(w, e)
                  /\ UNCHANGED trailVars

\* Fault: the lines are handed to a task that nobody awaits.
WorkUnawaited(w) ==
  /\ held[w] = 0
  /\ Silent(w) \/ Telling(w)

\* A worker goes on when the lines of its last step are written.
Work(w) ==
  /\ due[w] = <<>>
  /\ Silent(w) \/ Telling(w)

TrailNext ==
  \/ (\E s \in Named, status \in Statuses : Create(s, status)) /\ UNCHANGED trailVars
  \/ \E w \in Workers :
       Takes(w) \/ Work(w) \/ Number(w) \/ AppendLine(w) \/ Dies(w)

TrailSpec == TrailInit /\ [][TrailNext]_allVars

-----------------------------------------------------------------------------
(* Correctness.                                                            *)

\* No two lines ever claim one place, neither written nor about to be, so the
\* unique index of audit_logs has nothing to refuse and no request fails on it.
OneLinePerNumber ==
  /\ \A l, m \in trail : l.entry.sub = m.entry.sub /\ l.seq = m.seq => l = m
  /\ \A w \in Workers : held[w] # 0 =>
       /\ \A l \in trail : l.entry.sub = due[w][1].sub => l.seq # held[w]
       /\ \A v \in Workers \ {w} :
            held[v] = held[w] => due[v][1].sub # due[w][1].sub

\* A line says only what happened: the move it tells was committed, its episode
\* and its lineage are in the ledger, its verdict is the one stored.
LinesAreTrue ==
  \A l \in trail :
    LET e == l.entry
        Told(type) == e.type = type
    IN
    /\ Told("STATE_TRANSITION") =>
         \E i \in DOMAIN history[e.sub] : history[e.sub][i].id = e.event
    /\ Told("HALT_EPISODE_OPENED") =>
         \E i \in DOMAIN subs[e.sub].eps : subs[e.sub].eps[i].id = e.ep
    /\ Told("HALT_EPISODE_CLOSED") /\ e.ep # NoEpisode =>
         \E i \in DOMAIN subs[e.sub].eps :
           subs[e.sub].eps[i].id = e.ep /\ ~IsOpen(subs[e.sub].eps[i])
    /\ Told("INVOICE_RECORDED") =>
         \E r \in invoices : r.sub = e.sub /\ r.ep = e.ep
    /\ Told("EVENT_PROCESSED") => store[e.event] \in Processed
    /\ Told("EVENT_REJECTED") => store[e.event] \in Rejected

\* The trail is written ahead of the verdict: by the time an event's verdict is
\* stored, its receipt and the move it made are in the trail, whatever died.
VerdictsAreAccountedFor ==
  \A i \in EventIds : store[i] \in Verdicts =>
    /\ \E l \in trail : l.entry.event = i /\ l.entry.type = "EVENT_RECEIVED"
    /\ \A s \in Subs : \A n \in DOMAIN history[s] : history[s][n].id = i =>
         \E l \in trail : l.entry.event = i /\ l.entry.type = "STATE_TRANSITION"

Rank == [type \in LineTypes \ {"EVENT_DUPLICATE"} |->
  CASE type = "EVENT_RECEIVED"                          -> 1
    [] type \in {"STATE_TRANSITION", "STATE_NO_OP"}      -> 2
    [] type \in {"EVENT_PROCESSED", "EVENT_REJECTED"}    -> 4
    [] OTHER                                             -> 3]

ToldOnce ==
  \A l, m \in trail :
    LET kinds == {l.entry.type, m.entry.type} IN
    (/\ l.entry.event = m.entry.event
     /\ \/ l.entry.type = m.entry.type /\ l.entry.type # "EVENT_DUPLICATE"
        \/ kinds = {"EVENT_PROCESSED", "EVENT_REJECTED"})
    => l = m

\* Redelivery repeats nothing but EVENT_DUPLICATE: of each other kind an event
\* has at most one line, and never both verdicts.  And sorted by number, the lines
\* of one event tell what its worker did in the order in which it did it.
EachStoryInOrder ==
  /\ ToldOnce
  /\ \A l, m \in trail :
       (/\ l.entry.event = m.entry.event
        /\ {l.entry.type, m.entry.type} \subseteq DOMAIN Rank
        /\ Rank[l.entry.type] < Rank[m.entry.type])
       => l.seq < m.seq

=============================================================================
