------------------------- MODULE ApprovalGateProofs -------------------------
(* Theorems about ApprovalGate, for any number of calls and tickets. A call   *)
(* only ever touches tickets of its own, so the invariant is kept for all     *)
(* others at once (CallIsLocal), and action by action only for one call.      *)
EXTENDS ApprovalGate, TLAPS

Asking  == {"queued", "asked", "reviewing", "waiting"}
Holding == Asking \cup {"replaying"}
Someone == {"user", "telegram", "auto_review"}

\* A call at the gate has a ticket of its own; nobody has replayed one it still asks with.
Held(c) ==
    call[c].phase \in Holding =>
      LET t == call[c].ticket IN
        /\ t \in Tickets /\ ticket[t].status # "none" /\ ticket[t].call = c
        /\ call[c].phase \in Asking => replay[t] = "idle"
        /\ call[c].phase = "reviewing" => call[c].snap.kind = "approval"
        /\ call[c].phase \in {"reviewing", "waiting", "replaying"} => call[c].hop < MaxHops

\* While a call asks, the decision left for it is the one its ticket records.
Answers(d) == CASE d = "deny" -> "denied" [] d \in {"once", "session", "always"} -> "granted"
                [] OTHER -> d
OnRecord(c) ==
    call[c].phase \in Asking =>
      LET t == call[c].ticket
          d == resume[t].decision
      IN  /\ call[c].phase = "waiting" => resume[t].event = (IF d = "" THEN "clear" ELSE "set")
          /\ d = "" => ticket[t].status \in {"pending", "expired"}
          /\ d # "" => \/ ticket[t].status = Answers(d)
                       \/ /\ d = "deny" /\ ticket[t].old /\ c \in Unattended
                          /\ call[c].phase = "waiting"

\* A call reported as applied has acted under a ticket of its own.
Acted(c) ==
    call[c].phase = "done" /\ call[c].outcome = "applied" =>
      \E t \in Tickets : /\ ticket[t].call = c /\ ticket[t].status # "none"
                         /\ history.effects[t] = 1

\* A ticket that is not created yet has no event, decision or replay.
Unused(t) == ticket[t].status = "none" => replay[t] = "idle" /\ resume[t] = Quiet

\* Only an approval is approved, by somebody.
Approved(t) == ticket[t].status = "approved" => ticket[t].kind = "approval" /\ ticket[t].by \in Someone

\* An effect happens once, under a claim; a claim is of an approved ticket and outlives it.
Claimed(t) ==
    /\ history.effects[t] \in {0, 1}
    /\ replay[t] \in {"idle", "checking", "claimed"} => history.effects[t] = 0
    /\ replay[t] = "acted" \/ ticket[t].status = "applied" => history.effects[t] = 1
    /\ replay[t] \in {"claimed", "acted"} \/ history.effects[t] = 1 =>
          /\ ticket[t].kind = "approval" /\ ticket[t].by \in Someone
          /\ ticket[t].status \in {"approved", "applied", "failed"}
    /\ history.effects[t] = 1 /\ ticket[t].human => ticket[t].by = "user"

\* What a thread may still do, or has done, is known to the call it works for.
Known(t) ==
    LET c == ticket[t].call IN
    /\ replay[t] \in {"checking", "claimed"} =>
         \/ call[c].phase = "replaying" /\ call[c].ticket = t
         \/ call[c].phase = "done" /\ call[c].outcome = "stopped"
    /\ history.effects[t] = 1 =>
         \/ call[c].phase = "replaying" /\ call[c].ticket = t
         \/ call[c].phase = "done" /\ call[c].outcome \in {"applied", "failed", "stopped"}

GrantsAreCounted == history.used + (IF access.row = "once" THEN 1 ELSE 0) <= history.given

OfCall(c)   == Held(c) /\ OnRecord(c) /\ Acted(c)
OfTicket(t) == Unused(t) /\ Approved(t) /\ Claimed(t) /\ Known(t)

GateIInv ==
    /\ ApprovalTypeOK /\ GrantsAreCounted
    /\ \A c \in Calls : OfCall(c)
    /\ \A t \in Tickets : OfTicket(t)

-----------------------------------------------------------------------------
(* Rows: what the operations of the brokers return. *)

TicketTables == [Tickets -> TicketRows]
ResumeTables == [Tickets -> ResumeRows]

\* The table n differs from tk in the status and the decider of t alone.
DiffersAt(n, tk, t) ==
    /\ n \in TicketTables
    /\ \A s \in Tickets : s # t => n[s] = tk[s]
    /\ n[t].kind = tk[t].kind /\ n[t].call = tk[t].call
    /\ n[t].human = tk[t].human /\ n[t].old = tk[t].old

LEMMA ConstantRows ==
    NoTicket \in TicketRows /\ Quiet \in ResumeRows
BY GateAssumption DEF NoTicket, TicketRows, Quiet, ResumeRows, Statuses, Kinds, Deciders, Decisions

LEMMA StatusRow ==
    ASSUME NEW x \in TicketRows, NEW st \in Statuses
    PROVE  /\ [x EXCEPT !.status = st] \in TicketRows
           /\ [x EXCEPT !.status = st].status = st
           /\ [x EXCEPT !.status = st].by = x.by
           /\ [x EXCEPT !.status = st].kind = x.kind
           /\ [x EXCEPT !.status = st].call = x.call
           /\ [x EXCEPT !.status = st].human = x.human
           /\ [x EXCEPT !.status = st].old = x.old
BY DEF TicketRows

LEMMA SettledTable ==
    ASSUME NEW tk \in TicketTables, NEW t \in Tickets, NEW st \in Statuses, NEW who \in Deciders
    PROVE  /\ DiffersAt(Settled(tk, t, st, who), tk, t)
           /\ tk[t].status = "pending" =>
                 Settled(tk, t, st, who)[t].status = st /\ Settled(tk, t, st, who)[t].by = who
           /\ tk[t].status # "pending" => Settled(tk, t, st, who) = tk
<1>1. CASE tk[t].status = "pending"
  BY <1>1 DEF Settled, Pending, DiffersAt, TicketTables, TicketRows
<1>2. CASE tk[t].status # "pending"
  BY <1>2 DEF Settled, Pending, DiffersAt, TicketTables
<1> QED BY <1>1, <1>2

LEMMA FailedTable ==
    ASSUME NEW tk \in TicketTables, NEW t \in Tickets
    PROVE  /\ DiffersAt(Failed(tk, t), tk, t)
           /\ Failed(tk, t)[t].status = "failed" /\ Failed(tk, t)[t].by = tk[t].by
BY DEF Failed, DiffersAt, TicketTables, TicketRows, Statuses

LEMMA SameTable ==
    ASSUME NEW tk \in TicketTables, NEW t \in Tickets
    PROVE  DiffersAt(tk, tk, t)
BY DEF DiffersAt

LEMMA SomeConstants ==
    /\ {"pending", "expired", "denied", "rejected", "approved", "granted", "superseded", "failed", "applied"}
         \subseteq Statuses
    /\ {"", "system", "auto_review", "user", "telegram"} \subseteq Deciders
    /\ {"", "approved", "rejected", "superseded", "once", "session", "always", "deny"} \subseteq Decisions
BY DEF Statuses, Deciders, Decisions

LEMMA RetiredTable ==
    ASSUME NEW tk \in TicketTables, NEW t \in Tickets
    PROVE  /\ DiffersAt(Retired(tk, t), tk, t)
           /\ Retired(tk, t)[t] = tk[t] \/ Retired(tk, t)[t].status = "expired"
<1>1. DiffersAt(Settled(tk, t, "expired", ""), tk, t)
      /\ (Settled(tk, t, "expired", "") = tk \/ Settled(tk, t, "expired", "")[t].status = "expired")
  BY SettledTable, SomeConstants
<1> QED BY <1>1, SameTable DEF Retired

LEMMA WithdrawnTable ==
    ASSUME ticket \in TicketTables, NEW t \in Tickets
    PROVE  /\ DiffersAt(Withdrawn(t), ticket, t)
           /\ \/ Withdrawn(t)[t] = ticket[t]
              \/ Withdrawn(t)[t].status \in {"denied", "failed", "rejected"}
<1>1. DiffersAt(Settled(ticket, t, "denied", ""), ticket, t)
      /\ (Settled(ticket, t, "denied", "") = ticket \/ Settled(ticket, t, "denied", "")[t].status = "denied")
  BY SettledTable, SomeConstants
<1>2. DiffersAt(Settled(ticket, t, "rejected", "system"), ticket, t)
      /\ \/ Settled(ticket, t, "rejected", "system") = ticket
         \/ Settled(ticket, t, "rejected", "system")[t].status = "rejected"
  BY SettledTable, SomeConstants
<1>3. DiffersAt(Failed(ticket, t), ticket, t) /\ Failed(ticket, t)[t].status = "failed"
  BY FailedTable
<1> QED BY <1>1, <1>2, <1>3, SameTable DEF Withdrawn

LEMMA CleanedTable ==
    ASSUME NEW r \in ResumeTables, NEW t \in Tickets
    PROVE  /\ Cleaned(r, t) \in ResumeTables /\ Cleaned(r, t)[t] = Quiet
           /\ \A s \in Tickets : s # t => Cleaned(r, t)[s] = r[s]
BY ConstantRows DEF Cleaned, ResumeTables

LEMMA SignalTable ==
    ASSUME NEW r \in ResumeTables, NEW t \in Tickets, NEW d \in Decisions
    PROVE  /\ Signal(r, t, d) \in ResumeTables
           /\ Signal(r, t, d)[t].decision = d
           /\ Signal(r, t, d)[t].event = IF r[t].event = "none" THEN "none" ELSE "set"
           /\ \A s \in Tickets : s # t => Signal(r, t, d)[s] = r[s]
BY DEF Signal, ResumeTables, ResumeRows

LEMMA RegisteredTable ==
    ASSUME NEW r \in ResumeTables, NEW t \in Tickets
    PROVE  /\ Registered(r, t) \in ResumeTables
           /\ Registered(r, t)[t].decision = r[t].decision
           /\ Registered(r, t)[t].event = IF r[t].decision = "" THEN "clear" ELSE "set"
           /\ \A s \in Tickets : s # t => Registered(r, t)[s] = r[s]
BY DEF Registered, ResumeTables, ResumeRows

\* The table x has the new ticket n, the tickets it replaces superseded, and the others of tk.
HasNew(x, c, kind, human, n, tk) ==
    /\ x \in TicketTables
    /\ x[n].status = "pending" /\ x[n].kind = kind /\ x[n].call = c
    /\ x[n].human = human /\ x[n].old = FALSE
    /\ \A s \in Tickets : s # n =>
         /\ s \notin Replaced(c, kind) => x[s] = tk[s]
         /\ s \in Replaced(c, kind) => /\ x[s].status = "superseded" /\ x[s].kind = tk[s].kind
                                       /\ x[s].call = tk[s].call /\ x[s].human = tk[s].human
                                       /\ x[s].old = tk[s].old

LEMMA CreatedTable ==
    ASSUME NEW c \in Calls, NEW kind \in Kinds, NEW human \in BOOLEAN,
           NEW n \in Fresh, NEW tk \in TicketTables
    PROVE  HasNew(Created(c, kind, human, n, tk), c, kind, human, n, tk)
<1> DEFINE new    == [NoTicket EXCEPT !.status = "pending", !.kind = kind, !.call = c, !.human = human]
           old(s) == [tk[s] EXCEPT !.status = "superseded"]
<1>1. n \in Tickets BY DEF Fresh
<1>2. /\ new \in TicketRows /\ new.status = "pending" /\ new.kind = kind /\ new.call = c
      /\ new.human = human /\ new.old = FALSE
  <2>1. NoTicket \in TicketRows /\ NoTicket.old = FALSE BY ConstantRows DEF NoTicket
  <2>2. "pending" \in Statuses BY DEF Statuses
  <2> HIDE DEF new
  <2> QED BY <2>1, <2>2 DEF TicketRows, new
<1>3. ASSUME NEW s \in Tickets
      PROVE  /\ old(s) \in TicketRows /\ old(s).status = "superseded" /\ old(s).kind = tk[s].kind
             /\ old(s).call = tk[s].call /\ old(s).human = tk[s].human /\ old(s).old = tk[s].old
  <2>1. tk[s] \in TicketRows BY DEF TicketTables
  <2>2. "superseded" \in Statuses BY DEF Statuses
  <2> QED BY <2>1, <2>2, StatusRow
<1>4. \A s \in Tickets : tk[s] \in TicketRows BY DEF TicketTables
<1>5. /\ Created(c, kind, human, n, tk) =
             [s \in Tickets |-> Created(c, kind, human, n, tk)[s]]
      /\ \A s \in Tickets : Created(c, kind, human, n, tk)[s] =
             IF s = n THEN new ELSE IF s \in Replaced(c, kind) THEN old(s) ELSE tk[s]
  BY DEF Created
<1> HIDE DEF new, old
<1>6. \A s \in Tickets : Created(c, kind, human, n, tk)[s] \in TicketRows
  BY <1>2, <1>3, <1>4, <1>5
<1>7. Created(c, kind, human, n, tk) \in TicketTables BY <1>5, <1>6 DEF TicketTables
<1> QED BY <1>1, <1>2, <1>3, <1>5, <1>7 DEF HasNew

LEMMA SupersededTable ==
    ASSUME resume \in ResumeTables, NEW c \in Calls, NEW kind \in Kinds
    PROVE  /\ Superseded(c, kind) \in ResumeTables
           /\ \A s \in Tickets : s \notin Replaced(c, kind) => Superseded(c, kind)[s] = resume[s]
           /\ \A s \in Replaced(c, kind) : Superseded(c, kind)[s].decision = "superseded"
<1>1. ASSUME NEW s \in Tickets
      PROVE  /\ Signal(resume, s, "superseded") \in ResumeTables
             /\ Signal(resume, s, "superseded")[s].decision = "superseded"
  <2>1. "superseded" \in Decisions BY DEF Decisions
  <2> QED BY <2>1, SignalTable
<1>2. Replaced(c, kind) \subseteq Tickets BY DEF Replaced
<1> QED BY <1>1, <1>2 DEF Superseded, ResumeTables

CallTables == [Calls -> CallRows]

\* The table n differs from that of the calls in the row of c alone.
MovesOnly(n, c) == n \in CallTables /\ \A d \in Calls : d # c => n[d] = call[d]

LEMMA SomePhases ==
    /\ {"running", "admitted", "queued", "asked", "reviewing", "waiting", "replaying", "done"} \subseteq Phases
    /\ {"", "ran", "applied", "failed", "denied", "cancelled", "timeout", "unknown", "hops", "stopped"}
         \subseteq Outcomes
BY DEF Phases, Outcomes

LEMMA GotoTable ==
    ASSUME call \in CallTables, NEW c \in Calls, NEW p \in Phases, Goto(c, p)
    PROVE  /\ MovesOnly(call', c)
           /\ call'[c].phase = p /\ call'[c].ticket = call[c].ticket
           /\ call'[c].hop = call[c].hop /\ call'[c].outcome = call[c].outcome
BY ConstantRows DEF Goto, MovesOnly, CallTables, CallRows

LEMMA EndTable ==
    ASSUME call \in CallTables, NEW c \in Calls, NEW o \in Outcomes
    PROVE  /\ MovesOnly(End(c, o), c)
           /\ End(c, o)[c].phase = "done" /\ End(c, o)[c].outcome = o
<1>1. "done" \in Phases BY DEF Phases
<1> QED BY <1>1, ConstantRows, ZenonT(30) DEF End, MovesOnly, CallTables, CallRows

LEMMA ReturnTable ==
    ASSUME call \in CallTables, NEW c \in Calls, NEW t \in Tickets
    PROVE  /\ MovesOnly(Return(c, t), c)
           /\ Return(c, t)[c].phase = "queued" /\ Return(c, t)[c].ticket = t
           /\ Return(c, t)[c].hop = call[c].hop
<1>1. "queued" \in Phases BY DEF Phases
<1> QED BY <1>1 DEF Return, MovesOnly, CallTables, CallRows

-----------------------------------------------------------------------------
(* A step of a call: what it may do to its own tickets, and that it leaves   *)
(* those of the other calls alone.                                           *)

ReplayTables == [Tickets -> {"idle", "checking", "claimed", "acted", "finished"}]
AccessRows   == [row : {"none", "once", "session"}, policy : {"ask", "open", "blocked"}]
HistoryRows  == [effects : [Tickets -> Nat], given : Nat, used : Nat]

\* What may become of a ticket that exists.
Changes(t) ==
    /\ ticket'[t].kind = ticket[t].kind /\ ticket'[t].call = ticket[t].call
    /\ ticket'[t].human = ticket[t].human
    /\ ticket[t].old => ticket'[t].old
    /\ \/ ticket'[t].status = ticket[t].status /\ ticket'[t].by = ticket[t].by
       \/ /\ ticket[t].status = "pending"
          /\ ticket'[t].status \in {"rejected", "denied", "expired", "superseded", "granted"}
       \/ /\ ticket[t].status = "pending" /\ ticket[t].kind = "approval"
          /\ ticket'[t].status = "approved" /\ ticket'[t].by \in Someone
       \/ /\ ticket[t].status \in {"approved", "applied", "failed"}
          /\ ticket'[t].status = "failed" /\ ticket'[t].by = ticket[t].by
       \/ /\ ticket[t].status = "approved" /\ history.effects[t] = 1
          /\ ticket'[t].status = "applied" /\ ticket'[t].by = ticket[t].by

Kept(t) == ticket'[t] = ticket[t] /\ resume'[t] = resume[t] /\ replay'[t] = replay[t]

\* A ticket that does not exist stays so, or is created.
Appears(t) ==
    /\ resume'[t] = resume[t] /\ replay'[t] = replay[t]
    /\ ticket'[t] = ticket[t] \/ ticket'[t].status = "pending"

Local(c) ==
    /\ ticket' \in TicketTables /\ resume' \in ResumeTables /\ replay' \in ReplayTables
    /\ MovesOnly(call', c) /\ access' \in AccessRows /\ turn' = turn
    /\ history' \in HistoryRows /\ history'.effects = history.effects
    /\ \A t \in Tickets :
         /\ ticket[t].status = "none" => Appears(t)
         /\ ticket[t].status # "none" => Changes(t) /\ (ticket[t].call # c => Kept(t))

LEMMA Tables ==
    ASSUME ApprovalTypeOK
    PROVE  /\ ticket \in TicketTables /\ resume \in ResumeTables /\ replay \in ReplayTables
           /\ call \in CallTables /\ access \in AccessRows /\ history \in HistoryRows
BY DEF ApprovalTypeOK, TicketTables, ResumeTables, ReplayTables, CallTables, AccessRows, HistoryRows

\* A step of the gate: the ticket of the call changes, and the event it waits on.
LEMMA GateStep ==
    ASSUME GateIInv, NEW c \in Calls, NEW t \in Tickets,
           ticket[t].status # "none", ticket[t].call = c,
           DiffersAt(ticket', ticket, t), Changes(t),
           resume' \in ResumeTables, \A s \in Tickets : s # t => resume'[s] = resume[s],
           MovesOnly(call', c), UNCHANGED <<replay, access, turn, history>>
    PROVE  Local(c)
<1>1. replay \in ReplayTables /\ access \in AccessRows /\ history \in HistoryRows
  BY Tables DEF GateIInv
<1>2. ticket' \in TicketTables /\ \A s \in Tickets : s # t => ticket'[s] = ticket[s]
  BY DEF DiffersAt
<1>3. ASSUME NEW s \in Tickets, s # t PROVE Kept(s) /\ Changes(s) /\ Appears(s)
  BY <1>2, <1>3 DEF Kept, Changes, Appears
<1> QED BY <1>1, <1>2, <1>3 DEF Local

\* A step that leaves the tickets alone.
LEMMA QuietStep ==
    ASSUME GateIInv, NEW c \in Calls, MovesOnly(call', c), UNCHANGED <<ticket, resume, replay, turn>>,
           access' \in AccessRows, history' \in HistoryRows, history'.effects = history.effects
    PROVE  Local(c)
<1>1. ticket \in TicketTables /\ resume \in ResumeTables /\ replay \in ReplayTables
  BY Tables DEF GateIInv
<1>2. ASSUME NEW s \in Tickets PROVE Kept(s) /\ Changes(s) /\ Appears(s)
  BY DEF Kept, Changes, Appears
<1> QED BY <1>1, <1>2 DEF Local

\* A call that asks has its ticket created and its earlier requests superseded.
LEMMA AskStep ==
    ASSUME GateIInv, NEW c \in Calls, NEW kind \in Kinds, NEW human \in BOOLEAN, NEW n \in Fresh,
           ticket' = Created(c, kind, human, n, ticket), resume' = Superseded(c, kind),
           MovesOnly(call', c), UNCHANGED <<replay, access, turn, history>>
    PROVE  Local(c)
<1>1. /\ ticket \in TicketTables /\ resume \in ResumeTables /\ replay \in ReplayTables
      /\ access \in AccessRows /\ history \in HistoryRows
  BY Tables DEF GateIInv
<1>2. n \in Tickets /\ ticket[n].status = "none" BY DEF Fresh
<1>3. HasNew(ticket', c, kind, human, n, ticket) BY <1>1, CreatedTable
<1>11. ticket' \in TicketTables /\ resume' \in ResumeTables BY <1>1, <1>3, SupersededTable DEF HasNew
<1>4. ASSUME NEW s \in Tickets, s \notin Replaced(c, kind) PROVE resume'[s] = resume[s]
  BY <1>1, <1>4, SupersededTable
<1>5. ASSUME NEW s \in Tickets, s # n, s \notin Replaced(c, kind) PROVE ticket'[s] = ticket[s]
  BY <1>3, <1>5 DEF HasNew
<1>6. ASSUME NEW s \in Replaced(c, kind)
      PROVE  /\ s \in Tickets /\ s # n /\ ticket[s].call = c /\ ticket[s].status = "pending"
             /\ Changes(s)
  <2>1. s \in Tickets /\ s # n /\ ticket[s].call = c /\ ticket[s].status = "pending"
    BY <1>2 DEF Replaced, Pending
  <2>2. /\ ticket'[s].status = "superseded" /\ ticket'[s].kind = ticket[s].kind
        /\ ticket'[s].call = ticket[s].call /\ ticket'[s].human = ticket[s].human
        /\ ticket'[s].old = ticket[s].old
    BY <1>3, <2>1 DEF HasNew
  <2> QED BY <2>1, <2>2 DEF Changes
<1>7. n \notin Replaced(c, kind) BY <1>2 DEF Replaced, Pending
<1>8. Appears(n) BY <1>2, <1>3, <1>4, <1>7 DEF Appears, HasNew
<1>9. ASSUME NEW s \in Tickets, s # n, s \notin Replaced(c, kind)
      PROVE  Kept(s) /\ Changes(s) /\ Appears(s)
  BY <1>4, <1>5, <1>9 DEF Kept, Changes, Appears
<1>10. ASSUME NEW s \in Tickets
       PROVE  /\ ticket[s].status = "none" => Appears(s)
              /\ ticket[s].status # "none" => Changes(s) /\ (ticket[s].call # c => Kept(s))
  BY <1>2, <1>6, <1>8, <1>9
<1> QED BY <1>1, <1>11, <1>10 DEF Local

LEMMA SettledChanges ==
    ASSUME ApprovalTypeOK, NEW t \in Tickets, NEW st \in {"rejected", "denied", "expired"},
           NEW who \in Deciders, ticket' = Settled(ticket, t, st, who)
    PROVE  DiffersAt(ticket', ticket, t) /\ Changes(t)
<1>1. ticket \in TicketTables /\ st \in Statuses BY Tables, SomeConstants
<1>2. /\ DiffersAt(ticket', ticket, t)
      /\ ticket[t].status = "pending" => ticket'[t].status = st
      /\ ticket[t].status # "pending" => ticket' = ticket
  BY <1>1, SettledTable
<1> QED BY <1>2 DEF Changes, DiffersAt

LEMMA RetiredChanges ==
    ASSUME ApprovalTypeOK, NEW t \in Tickets, ticket' = Retired(ticket, t)
    PROVE  DiffersAt(ticket', ticket, t) /\ Changes(t)
<1>1. ticket \in TicketTables /\ "" \in Deciders BY Tables, SomeConstants
<1>2. CASE ticket' = Settled(ticket, t, "expired", "") BY <1>1, <1>2, SettledChanges
<1>3. CASE ticket' = ticket BY <1>1, <1>3, SameTable DEF Changes
<1> QED BY <1>2, <1>3 DEF Retired

LEMMA WithdrawnChanges ==
    ASSUME ApprovalTypeOK, NEW t \in Tickets, ticket' = Withdrawn(t)
    PROVE  DiffersAt(ticket', ticket, t) /\ Changes(t)
<1>1. ticket \in TicketTables /\ "" \in Deciders /\ "system" \in Deciders BY Tables, SomeConstants
<1>2. CASE ticket' = Settled(ticket, t, "denied", "") BY <1>1, <1>2, SettledChanges
<1>3. CASE ticket' = Settled(ticket, t, "rejected", "system") BY <1>1, <1>3, SettledChanges
<1>4. CASE ticket[t].status = "approved" /\ ticket' = Failed(ticket, t)
  <2>1. DiffersAt(ticket', ticket, t) /\ ticket'[t].status = "failed" /\ ticket'[t].by = ticket[t].by
    BY <1>1, <1>4, FailedTable
  <2> QED BY <1>4, <2>1 DEF Changes, DiffersAt
<1>5. CASE ticket' = ticket BY <1>1, <1>5, SameTable DEF Changes
<1> QED BY <1>2, <1>3, <1>4, <1>5 DEF Withdrawn

\* Of a withdrawal and the retirement that follows it, only one changes the ticket.
LEMMA RetiredWithdrawn ==
    ASSUME ticket \in TicketTables, NEW t \in Tickets
    PROVE  \/ Retired(Withdrawn(t), t) = Withdrawn(t)
           \/ Withdrawn(t) = ticket /\ Retired(Withdrawn(t), t) = Retired(ticket, t)
<1>1. CASE Withdrawn(t) = ticket BY <1>1
<1>2. CASE Withdrawn(t) # ticket
  <2>1. DiffersAt(Withdrawn(t), ticket, t) /\ Withdrawn(t) \in TicketTables
    BY WithdrawnTable DEF DiffersAt
  <2>2. Withdrawn(t)[t] # ticket[t]
    BY <1>2, <2>1 DEF DiffersAt, TicketTables
  <2>3. Withdrawn(t)[t].status # "pending" BY <2>2, WithdrawnTable
  <2> QED BY <2>1, <2>3 DEF Retired, Settled, Pending
<1> QED BY <1>1, <1>2

\* The wait begins: the ticket may be denied at once, which leaves a decision.
LEMMA StartWaitTable ==
    ASSUME NEW c \in Calls, NEW tk \in TicketTables, NEW r \in ResumeTables,
           NEW t \in Tickets, t = call[c].ticket, call \in CallTables, StartWait(c, tk, r)
    PROVE  /\ DiffersAt(ticket', tk, t)
           /\ \/ ticket' = tk
              \/ tk[t].status = "pending" /\ ticket'[t].status \in {"rejected", "denied"}
           /\ resume' \in ResumeTables /\ \A s \in Tickets : s # t => resume'[s] = r[s]
           /\ MovesOnly(call', c) /\ call'[c].phase = "waiting"
           /\ call'[c].ticket = t /\ call'[c].hop = call[c].hop
<1>1. {"", "system"} \subseteq Deciders /\ {"rejected", "denied"} \subseteq Statuses
      /\ {"deny", "rejected"} \subseteq Decisions /\ "waiting" \in Phases
  BY SomeConstants, SomePhases
<1>2. MovesOnly(call', c) /\ call'[c].phase = "waiting" /\ call'[c].ticket = t /\ call'[c].hop = call[c].hop
  <2>1. Goto(c, "waiting") BY DEF StartWait
  <2> QED BY <1>1, <2>1, GotoTable
<1>3. /\ DiffersAt(ticket', tk, t)
      /\ \/ ticket' = tk
         \/ tk[t].status = "pending" /\ ticket'[t].status \in {"rejected", "denied"}
  <2>1. DiffersAt(tk, tk, t) BY SameTable
  <2>2. ASSUME NEW st \in {"rejected", "denied"}, NEW who \in {"", "system"},
               tk[t].status = "pending", ticket' = Settled(tk, t, st, who)
        PROVE  DiffersAt(ticket', tk, t) /\ ticket'[t].status \in {"rejected", "denied"}
    BY <1>1, <2>2, SettledTable, ZenonT(30)
  <2>3. \/ ticket' = tk
        \/ /\ tk[t].status = "pending"
           /\ \/ ticket' = Settled(tk, t, "rejected", "system")
              \/ ticket' = Settled(tk, t, "denied", "")
    BY DEF StartWait, Pending
  <2> QED BY <2>1, <2>2, <2>3
<1>4. resume' \in ResumeTables /\ \A s \in Tickets : s # t => resume'[s] = r[s]
  <2>1. /\ Registered(r, t) \in ResumeTables
        /\ \A s \in Tickets : s # t => Registered(r, t)[s] = r[s]
    BY RegisteredTable
  <2>2. ASSUME NEW d \in Decisions, resume' = Signal(Registered(r, t), t, d)
        PROVE  resume' \in ResumeTables /\ \A s \in Tickets : s # t => resume'[s] = r[s]
    BY <2>1, <2>2, SignalTable
  <2>3. \/ resume' = Registered(r, t) \/ resume' = Signal(Registered(r, t), t, "deny")
        \/ resume' = Signal(Registered(r, t), t, "rejected")
    BY DEF StartWait
  <2> QED BY <1>1, <2>1, <2>2, <2>3
<1> QED BY <1>2, <1>3, <1>4

LEMMA ConsumedRows ==
    ASSUME ApprovalTypeOK
    PROVE  /\ Consumed \in AccessRows /\ Used \in HistoryRows /\ Used.effects = history.effects
           /\ Used.given = history.given /\ Consumed.policy = access.policy
           /\ \/ Consumed = access /\ Used = history
              \/ access.row = "once" /\ Consumed.row = "none" /\ Used.used = history.used + 1
BY DEF ApprovalTypeOK, Consumed, Used, AccessRows, HistoryRows

\* A call at the gate has a ticket.
LEMMA OwnTicket ==
    ASSUME GateIInv, NEW c \in Calls, call[c].phase \in Holding
    PROVE  call[c].ticket \in Tickets /\ ticket[call[c].ticket].status # "none"
           /\ ticket[call[c].ticket].call = c
BY DEF GateIInv, OfCall, Held

LEMMA CallIsLocal ==
    ASSUME GateIInv, NEW c \in Calls, CallNext(c)
    PROVE  Local(c)
<1> DEFINE t == call[c].ticket
<1>0. /\ ApprovalTypeOK /\ ticket \in TicketTables /\ resume \in ResumeTables
      /\ replay \in ReplayTables /\ call \in CallTables /\ access \in AccessRows
      /\ history \in HistoryRows
  BY Tables DEF GateIInv
<1>1. CASE Admit(c)
  <2>1. MovesOnly(call', c) BY <1>0, <1>1, SomePhases, GotoTable DEF Admit
  <2> QED BY <1>0, <1>1, <2>1, ConsumedRows, QuietStep DEF Admit
<1>2. CASE Refuse(c) \/ Run(c)
  <2>1. call' = End(c, "denied") \/ call' = End(c, "ran") BY <1>2 DEF Refuse, Run
  <2>2. "denied" \in Outcomes /\ "ran" \in Outcomes BY DEF Outcomes
  <2>3. MovesOnly(call', c) BY <1>0, <2>1, <2>2, EndTable
  <2> QED BY <1>0, <1>2, <2>3, QuietStep DEF Refuse, Run
<1>3. CASE AskForAccess(c)
  <2>1. PICK n \in Fresh : /\ ticket' = Created(c, "grant", FALSE, n, ticket)
                           /\ call' = Return(c, n) \/ call' = call
    BY <1>3 DEF AskForAccess
  <2>2. n \in Tickets /\ "grant" \in Kinds BY DEF Fresh, Kinds
  <2>3. MovesOnly(call', c) BY <1>0, <2>1, <2>2, ReturnTable DEF MovesOnly
  <2> QED BY <1>3, <2>1, <2>2, <2>3, AskStep DEF AskForAccess
<1>4. CASE AskForApproval(c)
  <2>1. PICK n \in Fresh, human \in BOOLEAN :
           /\ ticket' = Created(c, "approval", human, n, ticket)
           /\ call' = Return(c, n) \/ call' = call
    BY <1>4 DEF AskForApproval
  <2>2. n \in Tickets /\ "approval" \in Kinds BY DEF Fresh, Kinds
  <2>3. MovesOnly(call', c) BY <1>0, <2>1, <2>2, ReturnTable DEF MovesOnly
  <2> QED BY <1>4, <2>1, <2>2, <2>3, AskStep DEF AskForApproval
<1>5. CASE EnterGate(c)
  <2>1. MovesOnly(call', c) BY <1>0, <1>5, SomePhases, GotoTable DEF EnterGate
  <2> QED BY <1>0, <1>5, <2>1, QuietStep DEF EnterGate
<1>6. CASE AskReviewer(c)
  <2>1. t \in Tickets BY <1>6, OwnTicket DEF AskReviewer, Holding, Asking
  <2>2. ticket[t] \in TicketRows /\ "reviewing" \in Phases BY <1>0, <2>1 DEF TicketTables, Phases
  <2>3. call' = [call EXCEPT ![c].phase = "reviewing", ![c].snap = ticket[t]] BY <1>6 DEF AskReviewer
  <2> HIDE DEF t
  <2>4. MovesOnly(call', c) BY <1>0, <2>2, <2>3 DEF MovesOnly, CallTables, CallRows
  <2> QED BY <1>0, <1>6, <2>4, QuietStep DEF AskReviewer
<1>7. ASSUME call[c].phase \in Holding,
             DiffersAt(ticket', ticket, t), Changes(t),
             resume' \in ResumeTables, \A s \in Tickets : s # t => resume'[s] = resume[s],
             MovesOnly(call', c), UNCHANGED <<replay, access, turn, history>>
      PROVE  Local(c)
  BY <1>7, OwnTicket, GateStep
<1>8. ASSUME NEW r, call[c].phase \in Holding, r = Cleaned(resume, t) \/ r = resume
      PROVE  r \in ResumeTables /\ \A s \in Tickets : s # t => r[s] = resume[s]
  BY <1>0, <1>8, OwnTicket, CleanedTable
<1>9. CASE RefuseUnknown(c)
  <2>1. call[c].phase \in Holding BY <1>9 DEF RefuseUnknown, Holding, Asking
  <2>2. DiffersAt(ticket', ticket, t) /\ Changes(t)
    BY <1>0, <1>9, <2>1, OwnTicket, WithdrawnChanges DEF RefuseUnknown
  <2>3. MovesOnly(call', c) BY <1>0, <1>9, SomePhases, EndTable DEF RefuseUnknown
  <2>4. resume' = Cleaned(resume, t) \/ resume' = resume BY <1>9 DEF RefuseUnknown
  <2> QED BY <1>7, <1>8, <1>9, <2>1, <2>2, <2>3, <2>4 DEF RefuseUnknown
<1>10. CASE RefuseHop(c)
  <2>1. call[c].phase \in Holding BY <1>10 DEF RefuseHop, Holding, Asking
  <2>2. \/ ticket' = Settled(ticket, t, "denied", "") \/ ticket' = ticket
        \/ ticket' = Settled(ticket, t, "rejected", "system")
    BY <1>10 DEF RefuseHop
  <2>3. t \in Tickets BY <2>1, OwnTicket
  <2>4. ASSUME ticket' = ticket PROVE DiffersAt(ticket', ticket, t) /\ Changes(t)
    BY <1>0, <2>3, <2>4, SameTable DEF Changes
  <2>5. ASSUME ticket' # ticket PROVE DiffersAt(ticket', ticket, t) /\ Changes(t)
    BY <1>0, <2>2, <2>3, <2>5, SettledChanges, SomeConstants
  <2>6. MovesOnly(call', c) BY <1>0, <1>10, SomePhases, EndTable DEF RefuseHop
  <2>7. resume' = Signal(resume, t, "deny") \/ resume' = Signal(resume, t, "rejected")
    BY <1>10 DEF RefuseHop
  <2>8. "deny" \in Decisions /\ "rejected" \in Decisions BY DEF Decisions
  <2>9. resume' \in ResumeTables /\ \A s \in Tickets : s # t => resume'[s] = resume[s]
    BY <1>0, <2>3, <2>7, <2>8, SignalTable
  <2> QED BY <1>7, <1>10, <2>1, <2>4, <2>5, <2>6, <2>9 DEF RefuseHop
<1>11. CASE DenyAgain(c)
  <2>1. call[c].phase \in Holding BY <1>11 DEF DenyAgain, Holding, Asking
  <2>2. DiffersAt(ticket', ticket, t) /\ Changes(t)
    BY <1>0, <1>11, <2>1, OwnTicket, SettledChanges, SomeConstants DEF DenyAgain
  <2>3. MovesOnly(call', c) BY <1>0, <1>11, SomePhases, EndTable DEF DenyAgain
  <2> QED BY <1>7, <1>8, <1>11, <2>1, <2>2, <2>3 DEF DenyAgain
<1>12. ASSUME call[c].phase \in Holding, StartWait(c, ticket, resume), UNCHANGED <<replay, access, turn, history>>
       PROVE  Local(c)
  <2>1. t \in Tickets BY <1>12, OwnTicket
  <2>2. /\ DiffersAt(ticket', ticket, t)
        /\ \/ ticket' = ticket
           \/ ticket[t].status = "pending" /\ ticket'[t].status \in {"rejected", "denied"}
        /\ resume' \in ResumeTables /\ \A s \in Tickets : s # t => resume'[s] = resume[s]
        /\ MovesOnly(call', c)
    BY <1>0, <1>12, <2>1, StartWaitTable
  <2>3. Changes(t) BY <2>2 DEF Changes, DiffersAt
  <2> QED BY <1>7, <1>12, <2>2, <2>3
<1>13. CASE Wait(c)
  BY <1>12, <1>13 DEF Wait, Holding, Asking
<1>14. CASE Reviewed(c)
  <2>1. call[c].phase \in Holding BY <1>14 DEF Reviewed, Holding, Asking
  <2>2. t \in Tickets BY <2>1, OwnTicket
  <2>3. ASSUME Seen(c), StartWait(c, Settled(ticket, t, "approved", "auto_review"), Signal(resume, t, "approved"))
        PROVE  Local(c)
    <3> DEFINE tk == Settled(ticket, t, "approved", "auto_review")
               r  == Signal(resume, t, "approved")
    <3>1. /\ "approved" \in Statuses /\ "auto_review" \in Deciders /\ "approved" \in Decisions
          /\ "auto_review" \in Someone
      BY DEF Statuses, Deciders, Decisions, Someone
    <3>2. ticket[t].status = "pending" /\ ticket[t].kind = "approval"
      <4>1. call[c].snap.kind = "approval"
        BY <1>14 DEF Reviewed, GateIInv, OfCall, Held, Holding, Asking
      <4> QED BY <2>3, <4>1 DEF Seen, Valid, Pending
    <3>3. DiffersAt(tk, ticket, t) /\ tk[t].status = "approved" /\ tk[t].by = "auto_review"
      BY <1>0, <2>2, <3>1, <3>2, SettledTable
    <3>4. r \in ResumeTables /\ \A s \in Tickets : s # t => r[s] = resume[s]
      BY <1>0, <2>2, <3>1, SignalTable
    <3>5. tk \in TicketTables BY <3>3 DEF DiffersAt
    <3> HIDE DEF tk, r
    <3>6. /\ DiffersAt(ticket', tk, t)
          /\ \/ ticket' = tk
             \/ tk[t].status = "pending" /\ ticket'[t].status \in {"rejected", "denied"}
          /\ resume' \in ResumeTables /\ \A s \in Tickets : s # t => resume'[s] = r[s]
          /\ MovesOnly(call', c)
      BY <1>0, <2>2, <2>3, <3>4, <3>5, StartWaitTable DEF tk, r
    <3>7. ticket' = tk BY <3>3, <3>6
    <3>8. DiffersAt(ticket', ticket, t) /\ Changes(t)
      BY <3>1, <3>2, <3>3, <3>7 DEF Changes, DiffersAt
    <3> QED BY <1>7, <1>14, <2>1, <3>4, <3>6, <3>8 DEF Reviewed
  <2>4. ASSUME ticket' = Settled(ticket, t, "rejected", "auto_review"), resume' = Cleaned(resume, t),
               call' = End(c, "denied")
        PROVE  Local(c)
    <3>1. DiffersAt(ticket', ticket, t) /\ Changes(t)
      BY <1>0, <2>2, <2>4, SettledChanges, SomeConstants
    <3>2. MovesOnly(call', c) BY <1>0, <2>4, SomePhases, EndTable
    <3> QED BY <1>7, <1>8, <1>14, <2>1, <2>4, <3>1, <3>2 DEF Reviewed
  <2> QED BY <1>12, <1>14, <2>1, <2>3, <2>4 DEF Reviewed
<1>15. CASE ReviewIsLate(c)
  <2>1. call[c].phase \in Holding BY <1>15 DEF ReviewIsLate, Holding, Asking
  <2>2. t \in Tickets BY <2>1, OwnTicket
  <2>3. DiffersAt(ticket', ticket, t) /\ Changes(t)
    <3>1. CASE ticket' = ticket BY <1>0, <2>2, <3>1, SameTable DEF Changes
    <3>2. CASE ticket' = Settled(ticket, t, "rejected", "system")
      BY <1>0, <2>2, <3>2, SettledChanges, SomeConstants
    <3> QED BY <1>15, <3>1, <3>2 DEF ReviewIsLate
  <2>4. MovesOnly(call', c) BY <1>0, <1>15, SomePhases, EndTable DEF ReviewIsLate
  <2> QED BY <1>7, <1>8, <1>15, <2>1, <2>3, <2>4 DEF ReviewIsLate
<1>16. ASSUME NEW o \in Outcomes, call[c].phase \in Holding, Leave(c, ticket, resume, o),
              UNCHANGED <<replay, access, turn, history>>
       PROVE  Local(c)
  <2>1. t \in Tickets BY <1>16, OwnTicket
  <2>2. DiffersAt(ticket', ticket, t) /\ Changes(t) BY <1>0, <1>16, <2>1, RetiredChanges DEF Leave
  <2>3. MovesOnly(call', c) BY <1>0, <1>16, EndTable DEF Leave
  <2> QED BY <1>7, <1>8, <1>16, <2>2, <2>3 DEF Leave
<1>17. CASE WithdrawForPause(c)
  <2>1. call[c].phase \in Holding BY <1>17 DEF WithdrawForPause, Holding, Asking
  <2>2. t \in Tickets BY <2>1, OwnTicket
  <2>3. ticket' = Retired(Withdrawn(t), t) BY <1>17 DEF WithdrawForPause, Leave
  <2>4. DiffersAt(ticket', ticket, t) /\ Changes(t)
    <3>1. \/ ticket' = Withdrawn(t)
          \/ Withdrawn(t) = ticket /\ ticket' = Retired(ticket, t)
      BY <1>0, <2>2, <2>3, RetiredWithdrawn
    <3> QED BY <1>0, <2>2, <3>1, WithdrawnChanges, RetiredChanges
  <2>5. MovesOnly(call', c) BY <1>0, <1>17, SomePhases, EndTable DEF WithdrawForPause, Leave
  <2> QED BY <1>7, <1>8, <1>17, <2>1, <2>4, <2>5 DEF WithdrawForPause, Leave
<1>18. CASE WaitTimesOut(c) \/ Denied(c)
  BY <1>16, <1>18, SomePhases DEF WaitTimesOut, Denied, Woken, Holding, Asking
<1>19. CASE ReplayReturns(c)
  BY <1>16, <1>19, SomePhases DEF ReplayReturns, Holding
<1>20. CASE StartReplay(c)
  <2>1. call[c].phase \in Holding BY <1>20 DEF StartReplay, Woken, Holding, Asking
  <2>2. t \in Tickets /\ ticket[t].status # "none" /\ ticket[t].call = c BY <2>1, OwnTicket
  <2>3. /\ resume' = [resume EXCEPT ![t].decision = ""]
        /\ replay' = [replay EXCEPT ![t] = "checking"] /\ UNCHANGED <<ticket, access, turn, history>>
    BY <1>20 DEF StartReplay
  <2>4. MovesOnly(call', c) BY <1>0, <1>20, SomePhases, GotoTable DEF StartReplay
  <2> HIDE DEF t
  <2>5. resume' \in ResumeTables /\ \A s \in Tickets : s # t => resume'[s] = resume[s]
    BY <1>0, <2>2, <2>3 DEF ResumeTables, ResumeRows, Decisions
  <2>6. replay' \in ReplayTables /\ \A s \in Tickets : s # t => replay'[s] = replay[s]
    BY <1>0, <2>2, <2>3 DEF ReplayTables
  <2>7. ASSUME NEW s \in Tickets PROVE Changes(s) /\ (s # t => Kept(s) /\ Appears(s))
    BY <2>3, <2>5, <2>6 DEF Changes, Kept, Appears
  <2> QED BY <1>0, <2>2, <2>3, <2>4, <2>5, <2>6, <2>7 DEF Local
<1>21. CASE RunAgain(c)
  <2>1. call[c].phase \in Holding BY <1>21 DEF RunAgain, Woken, Holding, Asking
  <2>2. t \in Tickets BY <2>1, OwnTicket
  <2>3. DiffersAt(ticket', ticket, t) /\ Changes(t)
    <3>1. CASE ticket' = ticket BY <1>0, <2>2, <3>1, SameTable DEF Changes
    <3>2. CASE ticket' = Retired(ticket, t) BY <1>0, <2>2, <3>2, RetiredChanges
    <3> QED BY <1>21, <3>1, <3>2 DEF RunAgain
  <2>4. MovesOnly(call', c)
    <3>1. CASE call' = End(c, "denied") BY <1>0, <3>1, SomePhases, EndTable
    <3>2. CASE call' = [call EXCEPT ![c].phase = "running", ![c].hop = @ + 1]
      <4>1. call[c].hop < MaxHops
        BY <1>21 DEF RunAgain, Woken, GateIInv, OfCall, Held, Holding, Asking
      <4>2. call[c].hop + 1 \in 0..MaxHops
        BY <1>0, <4>1, GateAssumption DEF CallTables, CallRows
      <4>3. "running" \in Phases BY DEF Phases
      <4> QED BY <1>0, <3>2, <4>2, <4>3 DEF MovesOnly, CallTables, CallRows
    <3> QED BY <1>21, <3>1, <3>2 DEF RunAgain
  <2> QED BY <1>7, <1>8, <1>21, <2>1, <2>3, <2>4 DEF RunAgain
<1>22. CASE StopCall(c)
  <2>1. MovesOnly(call', c)
    <3>1. MovesOnly(End(c, "stopped"), c) BY <1>0, SomePhases, EndTable
    <3>2. call' = [End(c, "stopped") EXCEPT ![c].cancelled = TRUE] BY <1>22 DEF StopCall
    <3> QED BY <3>1, <3>2 DEF MovesOnly, CallTables, CallRows
  <2>2. CASE call[c].phase \in {"waiting", "replaying"}
    <3>1. call[c].phase \in Holding BY <2>2 DEF Holding, Asking
    <3>2. t \in Tickets BY <3>1, OwnTicket
    <3>3. ticket' = Retired(ticket, t) /\ resume' = Cleaned(resume, t) BY <1>22, <2>2 DEF StopCall
    <3>4. DiffersAt(ticket', ticket, t) /\ Changes(t) BY <1>0, <3>2, <3>3, RetiredChanges
    <3> QED BY <1>7, <1>8, <1>22, <2>1, <3>1, <3>3, <3>4 DEF StopCall
  <2>3. CASE call[c].phase \notin {"waiting", "replaying"}
    BY <1>0, <1>22, <2>1, <2>3, QuietStep DEF StopCall
  <2> QED BY <2>2, <2>3
<1> QED
  BY <1>1, <1>2, <1>3, <1>4, <1>5, <1>6, <1>9, <1>10, <1>11, <1>13, <1>14, <1>15, <1>17, <1>18,
     <1>19, <1>20, <1>21, <1>22 DEF CallNext

-----------------------------------------------------------------------------
(* A step of a call keeps the invariant. *)

\* Only the start of a replay gives a thread something to do.
LEMMA CallReplays ==
    ASSUME GateIInv, NEW c \in Calls, CallNext(c), NEW t \in Tickets
    PROVE  \/ replay'[t] = replay[t]
           \/ /\ StartReplay(c) /\ t = call[c].ticket
              /\ replay[t] = "idle" /\ replay'[t] = "checking" /\ call'[c].phase = "replaying"
              /\ call'[c].ticket = t
<1>1. CASE StartReplay(c)
  <2>1. call[c].phase = "waiting" BY <1>1 DEF StartReplay, Woken
  <2>2. replay[call[c].ticket] = "idle" /\ call[c].ticket \in Tickets
    BY <2>1 DEF GateIInv, OfCall, Held, Holding, Asking
  <2>3. /\ replay' = [replay EXCEPT ![call[c].ticket] = "checking"] /\ replay \in ReplayTables
        /\ call \in CallTables
    BY <1>1, Tables DEF StartReplay, GateIInv
  <2>4. call'[c].phase = "replaying" /\ call'[c].ticket = call[c].ticket
    BY <1>1, <2>3, SomePhases, GotoTable DEF StartReplay
  <2> QED BY <1>1, <2>2, <2>3, <2>4 DEF ReplayTables
<1>2. CASE ~StartReplay(c)
  <2>1. replay' = replay
    BY <1>2 DEF CallNext, Admit, Refuse, AskForAccess, AskForApproval, Run, EnterGate, RefuseUnknown,
                RefuseHop, AskReviewer, DenyAgain, Wait, Reviewed, ReviewIsLate, WithdrawForPause,
                WaitTimesOut, Denied, RunAgain, ReplayReturns, StopCall
  <2> QED BY <2>1
<1> QED BY <1>1, <1>2

\* What the changes of a ticket leave of the facts about it.
LEMMA ChangesKeep ==
    ASSUME NEW t \in Tickets, Changes(t), Unused(t), Approved(t), Claimed(t), ticket[t].status # "none",
           replay'[t] = replay[t] \/ (replay[t] = "idle" /\ replay'[t] = "checking"),
           history'.effects = history.effects
    PROVE  Unused(t)' /\ Approved(t)' /\ Claimed(t)' /\ ticket'[t].status # "none"
<1>1. Unused(t)' /\ ticket'[t].status # "none" BY DEF Changes, Unused
<1>2. Approved(t)' BY DEF Changes, Approved
<1>3. Claimed(t)' BY DEF Changes, Claimed
<1> QED BY <1>1, <1>2, <1>3

LEMMA AppearsKeeps ==
    ASSUME NEW t \in Tickets, Appears(t), OfTicket(t), ticket[t].status = "none",
           history'.effects = history.effects
    PROVE  OfTicket(t)' /\ history'.effects[t] = 0
<1>1. replay'[t] = "idle" /\ history'.effects[t] = 0
  BY DEF Appears, OfTicket, Unused, Claimed
<1>2. ticket'[t].status \in {"none", "pending"} BY DEF Appears
<1>3. Unused(t)' BY DEF Appears, OfTicket, Unused
<1>4. Approved(t)' BY <1>2 DEF Approved
<1>5. Claimed(t)' BY <1>1, <1>2 DEF Claimed
<1>6. Known(t)' BY <1>1 DEF Known
<1> QED BY <1>1, <1>3, <1>4, <1>5, <1>6 DEF OfTicket

\* The tickets of the other calls, and the other calls.
LEMMA OthersKeep ==
    ASSUME GateIInv, NEW c \in Calls, Local(c)
    PROVE  /\ \A d \in Calls : d # c => OfCall(d)'
           /\ \A t \in Tickets : ticket[t].status # "none" /\ ticket[t].call # c => OfTicket(t)'
<1>1. ASSUME NEW d \in Calls, d # c PROVE OfCall(d)'
  <2>1. call'[d] = call[d] BY <1>1 DEF Local, MovesOnly
  <2>2. OfCall(d) BY DEF GateIInv
  <2>3. history'.effects = history.effects BY DEF Local
  <2>4. ASSUME NEW t \in Tickets, ticket[t].status # "none", ticket[t].call = d PROVE Kept(t)
    BY <1>1, <2>4 DEF Local
  <2>5. Held(d)' BY <2>1, <2>2, <2>4 DEF OfCall, Held, Kept, Holding, Asking
  <2>6. OnRecord(d)' BY <2>1, <2>2, <2>4 DEF OfCall, Held, OnRecord, Kept, Holding
  <2>7. Acted(d)' BY <2>1, <2>2, <2>3, <2>4 DEF OfCall, Acted, Kept
  <2> QED BY <2>5, <2>6, <2>7 DEF OfCall
<1>2. ASSUME NEW t \in Tickets, ticket[t].status # "none", ticket[t].call # c PROVE OfTicket(t)'
  <2>1. Kept(t) /\ history'.effects = history.effects BY <1>2 DEF Local
  <2>2. OfTicket(t) /\ ticket \in TicketTables BY Tables DEF GateIInv
  <2>3. ticket[t].call \in Calls BY <2>2 DEF TicketTables, TicketRows
  <2>4. call'[ticket[t].call] = call[ticket[t].call] BY <1>2, <2>3 DEF Local, MovesOnly
  <2> QED BY <2>1, <2>2, <2>4 DEF OfTicket, Kept, Unused, Approved, Claimed, Known
<1> QED BY <1>1, <1>2

\* What threads of the call do, or did, is known to it.
LEMMA OwnKnown ==
    ASSUME GateIInv, NEW c \in Calls, CallNext(c), NEW t \in Tickets,
           ticket[t].status # "none", ticket[t].call = c
    PROVE  Known(t)'
<1>1. Known(t) /\ Claimed(t) /\ ticket'[t].call = c /\ history'.effects = history.effects
      /\ call \in CallTables
  BY CallIsLocal, Tables DEF GateIInv, OfTicket, Local, Changes
<1>2. CASE StartReplay(c)
  <2>1. call[c].phase = "waiting" BY <1>2 DEF StartReplay, Woken
  <2>2. history.effects[t] # 1 /\ replay[t] \notin {"checking", "claimed"} BY <1>1, <2>1 DEF Known
  <2> QED BY <1>1, <2>2, CallReplays DEF Known
<1>3. CASE ReplayReturns(c)
  <2>1. PICK o \in {"applied", "failed"} : call' = End(c, o) BY <1>3 DEF ReplayReturns, Leave
  <2>4. o \in Outcomes BY DEF Outcomes
  <2>2. call'[c].phase = "done" /\ call'[c].outcome \in {"applied", "failed"}
    BY <1>1, <2>1, <2>4, EndTable
  <2>3. call[c].phase = "replaying" /\ replay[call[c].ticket] = "finished" /\ replay' = replay
    BY <1>3 DEF ReplayReturns
  <2> QED BY <1>1, <2>2, <2>3 DEF Known
<1>4. CASE StopCall(c)
  <2>1. call' = [End(c, "stopped") EXCEPT ![c].cancelled = TRUE] BY <1>4 DEF StopCall
  <2>2. MovesOnly(End(c, "stopped"), c) /\ End(c, "stopped")[c].phase = "done"
        /\ End(c, "stopped")[c].outcome = "stopped"
    BY <1>1, EndTable, SomePhases
  <2>3. call'[c].phase = "done" /\ call'[c].outcome = "stopped"
    BY <2>1, <2>2 DEF MovesOnly, CallTables, CallRows
  <2> QED BY <1>1, <2>3 DEF Known
<1>5. CASE ~(StartReplay(c) \/ ReplayReturns(c) \/ StopCall(c))
  <2>1. call[c].phase \notin {"replaying", "done"}
    BY <1>5 DEF CallNext, Admit, Refuse, AskForAccess, AskForApproval, Run, EnterGate, RefuseUnknown,
                RefuseHop, AskReviewer, DenyAgain, Wait, Reviewed, ReviewIsLate, WithdrawForPause,
                WaitTimesOut, Denied, RunAgain, Woken
  <2>2. replay'[t] = replay[t] BY <1>5, CallReplays
  <2> QED BY <1>1, <2>1, <2>2 DEF Known
<1> QED BY <1>2, <1>3, <1>4, <1>5

LEMMA CallKeepsTickets ==
    ASSUME GateIInv, NEW c \in Calls, CallNext(c), NEW t \in Tickets
    PROVE  OfTicket(t)'
<1>1. Local(c) BY CallIsLocal
<1>2. CASE ticket[t].status = "none"
  BY <1>1, <1>2, AppearsKeeps DEF Local, GateIInv
<1>3. CASE ticket[t].status # "none" /\ ticket[t].call # c BY <1>1, <1>3, OthersKeep
<1>4. CASE ticket[t].status # "none" /\ ticket[t].call = c
  <2>1. Unused(t)' /\ Approved(t)' /\ Claimed(t)'
    BY <1>1, <1>4, CallReplays, ChangesKeep DEF Local, GateIInv, OfTicket
  <2> QED BY <1>4, <2>1, OwnKnown DEF OfTicket
<1> QED BY <1>2, <1>3, <1>4

\* When a wait begins, the event and the decision agree with the ticket.
LEMMA StartWaitRecord ==
    ASSUME NEW c \in Calls, NEW tk \in TicketTables, NEW r \in ResumeTables,
           NEW t \in Tickets, t = call[c].ticket, call \in CallTables, StartWait(c, tk, r),
           r[t].decision = "" => tk[t].status \in {"pending", "expired"},
           r[t].decision # "" => tk[t].status = Answers(r[t].decision)
    PROVE  OnRecord(c)'
<1>1. call'[c].phase = "waiting" /\ call'[c].ticket = t BY StartWaitTable
<1>2. /\ Registered(r, t) \in ResumeTables /\ Registered(r, t)[t].decision = r[t].decision
      /\ Registered(r, t)[t].event = IF r[t].decision = "" THEN "clear" ELSE "set"
  BY RegisteredTable
<1>3. ASSUME NEW d \in {"deny", "rejected"}, resume' = Signal(Registered(r, t), t, d)
      PROVE  resume'[t].decision = d /\ resume'[t].event = "set"
  <2>1. d \in Decisions BY DEF Decisions
  <2> QED BY <1>2, <1>3, <2>1, SignalTable
<1>4. ASSUME ~(c \in Unattended /\ Pending(tk, t)) PROVE OnRecord(c)'
  <2>1. ticket' = tk /\ resume' = Registered(r, t) BY <1>4 DEF StartWait
  <2> QED BY <1>1, <1>2, <2>1 DEF OnRecord, Answers
<1>5. ASSUME c \in Unattended, tk[t].status = "pending", ticket[t].kind = "grant" PROVE OnRecord(c)'
  <2>1. /\ ticket' = IF tk[t].old THEN tk ELSE Settled(tk, t, "denied", "")
        /\ resume' = Signal(Registered(r, t), t, "deny")
    BY <1>5 DEF StartWait, Pending
  <2>2. resume'[t].decision = "deny" /\ resume'[t].event = "set"
    BY <1>3, <2>1
  <2>3. ticket'[t].old \/ ticket'[t].status = "denied"
    <3>1. "denied" \in Statuses /\ "" \in Deciders BY DEF Statuses, Deciders
    <3>2. CASE tk[t].old BY <2>1, <3>2
    <3>3. CASE ~tk[t].old BY <1>5, <2>1, <3>1, <3>3, SettledTable
    <3> QED BY <3>2, <3>3
  <2> QED BY <1>1, <1>5, <2>2, <2>3 DEF OnRecord, Answers
<1>6. ASSUME c \in Unattended, tk[t].status = "pending", ticket[t].kind # "grant" PROVE OnRecord(c)'
  <2>1. /\ ticket' = Settled(tk, t, "rejected", "system")
        /\ resume' = Signal(Registered(r, t), t, "rejected")
    BY <1>6 DEF StartWait, Pending
  <2>2. resume'[t].decision = "rejected" /\ resume'[t].event = "set"
    BY <1>3, <2>1
  <2>3. "rejected" \in Statuses /\ "system" \in Deciders BY SomeConstants
  <2>4. Settled(tk, t, "rejected", "system")[t].status = "rejected"
    <3>1. \A st \in Statuses, who \in Deciders : Settled(tk, t, st, who)[t].status = st
      BY <1>6, SettledTable
    <3> QED BY <2>3, <3>1
  <2>5. ticket'[t].status = "rejected" BY <2>1, <2>4
  <2> QED BY <1>1, <2>2, <2>5 DEF OnRecord, Answers
<1> QED BY <1>4, <1>5, <1>6 DEF Pending

\* A call that is not at the gate, and has not acted, promises nothing.
LEMMA AwayFromGate ==
    ASSUME NEW c \in Calls, call'[c].phase \notin Holding,
           call'[c].phase = "done" => call'[c].outcome # "applied"
    PROVE  OfCall(c)'
BY DEF OfCall, Held, OnRecord, Acted, Holding

LEMMA CallKeepsItself ==
    ASSUME GateIInv, NEW c \in Calls, CallNext(c)
    PROVE  OfCall(c)'
<1> DEFINE t == call[c].ticket
<1>0. /\ ticket \in TicketTables /\ resume \in ResumeTables /\ call \in CallTables
      /\ replay \in ReplayTables
      /\ Held(c) /\ OnRecord(c) /\ Acted(c)
  BY Tables DEF GateIInv, OfCall
<1>1. Local(c) BY CallIsLocal
<1>2. ASSUME NEW o \in Outcomes, o # "applied", call' = End(c, o) PROVE OfCall(c)'
  <2>1. call'[c].phase = "done" /\ call'[c].outcome = o BY <1>0, <1>2, EndTable
  <2> QED BY <1>2, <2>1, AwayFromGate DEF Holding, Asking
<1>3. CASE Refuse(c) \/ Run(c) \/ RefuseUnknown(c) \/ RefuseHop(c) \/ DenyAgain(c) \/ ReviewIsLate(c)
           \/ WithdrawForPause(c) \/ WaitTimesOut(c) \/ Denied(c)
  <2>1. PICK o \in {"denied", "ran", "unknown", "hops", "cancelled", "timeout"} : call' = End(c, o)
    BY <1>3 DEF Refuse, Run, RefuseUnknown, RefuseHop, DenyAgain, ReviewIsLate, WithdrawForPause,
                WaitTimesOut, Denied, Leave
  <2>2. o \in Outcomes BY DEF Outcomes
  <2> QED BY <1>2, <2>1, <2>2
<1>4. CASE Admit(c)
  <2>1. call'[c].phase = "admitted" BY <1>0, <1>4, SomePhases, GotoTable DEF Admit
  <2> QED BY <2>1, AwayFromGate DEF Holding, Asking
<1>5. ASSUME NEW n \in Fresh, NEW kind \in Kinds, NEW human \in BOOLEAN, replay' = replay,
             ticket' = Created(c, kind, human, n, ticket), resume' = Superseded(c, kind),
             call' = Return(c, n)
      PROVE  OfCall(c)'
  <2>1. n \in Tickets /\ ticket[n].status = "none" BY DEF Fresh
  <2>2. HasNew(ticket', c, kind, human, n, ticket) BY <1>0, <1>5, CreatedTable
  <2>3. n \notin Replaced(c, kind) BY <2>1 DEF Replaced, Pending
  <2>4. resume'[n] = resume[n] BY <1>0, <1>5, <2>1, <2>3, SupersededTable
  <2>5. replay[n] = "idle" /\ resume[n].decision = ""
    <3>1. Unused(n) BY <2>1 DEF GateIInv, OfTicket
    <3>2. Quiet.decision = "" BY DEF Quiet
    <3> QED BY <2>1, <3>1, <3>2 DEF Unused
  <2>6. call'[c].phase = "queued" /\ call'[c].ticket = n BY <1>0, <1>5, <2>1, ReturnTable
  <2> QED BY <1>5, <2>1, <2>2, <2>4, <2>5, <2>6 DEF OfCall, Held, OnRecord, Acted, HasNew, Answers
<1>6. CASE AskForAccess(c)
  <2>1. PICK n \in Fresh : /\ ticket' = Created(c, "grant", FALSE, n, ticket)
                           /\ call' = Return(c, n) \/ call' = call
    BY <1>6 DEF AskForAccess
  <2>2. CASE call' = call
    BY <1>6, <2>2, AwayFromGate DEF AskForAccess, Holding, Asking
  <2> QED BY <1>5, <1>6, <2>1, <2>2 DEF AskForAccess, Kinds
<1>7. CASE AskForApproval(c)
  <2>1. PICK n \in Fresh, human \in BOOLEAN :
           /\ ticket' = Created(c, "approval", human, n, ticket)
           /\ call' = Return(c, n) \/ call' = call
    BY <1>7 DEF AskForApproval
  <2>2. CASE call' = call
    BY <1>7, <2>2, AwayFromGate DEF AskForApproval, Holding, Asking
  <2> QED BY <1>5, <1>7, <2>1, <2>2 DEF AskForApproval, Kinds
<1>8. CASE EnterGate(c)
  <2>1. call'[c].phase = "asked" /\ call'[c].ticket = t /\ UNCHANGED <<ticket, resume, replay>>
    BY <1>0, <1>8, SomePhases, GotoTable DEF EnterGate
  <2>2. call[c].phase = "queued" BY <1>8 DEF EnterGate
  <2> QED BY <1>0, <2>1, <2>2 DEF OfCall, Held, OnRecord, Acted, Holding, Asking
<1>9. CASE AskReviewer(c)
  <2>1. call[c].phase = "asked" /\ call[c].hop < MaxHops /\ UNCHANGED <<ticket, resume, replay>>
        /\ ticket[t].kind = "approval"
    BY <1>9 DEF AskReviewer, Reviewable
  <2>2. call' = [call EXCEPT ![c].phase = "reviewing", ![c].snap = ticket[t]] BY <1>9 DEF AskReviewer
  <2> HIDE DEF t
  <2>3. /\ call'[c].phase = "reviewing" /\ call'[c].ticket = call[c].ticket /\ call'[c].hop = call[c].hop
        /\ call'[c].snap = ticket[t]
    BY <1>0, <2>2 DEF CallTables, CallRows
  <2> QED BY <1>0, <2>1, <2>3 DEF OfCall, Held, OnRecord, Acted, Holding, Asking, t
<1>10. ASSUME call[c].phase \in {"asked", "reviewing"}, call[c].hop < MaxHops, OnRecord(c)',
              NEW tk \in TicketTables, NEW r \in ResumeTables, StartWait(c, tk, r), replay' = replay
       PROVE  OfCall(c)'
  <2>1. t \in Tickets /\ ticket[t].status # "none" /\ ticket[t].call = c /\ replay[t] = "idle"
    BY <1>0, <1>10 DEF Held, Holding, Asking
  <2>2. call'[c].phase = "waiting" /\ call'[c].ticket = t /\ call'[c].hop = call[c].hop
    BY <1>0, <1>10, <2>1, StartWaitTable
  <2>3. ticket'[t].status # "none" /\ ticket'[t].call = c
    BY <1>1, <2>1 DEF Local, Changes
  <2> QED BY <1>10, <2>1, <2>2, <2>3 DEF OfCall, Held, Acted
<1>11. ASSUME call[c].phase \in {"asked", "reviewing"}, StartWait(c, ticket, resume) PROVE OnRecord(c)'
  <2>1. t \in Tickets BY <1>0, <1>11 DEF Held, Holding, Asking
  <2>2. /\ resume[t].decision = "" => ticket[t].status \in {"pending", "expired"}
        /\ resume[t].decision # "" => ticket[t].status = Answers(resume[t].decision)
    BY <1>0, <1>11 DEF OnRecord, Asking
  <2> QED BY <1>0, <1>11, <2>1, <2>2, StartWaitRecord
<1>12. CASE Wait(c)
  BY <1>0, <1>10, <1>11, <1>12 DEF Wait
<1>13. CASE Reviewed(c)
  <2>1. /\ call[c].phase = "reviewing" /\ call[c].hop < MaxHops /\ t \in Tickets
        /\ replay' = replay
    BY <1>0, <1>13 DEF Reviewed, Held, Holding, Asking
  <2>2. ASSUME Seen(c), StartWait(c, Settled(ticket, t, "approved", "auto_review"), Signal(resume, t, "approved"))
        PROVE  OfCall(c)'
    <3> DEFINE tk == Settled(ticket, t, "approved", "auto_review")
               r  == Signal(resume, t, "approved")
    <3>1. "approved" \in Statuses /\ "auto_review" \in Deciders /\ "approved" \in Decisions
      BY DEF Statuses, Deciders, Decisions
    <3>2. ticket[t].status = "pending" BY <2>2 DEF Seen, Valid, Pending
    <3>3. tk \in TicketTables /\ tk[t].status = "approved"
      BY <1>0, <2>1, <3>1, <3>2, SettledTable DEF DiffersAt
    <3>4. r \in ResumeTables /\ r[t].decision = "approved"
      BY <1>0, <2>1, <3>1, SignalTable
    <3>5. StartWait(c, tk, r) BY <2>2
    <3> HIDE DEF tk, r
    <3>6. tk[t].status = Answers(r[t].decision) BY <3>3, <3>4 DEF Answers
    <3>7. OnRecord(c)' BY <1>0, <2>1, <3>3, <3>4, <3>5, <3>6, StartWaitRecord
    <3> QED BY <1>10, <2>1, <3>3, <3>4, <3>5, <3>7
  <2>3. CASE call' = End(c, "denied") BY <1>2, <2>3, SomePhases
  <2>4. CASE StartWait(c, ticket, resume) BY <1>0, <1>10, <1>11, <2>1, <2>4
  <2> QED BY <1>13, <2>2, <2>3, <2>4 DEF Reviewed
<1>14. CASE StartReplay(c)
  <2>1. call[c].phase = "waiting" BY <1>14 DEF StartReplay, Woken
  <2>2. /\ t \in Tickets /\ ticket[t].status # "none" /\ ticket[t].call = c /\ ticket' = ticket
        /\ call[c].hop < MaxHops
    BY <1>0, <1>14, <2>1 DEF Held, Holding, Asking, StartReplay
  <2>3. call'[c].phase = "replaying" /\ call'[c].ticket = t /\ call'[c].hop = call[c].hop
    BY <1>0, <1>14, SomePhases, GotoTable DEF StartReplay
  <2> QED BY <2>2, <2>3 DEF OfCall, Held, OnRecord, Acted, Asking
<1>15. CASE RunAgain(c)
  <2>1. CASE call' = End(c, "denied") BY <1>2, <2>1, SomePhases
  <2>2. CASE call' = [call EXCEPT ![c].phase = "running", ![c].hop = @ + 1]
    <3>1. call'[c].phase = "running" BY <1>0, <2>2 DEF CallTables, CallRows
    <3> QED BY <3>1, AwayFromGate DEF Holding, Asking
  <2> QED BY <1>15, <2>1, <2>2 DEF RunAgain
<1>16. CASE ReplayReturns(c)
  <2>1. CASE ticket[t].status # "applied"
    <3>1. call' = End(c, "failed") BY <1>16, <2>1 DEF ReplayReturns, Leave
    <3> QED BY <1>2, <3>1, SomePhases
  <2>2. CASE ticket[t].status = "applied"
    <3>1. t \in Tickets /\ ticket[t].call = c BY <1>0, <1>16 DEF ReplayReturns, Held, Holding
    <3>2. history.effects[t] = 1 BY <2>2, <3>1 DEF GateIInv, OfTicket, Claimed
    <3>3. ticket'[t].call = c /\ ticket'[t].status # "none" /\ history'.effects[t] = 1
      BY <1>1, <2>2, <3>1, <3>2 DEF Local, Changes
    <3>4. call' = End(c, "applied") BY <1>16, <2>2 DEF ReplayReturns, Leave
    <3>5. call'[c].phase = "done" BY <1>0, <3>4, EndTable, SomePhases
    <3> QED BY <3>1, <3>3, <3>5 DEF OfCall, Held, OnRecord, Acted, Holding, Asking
  <2> QED BY <2>1, <2>2
<1>17. CASE StopCall(c)
  <2>1. call' = [End(c, "stopped") EXCEPT ![c].cancelled = TRUE] BY <1>17 DEF StopCall
  <2>2. MovesOnly(End(c, "stopped"), c) /\ End(c, "stopped")[c].phase = "done"
        /\ End(c, "stopped")[c].outcome = "stopped"
    BY <1>0, EndTable, SomePhases
  <2>3. call'[c].phase = "done" /\ call'[c].outcome = "stopped"
    BY <2>1, <2>2 DEF MovesOnly, CallTables, CallRows
  <2> QED BY <2>3, AwayFromGate DEF Holding, Asking
<1> QED
  BY <1>3, <1>4, <1>6, <1>7, <1>8, <1>9, <1>12, <1>13, <1>14, <1>15, <1>16, <1>17 DEF CallNext

LEMMA TypedTables ==
    ASSUME ticket' \in TicketTables, resume' \in ResumeTables, replay' \in ReplayTables,
           call' \in CallTables, access' \in AccessRows, history' \in HistoryRows,
           turn' \in [pausing : BOOLEAN, restarted : BOOLEAN]
    PROVE  ApprovalTypeOK'
BY DEF ApprovalTypeOK, TicketTables, ResumeTables, ReplayTables, CallTables, AccessRows, HistoryRows

LEMMA CountsKeep ==
    ASSUME GateIInv, (UNCHANGED <<access, history>>) \/ (access' = Consumed /\ history' = Used)
    PROVE  GrantsAreCounted'
<1>1. /\ access \in AccessRows /\ history \in HistoryRows /\ GrantsAreCounted
      /\ ApprovalTypeOK
  BY Tables DEF GateIInv
<1>2. CASE UNCHANGED <<access, history>> BY <1>1, <1>2 DEF GrantsAreCounted
<1>3. CASE access' = Consumed /\ history' = Used
  <2>1. /\ history'.given = history.given
        /\ \/ access' = access /\ history' = history
           \/ access.row = "once" /\ access'.row = "none" /\ history'.used = history.used + 1
    BY <1>1, <1>3, ConsumedRows
  <2>2. history.used \in Nat /\ history.given \in Nat BY <1>1 DEF HistoryRows
  <2> QED BY <1>1, <2>1, <2>2 DEF GrantsAreCounted
<1> QED BY <1>2, <1>3

LEMMA CallKeepsAll ==
    ASSUME GateIInv, NEW c \in Calls, CallNext(c)
    PROVE  GateIInv'
<1>1. Local(c) BY CallIsLocal
<1>2. ApprovalTypeOK'
  <2>1. turn \in [pausing : BOOLEAN, restarted : BOOLEAN] BY DEF GateIInv, ApprovalTypeOK
  <2> QED BY <1>1, <2>1, TypedTables DEF Local, MovesOnly
<1>3. GrantsAreCounted'
  BY CountsKeep DEF CallNext, Admit, Refuse, AskForAccess, AskForApproval, Run, EnterGate, RefuseUnknown,
                RefuseHop, AskReviewer, DenyAgain, Wait, Reviewed, ReviewIsLate, WithdrawForPause,
                WaitTimesOut, Denied, StartReplay, RunAgain, ReplayReturns, StopCall
<1>4. \A d \in Calls : OfCall(d)' BY <1>1, OthersKeep, CallKeepsItself
<1>5. \A t \in Tickets : OfTicket(t)' BY CallKeepsTickets
<1> QED BY <1>2, <1>3, <1>4, <1>5 DEF GateIInv

-----------------------------------------------------------------------------
(* The steps of the threads, the user and the clock. *)

\* The tickets change while the calls and the threads stand still.
LEMMA TicketsKeep ==
    ASSUME GateIInv, UNCHANGED <<call, replay>>, history'.effects = history.effects,
           NEW t \in Tickets,
           ticket[t].status = "none" => ticket'[t] = ticket[t] /\ resume'[t] = resume[t],
           ticket[t].status # "none" => Changes(t)
    PROVE  OfTicket(t)'
<1>1. OfTicket(t) BY DEF GateIInv
<1>2. CASE ticket[t].status = "none"
  BY <1>1, <1>2, AppearsKeeps DEF Appears
<1>3. CASE ticket[t].status # "none"
  <2>1. Unused(t)' /\ Approved(t)' /\ Claimed(t)' BY <1>1, <1>3, ChangesKeep DEF OfTicket
  <2>2. Known(t)' BY <1>1, <1>3 DEF OfTicket, Known, Changes
  <2> QED BY <2>1, <2>2 DEF OfTicket
<1> QED BY <1>2, <1>3

LEMMA CallsKeep ==
    ASSUME GateIInv, UNCHANGED <<call, replay>>, history'.effects = history.effects,
           \A t \in Tickets : ticket[t].status # "none" => Changes(t),
           NEW c \in Calls, OnRecord(c)'
    PROVE  OfCall(c)'
<1>1. Held(c) /\ Acted(c) BY DEF GateIInv, OfCall
<1>2. \A t \in Tickets : ticket[t].status # "none" =>
         ticket'[t].status # "none" /\ ticket'[t].call = ticket[t].call
  BY DEF Changes
<1>3. Held(c)' BY <1>1, <1>2 DEF Held, Holding, Asking
<1>4. Acted(c)' BY <1>1, <1>2 DEF Acted
<1> QED BY <1>3, <1>4 DEF OfCall

\* The user answers: a pending ticket is settled, and the decision left is the one recorded.
LEMMA AnswerKeeps ==
    ASSUME GateIInv, NEW t \in Tickets, Valid(t), NEW st \in Statuses, NEW who \in Someone,
           NEW d \in Decisions \ {""}, st = Answers(d),
           st \in {"rejected", "denied", "granted"} \/ (st = "approved" /\ ticket[t].kind = "approval"),
           ticket' = Settled(ticket, t, st, who), resume' = Signal(resume, t, d),
           UNCHANGED <<call, replay, turn>>, access' \in AccessRows, history' \in HistoryRows,
           history'.effects = history.effects, GrantsAreCounted'
    PROVE  GateIInv'
<1>1. /\ ticket \in TicketTables /\ resume \in ResumeTables /\ call \in CallTables
      /\ replay \in ReplayTables /\ turn \in [pausing : BOOLEAN, restarted : BOOLEAN]
  BY Tables DEF GateIInv, ApprovalTypeOK
<1>2. ticket[t].status = "pending" /\ ~ticket[t].old /\ who \in Deciders
  BY DEF Valid, Pending, Someone, Deciders
<1>3. DiffersAt(ticket', ticket, t) /\ ticket'[t].status = st /\ ticket'[t].by = who
  <2>1. DiffersAt(Settled(ticket, t, st, who), ticket, t)
        /\ Settled(ticket, t, st, who)[t].status = st /\ Settled(ticket, t, st, who)[t].by = who
    <3>1. st \in Statuses /\ who \in Deciders /\ ticket \in TicketTables /\ t \in Tickets
      BY <1>1, <1>2
    <3> QED BY <1>2, <3>1, SettledTable, Zenon
  <2> QED BY <2>1
<1>4. /\ resume' \in ResumeTables /\ resume'[t].decision = d
      /\ resume'[t].event = IF resume[t].event = "none" THEN "none" ELSE "set"
      /\ \A s \in Tickets : s # t => resume'[s] = resume[s]
  <2>1. d \in Decisions OBVIOUS
  <2>2. resume \in ResumeTables /\ t \in Tickets BY <1>1
  <2>3. /\ Signal(resume, t, d) \in ResumeTables /\ Signal(resume, t, d)[t].decision = d
        /\ Signal(resume, t, d)[t].event = IF resume[t].event = "none" THEN "none" ELSE "set"
        /\ \A s \in Tickets : s # t => Signal(resume, t, d)[s] = resume[s]
    BY <2>1, <2>2, SignalTable, ZenonT(30)
  <2> QED BY <2>3
<1>5. ASSUME NEW s \in Tickets, s # t PROVE ticket'[s] = ticket[s] /\ Changes(s)
  BY <1>3, <1>5 DEF DiffersAt, Changes
<1>6. Changes(t) BY <1>2, <1>3 DEF DiffersAt, Changes
<1>7. ASSUME NEW c \in Calls PROVE OnRecord(c)'
  <2>1. OnRecord(c) /\ Held(c) BY DEF GateIInv, OfCall
  <2>2. CASE call[c].phase \in Asking /\ call[c].ticket = t
    <3>1. resume[t].decision = ""
      <4>1. resume[t].decision \in Decisions BY <1>1 DEF ResumeTables, ResumeRows
      <4>2. resume[t].decision # "" => ticket[t].status = Answers(resume[t].decision)
        BY <1>2, <2>1, <2>2 DEF OnRecord
      <4>3. \A e \in Decisions : Answers(e) # "pending" BY DEF Answers, Decisions
      <4> QED BY <1>2, <4>1, <4>2, <4>3
    <3>2. call[c].phase = "waiting" => resume'[t].event = "set"
      BY <1>4, <2>1, <2>2, <3>1 DEF OnRecord
    <3> QED BY <1>3, <1>4, <2>2, <3>2 DEF OnRecord
  <2>3. CASE call[c].phase \in Asking /\ call[c].ticket # t
    <3>1. call[c].ticket \in Tickets BY <2>1, <2>3 DEF Held, Holding
    <3> QED BY <1>4, <1>5, <2>1, <2>3, <3>1 DEF OnRecord
  <2>4. CASE call[c].phase \notin Asking BY <2>4 DEF OnRecord
  <2> QED BY <2>2, <2>3, <2>4
<1>8. \A s \in Tickets : Changes(s) BY <1>5, <1>6
<1>9. \A c \in Calls : OfCall(c)' BY <1>7, <1>8, CallsKeep
<1>10. ASSUME NEW s \in Tickets PROVE OfTicket(s)'
  <2>1. ticket[s].status = "none" => ticket'[s] = ticket[s] /\ resume'[s] = resume[s]
    BY <1>2, <1>4, <1>5
  <2> QED BY <1>8, <2>1, TicketsKeep
<1>11. ApprovalTypeOK' BY <1>1, <1>3, <1>4, TypedTables DEF DiffersAt
<1> QED BY <1>9, <1>10, <1>11 DEF GateIInv

\* A thread replays: only its own ticket changes, which no call asks with.
LEMMA ThreadKeeps ==
    ASSUME GateIInv, NEW t \in Tickets, replay[t] \in {"checking", "claimed", "acted"},
           DiffersAt(ticket', ticket, t), Changes(t), UNCHANGED <<resume, call, turn>>,
           replay' \in ReplayTables, \A s \in Tickets : s # t => replay'[s] = replay[s],
           history' \in HistoryRows, access' \in AccessRows, GrantsAreCounted',
           \A s \in Tickets : s # t => history'.effects[s] = history.effects[s],
           history.effects[t] = 1 => history'.effects[t] = 1,
           Claimed(t)', Known(t)'
    PROVE  GateIInv'
<1>1. ASSUME NEW s \in Tickets, s # t PROVE ticket'[s] = ticket[s] /\ Changes(s)
  BY <1>1 DEF DiffersAt, Changes
<1>2. ticket[t].status # "none" /\ OfTicket(t) BY DEF GateIInv, OfTicket, Unused
<1>3. ASSUME NEW s \in Tickets PROVE OfTicket(s)'
  <2>1. CASE s = t
    BY <1>2, <2>1 DEF OfTicket, Unused, Approved, Changes
  <2>2. CASE s # t
    <3>1. OfTicket(s) BY DEF GateIInv
    <3>2. ticket'[s] = ticket[s] /\ replay'[s] = replay[s] /\ history'.effects[s] = history.effects[s]
      BY <1>1, <2>2
    <3>3. Unused(s)' /\ Approved(s)' /\ Claimed(s)' BY <3>1, <3>2 DEF OfTicket, Unused, Approved, Claimed
    <3>4. Known(s)' BY <3>1, <3>2 DEF OfTicket, Known
    <3> QED BY <3>3, <3>4 DEF OfTicket
  <2> QED BY <2>1, <2>2
<1>4. ASSUME NEW c \in Calls PROVE OfCall(c)'
  <2>1. Held(c) /\ OnRecord(c) /\ Acted(c) BY DEF GateIInv, OfCall
  <2>2. \A s \in Tickets : ticket[s].status # "none" =>
           ticket'[s].status # "none" /\ ticket'[s].call = ticket[s].call
    BY <1>1 DEF Changes
  <2>3. Held(c)' BY <2>1, <2>2 DEF Held, Asking, Holding
  <2>4. OnRecord(c)'
    <3>1. CASE call[c].phase \in Asking
      <4>1. call[c].ticket \in Tickets /\ call[c].ticket # t BY <2>1, <3>1 DEF Held, Holding
      <4> QED BY <1>1, <2>1, <4>1 DEF OnRecord
    <3>2. CASE call[c].phase \notin Asking BY <3>2 DEF OnRecord
    <3> QED BY <3>1, <3>2
  <2>5. Acted(c)' BY <2>1, <2>2 DEF Acted
  <2> QED BY <2>3, <2>4, <2>5 DEF OfCall
<1>5. ApprovalTypeOK'
  <2>1. resume \in ResumeTables /\ call \in CallTables /\ turn \in [pausing : BOOLEAN, restarted : BOOLEAN]
    BY Tables DEF GateIInv, ApprovalTypeOK
  <2> QED BY <2>1, TypedTables DEF DiffersAt
<1> QED BY <1>3, <1>4, <1>5 DEF GateIInv

\* Where a replay goes.
LEMMA EndReplayTable ==
    ASSUME replay \in ReplayTables, NEW t \in Tickets,
           NEW to \in {"claimed", "acted", "finished"}, replay' = [replay EXCEPT ![t] = to]
    PROVE  replay' \in ReplayTables /\ replay'[t] = to /\ \A s \in Tickets : s # t => replay'[s] = replay[s]
BY DEF ReplayTables

LEMMA FailedChanges ==
    ASSUME ApprovalTypeOK, NEW t \in Tickets, ticket' = Failed(ticket, t),
           ticket[t].status \in {"approved", "applied", "failed"}
    PROVE  DiffersAt(ticket', ticket, t) /\ Changes(t) /\ ticket'[t].status = "failed"
<1>1. ticket \in TicketTables BY Tables
<1>2. DiffersAt(ticket', ticket, t) /\ ticket'[t].status = "failed" /\ ticket'[t].by = ticket[t].by
  BY <1>1, FailedTable
<1> QED BY <1>2 DEF Changes, DiffersAt

LEMMA ReplayKeeps ==
    ASSUME GateIInv, NEW t \in Tickets, CheckReplay(t) \/ Act(t) \/ FailReplay(t) \/ Mark(t)
    PROVE  GateIInv'
<1>0. /\ ApprovalTypeOK /\ ticket \in TicketTables /\ replay \in ReplayTables /\ history \in HistoryRows
      /\ access \in AccessRows /\ OfTicket(t)
  BY Tables DEF GateIInv
<1>1. DiffersAt(ticket, ticket, t) BY <1>0, SameTable
<1>2. ticket' = ticket => DiffersAt(ticket', ticket, t) /\ Changes(t) BY <1>1 DEF Changes
<1>3. CASE CheckReplay(t)
  <2>1. /\ replay[t] = "checking" /\ UNCHANGED <<resume, call, turn>>
        /\ UNCHANGED <<access, history>> \/ (access' = Consumed /\ history' = Used)
    BY <1>3 DEF CheckReplay
  <2>2. GrantsAreCounted' BY <2>1, CountsKeep
  <2>3. access' \in AccessRows /\ history' \in HistoryRows /\ history'.effects = history.effects
    BY <1>0, <2>1, ConsumedRows
  <2>4. history.effects[t] = 0 BY <1>0, <2>1 DEF OfTicket, Claimed
  <2>5. \/ replay' = [replay EXCEPT ![t] = "finished"] /\ ticket' = ticket
        \/ /\ replay' = [replay EXCEPT ![t] = "finished"] /\ ticket' = Failed(ticket, t)
           /\ ticket[t].status = "approved"
        \/ /\ replay' = [replay EXCEPT ![t] = "claimed"] /\ ticket' = ticket
           /\ ticket[t].status = "approved"
    BY <1>3 DEF CheckReplay, EndReplay
  <2>6. DiffersAt(ticket', ticket, t) /\ Changes(t) BY <1>0, <1>2, <2>5, FailedChanges
  <2>7. /\ replay' \in ReplayTables /\ \A s \in Tickets : s # t => replay'[s] = replay[s]
        /\ replay'[t] = "finished" \/ (replay'[t] = "claimed" /\ ticket' = ticket /\ ticket[t].status = "approved")
    BY <1>0, <2>5, EndReplayTable
  <2>8. Claimed(t)'
    BY <1>0, <2>1, <2>3, <2>4, <2>6, <2>7 DEF OfTicket, Claimed, Approved, Changes
  <2>9. Known(t)' BY <1>0, <2>1, <2>3, <2>4, <2>6, <2>7 DEF OfTicket, Known, Changes
  <2> QED BY <2>1, <2>2, <2>3, <2>6, <2>7, <2>8, <2>9, ThreadKeeps
<1>4. CASE Act(t)
  <2>1. /\ replay[t] = "claimed" /\ UNCHANGED <<ticket, resume, call, access, turn>>
        /\ ticket[t].human => ticket[t].by = "user"
        /\ history' = [history EXCEPT !.effects[t] = @ + 1] /\ replay' = [replay EXCEPT ![t] = "acted"]
    BY <1>4 DEF Act
  <2>2. history.effects[t] = 0 BY <1>0, <2>1 DEF OfTicket, Claimed
  <2>3. /\ history' \in HistoryRows /\ history'.used = history.used /\ history'.given = history.given
        /\ history'.effects[t] = 1 /\ \A s \in Tickets : s # t => history'.effects[s] = history.effects[s]
    BY <1>0, <2>1, <2>2 DEF HistoryRows
  <2>4. GrantsAreCounted' BY <2>1, <2>3 DEF GateIInv, GrantsAreCounted
  <2>5. /\ replay' \in ReplayTables /\ replay'[t] = "acted" /\ \A s \in Tickets : s # t => replay'[s] = replay[s]
    BY <1>0, <2>1, EndReplayTable
  <2>6. Claimed(t)' BY <1>0, <2>1, <2>3, <2>5 DEF OfTicket, Claimed
  <2>7. Known(t)' BY <1>0, <2>1, <2>3, <2>5 DEF OfTicket, Known
  <2> QED BY <1>0, <1>2, <2>1, <2>2, <2>3, <2>4, <2>5, <2>6, <2>7, ThreadKeeps
<1>5. CASE FailReplay(t) \/ Mark(t)
  <2>1. /\ UNCHANGED <<resume, call, access, turn, history>>
        /\ replay' = [replay EXCEPT ![t] = "finished"]
        /\ replay[t] \in {"claimed", "acted"}
        /\ \/ ticket' = Failed(ticket, t) \/ ticket' = ticket
           \/ /\ ticket[t].status = "approved" /\ ticket' = [ticket EXCEPT ![t].status = "applied"]
              /\ replay[t] = "acted"
    BY <1>5 DEF FailReplay, Mark, EndReplay
  <2>2. ticket[t].status \in {"approved", "applied", "failed"} BY <1>0, <2>1 DEF OfTicket, Claimed
  <2>3. DiffersAt(ticket', ticket, t) /\ Changes(t) /\ (ticket'[t].status = "applied" => history.effects[t] = 1)
    <3>1. CASE ticket' = Failed(ticket, t) BY <1>0, <2>2, <3>1, FailedChanges
    <3>2. CASE ticket' = ticket BY <1>0, <1>2, <3>2 DEF OfTicket, Claimed
    <3>3. CASE /\ ticket[t].status = "approved" /\ ticket' = [ticket EXCEPT ![t].status = "applied"]
               /\ replay[t] = "acted"
      <4>1. history.effects[t] = 1 BY <1>0, <3>3 DEF OfTicket, Claimed
      <4>2. DiffersAt(ticket', ticket, t) /\ ticket'[t].status = "applied" /\ ticket'[t].by = ticket[t].by
        BY <1>0, <3>3 DEF DiffersAt, TicketTables, TicketRows, Statuses
      <4> QED BY <3>3, <4>1, <4>2 DEF Changes, DiffersAt
    <3> QED BY <2>1, <3>1, <3>2, <3>3
  <2>4. /\ replay' \in ReplayTables /\ replay'[t] = "finished" /\ \A s \in Tickets : s # t => replay'[s] = replay[s]
    BY <1>0, <2>1, EndReplayTable
  <2>5. Claimed(t)' BY <1>0, <2>1, <2>3, <2>4 DEF OfTicket, Claimed, Changes
  <2>6. Known(t)' BY <1>0, <2>1, <2>3, <2>4 DEF OfTicket, Known, Changes
  <2>7. GrantsAreCounted' BY <2>1, CountsKeep
  <2> QED BY <1>0, <2>1, <2>3, <2>4, <2>5, <2>6, <2>7, ThreadKeeps
<1> QED BY <1>3, <1>4, <1>5

\* A replay that needs one more permission fails its ticket and has the next one created.
LEMMA ReplayAsksKeeps ==
    ASSUME GateIInv, NEW t \in Tickets, ReplayAsks(t)
    PROVE  GateIInv'
<1>0. /\ ApprovalTypeOK /\ ticket \in TicketTables /\ resume \in ResumeTables /\ call \in CallTables
      /\ replay \in ReplayTables /\ history \in HistoryRows /\ access \in AccessRows
      /\ OfTicket(t) /\ turn \in [pausing : BOOLEAN, restarted : BOOLEAN]
  BY Tables DEF GateIInv, ApprovalTypeOK
<1>20. PICK c \in Calls : c = ticket[t].call BY <1>0 DEF TicketTables, TicketRows
<1>1. PICK n \in Fresh, kind \in Kinds :
        /\ ticket' = Created(c, kind, FALSE, n, Failed(ticket, t))
        /\ resume' = [Superseded(c, kind) EXCEPT ![t] = Quiet]
        /\ call' = [call EXCEPT ![c].phase = "queued", ![c].ticket = n, ![c].hop = @ + 1]
  BY <1>20 DEF ReplayAsks, EndReplay
<1>2. /\ replay[t] = "claimed" /\ call[c].phase = "replaying" /\ replay' = [replay EXCEPT ![t] = "finished"]
      /\ UNCHANGED <<access, turn, history>>
  BY <1>20 DEF ReplayAsks, EndReplay
<1>3. /\ c \in Calls /\ call[c].ticket = t /\ call[c].hop < MaxHops
      /\ ticket[t].status \in {"approved", "applied", "failed"} /\ history.effects[t] = 0
  <2>2. call[c].ticket = t /\ ticket[t].status \in {"approved", "applied", "failed"} /\ history.effects[t] = 0
    BY <1>0, <1>2, <1>20 DEF OfTicket, Known, Claimed
  <2>3. Held(c) BY DEF GateIInv, OfCall
  <2> QED BY <1>2, <2>2, <2>3 DEF Held, Holding
<1>4. n \in Tickets /\ ticket[n].status = "none" /\ n # t BY <1>3 DEF Fresh
<1> DEFINE tk == Failed(ticket, t)
<1>5. /\ tk \in TicketTables /\ tk[t].status = "failed" /\ tk[t].by = ticket[t].by
      /\ tk[t].kind = ticket[t].kind /\ tk[t].call = ticket[t].call /\ tk[t].human = ticket[t].human
      /\ tk[t].old = ticket[t].old /\ \A s \in Tickets : s # t => tk[s] = ticket[s]
  BY <1>0, FailedTable DEF DiffersAt
<1>6. HasNew(ticket', c, kind, FALSE, n, tk)
  <2> HIDE DEF tk
  <2>1. FALSE \in BOOLEAN OBVIOUS
  <2>2. HasNew(Created(c, kind, FALSE, n, tk), c, kind, FALSE, n, tk)
    BY <1>3, <1>5, <2>1, CreatedTable
  <2> QED BY <1>1, <2>2 DEF tk
<1> HIDE DEF tk
<1>7. n \notin Replaced(c, kind) /\ t \notin Replaced(c, kind) BY <1>3, <1>4 DEF Replaced, Pending
<1>8. /\ resume' \in ResumeTables
      /\ \A s \in Tickets : s # t /\ s \notin Replaced(c, kind) => resume'[s] = resume[s]
  <2>1. /\ Superseded(c, kind) \in ResumeTables
        /\ \A s \in Tickets : s \notin Replaced(c, kind) => Superseded(c, kind)[s] = resume[s]
    BY <1>0, <1>3, SupersededTable
  <2> QED BY <1>1, <2>1, ConstantRows DEF ResumeTables
<1>9. MovesOnly(call', c) /\ call'[c].phase = "queued" /\ call'[c].ticket = n
  <2>1. call[c].hop + 1 \in 0..MaxHops BY <1>0, <1>3, GateAssumption DEF CallTables, CallRows
  <2>2. "queued" \in Phases BY DEF Phases
  <2> QED BY <1>0, <1>1, <1>3, <1>4, <2>1, <2>2 DEF MovesOnly, CallTables, CallRows
<1>10. replay' \in ReplayTables /\ replay'[t] = "finished" /\ \A s \in Tickets : s # t => replay'[s] = replay[s]
  BY <1>0, <1>2, EndReplayTable
<1>11. Changes(t) /\ ticket'[t].status = "failed"
  BY <1>3, <1>4, <1>5, <1>6, <1>7 DEF HasNew, Changes
<1>12. ASSUME NEW s \in Replaced(c, kind)
       PROVE  /\ s \in Tickets /\ s # n /\ s # t /\ ticket[s].call = c /\ ticket[s].status = "pending"
              /\ Changes(s)
  <2>1. s \in Tickets /\ s # n /\ s # t /\ ticket[s].call = c /\ ticket[s].status = "pending"
    BY <1>7 DEF Replaced, Pending
  <2> QED BY <1>5, <1>6, <2>1 DEF HasNew, Changes
<1>13. ASSUME NEW s \in Tickets, s # n, s # t, s \notin Replaced(c, kind) PROVE Kept(s) /\ Changes(s) /\ Appears(s)
  BY <1>5, <1>6, <1>8, <1>10, <1>13 DEF HasNew, Kept, Changes, Appears
<1>14. Appears(n) BY <1>4, <1>6, <1>7, <1>8, <1>10 DEF Appears, HasNew
<1>15. Local(c)
  <2>1. ASSUME NEW s \in Tickets
        PROVE  /\ ticket[s].status = "none" => Appears(s)
               /\ ticket[s].status # "none" => Changes(s) /\ (ticket[s].call # c => Kept(s))
    BY <1>3, <1>4, <1>11, <1>12, <1>13, <1>14, <1>20
  <2> QED BY <1>0, <1>2, <1>6, <1>8, <1>9, <1>10, <2>1 DEF Local, HasNew
<1>16. OfCall(c)'
  <2>1. replay'[n] = "idle" /\ resume'[n].decision = ""
    <3>1. Unused(n) BY <1>4 DEF GateIInv, OfTicket
    <3>2. Quiet.decision = "" BY DEF Quiet
    <3> QED BY <1>4, <1>14, <3>1, <3>2 DEF Unused, Appears
  <2> QED BY <1>4, <1>6, <1>9, <2>1 DEF OfCall, Held, OnRecord, Acted, HasNew
<1>17. ASSUME NEW s \in Tickets PROVE OfTicket(s)'
  <2>1. OfTicket(s) BY DEF GateIInv
  <2>2. CASE ticket[s].status = "none" BY <1>2, <1>15, <2>1, <2>2, AppearsKeeps DEF Local
  <2>3. CASE ticket[s].status # "none" /\ ticket[s].call # c BY <1>3, <1>15, <2>3, OthersKeep
  <2>4. CASE ticket[s].status # "none" /\ ticket[s].call = c /\ s # t
    <3>1. Unused(s)' /\ Approved(s)' /\ Claimed(s)'
      BY <1>2, <1>10, <1>15, <2>1, <2>4, ChangesKeep DEF Local, OfTicket
    <3>2. history.effects[s] # 1 /\ replay[s] \notin {"checking", "claimed"}
      BY <1>2, <1>3, <2>1, <2>4 DEF OfTicket, Known
    <3> QED BY <1>2, <1>10, <2>4, <3>1, <3>2 DEF OfTicket, Known
  <2>5. CASE s = t
    BY <1>0, <1>2, <1>3, <1>10, <1>11, <1>20, <2>5 DEF OfTicket, Unused, Approved, Claimed, Known
  <2> QED BY <2>2, <2>3, <2>4, <2>5
<1>18. GrantsAreCounted' BY <1>2, CountsKeep
<1>19. ApprovalTypeOK' BY <1>0, <1>2, <1>15, TypedTables DEF Local, MovesOnly
<1> QED BY <1>15, <1>16, <1>17, <1>18, <1>19, OthersKeep DEF GateIInv

LEMMA GrowOldKeeps ==
    ASSUME GateIInv, NEW t \in Tickets, GrowOld(t)
    PROVE  GateIInv'
<1>1. /\ ticket \in TicketTables /\ resume \in ResumeTables /\ call \in CallTables
      /\ replay \in ReplayTables /\ history \in HistoryRows /\ access \in AccessRows
      /\ turn \in [pausing : BOOLEAN, restarted : BOOLEAN]
  BY Tables DEF GateIInv, ApprovalTypeOK
<1>2. /\ UNCHANGED <<resume, call, replay, access, turn, history>> /\ ticket[t].status # "none"
      /\ ticket' = [ticket EXCEPT ![t].old = TRUE]
  BY DEF GrowOld
<1>3. /\ ticket' \in TicketTables /\ \A s \in Tickets : s # t => ticket'[s] = ticket[s]
      /\ Changes(t) /\ ticket'[t].status = ticket[t].status /\ ticket'[t].old
  BY <1>1, <1>2 DEF TicketTables, TicketRows, Changes
<1>4. \A s \in Tickets : Changes(s) BY <1>3 DEF Changes
<1>5. ASSUME NEW s \in Tickets PROVE OfTicket(s)' BY <1>2, <1>3, <1>4, TicketsKeep
<1>6. ASSUME NEW c \in Calls PROVE OfCall(c)'
  <2>1. OnRecord(c) /\ Held(c) BY DEF GateIInv, OfCall
  <2>2. OnRecord(c)' BY <1>2, <1>3, <2>1, ZenonT(30) DEF OnRecord, Held, Holding
  <2> QED BY <1>2, <1>4, <2>2, CallsKeep
<1>7. ApprovalTypeOK' BY <1>1, <1>2, <1>3, TypedTables
<1> QED BY <1>2, <1>5, <1>6, <1>7, CountsKeep DEF GateIInv

LEMMA TicketKeepsAll ==
    ASSUME GateIInv, NEW t \in Tickets, TicketNext(t)
    PROVE  GateIInv'
<1>0. access \in AccessRows /\ history \in HistoryRows /\ GrantsAreCounted BY Tables DEF GateIInv
<1>1. ASSUME NEW who \in {"user", "telegram"}, NEW ok \in BOOLEAN, Answer(t, who, ok) PROVE GateIInv'
  <2> DEFINE word == IF ok THEN "approved" ELSE "rejected"
  <2>1. /\ ticket[t].kind = "approval" /\ Valid(t) /\ ticket' = Settled(ticket, t, word, who)
        /\ resume' = Signal(resume, t, word) /\ UNCHANGED <<call, replay, access, turn, history>>
    BY <1>1 DEF Answer
  <2>2. who \in Someone /\ word \in Statuses /\ word \in Decisions \ {""} /\ word = Answers(word)
        /\ word \in {"approved", "rejected"}
    BY DEF Someone, Statuses, Decisions, Answers
  <2>3. GrantsAreCounted' BY <2>1, CountsKeep
  <2> HIDE DEF word
  <2> QED BY <1>0, <2>1, <2>2, <2>3, AnswerKeeps
<1>2. ASSUME NEW d \in {"once", "session", "always", "deny"}, AnswerGrant(t, d) PROVE GateIInv'
  <2> DEFINE no == d = "deny" \/ (ticket[t].call \in Unattended /\ d # "once")
             st == IF no THEN "denied" ELSE "granted"
             word == IF no THEN "deny" ELSE d
  <2>1. /\ Valid(t) /\ ticket' = Settled(ticket, t, st, "user") /\ resume' = Signal(resume, t, word)
        /\ UNCHANGED <<call, replay, turn>>
    BY <1>2 DEF AnswerGrant
  <2>2. /\ access' = IF no THEN access
                     ELSE IF d = "always" THEN [access EXCEPT !.policy = "open"]
                     ELSE [access EXCEPT !.row = d]
        /\ history' = IF ~no /\ d = "once" THEN [history EXCEPT !.given = @ + 1] ELSE history
    BY <1>2 DEF AnswerGrant
  <2>3. /\ "user" \in Someone /\ st \in Statuses /\ word \in Decisions \ {""} /\ st = Answers(word)
        /\ st \in {"denied", "granted"}
    BY DEF Someone, Statuses, Decisions, Answers
  <2>4. ~no => d \in {"once", "session", "always"} OBVIOUS
  <2> HIDE DEF no, st, word
  <2>5. access' \in AccessRows /\ history' \in HistoryRows /\ history'.effects = history.effects
    BY <1>0, <2>2, <2>4 DEF AccessRows, HistoryRows
  <2>6. GrantsAreCounted'
    BY <1>0, <2>2, <2>4 DEF AccessRows, HistoryRows, GrantsAreCounted
  <2> QED BY <2>1, <2>3, <2>5, <2>6, AnswerKeeps
<1> QED BY <1>1, <1>2, ReplayKeeps, ReplayAsksKeeps, GrowOldKeeps DEF TicketNext

\* Listing expires old tickets; a pause or a blocked target changes none.
LEMMA ListKeeps ==
    ASSUME GateIInv, List \/ Pause \/ BlockTarget \/ UNCHANGED vars
    PROVE  GateIInv'
<1>1. /\ ticket \in TicketTables /\ resume \in ResumeTables /\ call \in CallTables
      /\ replay \in ReplayTables /\ history \in HistoryRows /\ access \in AccessRows
      /\ turn \in [pausing : BOOLEAN, restarted : BOOLEAN] /\ GrantsAreCounted
  BY Tables DEF GateIInv, ApprovalTypeOK
<1>2. /\ UNCHANGED <<resume, call, replay, history>> /\ access' \in AccessRows
      /\ access'.row = access.row /\ turn' \in [pausing : BOOLEAN, restarted : BOOLEAN]
  BY <1>1 DEF List, Pause, BlockTarget, vars, AccessRows
<1>3. ASSUME NEW t \in Tickets
      PROVE  /\ ticket'[t] \in TicketRows /\ Changes(t)
             /\ ticket[t].status # "pending" => ticket'[t] = ticket[t]
             /\ ticket[t].status = "pending" => ticket'[t].status \in {"pending", "expired"}
  <2>1. ticket[t] \in TicketRows BY <1>1 DEF TicketTables
  <2>2. \/ ticket'[t] = ticket[t]
        \/ /\ ticket[t].status = "pending"
           /\ ticket'[t] = [ticket[t] EXCEPT !.status = "expired", !.by =
                               IF ticket[t].kind = "approval" THEN "system" ELSE ""]
    BY DEF List, Pause, BlockTarget, vars, Pending
  <2>3. "expired" \in Statuses /\ "system" \in Deciders /\ "" \in Deciders BY DEF Statuses, Deciders
  <2> QED BY <2>1, <2>2, <2>3 DEF TicketRows, Changes
<1>4. ticket' \in TicketTables
  <2>1. ticket' = [t \in Tickets |-> ticket'[t]] BY <1>1 DEF List, Pause, BlockTarget, vars, TicketTables
  <2> QED BY <1>3, <2>1 DEF TicketTables
<1>5. ASSUME NEW t \in Tickets PROVE OfTicket(t)' BY <1>2, <1>3, TicketsKeep
<1>6. ASSUME NEW c \in Calls PROVE OfCall(c)'
  <2>1. OnRecord(c) /\ Held(c) BY DEF GateIInv, OfCall
  <2>2. OnRecord(c)'
    <3>1. CASE call[c].phase \in Asking
      <4> DEFINE t == call[c].ticket
      <4>1. t \in Tickets /\ resume[t].decision \in Decisions
        BY <1>1, <2>1, <3>1 DEF Held, Holding, ResumeTables, ResumeRows
      <4>2. \A e \in Decisions : Answers(e) # "pending" BY DEF Answers, Decisions
      <4>3. resume[t].decision # "" => ticket'[t].status = ticket[t].status \/ ticket[t].status # Answers(resume[t].decision)
        BY <1>3, <4>1, <4>2
      <4>4. ticket[t].old => ticket'[t].old BY <1>3, <4>1 DEF Changes
      <4>5. ticket[t].status \in {"pending", "expired"} => ticket'[t].status \in {"pending", "expired"}
        BY <1>3, <4>1
      <4> QED BY <1>2, <2>1, <3>1, <4>3, <4>4, <4>5 DEF OnRecord
    <3>2. CASE call[c].phase \notin Asking BY <1>2, <3>2 DEF OnRecord
    <3> QED BY <3>1, <3>2
  <2> QED BY <1>2, <1>3, <2>2, CallsKeep
<1>7. ApprovalTypeOK' BY <1>1, <1>2, <1>4, TypedTables
<1>8. GrantsAreCounted' BY <1>1, <1>2 DEF GrantsAreCounted
<1> QED BY <1>5, <1>6, <1>7, <1>8 DEF GateIInv

\* A restart ends every call and every thread; what had acted stays on record.
LEMMA RestartKeeps ==
    ASSUME GateIInv, Restart
    PROVE  GateIInv'
<1>1. /\ ticket \in TicketTables /\ resume \in ResumeTables /\ call \in CallTables
      /\ replay \in ReplayTables /\ history \in HistoryRows /\ access \in AccessRows
  BY Tables DEF GateIInv
<1>2. turn' \in [pausing : BOOLEAN, restarted : BOOLEAN] /\ UNCHANGED <<access, history>>
  BY DEF Restart
<1>3. ASSUME NEW t \in Tickets
      PROVE  /\ ticket'[t] \in TicketRows /\ Changes(t)
             /\ ticket[t].status = "none" => ticket'[t] = ticket[t]
  <2>1. ticket[t] \in TicketRows BY <1>1 DEF TicketTables
  <2>2. \/ ticket'[t] = ticket[t]
        \/ /\ ticket[t].status = "pending"
           /\ \/ ticket'[t] = [ticket[t] EXCEPT !.status = "expired", !.by = "system"]
              \/ ticket'[t] = [ticket[t] EXCEPT !.status = "expired"]
    BY DEF Restart, Pending
  <2>3. "expired" \in Statuses /\ "system" \in Deciders BY DEF Statuses, Deciders
  <2> QED BY <2>1, <2>2, <2>3 DEF TicketRows, Changes
<1>4. ticket' \in TicketTables
  <2>1. ticket' = [t \in Tickets |-> ticket'[t]] BY DEF Restart
  <2> QED BY <1>3, <2>1 DEF TicketTables
<1>5. resume' \in ResumeTables /\ \A t \in Tickets : resume'[t] = Quiet
  BY ConstantRows DEF Restart, ResumeTables
<1>6. replay' \in ReplayTables
      /\ \A t \in Tickets : replay'[t] = IF replay[t] = "idle" THEN "idle" ELSE "finished"
  BY DEF Restart, ReplayTables
<1>7. ASSUME NEW c \in Calls
      PROVE  /\ call'[c] \in CallRows /\ call'[c].phase = "done"
             /\ IF call[c].phase = "done" THEN call'[c] = call[c] ELSE call'[c].outcome = "stopped"
  <2>1. call[c] \in CallRows BY <1>1 DEF CallTables
  <2>2. call'[c] = IF call[c].phase = "done" THEN call[c]
                   ELSE [call[c] EXCEPT !.phase = "done", !.outcome = "stopped"]
    BY DEF Restart
  <2>3. "done" \in Phases /\ "stopped" \in Outcomes BY DEF Phases, Outcomes
  <2> QED BY <2>1, <2>2, <2>3 DEF CallRows
<1>8. call' \in CallTables
  <2>1. call' = [c \in Calls |-> call'[c]] BY DEF Restart
  <2> QED BY <1>7, <2>1 DEF CallTables
<1>9. ASSUME NEW t \in Tickets PROVE OfTicket(t)'
  <2>1. OfTicket(t) BY DEF GateIInv
  <2>2. Unused(t)' BY <1>3, <1>5, <1>6, <2>1 DEF OfTicket, Unused, Changes
  <2>3. Approved(t)' BY <1>3, <2>1 DEF OfTicket, Approved, Changes
  <2>4. Claimed(t)' BY <1>2, <1>3, <1>6, <2>1 DEF OfTicket, Claimed, Changes
  <2>5. Known(t)'
    <3>1. ticket'[t].call = ticket[t].call /\ ticket[t].call \in Calls
      BY <1>1, <1>3 DEF Changes, TicketTables, TicketRows
    <3>2. call'[ticket[t].call].phase = "done" BY <1>7, <3>1
    <3> QED BY <1>2, <1>6, <1>7, <2>1, <3>1, <3>2 DEF OfTicket, Known
  <2> QED BY <2>2, <2>3, <2>4, <2>5 DEF OfTicket
<1>10. ASSUME NEW c \in Calls PROVE OfCall(c)'
  <2>1. Acted(c) BY DEF GateIInv, OfCall
  <2>2. \A t \in Tickets : ticket[t].status # "none" =>
           ticket'[t].status # "none" /\ ticket'[t].call = ticket[t].call
    BY <1>3 DEF Changes
  <2>3. Acted(c)' BY <1>2, <1>7, <2>1, <2>2 DEF Acted
  <2> QED BY <1>7, <2>3 DEF OfCall, Held, OnRecord, Holding, Asking
<1>11. ApprovalTypeOK' BY <1>1, <1>2, <1>4, <1>5, <1>6, <1>8, TypedTables
<1>12. GrantsAreCounted' BY <1>2, CountsKeep
<1> QED BY <1>9, <1>10, <1>11, <1>12 DEF GateIInv

LEMMA GateStarts ==
    ASSUME GateInit
    PROVE  GateIInv
<1>1. /\ \A t \in Tickets : ticket[t] = NoTicket /\ resume[t] = Quiet /\ replay[t] = "idle"
                             /\ history.effects[t] = 0
      /\ history.used = 0 /\ history.given = 0 /\ access.row = "none"
  BY DEF GateInit
<1>2. NoTicket.status = "none" /\ NoTicket \in TicketRows /\ Quiet \in ResumeRows
  BY ConstantRows DEF NoTicket
<1>3. ASSUME NEW c \in Calls PROVE call[c] \in CallRows /\ call[c].phase = "running"
  <2>1. "running" \in Phases /\ "" \in Outcomes /\ 0 \in 0..MaxHops
    BY GateAssumption DEF Phases, Outcomes
  <2> QED BY <1>2, <2>1 DEF GateInit, CallRows
<1>4. ApprovalTypeOK
  <2>1. ticket \in TicketTables /\ resume \in ResumeTables
    BY <1>2 DEF GateInit, TicketTables, ResumeTables
  <2>2. call \in CallTables
    <3>1. call = [c \in Calls |-> call[c]] BY DEF GateInit
    <3> QED BY <1>3, <3>1 DEF CallTables
  <2>3. /\ replay \in [Tickets -> {"idle", "checking", "claimed", "acted", "finished"}]
        /\ access \in [row : {"none", "once", "session"}, policy : {"ask", "open", "blocked"}]
        /\ turn \in [pausing : BOOLEAN, restarted : BOOLEAN]
        /\ history \in [effects : [Tickets -> Nat], given : Nat, used : Nat]
    BY DEF GateInit
  <2> QED BY <2>1, <2>2, <2>3 DEF ApprovalTypeOK, TicketTables, ResumeTables, CallTables
<1>5. \A c \in Calls : OfCall(c) BY <1>3 DEF OfCall, Held, OnRecord, Acted, Holding, Asking
<1>6. \A t \in Tickets : OfTicket(t)
  BY <1>1, <1>2 DEF OfTicket, Unused, Approved, Claimed, Known
<1>7. GrantsAreCounted BY <1>1 DEF GrantsAreCounted
<1> QED BY <1>4, <1>5, <1>6, <1>7 DEF GateIInv

-----------------------------------------------------------------------------
(* Theorems. *)

\* Every reachable state satisfies the inductive invariant: a ticket belongs to one call, only a
\* claim of an approved ticket precedes an effect, and what a thread may still do is known to
\* the call it works for (execution_gate.py, execution_resume.py).
THEOREM GateInvariant == Spec => []GateIInv
<1>1. GateInit => GateIInv BY GateStarts
<1>2. GateIInv /\ [Next]_vars => GateIInv'
  BY CallKeepsAll, TicketKeepsAll, ListKeeps, RestartKeeps DEF Next
<1> QED BY <1>1, <1>2, PTL DEF Spec

\* Type correctness of the tickets, the gates, the threads and the grants.
THEOREM ApprovalTypes == Spec => []ApprovalTypeOK
<1>1. GateIInv => ApprovalTypeOK BY DEF GateIInv
<1> QED BY <1>1, GateInvariant, PTL

\* An approved action runs at most once, on the word of someone who may give it, and no one-time
\* grant admits two actions, for any number of calls, tickets and hops (resume_approved_ticket,
\* consume_once_grant).
THEOREM ConsentPrecedesEffects == Spec => []ConsentBeforeEffect
<1>1. GateIInv => ConsentBeforeEffect
  <2> SUFFICES ASSUME GateIInv PROVE ConsentBeforeEffect OBVIOUS
  <2>1. ASSUME NEW t \in Tickets, history.effects[t] > 0
        PROVE  /\ history.effects[t] = 1 /\ ticket[t].kind = "approval"
               /\ ticket[t].status \in {"approved", "applied", "failed"}
               /\ ticket[t].by \in (IF ticket[t].human THEN {"user"} ELSE {"user", "telegram", "auto_review"})
    <3>1. Claimed(t) BY DEF GateIInv, OfTicket
    <3>2. history.effects[t] = 1 BY <2>1, <3>1 DEF Claimed
    <3> QED BY <3>1, <3>2 DEF Claimed, Someone
  <2>2. history.used <= history.given
    <3>1. history.used \in Nat /\ history.given \in Nat BY DEF GateIInv, ApprovalTypeOK
    <3>2. GrantsAreCounted BY DEF GateIInv
    <3> QED BY <3>1, <3>2 DEF GrantsAreCounted
  <2> QED BY <2>1, <2>2 DEF ConsentBeforeEffect
<1> QED BY <1>1, GateInvariant, PTL

\* The outcome a call reports agrees with what its tickets did and may still do
\* (resolve_pending_output, await_ticket_resolution).
THEOREM OutcomesAreTrue == Spec => []ToldTheTruth
<1>1. GateIInv => ToldTheTruth
  <2> SUFFICES ASSUME GateIInv, NEW c \in Calls, call[c].phase = "done"
               PROVE  LET mine == {t \in Tickets : ticket[t].call = c /\ ticket[t].status # "none"}
                          acts == {t \in mine : history.effects[t] > 0 \/ replay[t] \in {"checking", "claimed"}}
                      IN  /\ call[c].outcome \in {"ran", "denied", "cancelled", "timeout", "unknown", "hops"} => acts = {}
                          /\ call[c].outcome = "applied" => acts # {}
    BY DEF ToldTheTruth
  <2>1. Acted(c) BY DEF GateIInv, OfCall
  <2>2. ASSUME NEW t \in Tickets, ticket[t].call = c,
               history.effects[t] > 0 \/ replay[t] \in {"checking", "claimed"}
        PROVE  call[c].outcome \in {"applied", "failed", "stopped"}
    <3>1. Known(t) /\ Claimed(t) BY DEF GateIInv, OfTicket
    <3>2. history.effects[t] > 0 => history.effects[t] = 1 BY <3>1 DEF Claimed
    <3> QED BY <2>2, <3>1, <3>2 DEF Known
  <2> QED BY <2>1, <2>2 DEF Acted
<1> QED BY <1>1, GateInvariant, PTL

\* A gate that waits on a settled ticket has been woken, by the decision the ticket records
\* (register_pending_resume, signal_resume).
THEOREM DecisionsAreHeard == Spec => []DecisionsWakeTheGate
<1>1. GateIInv => DecisionsWakeTheGate
  <2> SUFFICES ASSUME GateIInv, NEW c \in Calls, call[c].phase = "waiting"
               PROVE  LET t == call[c].ticket
                          d == resume[t].decision
                      IN  /\ resume[t].event = (IF d = "" THEN "clear" ELSE "set")
                          /\ d = "" => ticket[t].status \in {"pending", "expired"}
                          /\ d # "" => \/ ticket[t].status = (CASE d = "deny" -> "denied"
                                                                [] d \in {"once", "session", "always"} -> "granted"
                                                                [] OTHER -> d)
                                       \/ d = "deny" /\ ticket[t].old /\ c \in Unattended
    BY DEF DecisionsWakeTheGate
  <2>1. OnRecord(c) BY DEF GateIInv, OfCall
  <2> QED BY <2>1 DEF OnRecord, Answers, Asking
<1> QED BY <1>1, GateInvariant, PTL

=============================================================================
