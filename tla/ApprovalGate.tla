---------------------------- MODULE ApprovalGate ----------------------------
(* The permission gates of one turn: its tool calls ask through access-grant  *)
(* and approval tickets (access_grant_broker.py, approval_broker.py); the     *)
(* gate of execution_gate.py has a ticket reviewed, waits for its decision    *)
(* and resumes the call; execution_resume.py replays what was approved.       *)
(* Handlers and replays run on worker threads, everything else on the loop.   *)
EXTENDS Naturals, FiniteSets

CONSTANTS
    Calls,        \* tool calls of the turn, which share one gate lock
    Unattended,   \* the calls of a source that cannot show a prompt
    MaxTickets,   \* bound: tickets ever created
    MaxHops       \* MAX_GATE_HOPS

ASSUME GateAssumption ==
    /\ Calls # {} /\ IsFiniteSet(Calls) /\ Unattended \subseteq Calls
    /\ MaxTickets \in Nat /\ MaxHops \in Nat \ {0}

VARIABLES
    ticket,    \* the tickets of both brokers
    resume,    \* the event a gate waits on and the decision left for it
    call,      \* where each tool call is
    replay,    \* the worker thread that replays an approved ticket
    access,    \* the session_grants row of the scope, and what the settings allow
    turn,      \* whether the turn pauses, and whether the process was restarted
    history    \* effects run for each ticket; once grants given and used

vars == <<ticket, resume, call, replay, access, turn, history>>

Tickets   == 1..MaxTickets
Kinds     == {"approval", "grant"}
Statuses  == {"none", "pending", "approved", "rejected", "superseded", "expired", "applied",
              "failed", "granted", "denied"}
Deciders  == {"", "user", "telegram", "auto_review", "system"}
Decisions == {"", "approved", "rejected", "superseded", "once", "session", "always", "deny"}
Phases    == {"running", "admitted", "queued", "asked", "reviewing", "waiting", "replaying", "done"}
Outcomes  == {"", "ran", "applied", "failed", "denied", "cancelled", "timeout", "unknown", "hops",
              "stopped"}

TicketRows == [status : Statuses, kind : Kinds, call : Calls, by : Deciders, human : BOOLEAN, old : BOOLEAN]
ResumeRows == [event : {"none", "clear", "set"}, decision : Decisions]
CallRows   == [phase : Phases, ticket : {0} \cup Tickets, hop : 0..MaxHops, snap : TicketRows,
               outcome : Outcomes, cancelled : BOOLEAN]
NoTicket == [status |-> "none", kind |-> "grant", call |-> CHOOSE c \in Calls : TRUE, by |-> "",
             human |-> FALSE, old |-> FALSE]
Quiet    == [event |-> "none", decision |-> ""]

GateInit ==
    /\ ticket  = [t \in Tickets |-> NoTicket]
    /\ resume  = [t \in Tickets |-> Quiet]
    /\ call    = [c \in Calls |-> [phase |-> "running", ticket |-> 0, hop |-> 0, snap |-> NoTicket,
                                   outcome |-> "", cancelled |-> FALSE]]
    /\ replay  = [t \in Tickets |-> "idle"]
    /\ access  = [row |-> "none", policy |-> "ask"]
    /\ turn    = [pausing |-> FALSE, restarted |-> FALSE]
    /\ history = [effects |-> [t \in Tickets |-> 0], given |-> 0, used |-> 0]

-----------------------------------------------------------------------------
(* The brokers, each operation under its lock. *)

Pending(tk, t) == tk[t].status = "pending"
Valid(t)       == Pending(ticket, t) /\ ~ticket[t].old

\* approve_ticket, reject_ticket: only a pending ticket is settled.
Settled(tk, t, status, who) ==
    IF Pending(tk, t) THEN [tk EXCEPT ![t].status = status, ![t].by = who] ELSE tk

Failed(tk, t) == [tk EXCEPT ![t].status = "failed"]

\* signal_resume: the decision is kept for a gate that does not wait yet.
Signal(r, t, d) == [r EXCEPT ![t].decision = d, ![t].event = IF @ = "none" THEN @ ELSE "set"]

\* Faulty: a decision made before the gate waits does not wake it.
RegisteredDeaf(r, t) == [r EXCEPT ![t].event = "clear"]

\* register_pending_resume: a decision already there sets the event at once.
Registered(r, t) == [r EXCEPT ![t].event = IF r[t].decision = "" THEN "clear" ELSE "set"]

Cleaned(r, t) == [r EXCEPT ![t] = Quiet]

\* The pending tickets that the next one of a call replaces: the same request of the same root.
Replaced(c, kind) == {s \in Tickets : Pending(ticket, s) /\ ticket[s].call = c /\ ticket[s].kind = kind}
Fresh == {t \in Tickets : ticket[t].status = "none"
                          /\ \A s \in Tickets : s < t => ticket[s].status # "none"}

\* create_ticket, create_grant_ticket: the new ticket is shown to the user at once.
Created(c, kind, human, t, tk) ==
    [s \in Tickets |-> IF s = t THEN [NoTicket EXCEPT !.status = "pending", !.kind = kind, !.call = c,
                                                      !.human = human]
                       ELSE IF s \in Replaced(c, kind) THEN [tk[s] EXCEPT !.status = "superseded"]
                       ELSE tk[s]]

\* The waiters of replaced tickets are signalled once the lock is released.  One
\* step with the change: in between only this thread of the call is at work, for
\* its gate waits on no ticket until the new one is returned to it.
Superseded(c, kind) ==
    [s \in Tickets |-> IF s \in Replaced(c, kind) THEN Signal(resume, s, "superseded")[s] ELSE resume[s]]

\* retire_grant: a ticket still pending when nothing waits on it any more.
Retired(tk, t) == IF tk[t].kind = "grant" THEN Settled(tk, t, "expired", "") ELSE tk

-----------------------------------------------------------------------------
(* The handler of a call, on its worker thread: resolve_permission admits it  *)
(* or asks for a grant; admitted, it acts or asks for an approval.            *)

Goto(c, phase)   == call' = [call EXCEPT ![c].phase = phase, ![c].snap = NoTicket]
End(c, outcome)  == [call EXCEPT ![c].phase = "done", ![c].outcome = outcome, ![c].snap = NoTicket]
Return(c, t)     == [call EXCEPT ![c].phase = "queued", ![c].ticket = t]
Covered          == access.policy = "open" \/ access.row \in {"once", "session"}

\* Faulty: a one-time grant is only looked at.
ConsumedLater == [access EXCEPT !.row = @]

\* check_session_grant, consume_once_grant: the first to claim a one-time grant uses it up.
Consumed == IF access.policy = "ask" /\ access.row = "once" THEN [access EXCEPT !.row = "none"] ELSE access
Used     == IF access.policy = "ask" /\ access.row = "once" THEN [history EXCEPT !.used = @ + 1] ELSE history

Admit(c) ==
    /\ call[c].phase = "running" /\ access.policy # "blocked" /\ Covered
    /\ access' = Consumed /\ history' = Used /\ Goto(c, "admitted")
    /\ UNCHANGED <<ticket, resume, replay, turn>>

Refuse(c) ==
    /\ call[c].phase = "running" /\ access.policy = "blocked"
    /\ call' = End(c, "denied")
    /\ UNCHANGED <<ticket, resume, replay, access, turn, history>>

AskForAccess(c) ==
    /\ call[c].phase = "running" /\ access.policy = "ask" /\ ~Covered
    /\ \E t \in Fresh :
         /\ ticket' = Created(c, "grant", FALSE, t, ticket)
         /\ resume' = Superseded(c, "grant")
         /\ \/ call' = Return(c, t)
            \/ UNCHANGED call          \* the handler goes on and asks for another target
    /\ UNCHANGED <<replay, access, turn, history>>

AskForApproval(c) ==
    /\ call[c].phase = "admitted"
    /\ \E t \in Fresh, human \in BOOLEAN :
         /\ ticket' = Created(c, "approval", human, t, ticket)
         /\ resume' = Superseded(c, "approval")
         /\ \/ call' = Return(c, t)
            \/ UNCHANGED call
    /\ UNCHANGED <<replay, access, turn, history>>

Run(c) ==
    /\ call[c].phase = "admitted"
    /\ call' = End(c, "ran")
    /\ UNCHANGED <<ticket, resume, replay, access, turn, history>>

-----------------------------------------------------------------------------
(* The gate, one call of the turn at a time. *)

AtGate(c)   == call[c].phase \in {"asked", "reviewing", "waiting", "replaying"} \/ call[c].hop > 0
GateFree    == \A c \in Calls : AtGate(c) => call[c].phase = "done"

EnterGate(c) ==
    /\ call[c].phase = "queued"
    /\ call[c].hop > 0 \/ GateFree
    /\ Goto(c, "asked")
    /\ UNCHANGED <<ticket, resume, replay, access, turn, history>>

\* _retire_matching_pending_ticket: a pending ticket is withdrawn, an approved one is failed.
Withdrawn(t) ==
    IF ticket[t].old THEN ticket
    ELSE IF ticket[t].kind = "grant" THEN Settled(ticket, t, "denied", "")
    ELSE IF ticket[t].status = "approved" THEN Failed(ticket, t)
    ELSE Settled(ticket, t, "rejected", "system")

\* The handler had begun an opaque effect when it asked: nothing is awaited.
RefuseUnknown(c) ==
    /\ call[c].phase = "asked" /\ call[c].hop < MaxHops
    /\ LET t == call[c].ticket IN
         /\ ticket' = Withdrawn(t)
         /\ resume' = IF Valid(t) THEN Cleaned(resume, t) ELSE resume
    /\ call' = End(c, "unknown")
    /\ UNCHANGED <<replay, access, turn, history>>

\* _reject_pending_ticket after the last hop.
RefuseHop(c) ==
    /\ call[c].phase = "asked" /\ call[c].hop = MaxHops
    /\ LET t == call[c].ticket
           grant == ticket[t].kind = "grant"
       IN  /\ ticket' = IF grant THEN IF Valid(t) THEN Settled(ticket, t, "denied", "") ELSE ticket
                        ELSE Settled(ticket, t, "rejected", "system")
           /\ resume' = Signal(resume, t, IF grant THEN "deny" ELSE "rejected")
    /\ call' = End(c, "hops")
    /\ UNCHANGED <<replay, access, turn, history>>

Reviewable(t) ==
    /\ ticket[t].kind = "approval" /\ Valid(t) /\ ~ticket[t].human
    /\ ticket[t].call \notin Unattended

AskReviewer(c) ==
    /\ call[c].phase = "asked" /\ call[c].hop < MaxHops /\ Reviewable(call[c].ticket)
    /\ call' = [call EXCEPT ![c].phase = "reviewing", ![c].snap = ticket[call[c].ticket]]
    /\ UNCHANGED <<ticket, resume, replay, access, turn, history>>

\* A request like one the reviewer denied in this turn is denied without asking it again.
DenyAgain(c) ==
    /\ call[c].phase = "asked" /\ call[c].hop < MaxHops
    /\ LET t == call[c].ticket IN
         /\ ticket[t].kind = "approval" /\ Valid(t)
         /\ \E s \in Tickets : ticket[s].status = "rejected" /\ ticket[s].by = "auto_review"
         /\ ticket' = Settled(ticket, t, "rejected", "auto_review")
         /\ resume' = Cleaned(resume, t)
    /\ call' = End(c, "denied")
    /\ UNCHANGED <<replay, access, turn, history>>

\* apply_auto_review settles only the exact ticket that the reviewer saw.
Seen(c) == LET t == call[c].ticket IN ticket[t] = call[c].snap /\ Valid(t)

\* Waiting begins: an unattended call has its pending ticket denied at once.
StartWait(c, tk, r) ==
    LET t     == call[c].ticket
        grant == ticket[t].kind = "grant"
        deny  == c \in Unattended /\ Pending(tk, t)
    IN  /\ ticket' = IF ~deny THEN tk
                     ELSE IF ~grant THEN Settled(tk, t, "rejected", "system")
                     ELSE IF tk[t].old THEN tk ELSE Settled(tk, t, "denied", "")
        /\ resume' = IF deny THEN Signal(Registered(r, t), t, IF grant THEN "deny" ELSE "rejected")
                     ELSE Registered(r, t)
        /\ Goto(c, "waiting")

Wait(c) ==
    /\ call[c].phase = "asked" /\ call[c].hop < MaxHops
    /\ StartWait(c, ticket, resume)
    /\ UNCHANGED <<replay, access, turn, history>>

\* The reviewer answers.  An answer for a ticket that changed meanwhile asks the user.
Reviewed(c) ==
    /\ call[c].phase = "reviewing"
    /\ LET t == call[c].ticket IN
         \/ /\ Seen(c)
            /\ StartWait(c, Settled(ticket, t, "approved", "auto_review"), Signal(resume, t, "approved"))
         \/ /\ Seen(c)
            /\ ticket' = Settled(ticket, t, "rejected", "auto_review")
            /\ resume' = Cleaned(resume, t)
            /\ call'   = End(c, "denied")
         \/ StartWait(c, ticket, resume)
    /\ UNCHANGED <<replay, access, turn, history>>

\* A new instruction of the user, or a pause, came during the review.
ReviewIsLate(c) ==
    /\ call[c].phase = "reviewing"
    /\ LET t == call[c].ticket IN
         /\ ticket' = IF Seen(c) THEN Settled(ticket, t, "rejected", "system") ELSE ticket
         /\ resume' = Cleaned(resume, t)
    /\ call' = End(c, "cancelled")
    /\ UNCHANGED <<replay, access, turn, history>>

\* The end of every wait: the decision is dropped, a grant still pending expires.
Leave(c, tk, r, outcome) ==
    /\ ticket' = Retired(tk, call[c].ticket)
    /\ resume' = Cleaned(r, call[c].ticket)
    /\ call'   = End(c, outcome)

Woken(c) == call[c].phase = "waiting" /\ resume[call[c].ticket].event = "set"

\* The turn pauses, found before the decision or with it.
WithdrawForPause(c) ==
    /\ call[c].phase = "waiting" /\ turn.pausing
    /\ Leave(c, Withdrawn(call[c].ticket), resume, "cancelled")
    /\ UNCHANGED <<replay, access, turn, history>>

\* Faulty: the time limit also ends a replay.
TimesOutAnywhere(c) ==
    /\ call[c].phase \in {"waiting", "replaying"}
    /\ Leave(c, ticket, resume, "timeout")
    /\ UNCHANGED <<replay, access, turn, history>>

WaitTimesOut(c) ==
    /\ call[c].phase = "waiting" /\ ~Woken(c)
    /\ Leave(c, ticket, resume, "timeout")
    /\ UNCHANGED <<replay, access, turn, history>>

Denied(c) ==
    /\ Woken(c) /\ ~turn.pausing
    /\ resume[call[c].ticket].decision \in {"", "deny", "rejected", "superseded"}
    /\ Leave(c, ticket, resume, "denied")
    /\ UNCHANGED <<replay, access, turn, history>>

\* An approved ticket is replayed on a worker thread.
StartReplay(c) ==
    /\ Woken(c) /\ ~turn.pausing
    /\ resume[call[c].ticket].decision = "approved"
    /\ resume' = [resume EXCEPT ![call[c].ticket].decision = ""]
    /\ replay' = [replay EXCEPT ![call[c].ticket] = "checking"]
    /\ Goto(c, "replaying")
    /\ UNCHANGED <<ticket, access, turn, history>>

\* A granted ticket runs the handler again: it is admitted by the grant, or asks again.
RunAgain(c) ==
    /\ Woken(c) /\ ~turn.pausing
    /\ LET t == call[c].ticket IN
         /\ resume[t].decision \in {"once", "session", "always"}
         /\ IF ticket[t].status = "granted" /\ ~ticket[t].old
            THEN /\ call' = [call EXCEPT ![c].phase = "running", ![c].hop = @ + 1]
                 /\ UNCHANGED ticket
            ELSE /\ call' = End(c, "denied")
                 /\ ticket' = Retired(ticket, t)
         /\ resume' = Cleaned(resume, t)
    /\ UNCHANGED <<replay, access, turn, history>>

-----------------------------------------------------------------------------
(* The replay of an approved ticket, on a worker thread of its own. *)

EndReplay(t, tk) == ticket' = tk /\ replay' = [replay EXCEPT ![t] = "finished"]

\* resume_approved_ticket up to the claim: the ticket, the permissions and Stop are checked.
CheckReplay(t) ==
    /\ replay[t] = "checking"
    /\ LET c == ticket[t].call IN
         IF ticket[t].status # "approved"
         THEN EndReplay(t, ticket) /\ UNCHANGED <<access, history>>
         ELSE IF ticket[t].old
         THEN EndReplay(t, Failed(ticket, t)) /\ UNCHANGED <<access, history>>
         ELSE /\ access' = IF access.policy = "blocked" THEN access ELSE Consumed
              /\ history' = IF access.policy = "blocked" THEN history ELSE Used
              /\ IF access.policy = "blocked" \/ call[c].cancelled
                 THEN EndReplay(t, Failed(ticket, t))
                 ELSE /\ replay' = [replay EXCEPT ![t] = "claimed"]
                      /\ UNCHANGED ticket
    /\ UNCHANGED <<resume, call, turn>>

\* The executor acts.  A consequential action is revalidated: it needs the user's own approval.
Act(t) ==
    /\ replay[t] = "claimed"
    /\ ticket[t].human => ~ticket[t].old /\ ticket[t].by = "user"
    /\ history' = [history EXCEPT !.effects[t] = @ + 1]
    /\ replay'  = [replay EXCEPT ![t] = "acted"]
    /\ UNCHANGED <<ticket, resume, call, access, turn>>

\* The executor refuses or fails before it acts.
FailReplay(t) ==
    /\ replay[t] = "claimed"
    /\ EndReplay(t, Failed(ticket, t))
    /\ UNCHANGED <<resume, call, access, turn, history>>

\* mark_applied, mark_failed: an executor that acted may still report a failure.
Mark(t) ==
    /\ replay[t] = "acted"
    /\ \/ EndReplay(t, IF ticket[t].status = "approved" THEN [ticket EXCEPT ![t].status = "applied"] ELSE ticket)
       \/ EndReplay(t, Failed(ticket, t))
    /\ UNCHANGED <<resume, call, access, turn, history>>

\* The executor needs one more permission: its request is the next hop of the gate.
ReplayAsks(t) ==
    /\ replay[t] = "claimed" /\ call[ticket[t].call].phase = "replaying"
    /\ \E n \in Fresh, kind \in Kinds :
         LET c == ticket[t].call IN
           /\ EndReplay(t, Created(c, kind, FALSE, n, Failed(ticket, t)))
           /\ resume' = [Superseded(c, kind) EXCEPT ![t] = Quiet]
           /\ call' = [call EXCEPT ![c].phase = "queued", ![c].ticket = n, ![c].hop = @ + 1]
    /\ UNCHANGED <<access, turn, history>>

\* The result reaches the gate.
ReplayReturns(c) ==
    /\ call[c].phase = "replaying" /\ replay[call[c].ticket] = "finished"
    /\ Leave(c, ticket, resume, IF ticket[call[c].ticket].status = "applied" THEN "applied" ELSE "failed")
    /\ UNCHANGED <<replay, access, turn, history>>

-----------------------------------------------------------------------------
(* The user, the clock, Stop and a restart. *)

\* The routes and the Telegram bot answer a pending ticket, and signal in the same step.
Answer(t, who, ok) ==
    /\ ticket[t].kind = "approval" /\ Valid(t)
    /\ ticket' = Settled(ticket, t, IF ok THEN "approved" ELSE "rejected", who)
    /\ resume' = Signal(resume, t, IF ok THEN "approved" ELSE "rejected")
    /\ UNCHANGED <<call, replay, access, turn, history>>

\* resolve_grant: a prompt nobody could be shown cannot give a lasting grant.
AnswerGrant(t, d) ==
    /\ ticket[t].kind = "grant" /\ Valid(t)
    /\ LET no == d = "deny" \/ (ticket[t].call \in Unattended /\ d # "once") IN
         /\ ticket' = Settled(ticket, t, IF no THEN "denied" ELSE "granted", "user")
         /\ resume' = Signal(resume, t, IF no THEN "deny" ELSE d)
         /\ access' = IF no THEN access
                      ELSE IF d = "always" THEN [access EXCEPT !.policy = "open"]
                      ELSE [access EXCEPT !.row = d]
         /\ history' = IF ~no /\ d = "once" THEN [history EXCEPT !.given = @ + 1] ELSE history
    /\ UNCHANGED <<call, replay, turn>>

BlockTarget ==
    /\ access.policy # "blocked"
    /\ access' = [access EXCEPT !.policy = "blocked"]
    /\ UNCHANGED <<ticket, resume, call, replay, turn, history>>

\* Ten minutes pass.
GrowOld(t) ==
    /\ ticket[t].status \in {"pending", "approved", "granted"} /\ ~ticket[t].old
    /\ ticket' = [ticket EXCEPT ![t].old = TRUE]
    /\ UNCHANGED <<resume, call, replay, access, turn, history>>

\* get_pending_tickets, get_pending_grants: listing expires what is too old, and wakes nobody.
List ==
    /\ \E t \in Tickets : Pending(ticket, t) /\ ticket[t].old
    /\ ticket' = [t \in Tickets |-> IF Pending(ticket, t) /\ ticket[t].old
                                    THEN [ticket[t] EXCEPT !.status = "expired", !.by =
                                            IF ticket[t].kind = "approval" THEN "system" ELSE ""]
                                    ELSE ticket[t]]
    /\ UNCHANGED <<resume, call, replay, access, turn, history>>

Pause ==
    /\ ~turn.pausing /\ ~turn.restarted
    /\ turn' = [turn EXCEPT !.pausing = TRUE]
    /\ UNCHANGED <<ticket, resume, call, replay, access, history>>

\* Stop, or the timeout of a tool, cancels the call; a thread that runs goes on alone.
StopCall(c) ==
    /\ call[c].phase # "done"
    /\ call' = [End(c, "stopped") EXCEPT ![c].cancelled = TRUE]
    /\ IF call[c].phase \in {"waiting", "replaying"}
       THEN ticket' = Retired(ticket, call[c].ticket) /\ resume' = Cleaned(resume, call[c].ticket)
       ELSE UNCHANGED <<ticket, resume>>
    /\ UNCHANGED <<replay, access, turn, history>>

\* Approval tickets are read back, grant tickets, gates, threads and claims are gone.
Restart ==
    /\ ~turn.restarted
    /\ turn'   = [pausing |-> FALSE, restarted |-> TRUE]
    /\ ticket' = [t \in Tickets |->
                    IF ticket[t].kind = "approval" /\ Pending(ticket, t) /\ ticket[t].old
                    THEN [ticket[t] EXCEPT !.status = "expired", !.by = "system"]
                    ELSE IF ticket[t].kind = "grant" /\ Pending(ticket, t)
                    THEN [ticket[t] EXCEPT !.status = "expired"] ELSE ticket[t]]
    /\ resume' = [t \in Tickets |-> Quiet]
    /\ replay' = [t \in Tickets |-> IF replay[t] = "idle" THEN "idle" ELSE "finished"]
    /\ call'   = [c \in Calls |-> IF call[c].phase = "done" THEN call[c]
                                  ELSE [call[c] EXCEPT !.phase = "done", !.outcome = "stopped"]]
    /\ UNCHANGED <<access, history>>

-----------------------------------------------------------------------------
CallNext(c) ==
    \/ Admit(c) \/ Refuse(c) \/ AskForAccess(c) \/ AskForApproval(c) \/ Run(c)
    \/ EnterGate(c) \/ RefuseUnknown(c) \/ RefuseHop(c) \/ AskReviewer(c) \/ DenyAgain(c) \/ Wait(c)
    \/ Reviewed(c) \/ ReviewIsLate(c) \/ WithdrawForPause(c) \/ WaitTimesOut(c) \/ Denied(c)
    \/ StartReplay(c) \/ RunAgain(c) \/ ReplayReturns(c) \/ StopCall(c)

TicketNext(t) ==
    \/ CheckReplay(t) \/ Act(t) \/ FailReplay(t) \/ Mark(t) \/ ReplayAsks(t) \/ GrowOld(t)
    \/ \E who \in {"user", "telegram"}, ok \in BOOLEAN : Answer(t, who, ok)
    \/ \E d \in {"once", "session", "always", "deny"} : AnswerGrant(t, d)

Next == (\E c \in Calls : CallNext(c)) \/ (\E t \in Tickets : TicketNext(t)) \/ List \/ Pause \/ BlockTarget \/ Restart

Spec == GateInit /\ [][Next]_vars

-----------------------------------------------------------------------------
(* Properties. *)

\* Type correctness of the tickets, the gates, the threads and the grants.
ApprovalTypeOK ==
    /\ ticket \in [Tickets -> TicketRows] /\ resume \in [Tickets -> ResumeRows]
    /\ call \in [Calls -> CallRows]
    /\ replay \in [Tickets -> {"idle", "checking", "claimed", "acted", "finished"}]
    /\ access \in [row : {"none", "once", "session"}, policy : {"ask", "open", "blocked"}]
    /\ turn \in [pausing : BOOLEAN, restarted : BOOLEAN]
    /\ history \in [effects : [Tickets -> Nat], given : Nat, used : Nat]

\* An approved action runs at most once, and only on the word of someone who may give it: the
\* reviewer or a person, the user in person for a consequential action.  A ticket that the user
\* rejected, that another one replaced or that was withdrawn never runs, however the decision
\* raced with the review, the expiry or the pause; and no one-time grant admits two actions.
ConsentBeforeEffect ==
    /\ \A t \in Tickets : history.effects[t] > 0 =>
         /\ history.effects[t] = 1 /\ ticket[t].kind = "approval"
         /\ ticket[t].status \in {"approved", "applied", "failed"}
         /\ ticket[t].by \in (IF ticket[t].human THEN {"user"} ELSE {"user", "telegram", "auto_review"})
    /\ history.used <= history.given

\* What the model is told of a call is what happened: a call reported as denied, cancelled, timed
\* out or refused has not acted under any of its tickets and will not; one reported as applied has.
ToldTheTruth ==
    \A c \in Calls : call[c].phase = "done" =>
      LET mine == {t \in Tickets : ticket[t].call = c /\ ticket[t].status # "none"}
          acts == {t \in mine : history.effects[t] > 0 \/ replay[t] \in {"checking", "claimed"}}
      IN  /\ call[c].outcome \in {"ran", "denied", "cancelled", "timeout", "unknown", "hops"} => acts = {}
          /\ call[c].outcome = "applied" => acts # {}

\* No decision is lost: a gate that waits on a ticket that somebody has settled, before the wait
\* or during it, is woken, and by the very decision the ticket records.  Only the prompt of an
\* unattended call that is already too old is denied without being settled.
DecisionsWakeTheGate ==
    \A c \in Calls : call[c].phase = "waiting" =>
      LET t == call[c].ticket
          d == resume[t].decision
      IN  /\ resume[t].event = (IF d = "" THEN "clear" ELSE "set")
          /\ d = "" => ticket[t].status \in {"pending", "expired"}
          /\ d # "" => \/ ticket[t].status = (CASE d = "deny" -> "denied"
                                                [] d \in {"once", "session", "always"} -> "granted"
                                                [] OTHER -> d)
                       \/ d = "deny" /\ ticket[t].old /\ c \in Unattended
=============================================================================
