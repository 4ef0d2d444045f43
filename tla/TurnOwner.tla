------------------------------ MODULE TurnOwner ------------------------------
(***************************************************************************)
(* The owner of a live turn (class DurableTurnRun in durable/turn_run.py)  *)
(* and its lifecycle (harness/turn_lifecycle.py, the start and the end of  *)
(* turn_loop.py): what a worker of a backend process asks of the journal   *)
(* for its run, and what it keeps in memory between two transactions.      *)
(*                                                                         *)
(* Every method here runs on the event loop without an await between its   *)
(* check of the row and its transaction, so it is one action; finalize,    *)
(* which commits twice when it pauses a run, is two.  An action either     *)
(* conjoins one action of DurableJournal or leaves its variables alone.    *)
(***************************************************************************)
EXTENDS DurableJournal

VARIABLE
    turn    \* the turn of run r that is alive in some process

(* phase: queued behind the session lock after resume_run, starting once the *)
(* lifecycle is registered, working in the loop, ending when finalize has    *)
(* chosen the outcome, sealed when the reply is persisted or could not be,   *)
(* closing between the two transactions of a pause.                          *)
(* input is recovery_input_ref, pause, review and lost are the flags of the  *)
(* objects, expired says that the lease of the row has run out.              *)
Phases   == {"none", "queued", "starting", "working", "ending", "sealed", "closing"}
Outcomes == {"completed", "paused", "failed", "cancelled"}

NoTurnAlive ==
    [phase |-> "none", proc |-> NoOwner, attempt |-> 0, input |-> 0, outcome |-> "none",
     pause |-> FALSE, review |-> FALSE, lost |-> FALSE, expired |-> FALSE]

TurnStarted(phase, o, a, input) ==
    [NoTurnAlive EXCEPT !.phase = phase, !.proc = o, !.attempt = a, !.input = input]

TurnsAlive ==
    [phase : Phases \ {"none"}, proc : Owners, attempt : Attempts, input : Attempts,
     outcome : Outcomes \cup {"none"},
     pause : BOOLEAN, review : BOOLEAN, lost : BOOLEAN, expired : BOOLEAN]

HasLifecycle(r) == turn[r].phase \notin {"none", "queued"}

(* The asyncio lock of the conversation is free in process o.                *)
SessionFree(c, o) ==
    \A s \in Runs : HasLifecycle(s) => runs[s].conv # c \/ turn[s].proc # o

(* _latest_owned passes.                                                     *)
StillOwned(r) == Owns(r, turn[r].proc, turn[r].attempt) /\ ~turn[r].expired

(* The transaction the turn asks for, fenced with the revision it just read. *)
Move(r, to, ref) ==
    TransitionRun(r, to, turn[r].proc, turn[r].attempt, runs[r].revision, ref)

Ended(r) == turn' = [turn EXCEPT ![r] = NoTurnAlive]

------------------------------------------------------------------------------
(* Starting.                                                                 *)

(* A first turn creates its run under the session lock.                      *)
BeginTurn(r, c, o) ==
    /\ turn[r].phase = "none"
    /\ SessionFree(c, o)
    /\ CreateRun(r, c, convs[c].ws, o)
    /\ turn' = [turn EXCEPT ![r] = TurnStarted("starting", o, 1, 1)]

(* resume_run claims the paused run in the HTTP handler; a task of its own   *)
(* then waits for the session lock.                                          *)
Resume(r, o) ==
    /\ turn[r].phase = "none"
    /\ ClaimRun(r, o, runs[r].revision)
    /\ turn' = [turn EXCEPT ![r] = TurnStarted("queued", o, runs[r].attempt + 1, InputTurn(r))]

Activate(r) ==
    /\ turn[r].phase = "queued"
    /\ SessionFree(runs[r].conv, turn[r].proc)
    /\ turn' = [turn EXCEPT ![r].phase = "starting"]
    /\ UNCHANGED vars

(* The worker saves the goal of the task in the conversation.  With a worker *)
(* of an earlier turn of it still running (stuck) it ends at once.           *)
StartWork(r, stuck) ==
    LET c == runs[r].conv IN
    /\ turn[r].phase = "starting"
    /\ UpdateConversation(c, convs[c].ws)
    /\ turn' = [turn EXCEPT ![r].phase = IF stuck THEN "ending" ELSE "working",
                            ![r].outcome = IF stuck THEN "paused" ELSE "none"]

(* The inbox is taken, or the runtime cannot start: finalize("error").       *)
RejectQueued(r) ==
    /\ turn[r].phase = "queued"
    /\ StillOwned(r)
    /\ Move(r, "failed", 0)
    /\ Ended(r)

(* Stop cancels the task that waits for the lock, or the lease has run out   *)
(* when it is rejected: no one finalizes the run.                            *)
CancelQueued(r) ==
    /\ turn[r].phase = "queued"
    /\ Ended(r)
    /\ UNCHANGED vars

PersistInput(r, users) ==
    /\ turn[r].phase = "working" /\ turn[r].attempt = 1
    /\ PersistRecoveryInput(r, turn[r].proc, 1, users)
    /\ UNCHANGED turn

HasInput(r) == turn[r].attempt > 1 \/ turns[r][1].state # "absent"

------------------------------------------------------------------------------
(* The lease.                                                                *)

LeaseExpires(r) ==
    /\ turn[r].phase \notin {"none", "closing"} /\ ~turn[r].expired
    /\ turn' = [turn EXCEPT ![r].expired = TRUE]
    /\ UNCHANGED vars

(* The heartbeat does not look at the expiry: a late renewal revives it.     *)
Heartbeat(r) ==
    /\ HasLifecycle(r) /\ ~turn[r].lost
    /\ RenewLease(r, turn[r].proc, turn[r].attempt)
    /\ turn' = [turn EXCEPT ![r].expired = FALSE]

(* A renewal that raises (a busy database) gives the lease up and cancels    *)
(* the worker.                                                               *)
HeartbeatFails(r) ==
    /\ HasLifecycle(r) /\ turn[r].phase # "closing" /\ ~turn[r].lost
    /\ turn' = [turn EXCEPT ![r].lost = TRUE]
    /\ UNCHANGED vars

------------------------------------------------------------------------------
(* Pausing and ending.                                                       *)

(* The flag is set first.  The row does not follow when a worker commits     *)
(* between its reading and the transaction (a revision conflict).            *)
RequestPause(r) ==
    /\ HasLifecycle(r)
    /\ runs[r].status \in {"running", "waiting_approval"}
    /\ \/ /\ StillOwned(r)
          /\ Move(r, "pausing", 0) \/ UNCHANGED vars
          /\ turn' = [turn EXCEPT ![r].pause = TRUE]
       \/ /\ ~StillOwned(r)
          /\ turn' = [turn EXCEPT ![r].pause = TRUE, ![r].lost = TRUE]
          /\ UNCHANGED vars

(* The loop leaves its rounds: a final answer, a pause point, a limit, a     *)
(* timeout, Stop or an error.  From here on a pause comes too late for it.   *)
EndTurn(r, outcome) ==
    /\ turn[r].phase = "working"
    /\ outcome = "completed" => ~turn[r].pause /\ ~turn[r].review
    /\ turn' = [turn EXCEPT ![r].phase = "ending", ![r].outcome = outcome]
    /\ UNCHANGED vars

(* persist_turn; when it fails the outcome is an error.                      *)
Seal(r, more) ==
    /\ turn[r].phase = "ending"
    /\ FinalizeTurn(r, more)
    /\ turn' = [turn EXCEPT ![r].phase = "sealed"]

SealFails(r) ==
    /\ turn[r].phase = "ending"
    /\ turn' = [turn EXCEPT ![r].phase = "sealed", ![r].outcome = "failed"]
    /\ UNCHANGED vars

(* What transition_run checks before it moves the run.                       *)
Refused(r, to, ref) ==
    \/ to \notin RunTransitions[runs[r].status]
    \/ to \in ReleasedStatuses /\ ~NoUnresolvedWrites(r)
    \/ to = "completed" /\ ~HasCommittedCheckpoint(r)
    \/ to = "paused" /\ ~HasRecoveryInput(r, ref)

RefFor(r) == IF turn[r].outcome = "paused" THEN turn[r].input ELSE 0

(* mark_needs_review, which asks nothing of lease_lost.                      *)
FinishForReview(r) ==
    /\ turn[r].phase = "sealed" /\ turn[r].review
    /\ StillOwned(r)
    /\ Move(r, "needs_review", 0)
    /\ Ended(r)

(* The lease is lost or expired: the turn goes away and the row stays.       *)
FinishUnowned(r) ==
    /\ turn[r].phase = "sealed"
    /\ StillOwned(r) => turn[r].lost /\ ~turn[r].review
    /\ Ended(r)
    /\ UNCHANGED vars

(* finalize: a pause that did not go through pausing does so first.          *)
MayFinish(r) == turn[r].phase = "sealed" /\ ~turn[r].review /\ ~turn[r].lost /\ StillOwned(r)
PausesFirst(r) == turn[r].outcome = "paused" /\ runs[r].status \in {"running", "waiting_approval"}
Closing(r) == turn[r].phase = "closing" \/ (MayFinish(r) /\ ~PausesFirst(r))

FinishPausing(r) ==
    /\ MayFinish(r) /\ PausesFirst(r)
    /\ Move(r, "pausing", 0)
    /\ turn' = [turn EXCEPT ![r].phase = "closing"]

Finish(r) ==
    /\ Closing(r)
    /\ Move(r, turn[r].outcome, RefFor(r))
    /\ Ended(r)

LeftBehindBug(r) ==
    /\ Closing(r)
    /\ Refused(r, turn[r].outcome, RefFor(r))
    /\ Ended(r)
    /\ UNCHANGED vars

(* The transition is refused: the run is handed to the user instead.         *)
FinishRefused(r) ==
    /\ Closing(r)
    /\ Refused(r, turn[r].outcome, RefFor(r))
    /\ runs[r].status \in ActiveRunStatuses
    /\ Move(r, "needs_review", 0)
    /\ Ended(r)
=============================================================================
