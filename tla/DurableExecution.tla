--------------------------- MODULE DurableExecution ---------------------------
(***************************************************************************)
(* Backend processes that share one journal: they start, recover the runs  *)
(* of dead processes (durable/recovery.py), serve turns and their tool     *)
(* calls (TurnOwner, ToolCalls), let the user verify an effect (api/       *)
(* routes/runs.py), and crash at any point.                                *)
(*                                                                         *)
(* Every step is one step of DurableJournal or leaves the journal alone,   *)
(* so the specification implements that of the journal.                    *)
(***************************************************************************)
EXTENDS ToolCalls

CONSTANTS
    UserInputs,     \* what a user message may hold: "text", "attached"
    Disturbances    \* what may come between the turns and their end: a process
                    \* crashes, a lease runs out, a turn fails, is stopped, or is
                    \* dropped while it is queued, a reply is not saved, the
                    \* conversation is edited, the user pauses or verifies

ASSUME InputsAssumption == UserInputs \subseteq {"text", "attached"}
ASSUME DisturbancesAssumption ==
    Disturbances \subseteq {"crash", "lease", "failed", "cancelled", "drop", "unsaved", "edit",
                            "pause", "verify"}

VARIABLES
    proc,       \* the process of each owner id
    scan,       \* the revisions its startup recovery read and has yet to look at
    fixing,     \* the run it has taken over, or resolves, and has yet to conclude
    verdict,    \* what a request of the user has made of the files of an operation
    early       \* the operations whose failure rests on files read too early: a
                \* worker that their turn had given up on could still act on them

workVars == <<turn, call, landed>>
procVars == <<proc, scan, fixing, verdict, early>>
allVars  == <<vars, workVars, procVars>>

ProcStates == {"unborn", "starting", "up", "dead"}

(* by: the process whose request has read the files and has yet to commit,   *)
(* NoOwner when there is none; revision: that of the run the request was     *)
(* made for; astray: a worker given up on could act when the files were read.*)
Verdicts == [by : Owners \cup {NoOwner}, result : Results, revision : 0..MaxRevision,
             astray : BOOLEAN]
NoVerdict == [by |-> NoOwner, result |-> "none", revision |-> 0, astray |-> FALSE]

ExecTypeOK ==
    /\ TypeOK
    /\ turn \in [Runs -> TurnsAlive \cup {NoTurnAlive}]
    /\ call \in [Ops -> Calls]
    /\ landed \in SUBSET Ops
    /\ proc \in [Owners -> ProcStates]
    /\ scan \in [Owners -> [Runs -> 0..MaxRevision]]
    /\ fixing \in [Owners -> Runs \cup {Nobody}]
    /\ verdict \in [Ops -> Verdicts]
    /\ early \in SUBSET Ops

ExecInit ==
    /\ Init
    /\ turn = [r \in Runs |-> NoTurnAlive]
    /\ call = [x \in Ops |-> NoCall]
    /\ landed = {}
    /\ proc = [o \in Owners |-> "unborn"]
    /\ scan = [o \in Owners |-> [r \in Runs |-> 0]]
    /\ fixing = [o \in Owners |-> Nobody]
    /\ verdict = [x \in Ops |-> NoVerdict]
    /\ early = {}

------------------------------------------------------------------------------
(* Processes.                                                                *)

(* lifespan: recovery reads the runs that have an owner before the process   *)
(* serves anything.                                                          *)
Start(o) ==
    /\ proc[o] = "unborn"
    /\ proc' = [proc EXCEPT ![o] = "starting"]
    /\ scan' = [scan EXCEPT ![o] =
          [r \in Runs |-> IF runs[r].status \in LeasedStatuses THEN runs[r].revision ELSE 0]]
    /\ UNCHANGED <<vars, workVars, fixing, verdict, early>>

FinishStart(o) ==
    /\ proc[o] = "starting" /\ fixing[o] = Nobody
    /\ \A r \in Runs : scan[o][r] = 0
    /\ proc' = [proc EXCEPT ![o] = "up"]
    /\ UNCHANGED <<vars, workVars, scan, fixing, verdict, early>>

(* The threads of the process die with it; the journal and the world stay.   *)
Crash(o) ==
    /\ "crash" \in Disturbances
    /\ proc[o] \in {"starting", "up"}
    /\ proc' = [proc EXCEPT ![o] = "dead"]
    /\ turn' = [r \in Runs |-> IF turn[r].proc = o THEN NoTurnAlive ELSE turn[r]]
    /\ call' = [x \in Ops |-> IF call[x].proc = o THEN [call[x] EXCEPT !.phase = "done"] ELSE call[x]]
    /\ scan' = [scan EXCEPT ![o] = [r \in Runs |-> 0]]
    /\ fixing' = [fixing EXCEPT ![o] = Nobody]
    /\ verdict' = [x \in Ops |-> IF verdict[x].by = o THEN NoVerdict ELSE verdict[x]]
    /\ UNCHANGED <<vars, landed, early>>

------------------------------------------------------------------------------
(* Startup recovery (recover_startup_runs).                                  *)

LeaseOverBug(q) == proc[q] = "dead" \/ \E r \in Runs : turn[r].proc = q /\ turn[r].expired

(* owner_process_proof: the lock a process holds for its lifetime is free.   *)
ProvenDead(q) == proc[q] = "dead"

HandOff(o, r) ==
    /\ proc[o] = "starting" /\ fixing[o] = Nobody
    /\ scan[o][r] # 0
    /\ \E q \in Owners :
          /\ ProvenDead(q)
          /\ ReleaseExpiredRun(r, q, o, runs[r].attempt, scan[o][r])
    /\ scan' = [scan EXCEPT ![o][r] = 0]
    /\ fixing' = [fixing EXCEPT ![o] = r]
    /\ UNCHANGED <<workVars, proc, verdict, early>>

AnyOwnerBug(o, q) ==
    /\ proc[o] = "starting" /\ fixing[o] = Nobody
    /\ \E r \in Runs : scan[o][r] # 0 /\ runs[r].owner = q
    /\ scan' = [scan EXCEPT ![o] = [r \in Runs |-> IF runs[r].owner = q THEN 0 ELSE scan[o][r]]]
    /\ UNCHANGED <<vars, workVars, proc, fixing, verdict, early>>

(* A live owner is looked at once: all its runs of the page are left alone.  *)
LeaveToOwner(o, q) ==
    /\ proc[o] = "starting" /\ fixing[o] = Nobody
    /\ proc[q] # "dead"
    /\ \E r \in Runs : scan[o][r] # 0 /\ runs[r].owner = q
    /\ scan' = [scan EXCEPT ![o] = [r \in Runs |-> IF runs[r].owner = q THEN 0 ELSE scan[o][r]]]
    /\ UNCHANGED <<vars, workVars, proc, fixing, verdict, early>>

(* The row has changed since the page was read: a conflict.                  *)
LeaveChanged(o, r) ==
    /\ proc[o] = "starting" /\ fixing[o] = Nobody
    /\ scan[o][r] \notin {0, runs[r].revision}
    /\ scan' = [scan EXCEPT ![o][r] = 0]
    /\ UNCHANGED <<vars, workVars, proc, fixing, verdict, early>>

Verifiable(x) ==
    /\ ops[x].effect = "verifiable_write"
    /\ ops[x].status \in {"executing", "uncertain", "needs_review"}
    /\ ops[x].attempt = runs[RunOf(x)].attempt

(* The read-only verifier, with an answer it is sure of.                     *)
VerifyRecovered(o, x, result) ==
    /\ proc[o] = "starting" /\ fixing[o] = RunOf(x)
    /\ Verifiable(x)
    /\ Verified(x, result)
    /\ TransitionOperation(x, IF result = "completed" THEN "verified" ELSE "failed",
                           o, ops[x].attempt, result)
    /\ UNCHANGED <<workVars, procVars>>

StillUncertain(r) ==
    \E x \in OpsOf(r) : IsWrite(ops[x]) /\ ops[x].status \in {"executing", "uncertain", "needs_review"}

Conclude(o) ==
    LET r == fixing[o]  MoveTo(to) == TransitionRun(r, to, o, runs[r].attempt, runs[r].revision, 0) IN
    /\ proc[o] = "starting" /\ r # Nobody
    /\ \/ StillUncertain(r) /\ runs[r].status = "interrupted" /\ MoveTo("needs_review")
       \/ StillUncertain(r) /\ runs[r].status = "needs_review" /\ UNCHANGED vars
       \/ ~StillUncertain(r) /\ HasSafeResumeInput(r) /\ MoveTo("paused")
       \/ ~StillUncertain(r) /\ ~HasSafeResumeInput(r) /\ UNCHANGED vars
    /\ fixing' = [fixing EXCEPT ![o] = Nobody]
    /\ UNCHANGED <<workVars, proc, scan, verdict, early>>

------------------------------------------------------------------------------
(* The user verifies an effect (resolve_run_operation).  The request reads   *)
(* the files in a thread while the event loop goes on, commits what it found *)
(* if the run is still at the revision the user looked at, and pauses the    *)
(* run in a transaction of its own.                                          *)

(* A request that reads again takes the place of the one before it: of two   *)
(* with one revision the second to commit is refused.                        *)
ReadForUser(o, x, result) ==
    LET r == RunOf(x) IN
    /\ "verify" \in Disturbances
    /\ proc[o] = "up" /\ fixing[o] = Nobody
    /\ ops[x].status # "absent"
    /\ runs[r].status \in Quarantined /\ runs[r].owner = o
    /\ convs[runs[r].conv].ws = runs[r].ws
    /\ ~HasLifecycle(r)
    /\ Verifiable(x)
    /\ Verified(x, result)
    /\ verdict' = [verdict EXCEPT ![x] =
          [by |-> o, result |-> result, revision |-> runs[r].revision,
           astray |-> call[x].phase = "stray"]]
    /\ UNCHANGED <<vars, workVars, proc, scan, fixing, early>>

(* The run and its folder are what they were when the request came in.       *)
StillCurrent(x) ==
    LET r == RunOf(x) IN
    /\ ops[x].status # "absent"
    /\ runs[r].revision = verdict[x].revision
    /\ convs[runs[r].conv].ws = runs[r].ws

CommitVerdict(o, x) ==
    LET result == verdict[x].result IN
    /\ verdict[x].by = o
    /\ proc[o] = "up" /\ fixing[o] = Nobody
    /\ StillCurrent(x)
    /\ \/ /\ result = "unknown"
          /\ RecordUnknownVerification(x, o, ops[x].attempt)
          /\ UNCHANGED <<fixing, early>>
       \/ /\ result # "unknown"
          /\ TransitionOperation(x, IF result = "completed" THEN "verified" ELSE "failed",
                                 o, ops[x].attempt, result)
          /\ fixing' = [fixing EXCEPT ![o] = RunOf(x)]
          /\ early' = IF result = "unchanged" /\ verdict[x].astray THEN early \cup {x} ELSE early
    /\ verdict' = [verdict EXCEPT ![x] = NoVerdict]
    /\ UNCHANGED <<workVars, proc, scan>>

(* Refused: the row has changed, the control session has expired, or the     *)
(* client is gone.                                                           *)
DropVerdict(o, x) ==
    /\ verdict[x].by = o
    /\ verdict' = [verdict EXCEPT ![x] = NoVerdict]
    /\ UNCHANGED <<vars, workVars, proc, scan, fixing, early>>

PauseResolved(o) ==
    LET r == fixing[o]
        pausable == /\ runs[r].status \in Quarantined /\ runs[r].owner = o
                    /\ HasSafeResumeInput(r) /\ NoUnresolvedWrites(r)
    IN
    /\ proc[o] = "up" /\ r # Nobody
    /\ IF pausable THEN TransitionRun(r, "paused", o, runs[r].attempt, runs[r].revision, 0)
       ELSE UNCHANGED vars
    /\ fixing' = [fixing EXCEPT ![o] = Nobody]
    /\ UNCHANGED <<workVars, proc, scan, verdict, early>>

------------------------------------------------------------------------------
(* The composition.                                                          *)

Endings == {"completed", "paused"} \cup (Disturbances \cap {"failed", "cancelled"})

CallsSettled(r) == \A x \in OfTurn(r) : call[x].phase \in Finished

StartTurn(r, o) ==
    /\ proc[o] = "up"
    /\ Resume(r, o) \/ \E c \in Conversations : BeginTurn(r, c, o)
    /\ UNCHANGED <<call, landed, procVars>>

LeaseStep(r) ==
    /\ "lease" \in Disturbances
    /\ LeaseExpires(r) \/ Heartbeat(r) \/ HeartbeatFails(r)
    /\ UNCHANGED <<call, landed, procVars>>

(* What the user and the model choose to do with a turn.                     *)
ChoiceStep(r) ==
    /\ \/ "drop" \in Disturbances /\ (RejectQueued(r) \/ CancelQueued(r))
       \/ "pause" \in Disturbances /\ RequestPause(r)
       \/ \E users \in UserInputs : PersistInput(r, users)
    /\ UNCHANGED <<call, landed, procVars>>

(* What its task gets to in the end.                                         *)
TurnStep(r) ==
    /\ \/ Activate(r)
       \/ StartWork(r, UnfinishedWorkers(r))
       \/ CallsSettled(r) /\ \E outcome \in Endings : EndTurn(r, outcome)
       \/ \E more \in UserInputs \cup {"none"} : Seal(r, more)
       \/ "unsaved" \in Disturbances /\ SealFails(r)
       \/ FinishForReview(r) \/ FinishUnowned(r) \/ FinishPausing(r)
       \/ Finish(r) \/ FinishRefused(r)
    /\ UNCHANGED <<call, landed, procVars>>

(* Dispatch and effects happen or not; a call is settled in the end, if only *)
(* by the timeout of the turn.                                               *)
DispatchStep(x) ==
    /\ \/ \E r \in Runs, tool \in Tools : Schedule(x, r, tool)
       \/ Admit(x) \/ Enter(x) \/ Promote(x) \/ PassBoundary(x) \/ Land(x)
       \/ AskPermission(x) \/ Replay(x) \/ Reenter(x) \/ WorkerStops(x)
    /\ UNCHANGED procVars

SettleStep(x) ==
    /\ \/ Skip(x) \/ NoEffect(x) \/ PermissionRefused(x) \/ Withdraw(x)
       \/ \E result \in Results : VerifyNative(x, result)
       \/ \E ok \in BOOLEAN : Return(x, ok)
       \/ \E alive \in BOOLEAN : GiveUp(x, alive)
    /\ UNCHANGED procVars

RecoveryStep(o) ==
    \/ \E r \in Runs : HandOff(o, r) \/ LeaveChanged(o, r)
    \/ \E q \in Owners : LeaveToOwner(o, q)
    \/ Conclude(o)
    \/ FinishStart(o)

UserStep(o) ==
    \/ \E x \in Ops, result \in Results : ReadForUser(o, x, result)
    \/ \E x \in Ops : CommitVerdict(o, x) \/ DropVerdict(o, x)
    \/ PauseResolved(o)

ConversationEdit ==
    /\ "edit" \in Disturbances
    /\ \E c \in Conversations, w \in Workspaces : UpdateConversation(c, w) \/ DeleteConversation(c, w)
    /\ UNCHANGED <<workVars, procVars>>

ExecNext ==
    \/ \E o \in Owners :
          \/ Start(o) \/ Crash(o) \/ RecoveryStep(o) \/ UserStep(o)
          \/ \E x \in Ops, result \in {"completed", "unchanged"} : VerifyRecovered(o, x, result)
          \/ \E r \in Runs : StartTurn(r, o)
    \/ \E r \in Runs : LeaseStep(r) \/ ChoiceStep(r) \/ TurnStep(r)
    \/ \E x \in Ops : DispatchStep(x) \/ SettleStep(x)
    \/ ConversationEdit

ExecSpec == ExecInit /\ [][ExecNext]_allVars

(* A process that is not stopped gets on with its recovery and its tasks;    *)
(* every turn has a timeout.                                                 *)
FairExecSpec ==
    /\ ExecSpec
    /\ \A o \in Owners : WF_allVars(RecoveryStep(o))
    /\ \A r \in Runs : WF_allVars(TurnStep(r))
    /\ \A x \in Ops : WF_allVars(SettleStep(x))

------------------------------------------------------------------------------
(* Properties.                                                               *)

(* A turn that is alive holds its run: its process runs, and the row names   *)
(* its process and attempt, whatever recovery and other processes did.       *)
TurnsOwnTheirRuns ==
    \A r \in Runs : turn[r].phase # "none" =>
        /\ proc[turn[r].proc] = "up"
        /\ Owns(r, turn[r].proc, turn[r].attempt)
        /\ runs[r].status \in ActiveRunStatuses

(* Every effect is on record before it happens and stays on record: after    *)
(* any crash, recovery or stop its row is not one of an operation that was   *)
(* never dispatched.                                                         *)
EffectsAreOnRecord ==
    \A x \in landed : ops[x].status \notin {"prepared", "authorized", "cancelled"}

(* Two runs never have calls in effect at once in one conversation, nor in   *)
(* one workspace from two processes.                                         *)
RunsWithEffects == {RunOf(x) : x \in {y \in Ops : call[y].phase \in InEffect}}
RunsDoNotOverlap ==
    \A r, s \in RunsWithEffects : r # s =>
        /\ runs[r].conv # runs[s].conv
        /\ runs[r].ws = runs[s].ws => runs[r].owner = runs[s].owner

(* While a worker that a turn gave up on is alive, no other turn of its      *)
(* conversation gets a call past the executor.                               *)
NoCallBesideStrayWorkers ==
    \A x, y \in Ops :
        /\ call[x].phase \in Unfinished /\ ops[x].status # "absent"
        /\ call[y].phase \in {"scheduled", "admitted"} \cup InEffect \cup AtGate
        /\ call[x].proc = call[y].proc
        /\ runs[RunOf(x)].conv = runs[RunOf(y)].conv
        => RunOf(x) = RunOf(y) /\ ops[x].attempt = ops[y].attempt

(* An operation is settled on what happened: it becomes verified only when   *)
(* its effect took place, and a write that failed has left none unless the   *)
(* user asked for its verification before the worker of the call had         *)
(* stopped (resolve_run_operation looks for a live turn, not for a worker).  *)
SettledOnEvidence ==
    [][\A x \in Ops : ops[x].status # ops'[x].status /\ IsWrite(ops'[x]) =>
          /\ ops'[x].status = "verified" => x \in landed
          /\ ops'[x].status = "failed" /\ x \in landed => x \in early']_allVars

(* A continuation knows of every effect of the attempts before it, with the  *)
(* same exception.                                                           *)
EffectsKnownBeforeContinuing ==
    \A x \in landed : ops[x].status # "absent" /\ ops[x].attempt < runs[RunOf(x)].attempt =>
        \/ ops[x].status \in {"verified", "returned"}
        \/ ops[x].status = "failed" /\ x \in early

(* A pause that was accepted takes the run out of the active statuses,       *)
(* unless the turn loses its lease or its process.                           *)
PausesEnd ==
    \A r \in Runs : turn[r].pause ~>
        \/ runs[r].status \notin ActiveRunStatuses
        \/ turn[r].lost \/ turn[r].expired
        \/ runs[r].owner # NoOwner /\ proc[runs[r].owner] = "dead"

(* A run of a dead process that recovery found is taken over, unless the     *)
(* recovering process dies too.                                              *)
DeadRunsAreTakenOver ==
    \A o \in Owners, r \in Runs :
        /\ proc[o] = "starting" /\ scan[o][r] # 0 /\ scan[o][r] = runs[r].revision
        /\ runs[r].owner # NoOwner /\ proc[runs[r].owner] = "dead"
        ~> proc[o] = "dead" \/ runs[r].owner = NoOwner \/ proc[runs[r].owner] # "dead"

(* Claims of the repository that the code does not keep (see README).        *)

(* "An interrupted external effect must be inspected": a run is handed to    *)
(* the user because one of its writes has an open outcome.                   *)
ReviewsHaveASubject ==
    [][\A r \in Runs : runs[r].status # "needs_review" /\ runs'[r].status = "needs_review" =>
          ~NoUnresolvedWrites(r)]_allVars

(* "Wait until the Run worker has stopped before verifying its effects": an  *)
(* operation that failed unchanged has left no effect.                       *)
FailedWritesDidNotLand ==
    \A x \in landed : ~(IsWrite(ops[x]) /\ ops[x].status = "failed")

(* "An uncertain write blocks any later effect dispatch."                    *)
NothingEntersAfterUncertainty ==
    [][\A x \in Ops : ops[x].status = "authorized" /\ ops'[x].status = "executing" =>
          NothingUncertain(RunOf(x))]_allVars

(* "Abnormal exit enters interrupted, and paused or needs_review once it is  *)
(* checked": no run of a process that serves is still interrupted.           *)
CheckedRunsAreSorted ==
    \A r \in Runs : runs[r].status = "interrupted" => proc[runs[r].owner] # "up"

(* No "running row without a worker": a process that serves drives each of   *)
(* the active runs it owns.                                                  *)
ActiveRunsHaveAWorker ==
    \A r \in Runs : runs[r].status \in ActiveRunStatuses /\ proc[runs[r].owner] = "up" =>
        turn[r].phase # "none"
=============================================================================
