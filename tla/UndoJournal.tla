----------------------------- MODULE UndoJournal -----------------------------
(***************************************************************************)
(* Undo of verified file operations: the handlers of file_mutations.py,    *)
(* UndoManager.undo (file_mutation/undo_manager.py), the undo tables of    *)
(* the journal and the startup recovery of a dead process's undos.         *)
(*                                                                         *)
(* A request is one confirmed preview under one idempotency key.  Every    *)
(* transaction of the journal, every effect on the files and every         *)
(* read-only verification is an action, so a process may die, and the user *)
(* may edit the file, between any two of them.                             *)
(***************************************************************************)
EXTENDS Naturals, FiniteSets

CONSTANTS
    Sources,    \* verified operations of one finished run
    Keys,       \* idempotency keys: one request each
    MaxOwners   \* how many backend processes there are, one after the other or not

(* owner_instance_id is fresh for every process: processes are numbered in   *)
(* the order they start.                                                     *)
Owners == 1 .. MaxOwners

VARIABLES
    kind,       \* what the source operation did
    platform,   \* "windows" can delete a file by its identity, "posix" cannot
    disk,       \* its files, against the fingerprints of its snapshot
    touched,    \* history: how much of its inverse was ever applied
    conf,       \* the confirmation record of each request, in memory
    request,    \* the handler of each request
    undo,       \* the undo row of each request and its step rows
    recovery,   \* the recovery of each undo row
    scan,       \* the undo rows a starting process has still to look at
    live,       \* the processes that run
    gone,       \* those that died
    deleted     \* the conversation of the run is deleted

files   == <<kind, platform, disk, touched>>
rows    == <<undo, deleted>>
serving == <<conf, request>>
procs   == <<recovery, scan, live, gone>>
vars    == <<files, rows, serving, procs>>

(* overwrite, create: file_write over a file or not; moveover: a file_move   *)
(* over an existing destination.  The inverse of moveover has two steps.     *)
Kinds    == {"overwrite", "create", "move", "moveover", "delete"}
Steps(s) == IF kind[s] = "moveover" THEN {1, 2} ELSE {1}
Last(s)  == Cardinality(Steps(s))

StepKind(s, i) ==
    CASE kind[s] = "overwrite"            -> "rewrite"
      [] kind[s] = "create"               -> "remove"
      [] kind[s] = "delete" \/ i = 2      -> "restore"
      [] OTHER                            -> "rename"

(* The files as step i + 1 expects them.  edited: they match no fingerprint  *)
(* of the snapshot any more; torn: the restored bytes are half written.      *)
DiskStates == {"after", "mid", "before", "edited", "torn"}
Stage(s, i) == IF i = 0 THEN "after" ELSE IF i = Last(s) THEN "before" ELSE "mid"

(* FileMutationVerifier.verify: unknown too when the path may not be read.   *)
Observed(s, i) ==
    CASE disk[s] = Stage(s, i)     -> "completed"
      [] disk[s] = Stage(s, i - 1) -> "unchanged"
      [] OTHER                     -> "unknown"

Seen(s, i) == {Observed(s, i), "unknown"}

(* The fingerprints are those taken after the source operation.              *)
MatchesOriginalAfter(s) == disk[s] = "after"

Unstarted == {"prepared", "authorized"}
Unsure    == {"executing", "uncertain", "needs_review"}
Pending   == Unstarted \cup Unsure
Closed    == {"failed", "cancelled"}
Statuses  == Pending \cup Closed \cup {"verified"}

NoUndo    == [status |-> "absent", owner |-> 0, step |-> [i \in {1, 2} |-> "absent"]]
Idle      == [pc |-> "idle", proc |-> 0, step |-> 0, review |-> FALSE]
NotRecovering == [pc |-> "idle", proc |-> 0, todo |-> {}]
NoConf    == [state |-> "none", fresh |-> FALSE, proc |-> 0]

PCs == {"idle", "confirmed", "checked", "claimed", "starting", "next", "planning",
        "planned", "authorized", "applying", "writing", "torn", "applied", "unsure",
        "finish", "fail", "review", "closing"}
Status(s, k)  == undo[s][k].status
StepRow(s, k, i) == undo[s][k].step[i]
Completed(s, k)  == \E i \in Steps(s) : StepRow(s, k, i) = "verified"

UndoInit ==
    /\ kind \in [Sources -> Kinds]
    /\ platform \in {"windows", "posix"}
    /\ disk = [s \in Sources |-> "after"]
    /\ touched = [s \in Sources |-> "untouched"]
    /\ conf = [s \in Sources |-> [k \in Keys |-> NoConf]]
    /\ request = [s \in Sources |-> [k \in Keys |-> Idle]]
    /\ undo = [s \in Sources |-> [k \in Keys |-> NoUndo]]
    /\ recovery = [s \in Sources |-> [k \in Keys |-> NotRecovering]]
    /\ scan = [o \in Owners |-> {}]
    /\ live = {} /\ gone = {} /\ deleted = FALSE

------------------------------------------------------------------------------
(* The transactions.  Each raises the revision of the run, which makes every *)
(* preview prepared before it stale.                                         *)

Stale(c) == [s \in Sources |-> [k \in Keys |-> [c[s][k] EXCEPT !.fresh = FALSE]]]

Commit(s, k, row) ==
    /\ undo' = [undo EXCEPT ![s][k] = row]
    /\ conf' = Stale(conf)
    /\ UNCHANGED deleted

(* _OPERATION_TRANSITIONS, as far as an undo goes through it.                *)
Allowed(from, to) ==
    to \in CASE from = "prepared"     -> {"authorized", "cancelled"}
             [] from = "authorized"   -> {"executing", "cancelled"}
             [] from = "executing"    -> {"verified", "failed", "uncertain", "returned"}
             [] from = "uncertain"    -> {"needs_review", "verified", "failed"}
             [] from = "needs_review" -> {"verified", "failed"}
             [] OTHER                 -> {}

(* transition_undo_operation of the parent and of a step, by process o.      *)
MoveUndo(s, k, o, to) ==
    /\ undo[s][k].owner = o
    /\ Allowed(Status(s, k), to)
    /\ Commit(s, k, [undo[s][k] EXCEPT !.status = to])

MoveStep(s, k, o, i, to) ==
    /\ undo[s][k].owner = o
    /\ Allowed(StepRow(s, k, i), to)
    /\ Commit(s, k, [undo[s][k] EXCEPT !.step[i] = to])

OpenClaim(s) == \E k \in Keys : Status(s, k) \in Pending \cup {"verified"}

(* claim_undo_operation, for a key without a row.                            *)
ClaimUndo(s, k, o) ==
    /\ Status(s, k) = "absent" /\ ~deleted
    /\ conf[s][k].fresh
    /\ ~OpenClaim(s)
    /\ Commit(s, k, [NoUndo EXCEPT !.status = "prepared", !.owner = o])

AdoptUndo(s, k, from, o) ==
    /\ Status(s, k) \in Pending
    /\ undo[s][k].owner = from /\ from # o
    /\ Commit(s, k, [undo[s][k] EXCEPT !.owner = o])

------------------------------------------------------------------------------
(* The request.                                                              *)

At(s, k, pc) == request[s][k].pc = pc
By(s, k)     == request[s][k].proc
Goto(s, k, pc) == request' = [request EXCEPT ![s][k].pc = pc]
EndRequest(s, k)  == request' = [request EXCEPT ![s][k] = Idle]

(* The process is in the middle of one recovery.                             *)
RecoveryUnderWay(o) ==
    \E s \in Sources, k \in Keys : recovery[s][k].proc = o /\ recovery[s][k].pc # "skipped"

(* A process serves requests once its startup recovery is over.              *)
Serves(o) ==
    /\ o \in live /\ scan[o] = {}
    /\ ~RecoveryUnderWay(o)

(* undo-preview.                                                             *)
Previewable(s) == ~OpenClaim(s) /\ MatchesOriginalAfter(s)

Preview(s, k, o) ==
    /\ Serves(o) /\ ~deleted
    /\ conf[s][k].state = "none"
    /\ Previewable(s)
    /\ conf' = [conf EXCEPT ![s][k] = [state |-> "prepared", fresh |-> TRUE, proc |-> o]]
    /\ UNCHANGED <<files, rows, request, procs>>

(* The undo route: the confirmation is used up; sent again with its key it   *)
(* is a replay, which skips the comparison with the preview.                 *)
Confirm(s, k) ==
    LET o == conf[s][k].proc IN
    /\ conf[s][k].state # "none" /\ o \in live
    /\ At(s, k, "idle")
    /\ Status(s, k) = "absent"      \* a key with a row only gets its answer
    /\ conf' = [conf EXCEPT ![s][k].state = "used"]
    /\ request' = [request EXCEPT ![s][k] = [Idle EXCEPT !.pc = "confirmed", !.proc = o]]
    /\ UNCHANGED <<files, rows, procs>>

Recheck(s, k) ==
    /\ At(s, k, "confirmed")
    /\ IF MatchesOriginalAfter(s) /\ ~deleted THEN Goto(s, k, "checked") ELSE EndRequest(s, k)
    /\ UNCHANGED <<files, rows, conf, procs>>

Claimed(s, k) ==
    /\ At(s, k, "checked")
    /\ \/ ClaimUndo(s, k, By(s, k)) /\ Goto(s, k, "claimed")
       \/ /\ ~(conf[s][k].fresh /\ ~OpenClaim(s) /\ ~deleted)
          /\ EndRequest(s, k)
          /\ UNCHANGED <<conf, rows>>
    /\ UNCHANGED <<files, procs>>

Authorize(s, k) ==
    /\ At(s, k, "claimed")
    /\ MoveUndo(s, k, By(s, k), "authorized")
    /\ Goto(s, k, "starting")
    /\ UNCHANGED <<files, procs>>

Begin(s, k) ==
    /\ At(s, k, "starting")
    /\ MoveUndo(s, k, By(s, k), "executing")
    /\ request' = [request EXCEPT ![s][k].pc = "next", ![s][k].step = 1]
    /\ UNCHANGED <<files, procs>>

(* Leaving before an effect of the current step: the parent fails, or waits  *)
(* for review when an earlier step is done.                                  *)
AbortPC(s, k) == IF Completed(s, k) THEN "review" ELSE "fail"

(* The current permissions deny the step, confirmed or not.                  *)
DenyStep(s, k) ==
    /\ At(s, k, "next")
    /\ Goto(s, k, AbortPC(s, k))
    /\ UNCHANGED <<files, conf, rows, procs>>

PrepareStep(s, k) ==
    /\ At(s, k, "next")
    /\ Status(s, k) \in {"authorized", "executing"}
    /\ Commit(s, k, [undo[s][k] EXCEPT !.step[request[s][k].step] = "prepared"])
    /\ Goto(s, k, "planning")
    /\ UNCHANGED <<files, procs>>

(* _plan_step, capture and the snapshot reference of the step.               *)
Plan(s, k) ==
    /\ At(s, k, "planning")
    /\ disk[s] = Stage(s, request[s][k].step - 1)
    /\ Goto(s, k, "planned")
    /\ Commit(s, k, undo[s][k])
    /\ UNCHANGED <<files, procs>>

(* A changed file, or the new file cannot be staged beside its destination;  *)
(* a staged leaf that cannot be removed again is a matter for a review.      *)
PlanFails(s, k) ==
    /\ At(s, k, "planning")
    /\ \/ Goto(s, k, AbortPC(s, k))
       \/ StepKind(s, request[s][k].step) = "restore" /\ Goto(s, k, "review")
    /\ UNCHANGED <<files, conf, rows, procs>>

AuthorizeStep(s, k) ==
    /\ At(s, k, "planned")
    /\ MoveStep(s, k, By(s, k), request[s][k].step, "authorized")
    /\ Goto(s, k, "authorized")
    /\ UNCHANGED <<files, procs>>

ExecuteStep(s, k) ==
    /\ At(s, k, "authorized")
    /\ MoveStep(s, k, By(s, k), request[s][k].step, "executing")
    /\ Goto(s, k, "applying")
    /\ UNCHANGED <<files, procs>>

------------------------------------------------------------------------------
(* The effect (_apply_inverse_step): no row and no lock of the file guards   *)
(* it, only the fingerprint it looks at.                                     *)

Effect(s, state, part) ==
    /\ disk' = [disk EXCEPT ![s] = state]
    /\ touched' = [touched EXCEPT ![s] = part]
    /\ UNCHANGED <<kind, platform>>

PartDone(s, i) == IF i = Last(s) THEN "wholly" ELSE "partly"

(* The rename or deletion does not look at the file again.                   *)
ApplyWholeBlindly(s, k) ==
    LET i == request[s][k].step IN
    /\ At(s, k, "applying")
    /\ StepKind(s, i) # "rewrite"
    /\ StepKind(s, i) = "remove" => platform = "windows"
    /\ Effect(s, Stage(s, i), PartDone(s, i))
    /\ Goto(s, k, "applied")
    /\ UNCHANGED <<conf, rows, procs>>

(* Rename without replacing, deletion by identity: the system does it whole  *)
(* or not at all; a file found changed afterwards is moved back.             *)
ApplyWhole(s, k) ==
    LET i == request[s][k].step IN
    /\ At(s, k, "applying")
    /\ StepKind(s, i) # "rewrite"
    /\ StepKind(s, i) = "remove" => platform = "windows"
    /\ disk[s] = Stage(s, i - 1)
    /\ Effect(s, Stage(s, i), PartDone(s, i))
    /\ Goto(s, k, "applied")
    /\ UNCHANGED <<conf, rows, procs>>

(* _write_existing_exact: identity, size and digest are read, then the file  *)
(* is truncated and written.                                                 *)
CheckExact(s, k) ==
    LET i == request[s][k].step IN
    /\ At(s, k, "applying")
    /\ StepKind(s, i) = "rewrite"
    /\ disk[s] = Stage(s, i - 1)
    /\ Goto(s, k, "writing")
    /\ UNCHANGED <<files, conf, rows, procs>>

(* An edit made since the check is lost, unless it replaced the file and the *)
(* open descriptor writes to the old one.                                    *)
Truncate(s, k) ==
    /\ At(s, k, "writing")
    /\ \E d \in {"torn"} \cup ({disk[s]} \cap {"edited"}) : Effect(s, d, "partly")
    /\ Goto(s, k, "torn")
    /\ UNCHANGED <<conf, rows, procs>>

Rewrite(s, k) ==
    LET i == request[s][k].step IN
    /\ At(s, k, "torn")
    /\ \E d \in {Stage(s, i)} \cup ({disk[s]} \cap {"edited"}) : Effect(s, d, PartDone(s, i))
    /\ Goto(s, k, "applied")
    /\ UNCHANGED <<conf, rows, procs>>

(* The effect raises, before or in the middle of it.  A deletion that cannot *)
(* be bound to the file asks for a review.                                   *)
ApplyRaises(s, k) ==
    LET i == request[s][k].step IN
    /\ request[s][k].pc \in {"applying", "writing", "torn"}
    /\ request' = [request EXCEPT ![s][k].pc = "applied",
                                  ![s][k].review = StepKind(s, i) = "remove"]
    /\ UNCHANGED <<files, conf, rows, procs>>

------------------------------------------------------------------------------
(* After the effect.                                                         *)

(* Read-only verification of the step and _record_step_verification; the     *)
(* verifier knows nothing when it may not read the path.                     *)
VerifyStep(s, k) ==
    LET i == request[s][k].step
        review == request[s][k].review
        o == By(s, k) IN
    /\ At(s, k, "applied")
    /\ \E seen \in Seen(s, i) :
         \/ /\ seen = "completed"
            /\ MoveStep(s, k, o, i, "verified")
            /\ request' = [request EXCEPT
                   ![s][k].pc = IF review THEN "review"
                                ELSE IF i = Last(s) THEN "finish" ELSE "next",
                   ![s][k].step = IF review \/ i = Last(s) THEN i ELSE i + 1]
         \/ /\ seen = "unchanged"
            /\ MoveStep(s, k, o, i, "failed")
            /\ Goto(s, k, IF review THEN "review" ELSE AbortPC(s, k))
         \/ /\ seen = "unknown"
            /\ MoveStep(s, k, o, i, "uncertain")
            /\ Goto(s, k, "unsure")
    /\ UNCHANGED <<files, procs>>

ReviewStep(s, k) ==
    /\ At(s, k, "unsure")
    /\ MoveStep(s, k, By(s, k), request[s][k].step, "needs_review")
    /\ Goto(s, k, "review")
    /\ UNCHANGED <<files, procs>>

FinishUndo(s, k) ==
    /\ At(s, k, "finish")
    /\ MoveUndo(s, k, By(s, k), "verified")
    /\ EndRequest(s, k)
    /\ UNCHANGED <<files, procs>>

(* _cancel_unstarted_steps, before either end below.                         *)
CancelStep(s, k, i) ==
    /\ request[s][k].pc \in {"fail", "review"}
    /\ StepRow(s, k, i) \in Unstarted
    /\ MoveStep(s, k, By(s, k), i, "cancelled")
    /\ UNCHANGED <<files, request, procs>>

StepsStopped(s, k) == \A i \in Steps(s) : StepRow(s, k, i) \notin Unstarted

(* _fail_parent_without_effect.                                              *)
FailUndo(s, k) ==
    /\ At(s, k, "fail")
    /\ StepsStopped(s, k)
    /\ MoveUndo(s, k, By(s, k), IF Status(s, k) \in Unstarted THEN "cancelled" ELSE "failed")
    /\ EndRequest(s, k)
    /\ UNCHANGED <<files, procs>>

(* _mark_parent_needs_review.                                                *)
SuspectUndo(s, k) ==
    /\ At(s, k, "review")
    /\ StepsStopped(s, k)
    /\ MoveUndo(s, k, By(s, k), "uncertain")
    /\ Goto(s, k, "closing")
    /\ UNCHANGED <<files, procs>>

ReviewUndo(s, k) ==
    /\ At(s, k, "closing")
    /\ MoveUndo(s, k, By(s, k), "needs_review")
    /\ EndRequest(s, k)
    /\ UNCHANGED <<files, procs>>

(* An error nobody catches, of the database for one: the rows stay as they   *)
(* are while the process lives.                                              *)
HandlerFails(s, k) ==
    /\ request[s][k].pc \notin {"idle", "applying", "writing", "torn"}
    /\ EndRequest(s, k)
    /\ UNCHANGED <<files, rows, conf, procs>>

------------------------------------------------------------------------------
(* Processes and recovery.                                                   *)

PendingUndos == {q \in Sources \X Keys : Status(q[1], q[2]) \in Pending}

(* recover_pending_undo_operations starts over the undos that are pending.   *)
Start(o) ==
    /\ o = Cardinality(live \cup gone) + 1
    /\ live' = live \cup {o}
    /\ scan' = [scan EXCEPT ![o] = PendingUndos]
    /\ UNCHANGED <<files, rows, serving, recovery, gone>>

Crash(o) ==
    /\ o \in live
    /\ live' = live \ {o} /\ gone' = gone \cup {o}
    /\ scan' = [scan EXCEPT ![o] = {}]
    /\ conf' = [s \in Sources |-> [k \in Keys |->
                  IF conf[s][k].proc = o THEN NoConf ELSE conf[s][k]]]
    /\ request' = [s \in Sources |-> [k \in Keys |->
                     IF request[s][k].proc = o THEN Idle ELSE request[s][k]]]
    /\ recovery' = [s \in Sources |-> [k \in Keys |->
                      IF recovery[s][k].proc = o THEN NotRecovering ELSE recovery[s][k]]]
    /\ UNCHANGED <<files, rows>>

(* The owner is not proved dead first.                                       *)
AdoptFromTheLiving(o, s, k) ==
    /\ <<s, k>> \in scan[o]
    /\ ~RecoveryUnderWay(o)
    /\ AdoptUndo(s, k, undo[s][k].owner, o)
    /\ scan' = [scan EXCEPT ![o] = @ \ {<<s, k>>}]
    /\ recovery' = [recovery EXCEPT ![s][k] =
           [pc |-> "steps", proc |-> o, todo |-> {i \in Steps(s) : StepRow(s, k, i) \in Pending}]]
    /\ UNCHANGED <<files, request, live, gone>>

(* One undo at a time; the lock file of its owner proves it dead.            *)
Adopt(o, s, k) ==
    LET unsettled == {i \in Steps(s) : StepRow(s, k, i) \in Pending} IN
    /\ <<s, k>> \in scan[o]
    /\ ~RecoveryUnderWay(o)
    /\ undo[s][k].owner \in gone
    /\ AdoptUndo(s, k, undo[s][k].owner, o)
    /\ scan' = [scan EXCEPT ![o] = @ \ {<<s, k>>}]
    /\ recovery' = [recovery EXCEPT
                      ![s][k] = [pc |-> "steps", proc |-> o, todo |-> unsettled]]
    /\ UNCHANGED <<files, request, live, gone>>

(* The owner is alive, or the row was settled or adopted meanwhile.          *)
SkipUndo(o, s, k) ==
    /\ <<s, k>> \in scan[o]
    /\ ~RecoveryUnderWay(o)
    /\ undo[s][k].owner \notin gone \/ Status(s, k) \notin Pending
    /\ scan' = [scan EXCEPT ![o] = @ \ {<<s, k>>}]
    /\ UNCHANGED <<files, rows, serving, recovery, live, gone>>

(* The lock file does not tell whether the owner is dead, or adopting the    *)
(* undo raises: the scan goes on to the next one.                            *)
PassOver(o, s, k) ==
    /\ <<s, k>> \in scan[o]
    /\ ~RecoveryUnderWay(o)
    /\ scan' = [scan EXCEPT ![o] = @ \ {<<s, k>>}]
    /\ UNCHANGED <<files, rows, serving, recovery, live, gone>>

(* An error in the middle of a recovery leaves the rest of the undo as it    *)
(* is, under the process that adopted it.                                    *)
RecoveryRaises(s, k) ==
    /\ recovery[s][k].pc \in {"steps", "unsure"}
    /\ recovery' = [recovery EXCEPT ![s][k].pc = "skipped", ![s][k].todo = {}]
    /\ UNCHANGED <<files, rows, serving, scan, live, gone>>

Recovering(s, k, pc) == recovery[s][k].pc = pc
FirstTodo(s, k, i)   == i \in recovery[s][k].todo /\ \A j \in recovery[s][k].todo : i <= j
StepRecovered(s, k, i) ==
    recovery' = [recovery EXCEPT ![s][k].todo = @ \ {i}, ![s][k].pc = "steps"]

(* cleanup_recovered_artifact: a staged leaf is still there when a restored  *)
(* file was not put in place, and counts against it when it was; it can be   *)
(* removed where deletion is allowed and possible.                           *)
CleanedUp(s, i, seen, mayDelete) ==
    CASE StepKind(s, i) = "remove"  -> seen = "completed" /\ mayDelete
      [] StepKind(s, i) = "restore" -> seen = "unchanged" /\ mayDelete /\ platform = "windows"
      [] OTHER                      -> TRUE

RecoverStep(s, k, i) ==
    LET o == recovery[s][k].proc IN
    /\ Recovering(s, k, "steps") /\ FirstTodo(s, k, i)
    /\ \/ /\ StepRow(s, k, i) \in Unstarted
          /\ MoveStep(s, k, o, i, "cancelled")
          /\ StepRecovered(s, k, i)
       \/ /\ StepRow(s, k, i) \in Unsure
          /\ \E read, mayDelete \in BOOLEAN :
               LET seen    == IF read THEN Observed(s, i) ELSE "unknown"
                   trusted == seen # "unknown" /\ CleanedUp(s, i, seen, mayDelete) IN
               \/ /\ trusted
                  /\ MoveStep(s, k, o, i, IF seen = "completed" THEN "verified" ELSE "failed")
                  /\ StepRecovered(s, k, i)
               \/ /\ ~trusted /\ StepRow(s, k, i) = "executing"
                  /\ MoveStep(s, k, o, i, "uncertain")
                  /\ recovery' = [recovery EXCEPT ![s][k].pc = "unsure"]
               \/ /\ ~trusted /\ StepRow(s, k, i) = "uncertain"
                  /\ MoveStep(s, k, o, i, "needs_review")
                  /\ StepRecovered(s, k, i)
               \/ /\ ~trusted /\ StepRow(s, k, i) = "needs_review"
                  /\ StepRecovered(s, k, i)
                  /\ UNCHANGED <<conf, rows>>
    /\ UNCHANGED <<files, request, scan, live, gone>>

RecoverUnsureStep(s, k, i) ==
    /\ Recovering(s, k, "unsure") /\ FirstTodo(s, k, i)
    /\ MoveStep(s, k, recovery[s][k].proc, i, "needs_review")
    /\ StepRecovered(s, k, i)
    /\ UNCHANGED <<files, request, scan, live, gone>>

(* Recovery forgets the steps that were never prepared.                      *)
AllPreparedVerified(s, k) ==
    \A i \in Steps(s) : StepRow(s, k, i) \in {"verified", "absent"}

AllVerified(s, k) == \A i \in Steps(s) : StepRow(s, k, i) = "verified"

(* Only a parent that began is looked at.                                    *)
NoStepBeganStrictly(s, k) == \A i \in Steps(s) : StepRow(s, k, i) \in Closed

NoStepBegan(s, k) == \A i \in Steps(s) : StepRow(s, k, i) \in Closed \cup {"absent"}

(* The parent follows its steps.                                             *)
RecoverUndo(s, k) ==
    LET o == recovery[s][k].proc
        status == Status(s, k)
        ends(to) == MoveUndo(s, k, o, to)
                    /\ recovery' = [recovery EXCEPT ![s][k] = NotRecovering] IN
    /\ Recovering(s, k, "steps") /\ recovery[s][k].todo = {}
    /\ \/ AllVerified(s, k) /\ status \in Unsure /\ ends("verified")
       \/ NoStepBegan(s, k) /\ ends(IF status \in Unstarted THEN "cancelled" ELSE "failed")
       \/ /\ ~AllVerified(s, k) /\ ~NoStepBegan(s, k)
          /\ \/ /\ status = "executing"
                /\ MoveUndo(s, k, o, "uncertain")
                /\ UNCHANGED recovery
             \/ status = "uncertain" /\ ends("needs_review")
             \/ /\ status = "needs_review"
                /\ recovery' = [recovery EXCEPT ![s][k] = NotRecovering]
                /\ UNCHANGED <<conf, rows>>
    /\ UNCHANGED <<files, request, scan, live, gone>>

------------------------------------------------------------------------------
(* The world around.                                                         *)

(* The user edits, moves or replaces a file of the operation.                *)
Edit(s) ==
    /\ disk[s] # "edited"
    /\ disk' = [disk EXCEPT ![s] = "edited"]
    /\ UNCHANGED <<kind, platform, touched, rows, serving, procs>>

(* delete_conversation refuses while an operation is unresolved.             *)
DeleteConversation ==
    /\ ~deleted /\ PendingUndos = {}
    /\ \A s \in Sources, k \in Keys :
         \A i \in Steps(s) : StepRow(s, k, i) \notin Pending
    /\ deleted' = TRUE
    /\ undo' = [s \in Sources |-> [k \in Keys |-> NoUndo]]
    /\ UNCHANGED <<files, serving, procs>>

Handle(s, k) ==
    \/ Recheck(s, k) \/ Claimed(s, k) \/ Authorize(s, k) \/ Begin(s, k)
    \/ DenyStep(s, k) \/ PrepareStep(s, k) \/ Plan(s, k) \/ PlanFails(s, k)
    \/ AuthorizeStep(s, k) \/ ExecuteStep(s, k)
    \/ ApplyWhole(s, k) \/ CheckExact(s, k) \/ Truncate(s, k) \/ Rewrite(s, k)
    \/ ApplyRaises(s, k) \/ VerifyStep(s, k) \/ ReviewStep(s, k) \/ FinishUndo(s, k)
    \/ \E i \in Steps(s) : CancelStep(s, k, i)
    \/ FailUndo(s, k) \/ SuspectUndo(s, k) \/ ReviewUndo(s, k)

Recover(s, k) ==
    \/ \E o \in Owners : Adopt(o, s, k) \/ SkipUndo(o, s, k)
    \/ \E i \in Steps(s) : RecoverStep(s, k, i) \/ RecoverUnsureStep(s, k, i)
    \/ RecoverUndo(s, k)

UndoNext ==
    \/ \E s \in Sources, k \in Keys :
         \/ \E o \in Owners : Preview(s, k, o) \/ PassOver(o, s, k)
         \/ RecoveryRaises(s, k)
         \/ Confirm(s, k) \/ Handle(s, k) \/ HandlerFails(s, k) \/ Recover(s, k)
    \/ \E o \in Owners : Start(o) \/ Crash(o)
    \/ \E s \in Sources : Edit(s)
    \/ DeleteConversation

(* Handlers and the startup recovery are threads of a running process.       *)
UndoSpec ==
    /\ UndoInit /\ [][UndoNext]_vars
    /\ \A s \in Sources, k \in Keys : WF_vars(Handle(s, k)) /\ WF_vars(Recover(s, k))

------------------------------------------------------------------------------
(* Properties.                                                               *)

(* The shape of the state: each row and each handler is in a state the       *)
(* methods of UndoManager can put it in.                                     *)
UndoTypeOK ==
    LET who == {0} \cup Owners IN
    /\ kind \in [Sources -> Kinds] /\ platform \in {"windows", "posix"}
    /\ disk \in [Sources -> DiskStates]
    /\ touched \in [Sources -> {"untouched", "partly", "wholly"}]
    /\ conf \in [Sources -> [Keys -> [state : {"none", "prepared", "used"},
                                     fresh : BOOLEAN, proc : who]]]
    /\ request \in [Sources -> [Keys -> [pc : PCs, proc : who, step : 0 .. 2,
                                        review : BOOLEAN]]]
    /\ undo \in [Sources -> [Keys -> [status : Statuses \cup {"absent"}, owner : who,
                                     step : [{1, 2} -> Statuses \cup {"absent"}]]]]
    /\ recovery \in [Sources -> [Keys -> [pc : {"idle", "steps", "unsure", "skipped"}, proc : who,
                                         todo : SUBSET {1, 2}]]]
    /\ scan \in [Owners -> SUBSET (Sources \X Keys)]
    /\ live \subseteq Owners /\ gone \subseteq Owners /\ deleted \in BOOLEAN

(* While a handler has a claim, or a recovery has adopted one, the row is    *)
(* pending under that very process and nobody else works on it: not the      *)
(* recovery of a second process, not a handler of the first one.             *)
OneHandPerUndo ==
    \A s \in Sources, k \in Keys :
        LET handled   == request[s][k].pc \notin {"idle", "confirmed", "checked"}
            recovered == recovery[s][k].pc # "idle" IN
        /\ handled /\ recovered => FALSE
        /\ handled => Status(s, k) \in Pending /\ undo[s][k].owner = request[s][k].proc
        /\ recovered => Status(s, k) \in Pending /\ undo[s][k].owner = recovery[s][k].proc

(* A file that was changed since the operation is never changed by an undo   *)
(* again, whatever handlers and recoveries are under way.  An overwrite is   *)
(* left out: its rewrite comes after its last look at the file.              *)
EditsSurvive ==
    [][\A s \in Sources : kind[s] # "overwrite" /\ disk[s] = "edited" => disk'[s] = "edited"]_vars

(* Claims, effects, crashes, adoptions and deletion keep the promise of      *)
(* UndoPromise: one inverse at a time, applied at most once, released only   *)
(* untouched, called undone only when all of it was applied.                 *)
Promised(s) ==
    LET some(set) == \E k \in Keys : Status(s, k) \in set IN
    CASE deleted                                   -> "forgotten"
      [] some({"verified"})                        -> "undone"
      [] some({"needs_review"})                    -> "review"
      [] some(Pending \ {"needs_review"})          -> "claimed"
      [] OTHER                                     -> "standing"

Promise == INSTANCE UndoPromise WITH outcome <- [s \in Sources |-> Promised(s)]
KeepsPromise == Promise!PromiseSpec

(* The undo of a dead process that a starting process finds is adopted and   *)
(* ends settled or in review, unless the process that looks after it dies    *)
(* as well, cannot prove the owner dead, or meets an error and goes on.      *)
Found(s, k) == undo[s][k].owner \in gone /\ \E o \in live : <<s, k>> \in scan[o]

AbandonedUndosAreSettled ==
    \A s \in Sources, k \in Keys :
        Found(s, k) ~> \/ Status(s, k) \notin Pending \ {"needs_review"}
                       \/ recovery[s][k].pc = "skipped"
                       \/ undo[s][k].owner \in gone /\ ~Found(s, k)
=============================================================================
