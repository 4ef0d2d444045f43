----------------------------- MODULE FileEffects -----------------------------
(***************************************************************************)
(* One file operation of a run, from the tool call or the Apply button to  *)
(* the verdict on its row: skills/filesystem/file_ops.py, the native part  *)
(* of durable/operation_execution.py, file_mutation/ (fingerprints, plans, *)
(* snapshots, verifier) and api/routes/file_mutations.py.                  *)
(*                                                                         *)
(* The user works on the same files with other programs: every look at the *)
(* disk, every change to it and every transaction is a step of its own,    *)
(* and an edit, a change of the policy, a pause or the end of the process  *)
(* may come between any two of them.                                       *)
(***************************************************************************)
EXTENDS Naturals, FiniteSets

CONSTANTS
    MaxEdits,     \* edits by other programs
    MaxChanges    \* changes of the policy, of the ticket, or of the run's fence

ASSUME FileBounds == MaxEdits \in Nat /\ MaxChanges \in Nat

VARIABLES
    op,         \* what is asked, by whom, with which arguments, on which platform
    disk,       \* the files by their paths
    stage,      \* the staged new file beside the target
    policy,     \* what the stable permissions say of the change and of reading
    fence,      \* "open": the run may start effects; "closed": paused, lost or blocked
    call,       \* the handler: where it is, and its locals
    ticket,     \* the approval of this operation
    preview,    \* the preview record of the Apply button
    row,        \* the operation row
    snap,       \* its snapshot file, and the sweep that removes old ones
    counts,     \* edits and changes so far
    seen        \* history: the disk at the last look, and what the effect did

filesVars == <<op, disk, stage, policy, fence, call, ticket, preview, row, snap, counts, seen>>

(* A file is its inode, the moment of its last change and its bytes.  An     *)
(* edit takes the next moment, and the next inode when it replaces the file. *)
Paths  == {"source", "target"}
Nobody == 0
Call   == 1     \* the operation's own inode, and the moment of its own change
Absent == [node |-> Nobody, at |-> 0, data |-> "none"]
Mine   == [node |-> Call, at |-> Call, data |-> "new"]
Old(n, d) == [node |-> n, at |-> 0, data |-> d]

Operands == IF op.kind = "move" THEN Paths ELSE {"target"}
Plan(d)  == [p \in Operands |-> d[p]]
NoPlan   == [p \in {} |-> Absent]

Native == {"write", "move", "delete"}
Opaque == {"append", "patch", "copy", "rename"}
Moves  == {"move", "copy", "rename"}

(* fingerprint_path refuses a file with a second name.                       *)
Node(p) == disk[p].node
Names(n) == {p \in Paths : Node(p) = n}
Readable == \A p \in Operands :
    Node(p) = Nobody \/ (Names(Node(p)) = {p} /\ Node(p) # stage.node)

StatesMatch(plan) == Readable /\ Plan(disk) = plan

(* What a plan is bound to: the states and the request as it is spelled.     *)
(* fs_move spells its paths as they were given, and an approved call is      *)
(* replayed with the paths the ticket pinned.                                *)
Digest(c) == [plan |-> c.plan, spelling |-> IF op.kind = "move" THEN c.spelling ELSE "pinned"]

------------------------------------------------------------------------------
NoTicket == [state |-> "none", digest |-> <<>>]
NoSeen   == [looked |-> [p \in Paths |-> Absent], lost |-> {}, landed |-> "no", edited |-> FALSE]
Idle     == [pc |-> "idle", plan |-> NoPlan, spelling |-> "given", replay |-> FALSE]

FilesInit ==
    /\ op \in [kind : Native \cup Opaque, by : {"turn", "preview"}, overwrite : BOOLEAN,
               platform : {"windows", "posix"}]
    /\ op.by = "preview" => op.kind = "write"
    /\ disk \in [Paths -> {Absent, Old(2, "old"), Old(3, "old"), Old(3, "new")}]
    /\ disk["source"] \in {Absent, Old(2, "old")} /\ disk["target"] # Old(2, "old")
    /\ (disk["source"] # Absent) = (op.kind \in Moves)
    /\ stage = Absent
    /\ policy \in [change : {"allowed", "confirm", "session", "grant"}, read : {TRUE}]
    /\ fence = "open"
    /\ call = Idle /\ ticket = NoTicket
    /\ preview = [state |-> "none", plan |-> NoPlan, fresh |-> FALSE, change |-> "allowed"]
    /\ row = [status |-> "absent", verifiable |-> FALSE]
    /\ snap = [file |-> "none", plan |-> NoPlan, old |-> FALSE, queued |-> FALSE, kept |-> FALSE, sweep |-> "idle"]
    /\ counts = [edits |-> 0, changes |-> 0]
    /\ seen = NoSeen

At(pc)    == call.pc = pc
Goto(pc)  == call' = [call EXCEPT !.pc = pc]
Settle(s) == row' = [row EXCEPT !.status = s]
Executing == row.status = "executing"

stable == <<op, policy, counts>>
world  == <<disk, stage, seen>>
stores == <<preview, snap>>

(* native_file_no_effect: the row fails, and the handler is over.            *)
NoEffect == Settle("failed") /\ Goto("answered")

(* _settle_uncertain blocks the run.                                         *)
Uncertain == Settle("uncertain") /\ fence' = "closed" /\ Goto("answered")

(* A staged file is unlinked on the way out; that may fail.                  *)
DropStage == stage' \in {Absent, stage}

------------------------------------------------------------------------------
(* The preview and the Apply button (api/routes/file_mutations.py).          *)

StableForApply == policy.read /\ policy.change \in {"allowed", "confirm"}

PreviewFileMutation ==
    /\ op.by = "preview" /\ preview.state = "none" /\ At("idle")
    /\ StableForApply /\ fence = "open"
    /\ (disk["target"] # Absent => op.overwrite)
    /\ preview' = [state |-> "previewed", plan |-> Plan(disk), fresh |-> TRUE, change |-> policy.change]
    /\ UNCHANGED <<stable, world, fence, call, ticket, row, snap>>

(* A second Apply, with the same key or another, finds the record applying,  *)
(* applied or failed, or the revision the first one raised.                  *)
ApplyFileMutation ==
    /\ preview.state = "previewed" /\ preview.fresh /\ fence = "open" /\ At("idle")
    /\ preview' = [preview EXCEPT !.state = "applying"]
    /\ Goto("claimed")
    /\ UNCHANGED <<stable, world, fence, ticket, row, snap>>

PermissionsStillMatch == StableForApply /\ policy.change = preview.change

ClaimApply ==
    /\ At("claimed")
    /\ IF preview.fresh /\ PermissionsStillMatch
         THEN /\ row' = [row EXCEPT !.status = "executing"]
              /\ preview' = [preview EXCEPT !.fresh = FALSE]
              /\ Goto("checking")
         ELSE /\ preview' = [preview EXCEPT !.state = "previewed", !.fresh = FALSE]
              /\ Goto("idle")
              /\ UNCHANGED row
    /\ UNCHANGED <<stable, world, fence, ticket, snap>>

FingerprintMatches == StatesMatch(preview.plan)

CheckApply ==
    /\ At("checking")
    /\ IF StableForApply /\ FingerprintMatches
         THEN Goto("admit") /\ UNCHANGED row
         ELSE NoEffect
    /\ UNCHANGED <<stable, world, fence, ticket, stores>>

(* The ticket the handler comes back with is approved on the spot.           *)
ApproveApply ==
    /\ At("waiting") /\ op.by = "preview"
    /\ IF ticket.state = "pending" /\ fence = "open"
         THEN /\ ticket' = [ticket EXCEPT !.state = "approved"]
              /\ call' = [call EXCEPT !.pc = "admit", !.spelling = "pinned", !.replay = TRUE]
              /\ UNCHANGED row
         ELSE NoEffect /\ UNCHANGED ticket
    /\ UNCHANGED <<stable, world, fence, stores>>

AnswerApply ==
    /\ call.pc \in {"answered", "nothing to do"} /\ preview.state = "applying"
    /\ preview' = [preview EXCEPT !.state =
         CASE row.status = "verified" \/ At("nothing to do") -> "applied"
           [] row.status \in {"executing", "uncertain"} -> "failed"
           [] OTHER                                     -> "previewed"]
    /\ Goto("done")
    /\ UNCHANGED <<stable, world, fence, ticket, row, snap>>

------------------------------------------------------------------------------
(* The handlers up to their plan.                                            *)

BeginEffect ==
    /\ op.by = "turn" /\ At("idle") /\ row.status = "absent" /\ fence = "open"
    /\ Settle("executing")
    /\ Goto(IF op.kind \in Native THEN "admit" ELSE "gate legacy")
    /\ UNCHANGED <<stable, world, fence, ticket, stores>>

(* _p3_durable_eligibility: only a stable permission leads to a plan.  A     *)
(* session or once grant keeps the older, opaque path, and so does a call    *)
(* that comes back approved after its once grant was used up.                *)
Granted == {"session", "once"}
GrantApproved == call.replay /\ ticket.state = "approved" /\ ticket.digest = <<>>
DurableEligibility ==
    CASE policy.change \in Granted                              -> "legacy"
      [] policy.change = "grant"                                -> IF GrantApproved THEN "legacy" ELSE "ask"
      [] policy.change \in {"allowed", "confirm"} /\ policy.read -> "plan"
      [] OTHER                                                  -> "refuse"

Unplanned == Goto("gate legacy") /\ UNCHANGED row

Eligible(pc) ==
    CASE DurableEligibility = "plan"   -> Goto(pc) /\ UNCHANGED row
      [] DurableEligibility = "legacy" ->
           IF op.by = "preview" THEN NoEffect       \* permission_changed
           ELSE Unplanned
      [] DurableEligibility = "ask"    ->
           IF op.by = "preview" THEN NoEffect
           ELSE Goto("asking") /\ UNCHANGED row
      [] OTHER                         -> NoEffect

AdmitWrite ==
    /\ At("admit") /\ op.kind = "write"
    /\ Eligible("access")
    /\ UNCHANGED <<stable, world, fence, ticket, stores>>

(* fs_move looks at both paths before it asks for the permissions.  What is  *)
(* no ordinary file, lies on another volume or has no folder to go to yet    *)
(* takes the opaque path.                                                    *)
AdmitMove ==
    /\ At("admit") /\ op.kind = "move"
    /\ IF disk["source"] = Absent \/ ~Readable \/ (disk["target"] # Absent /\ ~op.overwrite)
         THEN NoEffect
         ELSE Unplanned \/ Eligible("plan")
    /\ UNCHANGED <<stable, world, fence, ticket, stores>>

(* The current policy, session grants included: hard blocks, then access,    *)
(* then reading.                                                             *)
RevalidateTarget == policy.change # "blocked"
InitialAccess    == policy.change # "grant"
ReadAccess       == policy.read

CheckAccess ==
    /\ At("access")
    /\ IF RevalidateTarget /\ InitialAccess THEN
            IF ReadAccess THEN Goto("plan") /\ UNCHANGED row ELSE NoEffect
       ELSE IF RevalidateTarget /\ op.by = "turn" THEN Goto("asking") /\ UNCHANGED row
       ELSE NoEffect
    /\ UNCHANGED <<stable, world, fence, ticket, stores>>

(* fs_delete plans only what it finds to be an ordinary file.                *)
AdmitDelete ==
    /\ At("admit") /\ op.kind = "delete"
    /\ IF disk["target"] = Absent \/ ~Readable
         THEN Unplanned
         ELSE Eligible("access")
    /\ UNCHANGED <<stable, world, fence, ticket, stores>>

(* An access grant arrives or is refused; the call starts over with it.      *)
AccessGrantAnswered ==
    /\ At("asking")
    /\ \/ /\ fence = "open"
          /\ IF policy.change = "grant" THEN \E g \in Granted : policy' = [policy EXCEPT !.change = g]
                                       ELSE UNCHANGED policy
          /\ call' = [Idle EXCEPT !.pc = IF op.kind \in Native THEN "admit" ELSE "gate legacy"]
          /\ UNCHANGED row
       \/ NoEffect /\ UNCHANGED policy
    /\ UNCHANGED <<op, counts, world, fence, ticket, stores>>

Planned(ok) ==
    /\ IF ok /\ Readable
         THEN call' = [call EXCEPT !.pc = "gate", !.plan = Plan(disk)] /\ UNCHANGED row
         ELSE NoEffect
    /\ UNCHANGED <<stable, world, fence, ticket, stores>>

(* A write from a preview must come to the very plan that was shown.         *)
PlanWrite  == At("plan") /\ op.kind = "write"
              /\ Planned(op.by = "preview" => Plan(disk) = preview.plan)
(* fs_move does not plan a file too large to be fingerprinted.               *)
TooLarge   == (\E p \in Operands : disk[p] # Absent) /\ Unplanned
              /\ UNCHANGED <<stable, world, fence, ticket, stores>>
PlanMove   == At("plan") /\ op.kind = "move"
              /\ \/ Planned(disk["source"] # Absent /\ (disk["target"] # Absent => op.overwrite))
                 \/ TooLarge
PlanDelete == At("plan") /\ op.kind = "delete" /\ Planned(disk["target"] # Absent)

------------------------------------------------------------------------------
(* The gate.  An approval counts for the plan its ticket was bound to.       *)

ApprovalCurrent(c) == c.replay /\ ticket.state = "approved" /\ ticket.digest = Digest(c)

GatePlan ==
    /\ At("gate")
    /\ \/ /\ policy.change = "blocked" \/ (call.replay /\ ~ApprovalCurrent(call))
          /\ NoEffect                              \* blocked, or stale_preview
          /\ UNCHANGED ticket
       \/ /\ policy.change \in {"grant"} /\ Goto("asking")
          /\ UNCHANGED <<row, ticket>>
       \/ /\ policy.change \in Granted \cup {"confirm"} /\ ~call.replay
          /\ ticket' = [state |-> "pending", digest |-> Digest(call)]
          /\ Goto("waiting")
          /\ UNCHANGED row
       \/ /\ policy.change \in Granted \cup {"allowed", "confirm"}
          /\ IF call.replay THEN ApprovalCurrent(call) ELSE policy.change # "confirm"
          /\ Goto("ready")
          /\ UNCHANGED <<row, ticket>>
    /\ UNCHANGED <<stable, world, fence, stores>>

(* The ticket is approved and the call replayed with its pinned paths, or it *)
(* is rejected, expires or is cancelled.                                     *)
ResumeApproved ==
    /\ At("waiting") /\ op.by = "turn" /\ ticket.state = "pending"
    /\ \/ /\ fence = "open"
          /\ ticket' = [ticket EXCEPT !.state = "approved"]
          /\ call' = [call EXCEPT !.pc = "admit", !.spelling = "pinned", !.replay = TRUE]
          /\ UNCHANGED row
       \/ /\ ticket' = [ticket EXCEPT !.state = "closed"]
          /\ NoEffect                              \* preflight_rejected
    /\ UNCHANGED <<stable, world, fence, stores>>

ResumeRefused ==
    /\ At("waiting") /\ op.by = "turn" /\ ticket.state # "pending"
    /\ NoEffect
    /\ UNCHANGED <<stable, world, fence, ticket, stores>>

(* file_write has nothing to do, or must not overwrite.                      *)
ReadyWrite ==
    /\ At("ready") /\ op.kind = "write"
    /\ LET before == call.plan["target"] IN
       IF before # Absent /\ ~op.overwrite THEN NoEffect
       ELSE IF before.data = "new" THEN Settle("failed") /\ Goto("nothing to do")
         ELSE Goto(IF before = Absent THEN "stage" ELSE "capture") /\ UNCHANGED row
    /\ UNCHANGED <<stable, world, fence, ticket, stores>>

ReadyMoveOrDelete ==
    /\ At("ready") /\ op.kind \in {"move", "delete"}
    /\ Goto("capture")
    /\ UNCHANGED <<stable, world, fence, ticket, row, stores>>

(* The new file is written beside its target.  A failure between writing and *)
(* reading it back leaves it there.                                          *)
StageNewFile ==
    /\ At("stage")
    /\ \/ fence = "open" /\ stage' = Mine /\ Goto("capture") /\ UNCHANGED row
       \/ stage' \in {Absent, Mine} /\ NoEffect
    /\ UNCHANGED <<stable, disk, seen, fence, ticket, stores>>

------------------------------------------------------------------------------
(* The snapshot, the promotion of the row, and the last checks.              *)

(* Files the effect would destroy: their bytes go into the snapshot.         *)
NeedsBeforeImage(plan) ==
    {plan["target"]} \ {Absent}

Capture ==
    /\ At("capture")
    /\ \/ /\ StatesMatch(call.plan)
          /\ snap' = [snap EXCEPT !.file = "published", !.plan = call.plan]
          /\ Goto("promote") /\ UNCHANGED <<stage, row>>
       \/ DropStage /\ NoEffect /\ UNCHANGED snap    \* snapshot_unavailable
    /\ UNCHANGED <<stable, disk, seen, fence, ticket, preview>>

Promote ==
    /\ At("promote")
    /\ IF fence = "open"
         THEN /\ row' = [row EXCEPT !.verifiable = TRUE]
              /\ Goto("recheck") /\ UNCHANGED stage
         ELSE DropStage /\ NoEffect
    /\ UNCHANGED <<stable, disk, seen, fence, ticket, stores>>

BoundaryHolds ==
    /\ StatesMatch(call.plan)
    /\ policy.change \in Granted \cup {"allowed", "confirm"}
    /\ policy.change = "confirm" => ApprovalCurrent(call)
    /\ fence = "open"

RecheckEffectBoundary ==
    /\ At("recheck")
    /\ IF BoundaryHolds
         THEN Goto(IF stage = Mine THEN "publish" ELSE "look") /\ UNCHANGED <<stage, row>>
         ELSE DropStage /\ NoEffect
    /\ UNCHANGED <<stable, disk, seen, fence, ticket, stores>>

------------------------------------------------------------------------------
(* The effects.  An effect that raises is verified like one that returns.    *)

Lose(fs)   == seen.lost \cup {[file |-> f, raced |-> disk # seen.looked] : f \in fs \ {Absent}}
Landed(fs) == seen' = [seen EXCEPT !.landed = "planned", !.lost = Lose(fs), !.edited = FALSE]
Raises     == Goto("verify") /\ UNCHANGED <<disk, stage, seen>>

(* A new file: an exclusive link, then the stage loses its name.             *)
PublishStaged ==
    /\ At("publish")
    /\ IF disk["target"] = Absent
         THEN /\ disk' = [disk EXCEPT !["target"] = stage]
              /\ Landed({}) /\ Goto("unlink stage") /\ UNCHANGED stage
         ELSE DropStage /\ Goto("verify") /\ UNCHANGED <<disk, seen>>
    /\ UNCHANGED <<stable, fence, ticket, row, stores>>

UnlinkStage ==
    /\ At("unlink stage")
    /\ DropStage /\ Goto("verify")
    /\ UNCHANGED <<stable, disk, seen, fence, ticket, row, stores>>

(* fs_delete asks the stable policy once more.                               *)
LastLook ==
    /\ At("look")
    /\ IF StatesMatch(call.plan) /\ (op.kind = "delete" => policy.read /\ policy.change \in {"allowed", "confirm"})
         THEN Goto("act") /\ seen' = [seen EXCEPT !.looked = disk] /\ UNCHANGED <<disk, stage>>
         ELSE Raises
    /\ UNCHANGED <<stable, fence, ticket, row, stores>>

(* An existing file is rewritten through the descriptor that was checked: a  *)
(* file put in its place meanwhile is not touched.                           *)
InPlace == Node("target") = call.plan["target"].node

TruncateTarget ==
    /\ At("act") /\ op.kind = "write"
    /\ IF InPlace
         THEN /\ disk' = [disk EXCEPT !["target"].data = "torn", !["target"].at = Call]
              /\ Landed({disk["target"]})
         ELSE UNCHANGED <<disk, seen>>
    /\ Goto("rewrite")
    /\ UNCHANGED <<stable, stage, fence, ticket, row, stores>>

RewriteTarget ==
    /\ At("rewrite")
    /\ \/ IF InPlace
            THEN disk' = [disk EXCEPT !["target"].data = "new", !["target"].at = Call]
            ELSE UNCHANGED disk
       \/ UNCHANGED disk                            \* the disk is full
    /\ seen' = [seen EXCEPT !.lost = IF disk' # disk /\ disk["target"].data # "torn"
                                        THEN Lose({disk["target"]}) ELSE @]
    /\ Goto("verify")
    /\ UNCHANGED <<stable, stage, fence, ticket, row, stores>>

(* Windows deletes through a handle that shuts other writers out while it is *)
(* compared; POSIX unlinks the name.                                         *)
DeleteRegularFile ==
    /\ At("act") /\ op.kind = "delete"
    /\ LET target == disk["target"] IN
       IF target # Absent /\ (op.platform = "windows" => target = call.plan["target"])
         THEN /\ disk' = [disk EXCEPT !["target"] = Absent]
              /\ Landed({target}) /\ Goto("verify") /\ UNCHANGED stage
         ELSE Raises
    /\ UNCHANGED <<stable, fence, ticket, row, stores>>

(* A move over a planned file replaces it; one to a free name must not.      *)
MoveOver ==
    /\ At("act") /\ op.kind = "move" /\ call.plan["target"] # Absent
    /\ IF disk["source"] # Absent
         THEN /\ disk' = [source |-> Absent, target |-> disk["source"]]
              /\ Landed({disk["target"]}) /\ Goto("verify") /\ UNCHANGED stage
         ELSE Raises
    /\ UNCHANGED <<stable, fence, ticket, row, stores>>

MoveToFreeName ==
    /\ At("act") /\ op.kind = "move" /\ call.plan["target"] = Absent
    /\ IF disk["source"] # Absent /\ disk["target"] = Absent
         THEN IF op.platform = "windows"
                THEN /\ disk' = [source |-> Absent, target |-> disk["source"]]
                     /\ Landed({}) /\ Goto("verify") /\ UNCHANGED stage
                ELSE /\ disk' = [disk EXCEPT !["target"] = disk["source"]]
                     /\ Landed({}) /\ Goto("linked") /\ UNCHANGED stage
         ELSE Raises
    /\ UNCHANGED <<stable, fence, ticket, row, stores>>

(* Both names must be the planned file, and its only names.                  *)
CheckLinked ==
    /\ At("linked")
    /\ IF \A p \in Paths : Node(p) = call.plan["source"].node
         THEN Goto("unlink source") /\ seen' = [seen EXCEPT !.looked = disk]
         ELSE Goto("verify") /\ UNCHANGED seen
    /\ UNCHANGED <<stable, disk, stage, fence, ticket, row, stores>>

UnlinkSource ==
    /\ At("unlink source")
    /\ \/ /\ disk["source"] # Absent
          /\ disk' = [disk EXCEPT !["source"] = Absent]
          /\ Landed(IF Node("source") = Node("target") THEN {} ELSE {disk["source"]})
       \/ UNCHANGED <<disk, seen>>                  \* the unlink fails
    /\ Goto("verify")
    /\ UNCHANGED <<stable, stage, fence, ticket, row, stores>>

------------------------------------------------------------------------------
(* FileMutationVerifier compares the disk with the snapshot.                 *)

Unchanged(plan) == \A p \in Operands : disk[p] = plan[p]
CompletedWrite(plan) ==
    LET now == disk["target"] IN
    /\ now.data = "new"
    /\ now.node = IF plan["target"] = Absent THEN Call ELSE plan["target"].node
CompletedMove(plan) == disk["source"] = Absent /\ disk["target"] = plan["source"]
CompletedDelete     == disk["target"] = Absent

Completed(plan) ==
    CASE op.kind = "write"  -> CompletedWrite(plan)
      [] op.kind = "move"   -> CompletedMove(plan)
      [] op.kind = "delete" -> CompletedDelete
      [] OTHER              -> FALSE

(* Unreadable files, withheld permissions and a lost snapshot are unknown.   *)
Verification ==
    IF ~Readable \/ ~policy.read \/ snap.file # "published" THEN "unknown"
    ELSE CASE Completed(snap.plan) /\ ~Unchanged(snap.plan) -> "completed"
           [] Unchanged(snap.plan) /\ ~Completed(snap.plan) -> "unchanged"
           [] OTHER                                         -> "unknown"

Judge(verdict) ==
    CASE verdict = "completed" -> Settle("verified")  /\ Goto("answered") /\ UNCHANGED fence
      [] verdict = "unchanged" -> Settle("failed")    /\ Goto("answered") /\ UNCHANGED fence
      [] OTHER                 -> Uncertain

VerifyEffect ==
    /\ At("verify") /\ Executing
    /\ Judge(Verification) \/ Uncertain            \* native_file_verification_unavailable
    /\ UNCHANGED <<stable, world, ticket, stores>>

------------------------------------------------------------------------------
(* The opaque path: appends, patches, copies, renames, and the operations    *)
(* under a session or once grant.  No plan, no snapshot.                     *)

SpendOnce == policy' = IF policy.change = "once" THEN [policy EXCEPT !.change = "grant"] ELSE policy

GateLegacy ==
    /\ At("gate legacy")
    /\ \/ policy.change = "blocked" /\ Uncertain /\ UNCHANGED <<policy, ticket>>
       \/ /\ policy.change = "grant" /\ ~call.replay
          /\ Goto("asking") /\ UNCHANGED <<row, fence, ticket, policy>>
       \/ /\ policy.change \in Granted \cup {"confirm"} /\ ~call.replay
          /\ ticket' = [state |-> "pending", digest |-> <<>>]
          /\ SpendOnce
          /\ Goto("waiting") /\ UNCHANGED <<row, fence>>
       \/ /\ policy.change \in Granted \cup {"allowed"} \/ (policy.change # "blocked" /\ call.replay)
          /\ SpendOnce
          /\ Goto("act legacy") /\ UNCHANGED <<row, fence, ticket>>
    /\ UNCHANGED <<op, counts, world, stores>>

(* What each handler leaves on the disk; it reports an error if that is what *)
(* it found.                                                                 *)
Written(d)      == [d EXCEPT !["target"] = IF @ = Absent THEN Mine ELSE [@ EXCEPT !.data = "new", !.at = Call]]
MayLandOn(d)    == d["target"] = Absent \/ op.overwrite
LegacyWrite(d)  == IF MayLandOn(d) THEN Written(d) ELSE d
LegacyAppend(d) == Written(d)
LegacyPatch(d)  == IF d["target"].data = "old" THEN Written(d) ELSE d
LegacyCopy(d)   == IF d["source"] # Absent /\ MayLandOn(d) THEN Written(d) ELSE d
LegacyMove(d)   == IF d["source"] # Absent /\ MayLandOn(d)
                     THEN [source |-> Absent, target |-> d["source"]] ELSE d
LegacyRename(d) == LegacyMove(d)
LegacyDelete(d) == [d EXCEPT !["target"] = Absent]

LegacyEffect ==
    CASE op.kind = "write"  -> LegacyWrite(disk)
      [] op.kind = "append" -> LegacyAppend(disk)
      [] op.kind = "patch"  -> LegacyPatch(disk)
      [] op.kind = "copy"   -> LegacyCopy(disk)
      [] op.kind = "move"   -> LegacyMove(disk)
      [] op.kind = "rename" -> LegacyRename(disk)
      [] op.kind = "delete" -> LegacyDelete(disk)

ActLegacy ==
    /\ At("act legacy")
    /\ IF LegacyEffect # disk
         THEN /\ disk' = LegacyEffect
              /\ seen' = [seen EXCEPT !.landed = "opaque"]
              /\ (Settle("returned") /\ Goto("answered") /\ UNCHANGED fence) \/ Uncertain
         ELSE Uncertain /\ UNCHANGED <<disk, seen>>
    /\ UNCHANGED <<stable, stage, ticket, stores>>

------------------------------------------------------------------------------
(* The process ends, and another one recovers the row.                       *)

Crash ==
    /\ ~At("idle") /\ call.pc \notin {"answered", "nothing to do", "done"} /\ ~At("crashed")
    /\ Goto("crashed")
    /\ preview' = [preview EXCEPT !.state = "none"]
    /\ fence' = "closed"
    /\ UNCHANGED <<stable, world, ticket, row, snap>>

RecoverOperation ==
    /\ At("crashed") /\ Executing
    /\ IF row.verifiable
         THEN Judge(Verification) \/ Uncertain
         ELSE Uncertain
    /\ UNCHANGED <<stable, world, ticket, stores>>

------------------------------------------------------------------------------
(* Snapshot files outlive nothing but their rows.  Age: more time than the   *)
(* grace of an unreferenced file has passed; a call takes less.              *)

Unresolved == row.status \in {"executing", "uncertain"}

DeleteConversation ==
    /\ row.status \notin {"absent", "executing", "uncertain", "deleted"}
    /\ call.pc \in {"answered", "nothing to do", "done"} /\ snap.sweep = "idle"
    /\ Settle("deleted")
    /\ snap' = [snap EXCEPT !.queued = row.verifiable]
    /\ UNCHANGED <<stable, world, fence, call, ticket, preview>>

ReclaimRefs ==
    /\ snap.queued
    /\ row.status = "deleted"
    /\ snap' = [snap EXCEPT !.queued = FALSE, !.file = IF @ = "published" THEN "removed" ELSE @]
    /\ UNCHANGED <<stable, world, fence, call, ticket, preview, row>>

Age ==
    /\ snap.file = "published" /\ snap.sweep = "idle" /\ ~snap.old
    /\ row.verifiable \/ ~Executing
    /\ snap' = [snap EXCEPT !.old = TRUE]
    /\ UNCHANGED <<stable, world, fence, call, ticket, preview, row>>

(* Startup keeps what an unresolved operation refers to, or an operation of  *)
(* an open run: the run is still open unless this was its last operation.    *)
ReadReferencesOfOpenRuns ==
    /\ snap.sweep = "idle" /\ snap.file = "published"
    /\ \E open \in BOOLEAN : snap' = [snap EXCEPT !.sweep = "read", !.kept = row.verifiable /\ open]
    /\ UNCHANGED <<stable, world, fence, call, ticket, preview, row>>

ReadReferences ==
    /\ snap.sweep = "idle" /\ snap.file = "published"
    /\ \E open \in BOOLEAN :
         snap' = [snap EXCEPT !.sweep = "read", !.kept = row.verifiable /\ (open \/ Unresolved)]
    /\ UNCHANGED <<stable, world, fence, call, ticket, preview, row>>

SweepOrphans ==
    /\ snap.sweep = "read"
    /\ snap' = [snap EXCEPT !.sweep = "idle", !.file = IF snap.old /\ ~snap.kept THEN "removed" ELSE @]
    /\ UNCHANGED <<stable, world, fence, call, ticket, preview, row>>

------------------------------------------------------------------------------
(* The world around.                                                         *)

Edit(file) ==
    /\ counts.edits < MaxEdits
    /\ counts' = [counts EXCEPT !.edits = @ + 1]
    /\ disk' = file
    /\ seen' = [seen EXCEPT !.edited = TRUE]
    /\ UNCHANGED <<op, policy, stage, fence, call, ticket, stores, row>>

Moment == counts.edits + 4

EditInPlace == \E p \in Operands, d \in {"edit", "new"} :
    /\ disk[p] # Absent
    /\ Edit([q \in Paths |-> IF Node(q) = Node(p) THEN [disk[q] EXCEPT !.at = Moment, !.data = d] ELSE disk[q]])

ReplaceFile == \E p \in Operands, d \in {"edit", "new"} :
    Edit([disk EXCEPT ![p] = [node |-> Moment, at |-> Moment, data |-> d]])

RemoveFile == \E p \in Operands : disk[p] # Absent /\ Edit([disk EXCEPT ![p] = Absent])

Disturb ==
    /\ counts.changes < MaxChanges
    /\ counts' = [counts EXCEPT !.changes = @ + 1]
    /\ UNCHANGED <<op, world, call, preview, row, snap>>

PolicyChanges ==
    /\ \E c \in {"allowed", "confirm", "session", "grant", "blocked"}, r \in BOOLEAN :
         policy' = [change |-> c, read |-> r] /\ policy' # policy
    /\ Disturb /\ UNCHANGED <<fence, ticket>>

TicketCloses ==
    /\ ticket.state \in {"pending", "approved"}
    /\ ticket' = [ticket EXCEPT !.state = "closed"]
    /\ Disturb /\ UNCHANGED <<policy, fence>>

FenceCloses == fence = "open" /\ fence' = "closed" /\ Disturb /\ UNCHANGED <<policy, ticket>>

Api     == PreviewFileMutation \/ ApplyFileMutation \/ ClaimApply \/ CheckApply \/ ApproveApply \/ AnswerApply
Planning == BeginEffect \/ AdmitWrite \/ CheckAccess \/ AdmitMove \/ AdmitDelete \/ AccessGrantAnswered
            \/ PlanWrite \/ PlanMove \/ PlanDelete \/ GatePlan \/ ResumeApproved \/ ResumeRefused
Landing == ReadyWrite \/ ReadyMoveOrDelete \/ StageNewFile \/ Capture \/ Promote \/ RecheckEffectBoundary
           \/ PublishStaged \/ UnlinkStage \/ LastLook \/ TruncateTarget \/ RewriteTarget
           \/ DeleteRegularFile \/ MoveOver \/ MoveToFreeName \/ CheckLinked \/ UnlinkSource
           \/ VerifyEffect \/ GateLegacy \/ ActLegacy
Around  == Crash \/ RecoverOperation \/ DeleteConversation \/ ReclaimRefs \/ Age \/ ReadReferences
           \/ SweepOrphans \/ EditInPlace \/ ReplaceFile \/ RemoveFile \/ PolicyChanges \/ TicketCloses \/ FenceCloses

FilesNext == Api \/ Planning \/ Landing \/ Around
FilesSpec == FilesInit /\ [][FilesNext]_filesVars

------------------------------------------------------------------------------
(* Properties *)

(* Whatever a planned effect destroys is in its published snapshot.  Only a  *)
(* file that changed in the instant between the last look and the system     *)
(* call can be lost, and on Windows not even a deleted one.                  *)
EffectsAreCovered ==
    seen.landed = "planned" =>
        /\ row.verifiable
        /\ \A l \in seen.lost :
             \/ l.file \in NeedsBeforeImage(snap.plan)
             \/ l.raced /\ ~(op.kind = "delete" /\ op.platform = "windows")

(* The plan that lands is the one the user approved, or saw in the preview.  *)
ApprovedPlansLand ==
    seen.landed = "planned" =>
        /\ (ticket.digest # <<>> /\ call.replay) => ticket.digest.plan = snap.plan
        /\ op.by = "preview" => preview.plan = snap.plan

(* A row that says nothing happened is right, unless another program undid a *)
(* name the call had just made.                                              *)
MakesAName == op.kind \in {"write", "move"} /\ call.plan # NoPlan /\ call.plan["target"] = Absent
RowsTellTheTruth ==
    (row.status = "failed" /\ seen.landed # "no") => MakesAName /\ seen.edited

(* The snapshot a row can be undone or judged with is kept while it is open. *)
SnapshotsOutliveRows == (row.verifiable /\ Unresolved) => snap.file = "published"

(* file_ops.py, operation_execution.py, snapshot_store.py: a change with a   *)
(* plan lands as it was approved and what it destroys can be put back; the   *)
(* verdict on its row is what the disk says, and its snapshot is kept.       *)
FileChangesAreSafe ==
    EffectsAreCovered /\ ApprovedPlansLand /\ RowsTellTheTruth /\ SnapshotsOutliveRows
=============================================================================
