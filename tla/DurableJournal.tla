---------------------------- MODULE DurableJournal ----------------------------
(***************************************************************************)
(* The journal of durable agent Runs (backend/app/agent/durable/journal.py *)
(* and the conversation rows of backend/app/agent/database.py it shares a  *)
(* SQLite file with).  Every method of class Journal that writes is one    *)
(* BEGIN IMMEDIATE transaction, so it is one action here; a caller whose   *)
(* owner, attempt or revision fence does not hold gets an exception, the   *)
(* transaction is rolled back, and nothing happens.                        *)
(*                                                                         *)
(* What is abstracted: a turn id is the pair <<run, attempt>>, because it  *)
(* is a fresh UUID of each attempt; timestamps are the two comparisons the *)
(* code makes with them (fresh, sealed); lease says that there is a lease, *)
(* since no method of the journal looks at its expiry.  Each revision is   *)
(* published by exactly one event of the run, so the event log adds        *)
(* nothing here.  Undo operations, which exist only on terminal runs, are  *)
(* not part of this module.                                                *)
(*                                                                         *)
(* A definition whose name ends in Bug is a mutated form of the one it     *)
(* precedes; the specification never uses it.                              *)
(***************************************************************************)
EXTENDS Integers, FiniteSets

CONSTANTS
    Runs,           \* run ids
    Conversations,  \* conversation ids
    Workspaces,     \* canonical workspace directories
    Owners,         \* owner_instance_id of a backend process (one per start)
    Ops,            \* operation ids
    MaxAttempt,     \* bound on the attempts of a run
    MaxRevision,    \* bound on the revision of a run
    NoOwner,        \* owner_instance_id IS NULL
    Nobody          \* stands for the absent run, conversation or workspace

ASSUME BoundsAssumption == MaxAttempt \in Nat \ {0} /\ MaxRevision \in Nat \ {0}
ASSUME OwnersAssumption == NoOwner \notin Owners
ASSUME OpsAssumption == IsFiniteSet(Ops)
ASSUME NobodyAssumption ==
    Nobody \notin Runs \cup Conversations \cup Workspaces

VARIABLES
    runs,       \* agent_runs: one row per run id
    ops,        \* run_operations: one row per operation id
    turns,      \* turn_checkpoints: turns[r][a] is that of attempt a of run r
    convs       \* conversations: [ws, lastUser], lastUser the turn whose user
                \* message is the newest of the conversation

vars == <<runs, ops, turns, convs>>

------------------------------------------------------------------------------
(* Statuses and classes (durable/models.py, and the tables of journal.py).   *)

ActiveRunStatuses == {"running", "waiting_approval", "pausing"}
Quarantined       == {"interrupted", "needs_review"}
LeasedStatuses    == ActiveRunStatuses \cup Quarantined
TerminalStatuses  == {"completed", "failed", "cancelled"}
ReleasedStatuses  == {"paused"} \cup TerminalStatuses
RunStatuses       == LeasedStatuses \cup ReleasedStatuses

UnresolvedStatuses == {"prepared", "authorized", "executing", "uncertain", "needs_review"}
OperationStatuses  == UnresolvedStatuses \cup {"verified", "failed", "cancelled", "returned"}
EffectClasses      == {"read_only", "verifiable_write", "opaque_effect"}
Results            == {"none", "completed", "unchanged", "unknown"}

RunTransitions ==
    [running          |-> {"waiting_approval", "pausing", "interrupted", "needs_review",
                           "completed", "failed", "cancelled"},
     waiting_approval |-> {"running", "pausing", "interrupted", "needs_review",
                           "failed", "cancelled"},
     pausing          |-> {"paused", "interrupted", "needs_review", "failed", "cancelled"},
     paused           |-> {},
     interrupted      |-> {"needs_review", "paused", "failed", "cancelled"},
     needs_review     |-> {"paused", "failed", "cancelled"},
     completed        |-> {},
     failed           |-> {},
     cancelled        |-> {}]

OperationTransitions ==
    [prepared     |-> {"authorized", "cancelled"},
     authorized   |-> {"executing", "cancelled"},
     executing    |-> {"verified", "failed", "uncertain", "returned"},
     uncertain    |-> {"needs_review", "verified", "failed"},
     needs_review |-> {"verified", "failed"},
     verified     |-> {},
     failed       |-> {},
     cancelled    |-> {},
     returned     |-> {}]

Attempts == 1..MaxAttempt

NoRun  == [status |-> "absent", conv |-> Nobody, ws |-> Nobody, owner |-> NoOwner,
           lease |-> FALSE, attempt |-> 0, revision |-> 0, ref |-> 0, fresh |-> TRUE]
NoOp   == [status |-> "absent", run |-> Nobody, attempt |-> 0,
           effect |-> "read_only", result |-> "none", sealed |-> FALSE]
NoTurn == [state |-> "absent", users |-> "none"]

(* ref = t is recovery_input_ref "turn_checkpoint:<turn of attempt t>", 0 is *)
(* NULL; fresh is conversations.updated_at <= agent_runs.updated_at.         *)
RunRows ==
    [status : RunStatuses, conv : Conversations, ws : Workspaces,
     owner : Owners \cup {NoOwner}, lease : BOOLEAN,
     attempt : Attempts, revision : 1..MaxRevision, ref : 0..MaxAttempt, fresh : BOOLEAN]

(* result is the verification_result of evidence_json; sealed says that the  *)
(* attempt's assistant reply was committed after the row's last update.      *)
OpRows ==
    [status : OperationStatuses, run : Runs, attempt : Attempts,
     effect : EffectClasses, result : Results, sealed : BOOLEAN]

(* users says what user messages the checkpoint lists: none, text only, or   *)
(* some with attachments.                                                    *)
TurnRows == [state : {"pending", "final"}, users : {"none", "text", "attached"}]

TypeOK ==
    /\ runs \in [Runs -> RunRows \cup {NoRun}]
    /\ ops \in [Ops -> OpRows \cup {NoOp}]
    /\ turns \in [Runs -> [Attempts -> TurnRows \cup {NoTurn}]]
    /\ convs \in [Conversations -> [ws : Workspaces,
                                    lastUser : (Runs \X Attempts) \cup {Nobody}]]

------------------------------------------------------------------------------
(* Readings of the tables.                                                   *)

Exists(r)    == runs[r].status # "absent"
OpsOf(r)     == {x \in Ops : ops[x].run = r}
IsWrite(op)  == op.effect # "read_only"

(* _ensure_no_unresolved_writes, over the operations of every attempt.       *)
NoUnresolvedWritesBug(r) ==
    \A x \in OpsOf(r) : IsWrite(ops[x]) => ops[x].status \notin UnresolvedStatuses \ {"needs_review"}

NoUnresolvedWrites(r) ==
    \A x \in OpsOf(r) : IsWrite(ops[x]) => ops[x].status \notin UnresolvedStatuses

(* The turn of the current attempt has a checkpoint row, sealed or not.      *)
HasCommittedCheckpoint(r) == turns[r][runs[r].attempt].state # "absent"

HasRecoveryInput(r, ref) ==
    \/ (IF ref # 0 THEN ref ELSE runs[r].ref) # 0
    \/ HasCommittedCheckpoint(r)

(* What the operation's row says of its effect is safe to continue from.     *)
SafeToContinue(op) ==
    \/ ~IsWrite(op)
    \/ op.status = "cancelled"
    \/ op.effect = "opaque_effect" /\ op.status = "returned" /\ op.sealed
    \/ op.effect = "verifiable_write"
       /\ \/ op.status = "verified"
          \/ op.status = "failed" /\ op.result = "unchanged"

InputTurn(r) == IF runs[r].ref # 0 THEN runs[r].ref ELSE runs[r].attempt

NoInputBug(r) ==
    /\ convs[runs[r].conv].ws = runs[r].ws
    /\ runs[r].fresh
    /\ \A x \in OpsOf(r) : SafeToContinue(ops[x])

UnsafeEffectsBug(r) ==
    /\ convs[runs[r].conv].ws = runs[r].ws
    /\ runs[r].fresh
    /\ turns[r][InputTurn(r)].users = "text"
    /\ convs[runs[r].conv].lastUser = <<r, InputTurn(r)>>

HasSafeResumeInput(r) ==
    /\ convs[runs[r].conv].ws = runs[r].ws
    /\ runs[r].fresh
    /\ turns[r][InputTurn(r)].users = "text"
    /\ convs[runs[r].conv].lastUser = <<r, InputTurn(r)>>
    /\ \A x \in OpsOf(r) : SafeToContinue(ops[x])

Owns(r, o, a)   == Exists(r) /\ runs[r].owner = o /\ runs[r].attempt = a
InBounds(n)     == n <= MaxRevision

(* Rows as one transaction leaves them.                                      *)
TouchedBug(row)      == [row EXCEPT !.fresh = TRUE]
Touched(row)         == [row EXCEPT !.revision = @ + 1, !.fresh = TRUE]
Outdated(c)          == [r \in Runs |-> IF runs[r].conv = c
                                        THEN [runs[r] EXCEPT !.fresh = FALSE] ELSE runs[r]]
KeptOwnerBug(row, to) == [row EXCEPT !.status = to]
StatusAfter(row, to) ==
    [row EXCEPT !.status = to,
                !.owner = IF to \in ReleasedStatuses THEN NoOwner ELSE @,
                !.lease = to \notin ReleasedStatuses]

(* _reconcile_interrupted_operations: undispatched intent is cancelled, an   *)
(* executing write is uncertain, and each row costs one revision.            *)
Interruptible(r) == {x \in OpsOf(r) : ops[x].status \in {"prepared", "authorized", "executing"}}
UnknownStatusBug(op) == [op EXCEPT !.status = "interrupted", !.sealed = FALSE]
CancelledBug(op) == [op EXCEPT !.status = "cancelled", !.sealed = FALSE]
Reconciled(op)   ==
    [op EXCEPT !.status = IF op.status = "executing" /\ IsWrite(op) THEN "uncertain" ELSE "cancelled",
               !.sealed = FALSE]
OpsReconciled(r) == [x \in Ops |-> IF x \in Interruptible(r) THEN Reconciled(ops[x]) ELSE ops[x]]

------------------------------------------------------------------------------
(* Runs.                                                                     *)

Init ==
    /\ runs = [r \in Runs |-> NoRun]
    /\ ops = [x \in Ops |-> NoOp]
    /\ turns = [r \in Runs |-> [a \in Attempts |-> NoTurn]]
    /\ convs \in [Conversations -> [ws : Workspaces, lastUser : {Nobody}]]

(* create_run, for a run id that has no row (with one it returns the row or  *)
(* refuses, and writes nothing).                                             *)
CreateRun(r, c, w, o) ==
    /\ ~Exists(r)
    /\ \A s \in Runs : runs[s].status \in LeasedStatuses =>
          /\ runs[s].conv # c
          /\ runs[s].owner # o => runs[s].ws # w
    /\ runs' = [runs EXCEPT ![r] =
          [status |-> "running", conv |-> c, ws |-> w, owner |-> o, lease |-> TRUE,
           attempt |-> 1, revision |-> 1, ref |-> 0, fresh |-> TRUE]]
    /\ UNCHANGED <<ops, turns, convs>>

(* persist_recovery_input, when the turn has no checkpoint yet (with one it  *)
(* returns the stored input or refuses, and writes nothing).                 *)
PersistRecoveryInput(r, o, a, users) ==
    /\ Owns(r, o, a)
    /\ runs[r].status = "running"
    /\ turns[r][a].state = "absent"
    /\ InBounds(runs[r].revision + 1)
    /\ turns' = [turns EXCEPT ![r][a] = [state |-> "pending", users |-> users]]
    /\ convs' = [convs EXCEPT ![runs[r].conv].lastUser = <<r, a>>]
    /\ runs' = [Outdated(runs[r].conv) EXCEPT ![r] = [Touched(runs[r]) EXCEPT !.ref = a]]
    /\ UNCHANGED ops

FinishedRunBug(r, o, v) ==
    /\ Exists(r)
    /\ runs[r].revision = v
    /\ runs[r].owner = NoOwner /\ ~runs[r].lease
    /\ HasRecoveryInput(r, 0)
    /\ HasSafeResumeInput(r)
    /\ runs[r].attempt < MaxAttempt /\ InBounds(v + 1)
    /\ runs' = [runs EXCEPT ![r] =
          [Touched(runs[r]) EXCEPT !.status = "running", !.owner = o, !.lease = TRUE,
                                   !.attempt = runs[r].attempt + 1]]
    /\ UNCHANGED <<ops, turns, convs>>

(* claim_run: a new attempt of a paused run, with a turn of its own.         *)
ClaimRun(r, o, v) ==
    /\ Exists(r)
    /\ runs[r].revision = v
    /\ runs[r].status = "paused"
    /\ runs[r].owner = NoOwner /\ ~runs[r].lease
    /\ HasRecoveryInput(r, 0)
    /\ HasSafeResumeInput(r)
    /\ runs[r].attempt < MaxAttempt /\ InBounds(v + 1)
    /\ runs' = [runs EXCEPT ![r] =
          [Touched(runs[r]) EXCEPT !.status = "running", !.owner = o, !.lease = TRUE,
                                   !.attempt = runs[r].attempt + 1]]
    /\ UNCHANGED <<ops, turns, convs>>

(* renew_lease: no revision and no event, and an expired lease is renewed.   *)
RenewLease(r, o, a) ==
    /\ Owns(r, o, a)
    /\ runs[r].status \in LeasedStatuses
    /\ runs' = [runs EXCEPT ![r].lease = TRUE, ![r].fresh = TRUE]
    /\ UNCHANGED <<ops, turns, convs>>

(* release_expired_run, called with safe_to_release and owner_proven_dead:   *)
(* hand the run and its interrupted operations to a recovery process.        *)
ReleaseExpiredRun(r, old, new, a, v) ==
    /\ new # old
    /\ Owns(r, old, a)
    /\ runs[r].revision = v
    /\ runs[r].status \in LeasedStatuses
    /\ LET after == v + Cardinality(Interruptible(r)) + 1 IN
          /\ InBounds(after)
          /\ runs' = [runs EXCEPT ![r] =
                [runs[r] EXCEPT
                          !.status = IF runs[r].status = "needs_review" THEN "needs_review"
                                     ELSE "interrupted",
                          !.owner = new, !.lease = TRUE, !.revision = after, !.fresh = TRUE]]
    /\ ops' = OpsReconciled(r)
    /\ UNCHANGED <<turns, convs>>

(* transition_run; ref is the recovery_input_ref argument, 0 when omitted:   *)
(* only a pause brings one along.                                            *)
TransitionRun(r, to, o, a, v, ref) ==
    /\ Owns(r, o, a)
    /\ runs[r].revision = v
    /\ to \in RunTransitions[runs[r].status]
    /\ to \in ReleasedStatuses => NoUnresolvedWrites(r)
    /\ to = "completed" => HasCommittedCheckpoint(r)
    /\ to = "paused" => HasRecoveryInput(r, ref)
    /\ LET interrupting == to = "interrupted"
           after == v + (IF interrupting THEN Cardinality(Interruptible(r)) ELSE 0) + 1
       IN /\ InBounds(after)
          /\ ops' = IF interrupting THEN OpsReconciled(r) ELSE ops
          /\ runs' = [runs EXCEPT ![r] =
                [StatusAfter(runs[r], to) EXCEPT
                          !.revision = after, !.fresh = TRUE,
                          !.ref = IF ref # 0 THEN ref ELSE runs[r].ref]]
    /\ UNCHANGED <<turns, convs>>

------------------------------------------------------------------------------
(* Operations.                                                               *)

(* prepare_operation, for an operation id that has no row.                   *)
PrepareOperation(x, r, o, a, effect) ==
    /\ Owns(r, o, a)
    /\ runs[r].status \in {"running", "waiting_approval"}
    /\ ops[x].status = "absent"
    /\ InBounds(runs[r].revision + 1)
    /\ ops' = [ops EXCEPT ![x] = [status |-> "prepared", run |-> r, attempt |-> a,
                                   effect |-> effect, result |-> "none", sealed |-> FALSE]]
    /\ runs' = [runs EXCEPT ![r] = Touched(runs[r])]
    /\ UNCHANGED <<turns, convs>>

(* The evidence a transition must bring along.                               *)
EvidenceFor(op, to, result) ==
    /\ to = "verified" =>
          /\ op.effect # "opaque_effect"
          /\ op.effect = "verifiable_write" => result = "completed"
    /\ to = "failed" /\ IsWrite(op) /\ op.status \in {"executing", "uncertain", "needs_review"}
          => result = "unchanged"

(* transition_operation; result is the verification_result the caller adds.  *)
TransitionOperation(x, to, o, a, result) ==
    LET r == ops[x].run IN
    /\ ops[x].status # "absent"
    /\ Owns(r, o, a)
    /\ ops[x].attempt = a
    /\ to \in OperationTransitions[ops[x].status]
    /\ to = "executing" => runs[r].status = "running"
    /\ to = "returned" => ops[x].effect = "opaque_effect"
    /\ EvidenceFor(ops[x], to, result)
    /\ InBounds(runs[r].revision + 1)
    /\ ops' = [ops EXCEPT ![x].status = to, ![x].sealed = FALSE,
                           ![x].result = IF result = "none" THEN @ ELSE result]
    /\ runs' = [runs EXCEPT ![r] = Touched(runs[r])]
    /\ UNCHANGED <<turns, convs>>

(* promote_operation_to_verifiable_write; no opaque row has a snapshot.      *)
PromoteOperation(x, o, a) ==
    LET r == ops[x].run IN
    /\ ops[x].status = "executing" /\ ops[x].effect = "opaque_effect"
    /\ Owns(r, o, a)
    /\ ops[x].attempt = a
    /\ runs[r].status = "running"
    /\ InBounds(runs[r].revision + 1)
    /\ ops' = [ops EXCEPT ![x].effect = "verifiable_write", ![x].sealed = FALSE]
    /\ runs' = [runs EXCEPT ![r] = Touched(runs[r])]
    /\ UNCHANGED <<turns, convs>>

(* _record_unknown_operation_verification (api/routes/runs.py): a check of   *)
(* the operation that settled nothing is noted in its evidence.              *)
RecordUnknownVerification(x, o, a) ==
    LET r == ops[x].run IN
    /\ ops[x].status \in {"executing", "uncertain", "needs_review"}
    /\ Owns(r, o, a)
    /\ ops[x].attempt = a
    /\ InBounds(runs[r].revision + 1)
    /\ ops' = [ops EXCEPT ![x].result = "unknown", ![x].sealed = FALSE]
    /\ runs' = [runs EXCEPT ![r] = Touched(runs[r])]
    /\ UNCHANGED <<turns, convs>>

------------------------------------------------------------------------------
(* The conversation the run belongs to (database.py), and time.              *)

Joined(u, v) == IF "attached" \in {u, v} THEN "attached"
                ELSE IF "text" \in {u, v} THEN "text" ELSE "none"

(* persist_turn_messages seals the turn of the current attempt: a worker     *)
(* that still holds the run commits the assistant reply, the tool results    *)
(* and the user messages not stored yet (more).  A continuation has no user  *)
(* message of its own.  On a sealed turn it changes nothing.  The method has *)
(* no fence on the owner: that the run has one is due to its only caller, a  *)
(* live turn, which owns its run (TurnsOwnTheirRuns of DurableExecution).    *)
FinalizeTurn(r, more) ==
    LET a == runs[r].attempt  turn == turns[r][a] IN
    /\ Exists(r) /\ runs[r].owner # NoOwner
    /\ turn.state # "final"
    /\ turn.state = "absent" /\ a = 1 => more # "none"
    /\ turns' = [turns EXCEPT ![r][a] = [state |-> "final", users |-> Joined(turn.users, more)]]
    /\ convs' = [convs EXCEPT ![runs[r].conv].lastUser = IF more # "none" THEN <<r, a>> ELSE @]
    /\ ops' = [x \in Ops |-> IF ops[x].run = r /\ ops[x].attempt = a
                             THEN [ops[x] EXCEPT !.sealed = TRUE] ELSE ops[x]]
    /\ runs' = Outdated(runs[r].conv)

(* update_conversation: a new title, folder or goal makes the conversation   *)
(* newer than the runs that are saved in it.                                 *)
UpdateConversation(c, w) ==
    /\ convs' = [convs EXCEPT ![c].ws = w]
    /\ runs' = Outdated(c)
    /\ UNCHANGED <<ops, turns>>

(* delete_conversation removes the rows of its runs (ON DELETE CASCADE); a   *)
(* conversation of the same name is a new one.                               *)
Deletable(c) ==
    \A r \in Runs : runs[r].conv = c =>
        /\ runs[r].status \notin LeasedStatuses \cup {"paused"}
        /\ \A x \in OpsOf(r) : ops[x].status \notin UnresolvedStatuses

DeleteConversation(c, w) ==
    LET gone == {r \in Runs : runs[r].conv = c} IN
    /\ gone # {}
    /\ Deletable(c)
    /\ runs' = [r \in Runs |-> IF r \in gone THEN NoRun ELSE runs[r]]
    /\ ops' = [x \in Ops |-> IF ops[x].run \in gone THEN NoOp ELSE ops[x]]
    /\ turns' = [r \in Runs |-> IF r \in gone THEN [a \in Attempts |-> NoTurn] ELSE turns[r]]
    /\ convs' = [convs EXCEPT ![c] = [ws |-> w, lastUser |-> Nobody]]

------------------------------------------------------------------------------
(* The callers of the journal: any process, with any attempt in hand.  The   *)
(* revision is the current one, as any other is refused.                     *)

RunStep(r, o) ==
    \/ \E c \in Conversations, w \in Workspaces : CreateRun(r, c, w, o)
    \/ ClaimRun(r, o, runs[r].revision)
    \/ \E a \in Attempts :
          \/ \E users \in {"text", "attached"} : PersistRecoveryInput(r, o, a, users)
          \/ RenewLease(r, o, a)
          \/ \E new \in Owners : ReleaseExpiredRun(r, o, new, a, runs[r].revision)
          \/ \E to \in RunStatuses, ref \in 0..a :
                /\ ref # 0 => to = "paused"
                /\ TransitionRun(r, to, o, a, runs[r].revision, ref)

OperationStep(x, o) ==
    \E a \in Attempts :
        \/ \E r \in Runs, effect \in EffectClasses : PrepareOperation(x, r, o, a, effect)
        \/ \E to \in OperationStatuses, result \in Results : TransitionOperation(x, to, o, a, result)
        \/ PromoteOperation(x, o, a)
        \/ RecordUnknownVerification(x, o, a)

ConversationStep ==
    \/ \E r \in Runs, more \in {"none", "text", "attached"} : FinalizeTurn(r, more)
    \/ \E c \in Conversations, w \in Workspaces : UpdateConversation(c, w) \/ DeleteConversation(c, w)

Next ==
    \/ \E r \in Runs, o \in Owners : RunStep(r, o)
    \/ \E x \in Ops, o \in Owners : OperationStep(x, o)
    \/ ConversationStep

Spec == Init /\ [][Next]_vars

------------------------------------------------------------------------------
(* Properties.                                                               *)

(* A run has an owner and a lease exactly while it is in a leased status:    *)
(* release_expired_run and the owner fence of every method rely on it.       *)
OwnedWhileLeased ==
    \A r \in Runs :
        /\ (runs[r].owner # NoOwner) <=> (runs[r].status \in LeasedStatuses)
        /\ runs[r].lease <=> (runs[r].status \in LeasedStatuses)

(* A paused or finished run has no write whose outcome is open, in any of    *)
(* its attempts: after the release no owner is left who could settle it.     *)
ReleasedRunsAreSettled ==
    \A r \in Runs : runs[r].status \in ReleasedStatuses =>
        \A x \in OpsOf(r) : IsWrite(ops[x]) => ops[x].status \notin UnresolvedStatuses

(* An operation of an attempt that is over can no longer be settled, as      *)
(* transition_operation refuses stale attempts; so when an attempt is        *)
(* superseded every write of it must have an outcome one can continue from.  *)
EarlierAttemptsAreSafe ==
    \A x \in Ops :
        ops[x].status # "absent" /\ ops[x].attempt < runs[ops[x].run].attempt
            => SafeToContinue(ops[x])

(* A new attempt is a continuation: one of the earlier turns committed the   *)
(* text the user asked for, so there is something to continue.               *)
ContinuationsHaveInput ==
    \A r \in Runs : runs[r].attempt > 1 =>
        \E t \in 1..(runs[r].attempt - 1) : turns[r][t].users = "text"

(* The revision is the token clients compare-and-swap on: a step that        *)
(* changes a run's status, attempt, owner or one of its operations moves it. *)
SeenBy(r) == <<runs[r].status, runs[r].attempt, runs[r].owner,
               {<<x, ops[x].status, ops[x].effect>> : x \in OpsOf(r)}>>
MovesTheRevision(r) ==
    /\ runs'[r].revision >= runs[r].revision
            + Cardinality({x \in Ops : ops'[x].run = r /\ ops'[x].status # ops[x].status})
    /\ SeenBy(r)' # SeenBy(r) => runs'[r].revision > runs[r].revision
ChangesMoveTheRevision ==
    [][\A r \in Runs : Exists(r) /\ Exists(r)' => MovesTheRevision(r)]_vars

(* Nothing changes in a finished run but for its deletion: no late worker,   *)
(* recovery or command of anyone moves it or one of its operations.          *)
StaysFinished(r) ==
    runs[r].status \in TerminalStatuses /\ runs'[r].status # "absent" =>
        /\ \/ runs'[r] = runs[r]
           \/ runs'[r] = [runs[r] EXCEPT !.fresh = FALSE]
        /\ \A x \in Ops : ops[x].run = r \/ ops'[x].run = r => ops'[x] = ops[x]
FinishedRunsAreFinal == [][\A r \in Runs : StaysFinished(r)]_vars

(* A write that was dispatched never ends as if it had not been: it leaves   *)
(* the open statuses only with evidence, and is neither cancelled nor        *)
(* deleted with its conversation.                                            *)
Dispatched(op) == op.status \in {"executing", "uncertain", "needs_review"} /\ IsWrite(op)
EndsWithEvidence(x) ==
    Dispatched(ops[x]) /\ ~Dispatched(ops'[x]) =>
        \/ ops'[x].status = "verified" /\ ops'[x].result = "completed"
        \/ ops'[x].status = "failed" /\ ops'[x].result = "unchanged"
        \/ ops'[x].status = "returned" /\ ops'[x].effect = "opaque_effect"
DispatchedWritesNeedEvidence == [][\A x \in Ops : EndsWithEvidence(x)]_vars

(* Claims of the repository that the code does not keep (see README).        *)

(* A conversation is owned by one run at a time (recovery.py: "A shared      *)
(* conversation is still single-owner").                                     *)
ConversationHasOneRun ==
    \A r, s \in Runs : r # s /\ {runs[r].status, runs[s].status} \subseteq LeasedStatuses
        => runs[r].conv # runs[s].conv

(* "Stop or resolve it before deleting the conversation": a paused run that  *)
(* blocks the deletion, whose text input is committed and whose effects are  *)
(* safe, can be taken further by someone.                                    *)
BlockingRunsCanBeResolved ==
    \A r \in Runs :
        /\ runs[r].status = "paused" /\ turns[r][InputTurn(r)].users = "text"
        /\ \A x \in OpsOf(r) : SafeToContinue(ops[x])
        => RunTransitions["paused"] # {} \/ HasSafeResumeInput(r)
=============================================================================
