------------------------- MODULE DurableJournalProofs -------------------------
(***************************************************************************)
(* Theorems about DurableJournal, for every value of its constants.        *)
(***************************************************************************)
EXTENDS DurableJournal, FiniteSetTheorems, TLAPS

(* The number of interrupted operations is a natural number.                 *)
LEMMA InterruptibleCount ==
    ASSUME NEW r
    PROVE  Cardinality(Interruptible(r)) \in Nat
<1>1. IsFiniteSet(Interruptible(r))
  BY OpsAssumption, FS_Subset DEF Interruptible, OpsOf
<1> QED BY <1>1, FS_CardinalityType

(* What a row of each table is, read off the type invariant.                 *)
LEMMA RowTypes ==
    ASSUME TypeOK
    PROVE  /\ \A r \in Runs : Exists(r) <=> runs[r] \in RunRows
           /\ \A r \in Runs : ~Exists(r) <=> runs[r] = NoRun
           /\ \A x \in Ops : ops[x].status # "absent" <=> ops[x] \in OpRows
           /\ \A x \in Ops : ops[x].status = "absent" <=> ops[x] = NoOp
BY DEF TypeOK, Exists, RunRows, NoRun, OpRows, NoOp, RunStatuses, LeasedStatuses,
       ActiveRunStatuses, Quarantined, ReleasedStatuses, TerminalStatuses,
       OperationStatuses, UnresolvedStatuses

(* The operators that compute whole rows or tables return well-typed ones.   *)
LEMMA OutdatedRows ==
    ASSUME TypeOK, NEW c \in Conversations, NEW r \in Runs
    PROVE  \/ Outdated(c)[r] = runs[r]
           \/ Exists(r) /\ Outdated(c)[r] = [runs[r] EXCEPT !.fresh = FALSE]
<1>1. CASE runs[r].conv = c
  <2>1. runs[r] # NoRun BY <1>1, NobodyAssumption DEF NoRun
  <2>2. Exists(r) BY <2>1, RowTypes
  <2> QED BY <1>1, <2>2 DEF Outdated
<1>2. CASE runs[r].conv # c BY <1>2 DEF Outdated
<1> QED BY <1>1, <1>2

(* A conversation update changes no column of a run but that comparison.     *)
LEMMA OutdatedColumns ==
    ASSUME TypeOK, NEW c \in Conversations, NEW r \in Runs
    PROVE  /\ Outdated(c)[r].status = runs[r].status /\ Outdated(c)[r].conv = runs[r].conv
           /\ Outdated(c)[r].ws = runs[r].ws /\ Outdated(c)[r].owner = runs[r].owner
           /\ Outdated(c)[r].attempt = runs[r].attempt
           /\ Outdated(c)[r].revision = runs[r].revision
           /\ Outdated(c)[r].ref = runs[r].ref
<1>1. CASE Outdated(c)[r] = runs[r] BY <1>1
<1>2. CASE Exists(r) /\ Outdated(c)[r] = [runs[r] EXCEPT !.fresh = FALSE]
  <2>1. runs[r] \in RunRows BY <1>2, RowTypes
  <2> QED BY <1>2, <2>1 DEF RunRows
<1> QED BY <1>1, <1>2, OutdatedRows

(* A conversation update leaves well-typed rows.                             *)
LEMMA OutdatedType ==
    ASSUME TypeOK, NEW c \in Conversations
    PROVE  Outdated(c) \in [Runs -> RunRows \cup {NoRun}]
<1>1. ASSUME NEW r \in Runs PROVE Outdated(c)[r] \in RunRows \cup {NoRun}
  <2>1. CASE Outdated(c)[r] = runs[r] BY <2>1 DEF TypeOK
  <2>2. CASE Exists(r) /\ Outdated(c)[r] = [runs[r] EXCEPT !.fresh = FALSE]
    <3>1. runs[r] \in RunRows BY <2>2, RowTypes
    <3> QED BY <2>2, <3>1 DEF RunRows
  <2> QED BY <2>1, <2>2, OutdatedRows
<1> QED BY <1>1 DEF Outdated

(* A touched row, with or without a new input reference, is well-typed       *)
(* as long as the bound on the revision allows it.                           *)
LEMMA TouchedType ==
    ASSUME NEW row \in RunRows, InBounds(row.revision + 1)
    PROVE  /\ Touched(row) \in RunRows
           /\ \A a \in Attempts : [Touched(row) EXCEPT !.ref = a] \in RunRows
<1>1. row.revision + 1 \in 1..MaxRevision
  BY BoundsAssumption DEF RunRows, InBounds
<1>2. Attempts \subseteq 0..MaxAttempt BY BoundsAssumption DEF Attempts
<1> QED BY <1>1, <1>2 DEF Touched, RunRows

(* Reconciling the operations of a run leaves well-typed rows.               *)
LEMMA OpsReconciledType ==
    ASSUME TypeOK, NEW r \in Runs
    PROVE  OpsReconciled(r) \in [Ops -> OpRows \cup {NoOp}]
<1>1. ASSUME NEW x \in Interruptible(r)
      PROVE  Reconciled(ops[x]) \in OpRows
  <2>1. ops[x] \in OpRows
    BY <1>1, RowTypes DEF Interruptible, OpsOf
  <2> QED BY <2>1 DEF Reconciled, OpRows, OperationStatuses, UnresolvedStatuses
<1> QED BY <1>1 DEF OpsReconciled, TypeOK

------------------------------------------------------------------------------
(* Type correctness, action by action.                                       *)

(* create_run preserves the type invariant.                                  *)
LEMMA CreateRunType ==
    ASSUME TypeOK, NEW r \in Runs, NEW c \in Conversations, NEW w \in Workspaces,
           NEW o \in Owners, CreateRun(r, c, w, o)
    PROVE  TypeOK'
BY BoundsAssumption DEF TypeOK, CreateRun, RunRows, Attempts, RunStatuses, LeasedStatuses, ActiveRunStatuses

(* persist_recovery_input preserves the type invariant.                      *)
LEMMA PersistRecoveryInputType ==
    ASSUME TypeOK, NEW r \in Runs, NEW o \in Owners, NEW a \in Attempts,
           NEW users \in {"text", "attached"}, PersistRecoveryInput(r, o, a, users)
    PROVE  TypeOK'
<1>1. runs[r] \in RunRows BY RowTypes DEF PersistRecoveryInput, Owns
<1>2. Outdated(runs[r].conv) \in [Runs -> RunRows \cup {NoRun}]
  BY <1>1, OutdatedType DEF RunRows
<1>3. [Touched(runs[r]) EXCEPT !.ref = a] \in RunRows
  BY <1>1, TouchedType DEF PersistRecoveryInput
<1>4. runs' \in [Runs -> RunRows \cup {NoRun}]
  BY <1>2, <1>3 DEF PersistRecoveryInput
<1>5. turns' \in [Runs -> [Attempts -> TurnRows \cup {NoTurn}]]
  BY DEF PersistRecoveryInput, TypeOK, TurnRows
<1>6. convs' \in [Conversations -> [ws : Workspaces, lastUser : (Runs \X Attempts) \cup {Nobody}]]
  BY <1>1, SMTT(30) DEF PersistRecoveryInput, TypeOK, RunRows
<1> QED BY <1>4, <1>5, <1>6 DEF TypeOK, PersistRecoveryInput

(* claim_run preserves the type invariant.                                   *)
LEMMA ClaimRunType ==
    ASSUME TypeOK, NEW r \in Runs, NEW o \in Owners, ClaimRun(r, o, runs[r].revision)
    PROVE  TypeOK'
<1>1. runs[r] \in RunRows BY RowTypes DEF ClaimRun
<1>2. [Touched(runs[r]) EXCEPT !.status = "running", !.owner = o,
                               !.lease = TRUE, !.attempt = runs[r].attempt + 1] \in RunRows
  <2>1. Touched(runs[r]) \in RunRows
    BY <1>1, TouchedType DEF ClaimRun
  <2>2. runs[r].attempt + 1 \in Attempts
    BY <1>1, BoundsAssumption DEF ClaimRun, RunRows, Attempts
  <2>3. "running" \in RunStatuses
    BY DEF RunStatuses, LeasedStatuses, ActiveRunStatuses
  <2> QED BY <2>1, <2>2, <2>3 DEF RunRows
<1>3. runs' \in [Runs -> RunRows \cup {NoRun}]
  BY <1>2 DEF TypeOK, ClaimRun
<1> QED BY <1>3 DEF TypeOK, ClaimRun

(* renew_lease preserves the type invariant.                                 *)
LEMMA RenewLeaseType ==
    ASSUME TypeOK, NEW r \in Runs, NEW o \in Owners, NEW a \in Attempts, RenewLease(r, o, a)
    PROVE  TypeOK'
<1>1. runs[r] \in RunRows BY RowTypes DEF RenewLease, Owns
<1>2. [runs[r] EXCEPT !.lease = TRUE, !.fresh = TRUE] \in RunRows
  BY <1>1 DEF RunRows
<1>3. runs' = [runs EXCEPT ![r] = [runs[r] EXCEPT !.lease = TRUE, !.fresh = TRUE]]
  BY DEF RenewLease
<1> QED BY <1>2, <1>3 DEF TypeOK, RenewLease

(* release_expired_run preserves the type invariant.                         *)
LEMMA ReleaseExpiredRunType ==
    ASSUME TypeOK, NEW r \in Runs, NEW old \in Owners, NEW new \in Owners, NEW a \in Attempts,
           ReleaseExpiredRun(r, old, new, a, runs[r].revision)
    PROVE  TypeOK'
<1> DEFINE after == runs[r].revision + Cardinality(Interruptible(r)) + 1
           to    == IF runs[r].status = "needs_review" THEN runs[r].status ELSE "interrupted"
<1>1. runs[r] \in RunRows BY RowTypes DEF ReleaseExpiredRun, Owns
<1>2. after \in 1..MaxRevision
  BY <1>1, InterruptibleCount, BoundsAssumption DEF ReleaseExpiredRun, InBounds, RunRows
<1>3. to \in RunStatuses
  BY <1>1 DEF RunRows, RunStatuses, LeasedStatuses, Quarantined
<1> HIDE DEF after, to
<1>4. [runs[r] EXCEPT !.status = to, !.owner = new, !.lease = TRUE,
                      !.revision = after, !.fresh = TRUE] \in RunRows
  BY <1>1, <1>2, <1>3 DEF RunRows
<1>5. runs' = [runs EXCEPT ![r] = [runs[r] EXCEPT !.status = to, !.owner = new, !.lease = TRUE,
                                                  !.revision = after, !.fresh = TRUE]]
  BY DEF ReleaseExpiredRun, after, to
<1>6. runs' \in [Runs -> RunRows \cup {NoRun}]
  BY <1>4, <1>5 DEF TypeOK
<1>7. ops' \in [Ops -> OpRows \cup {NoOp}]
  BY OpsReconciledType DEF ReleaseExpiredRun
<1> QED BY <1>6, <1>7 DEF TypeOK, ReleaseExpiredRun

(* transition_run preserves the type invariant.                              *)
LEMMA TransitionRunType ==
    ASSUME TypeOK, NEW r \in Runs, NEW to \in RunStatuses, NEW o \in Owners, NEW a \in Attempts,
           NEW ref \in 0..a, TransitionRun(r, to, o, a, runs[r].revision, ref)
    PROVE  TypeOK'
<1> DEFINE after == runs[r].revision
                      + (IF to = "interrupted" THEN Cardinality(Interruptible(r)) ELSE 0) + 1
           newref == IF ref # 0 THEN ref ELSE runs[r].ref
<1>1. runs[r] \in RunRows BY RowTypes DEF TransitionRun, Owns
<1>2. after \in 1..MaxRevision
  BY <1>1, InterruptibleCount, BoundsAssumption DEF TransitionRun, InBounds, RunRows
<1>3. newref \in 0..MaxAttempt
  BY <1>1, BoundsAssumption DEF RunRows, Attempts
<1>4. StatusAfter(runs[r], to) \in RunRows
  BY <1>1 DEF StatusAfter, RunRows
<1>5. StatusAfter(runs[r], to).ref = runs[r].ref
  BY <1>1 DEF StatusAfter, RunRows
<1> HIDE DEF after, newref
<1>6. [StatusAfter(runs[r], to) EXCEPT !.revision = after, !.fresh = TRUE, !.ref = newref] \in RunRows
  BY <1>2, <1>3, <1>4 DEF RunRows
<1>7. runs' = [runs EXCEPT ![r] =
                 [StatusAfter(runs[r], to) EXCEPT !.revision = after, !.fresh = TRUE, !.ref = newref]]
  BY <1>5 DEF TransitionRun, after, newref
<1>8. runs' \in [Runs -> RunRows \cup {NoRun}]
  BY <1>6, <1>7 DEF TypeOK
<1>9. ops' \in [Ops -> OpRows \cup {NoOp}]
  BY OpsReconciledType DEF TransitionRun, TypeOK
<1> QED BY <1>8, <1>9 DEF TypeOK, TransitionRun

(* prepare_operation preserves the type invariant.                           *)
LEMMA PrepareOperationType ==
    ASSUME TypeOK, NEW x \in Ops, NEW r \in Runs, NEW o \in Owners, NEW a \in Attempts,
           NEW effect \in EffectClasses, PrepareOperation(x, r, o, a, effect)
    PROVE  TypeOK'
<1>1. runs[r] \in RunRows BY RowTypes DEF PrepareOperation, Owns
<1>2. Touched(runs[r]) \in RunRows BY <1>1, TouchedType DEF PrepareOperation
<1>3. [status |-> "prepared", run |-> r, attempt |-> a,
       effect |-> effect, result |-> "none", sealed |-> FALSE] \in OpRows
  BY DEF OpRows, OperationStatuses, UnresolvedStatuses, Results
<1> QED BY <1>2, <1>3 DEF TypeOK, PrepareOperation

(* transition_operation preserves the type invariant.                        *)
LEMMA TransitionOperationType ==
    ASSUME TypeOK, NEW x \in Ops, NEW to \in OperationStatuses, NEW o \in Owners,
           NEW a \in Attempts, NEW result \in Results, TransitionOperation(x, to, o, a, result)
    PROVE  TypeOK'
<1> DEFINE r == ops[x].run
<1>1. ops[x] \in OpRows BY RowTypes DEF TransitionOperation
<1>2. r \in Runs /\ runs[r] \in RunRows BY <1>1, RowTypes DEF TransitionOperation, Owns, OpRows
<1>3. Touched(runs[r]) \in RunRows BY <1>2, TouchedType DEF TransitionOperation
<1>4. ops' \in [Ops -> OpRows \cup {NoOp}]
  BY <1>1 DEF TypeOK, TransitionOperation, OpRows
<1> QED BY <1>2, <1>3, <1>4 DEF TypeOK, TransitionOperation

(* Promoting an opaque effect preserves the type invariant.                  *)
LEMMA PromoteOperationType ==
    ASSUME TypeOK, NEW x \in Ops, NEW o \in Owners, NEW a \in Attempts, PromoteOperation(x, o, a)
    PROVE  TypeOK'
<1> DEFINE r == ops[x].run
<1>1. ops[x] \in OpRows BY RowTypes DEF PromoteOperation
<1>2. r \in Runs /\ runs[r] \in RunRows BY <1>1, RowTypes DEF PromoteOperation, Owns, OpRows
<1>3. Touched(runs[r]) \in RunRows BY <1>2, TouchedType DEF PromoteOperation
<1>4. ops' \in [Ops -> OpRows \cup {NoOp}]
  BY <1>1 DEF TypeOK, PromoteOperation, OpRows, EffectClasses
<1> QED BY <1>2, <1>3, <1>4 DEF TypeOK, PromoteOperation

(* An inconclusive check preserves the type invariant.                       *)
LEMMA RecordUnknownVerificationType ==
    ASSUME TypeOK, NEW x \in Ops, NEW o \in Owners, NEW a \in Attempts,
           RecordUnknownVerification(x, o, a)
    PROVE  TypeOK'
<1> DEFINE r == ops[x].run
<1>1. ops[x] \in OpRows BY RowTypes DEF RecordUnknownVerification
<1>2. r \in Runs /\ runs[r] \in RunRows
  BY <1>1, RowTypes DEF RecordUnknownVerification, Owns, OpRows
<1>3. Touched(runs[r]) \in RunRows BY <1>2, TouchedType DEF RecordUnknownVerification
<1>4. ops' \in [Ops -> OpRows \cup {NoOp}]
  BY <1>1 DEF TypeOK, RecordUnknownVerification, OpRows, Results
<1> QED BY <1>2, <1>3, <1>4 DEF TypeOK, RecordUnknownVerification

(* Sealing a turn preserves the type invariant.                              *)
LEMMA FinalizeTurnType ==
    ASSUME TypeOK, NEW r \in Runs, NEW more \in {"none", "text", "attached"}, FinalizeTurn(r, more)
    PROVE  TypeOK'
<1> DEFINE a == runs[r].attempt
           row == [state |-> "final", users |-> Joined(turns[r][a].users, more)]
<1>1. runs[r] \in RunRows BY RowTypes DEF FinalizeTurn
<1>2. a \in Attempts /\ runs[r].conv \in Conversations BY <1>1 DEF RunRows
<1>3. runs' \in [Runs -> RunRows \cup {NoRun}] BY <1>2, OutdatedType DEF FinalizeTurn
<1>4. row \in TurnRows BY DEF TurnRows, Joined
<1>5. turns' = [turns EXCEPT ![r][a] = row] BY DEF FinalizeTurn
<1>6. turns' \in [Runs -> [Attempts -> TurnRows \cup {NoTurn}]]
  BY <1>2, <1>4, <1>5 DEF TypeOK
<1>7. ops' \in [Ops -> OpRows \cup {NoOp}]
  <2>1. ASSUME NEW x \in Ops, ops[x].run = r
        PROVE  [ops[x] EXCEPT !.sealed = TRUE] \in OpRows
    <3>1. ops[x] # NoOp BY <2>1, NobodyAssumption DEF NoOp
    <3>2. ops[x] \in OpRows BY <3>1 DEF TypeOK
    <3> QED BY <3>2 DEF OpRows
  <2> QED BY <2>1 DEF FinalizeTurn, TypeOK
<1>8. convs' \in [Conversations -> [ws : Workspaces, lastUser : (Runs \X Attempts) \cup {Nobody}]]
  BY <1>2, ZenonT(30) DEF FinalizeTurn, TypeOK
<1> QED BY <1>3, <1>6, <1>7, <1>8 DEF TypeOK

(* A conversation update preserves the type invariant.                       *)
LEMMA UpdateConversationType ==
    ASSUME TypeOK, NEW c \in Conversations, NEW w \in Workspaces, UpdateConversation(c, w)
    PROVE  TypeOK'
BY OutdatedType DEF TypeOK, UpdateConversation

(* The deletion of a conversation preserves the type invariant.              *)
LEMMA DeleteConversationType ==
    ASSUME TypeOK, NEW c \in Conversations, NEW w \in Workspaces, DeleteConversation(c, w)
    PROVE  TypeOK'
BY DEF TypeOK, DeleteConversation

(* The empty journal is well-typed.                                          *)
LEMMA InitType == Init => TypeOK
BY DEF Init, TypeOK

(* Every step of every caller preserves the type invariant.                  *)
LEMMA TypeStep == TypeOK /\ [Next]_vars => TypeOK'
<1> SUFFICES ASSUME TypeOK, [Next]_vars PROVE TypeOK' OBVIOUS
<1>1. ASSUME NEW r \in Runs, NEW o \in Owners, RunStep(r, o) PROVE TypeOK'
  BY <1>1, CreateRunType, ClaimRunType, PersistRecoveryInputType, RenewLeaseType,
     ReleaseExpiredRunType, TransitionRunType DEF RunStep
<1>2. ASSUME NEW x \in Ops, NEW o \in Owners, OperationStep(x, o) PROVE TypeOK'
  BY <1>2, PrepareOperationType, TransitionOperationType, PromoteOperationType,
     RecordUnknownVerificationType DEF OperationStep
<1>3. CASE ConversationStep
  BY <1>3, FinalizeTurnType, UpdateConversationType, DeleteConversationType DEF ConversationStep
<1>4. CASE UNCHANGED vars
  BY <1>4 DEF TypeOK, vars
<1> QED BY <1>1, <1>2, <1>3, <1>4 DEF Next

(* Every reachable state has only rows of the tables' domains.               *)
THEOREM TypeCorrectness == Spec => []TypeOK
BY InitType, TypeStep, PTL DEF Spec

------------------------------------------------------------------------------
(* The inductive invariant.  OperationsBelongToRuns is the part no run needs *)
(* to see: an operation row never outlives its run nor runs ahead of it, so  *)
(* that a run id used again starts without operations of an earlier life.    *)

OperationsBelongToRuns ==
    \A x \in Ops : ops[x].status # "absent" =>
        Exists(ops[x].run) /\ ops[x].attempt <= runs[ops[x].run].attempt

IInv ==
    /\ TypeOK
    /\ OwnedWhileLeased
    /\ OperationsBelongToRuns
    /\ ReleasedRunsAreSettled
    /\ EarlierAttemptsAreSafe

(* The empty journal satisfies the inductive invariant.                      *)
LEMMA InitIInv == Init => IInv
<1> SUFFICES ASSUME Init PROVE IInv OBVIOUS
<1>1. TypeOK BY InitType
<1>2. \A r \in Runs : runs[r] = NoRun BY DEF Init
<1>3. \A x \in Ops : ops[x] = NoOp BY DEF Init
<1>4. OwnedWhileLeased
  BY <1>2 DEF OwnedWhileLeased, NoRun, LeasedStatuses, ActiveRunStatuses, Quarantined
<1>5. ReleasedRunsAreSettled
  BY <1>2 DEF ReleasedRunsAreSettled, NoRun, ReleasedStatuses, TerminalStatuses
<1>6. OperationsBelongToRuns /\ EarlierAttemptsAreSafe
  BY <1>3 DEF OperationsBelongToRuns, EarlierAttemptsAreSafe, NoOp
<1> QED BY <1>1, <1>4, <1>5, <1>6 DEF IInv

(* A step that leaves the operations alone and changes of the runs nothing   *)
(* but what no part of IInv reads.                                           *)
LEMMA QuietStep ==
    ASSUME IInv, TypeOK', UNCHANGED ops,
           \A r \in Runs : /\ runs'[r].status = runs[r].status
                          /\ runs'[r].owner = runs[r].owner
                          /\ runs'[r].lease = runs[r].lease
                          /\ runs'[r].attempt = runs[r].attempt
    PROVE  IInv'
<1> USE DEF IInv
<1>1. \A x \in Ops : ops[x].status # "absent" => ops[x].run \in Runs
  BY RowTypes DEF OpRows
<1>2. OwnedWhileLeased' BY DEF OwnedWhileLeased
<1>3. OperationsBelongToRuns' BY <1>1 DEF OperationsBelongToRuns, Exists
<1>4. ReleasedRunsAreSettled'
  BY DEF ReleasedRunsAreSettled, NoUnresolvedWrites, OpsOf, IsWrite
<1>5. EarlierAttemptsAreSafe'
  BY <1>1 DEF EarlierAttemptsAreSafe, SafeToContinue, IsWrite
<1> QED BY <1>2, <1>3, <1>4, <1>5

(* The actions that are such quiet steps.                                    *)
LEMMA QuietActions ==
    ASSUME IInv, TypeOK',
           \/ \E r \in Runs, o \in Owners, a \in Attempts :
                \/ \E users \in {"text", "attached"} : PersistRecoveryInput(r, o, a, users)
                \/ RenewLease(r, o, a)
           \/ \E c \in Conversations, w \in Workspaces : UpdateConversation(c, w)
    PROVE  IInv'
<1> USE DEF IInv
<1>1. ASSUME NEW c \in Conversations, NEW r \in Runs
      PROVE  /\ Outdated(c)[r].status = runs[r].status
             /\ Outdated(c)[r].owner = runs[r].owner
             /\ Outdated(c)[r].lease = runs[r].lease
             /\ Outdated(c)[r].attempt = runs[r].attempt
  <2>1. CASE Outdated(c)[r] = runs[r] BY <2>1
  <2>2. CASE Exists(r) /\ Outdated(c)[r] = [runs[r] EXCEPT !.fresh = FALSE]
    BY <2>2, RowTypes DEF RunRows
  <2> QED BY <2>1, <2>2, OutdatedRows
<1>2. ASSUME NEW r \in Runs, NEW o \in Owners, NEW a \in Attempts,
             NEW users \in {"text", "attached"}, PersistRecoveryInput(r, o, a, users)
      PROVE  IInv'
  <2>1. runs[r] \in RunRows BY <1>2, RowTypes DEF PersistRecoveryInput, Owns
  <2>2. \A s \in Runs : s # r => runs'[s] = Outdated(runs[r].conv)[s]
    BY <1>2 DEF PersistRecoveryInput, Outdated
  <2>3. runs'[r] = [Touched(runs[r]) EXCEPT !.ref = a]
    BY <1>2 DEF PersistRecoveryInput, Outdated
  <2>4. runs[r].conv \in Conversations BY <2>1 DEF RunRows
  <2>5. runs'[r].status = runs[r].status /\ runs'[r].owner = runs[r].owner
        /\ runs'[r].lease = runs[r].lease /\ runs'[r].attempt = runs[r].attempt
    BY <2>1, <2>3 DEF Touched, RunRows
  <2>6. UNCHANGED ops BY <1>2 DEF PersistRecoveryInput
  <2> QED BY <1>1, <2>2, <2>4, <2>5, <2>6, QuietStep
<1>3. ASSUME NEW r \in Runs, NEW o \in Owners, NEW a \in Attempts, RenewLease(r, o, a)
      PROVE  IInv'
  <2>1. runs[r] \in RunRows BY <1>3, RowTypes DEF RenewLease, Owns
  <2>2. runs[r].lease = TRUE BY <1>3, <2>1 DEF OwnedWhileLeased, RenewLease, RunRows
  <2>3. runs'[r] = [runs[r] EXCEPT !.lease = TRUE, !.fresh = TRUE]
    BY <1>3 DEF RenewLease, TypeOK
  <2>4. runs'[r].status = runs[r].status /\ runs'[r].owner = runs[r].owner
        /\ runs'[r].lease = runs[r].lease /\ runs'[r].attempt = runs[r].attempt
    BY <2>1, <2>2, <2>3, ZenonT(30) DEF RunRows
  <2>5. \A s \in Runs : s # r => runs'[s] = runs[s]
    BY <1>3 DEF RenewLease, TypeOK
  <2>6. UNCHANGED ops BY <1>3 DEF RenewLease
  <2> QED BY <2>4, <2>5, <2>6, QuietStep
<1>4. ASSUME NEW c \in Conversations, NEW w \in Workspaces, UpdateConversation(c, w)
      PROVE  IInv'
  BY <1>1, <1>4, QuietStep DEF UpdateConversation
<1> QED BY <1>2, <1>3, <1>4

(* create_run preserves the invariant: a run id used anew has no operations. *)
LEMMA CreateRunStep ==
    ASSUME IInv, TypeOK', NEW r \in Runs, NEW c \in Conversations, NEW w \in Workspaces,
           NEW o \in Owners, CreateRun(r, c, w, o)
    PROVE  IInv'
<1> USE DEF IInv
<1>1. \A s \in Runs : s # r => runs'[s] = runs[s]
  BY DEF CreateRun, TypeOK
<1>2. runs'[r].status = "running" /\ runs'[r].owner = o /\ runs'[r].lease = TRUE
  BY DEF CreateRun, TypeOK
<1>3. \A x \in Ops : ops[x].status # "absent" => ops[x].run \in Runs \ {r}
  BY RowTypes DEF OpRows, OperationsBelongToRuns, CreateRun
<1>4. ops' = ops BY DEF CreateRun
<1>5. OwnedWhileLeased'
  BY <1>1, <1>2, OwnersAssumption DEF OwnedWhileLeased, LeasedStatuses, ActiveRunStatuses
<1>6. OperationsBelongToRuns'
  BY <1>1, <1>3, <1>4 DEF OperationsBelongToRuns, Exists
<1>7. ReleasedRunsAreSettled'
  BY <1>1, <1>2, <1>4 DEF ReleasedRunsAreSettled, NoUnresolvedWrites, OpsOf, IsWrite,
     ReleasedStatuses, TerminalStatuses
<1>8. EarlierAttemptsAreSafe'
  BY <1>1, <1>3, <1>4 DEF EarlierAttemptsAreSafe, SafeToContinue, IsWrite
<1> QED BY <1>5, <1>6, <1>7, <1>8

(* claim_run preserves the invariant: the attempt it supersedes is safe to   *)
(* continue from, as _has_safe_resume_input requires of every operation.     *)
LEMMA ClaimRunStep ==
    ASSUME IInv, TypeOK', NEW r \in Runs, NEW o \in Owners, ClaimRun(r, o, runs[r].revision)
    PROVE  IInv'
<1> USE DEF IInv
<1>0. runs[r] \in RunRows BY RowTypes DEF ClaimRun
<1>1. \A s \in Runs : s # r => runs'[s] = runs[s]
  BY DEF ClaimRun, TypeOK
<1>2. runs'[r] = [Touched(runs[r]) EXCEPT !.status = "running", !.owner = o, !.lease = TRUE,
                                          !.attempt = runs[r].attempt + 1]
  BY DEF ClaimRun, TypeOK
<1>3. runs'[r].status = "running" /\ runs'[r].owner = o /\ runs'[r].lease = TRUE
      /\ runs'[r].attempt = runs[r].attempt + 1
  BY <1>0, <1>2 DEF Touched, RunRows
<1>4. ops' = ops BY DEF ClaimRun
<1>5. \A x \in Ops : ops[x].status # "absent" =>
          ops[x].run \in Runs /\ ops[x].attempt \in Nat /\ Exists(ops[x].run)
          /\ ops[x].attempt <= runs[ops[x].run].attempt
  BY RowTypes DEF OpRows, OperationsBelongToRuns, Attempts
<1>6. OwnedWhileLeased'
  BY <1>1, <1>3, OwnersAssumption DEF OwnedWhileLeased, LeasedStatuses, ActiveRunStatuses
<1>7. OperationsBelongToRuns'
  <2> SUFFICES ASSUME NEW x \in Ops, ops[x].status # "absent"
               PROVE  /\ runs'[ops[x].run].status # "absent"
                      /\ ops[x].attempt <= runs'[ops[x].run].attempt
    BY <1>4 DEF OperationsBelongToRuns, Exists
  <2>1. CASE ops[x].run = r
    BY <2>1, <1>0, <1>3, <1>5 DEF Exists, RunRows, Attempts
  <2>2. CASE ops[x].run # r
    BY <2>2, <1>1, <1>5 DEF Exists
  <2> QED BY <2>1, <2>2
<1>8. ReleasedRunsAreSettled'
  BY <1>1, <1>3, <1>4 DEF ReleasedRunsAreSettled, NoUnresolvedWrites, OpsOf, IsWrite,
     ReleasedStatuses, TerminalStatuses
<1>9. EarlierAttemptsAreSafe'
  <2> SUFFICES ASSUME NEW x \in Ops, ops[x].status # "absent",
                      ops[x].attempt < runs'[ops[x].run].attempt
               PROVE  SafeToContinue(ops[x])
    BY <1>4 DEF EarlierAttemptsAreSafe, SafeToContinue, IsWrite
  <2>1. CASE ops[x].run = r
    BY <2>1 DEF ClaimRun, HasSafeResumeInput, OpsOf
  <2>2. CASE ops[x].run # r
    BY <2>2, <1>1, <1>5 DEF EarlierAttemptsAreSafe
  <2> QED BY <2>1, <2>2
<1> QED BY <1>6, <1>7, <1>8, <1>9

(* release_expired_run and a transition to interrupted reconcile the         *)
(* operations of the run; the others leave them alone.                       *)
LEMMA ReconciledFacts ==
    ASSUME IInv, NEW r \in Runs, Exists(r)
    PROVE  /\ \A x \in Ops : x \notin Interruptible(r) => OpsReconciled(r)[x] = ops[x]
           /\ \A x \in Interruptible(r) :
                 /\ ops[x].run = r /\ ops[x] \in OpRows
                 /\ OpsReconciled(r)[x] = Reconciled(ops[x])
                 /\ OpsReconciled(r)[x].run = r
                 /\ OpsReconciled(r)[x].attempt = ops[x].attempt
                 /\ OpsReconciled(r)[x].effect = ops[x].effect
                 /\ OpsReconciled(r)[x].status # "absent"
                 /\ ops[x].attempt < runs[r].attempt => SafeToContinue(OpsReconciled(r)[x])
<1>1. \A x \in Ops : x \notin Interruptible(r) => OpsReconciled(r)[x] = ops[x]
  BY DEF OpsReconciled
<1>2. ASSUME NEW x \in Interruptible(r)
      PROVE  /\ ops[x].run = r /\ ops[x] \in OpRows
             /\ OpsReconciled(r)[x] = Reconciled(ops[x])
             /\ OpsReconciled(r)[x].run = r
             /\ OpsReconciled(r)[x].attempt = ops[x].attempt
             /\ OpsReconciled(r)[x].effect = ops[x].effect
             /\ OpsReconciled(r)[x].status # "absent"
             /\ ops[x].attempt < runs[r].attempt => SafeToContinue(OpsReconciled(r)[x])
  <2>1. x \in Ops /\ ops[x].run = r /\ ops[x].status \in {"prepared", "authorized", "executing"}
    BY DEF Interruptible, OpsOf
  <2>2. ops[x] \in OpRows BY <2>1, RowTypes DEF IInv
  <2>3. OpsReconciled(r)[x] = Reconciled(ops[x]) BY <2>1 DEF OpsReconciled
  <2>4. /\ Reconciled(ops[x]).run = r /\ Reconciled(ops[x]).attempt = ops[x].attempt
        /\ Reconciled(ops[x]).effect = ops[x].effect
        /\ Reconciled(ops[x]).status # "absent"
    BY <2>1, <2>2 DEF Reconciled, OpRows
  <2>5. ASSUME ops[x].attempt < runs[r].attempt PROVE ~IsWrite(ops[x])
    BY <2>1, <2>2, <2>5 DEF IInv, EarlierAttemptsAreSafe, SafeToContinue
  <2>6. ~IsWrite(ops[x]) => SafeToContinue(Reconciled(ops[x]))
    BY <2>4 DEF SafeToContinue, IsWrite
  <2> QED BY <2>1, <2>2, <2>3, <2>4, <2>5, <2>6
<1> QED BY <1>1, <1>2

(* A run that moves to another status, either reconciling its operations and *)
(* keeping an owner, or leaving its operations alone and, if it is released, *)
(* having no open write, keeps the invariant.                                *)
LEMMA RunMovesStep ==
    ASSUME IInv, TypeOK', NEW r \in Runs, Exists(r), NEW to \in RunStatuses,
           \A s \in Runs : s # r => runs'[s] = runs[s],
           runs'[r].status = to, runs'[r].attempt = runs[r].attempt,
           (runs'[r].owner # NoOwner) <=> to \in LeasedStatuses,
           runs'[r].lease <=> to \in LeasedStatuses,
           \/ to \in LeasedStatuses /\ ops' = OpsReconciled(r)
           \/ UNCHANGED ops /\ (to \in ReleasedStatuses => NoUnresolvedWrites(r))
    PROVE  IInv'
<1> USE DEF IInv
<1>1. \A x \in Ops : ops[x].status # "absent" =>
          ops[x].run \in Runs /\ Exists(ops[x].run) /\ ops[x].attempt <= runs[ops[x].run].attempt
  BY RowTypes DEF OpRows, OperationsBelongToRuns
<1>2. OwnedWhileLeased' BY DEF OwnedWhileLeased
<1>5. \A s \in Runs : runs'[s].attempt = runs[s].attempt
  OBVIOUS
<1>6. \A s \in Runs : Exists(s) => runs'[s].status # "absent"
  BY DEF Exists, RunStatuses, LeasedStatuses, ActiveRunStatuses,
     Quarantined, ReleasedStatuses, TerminalStatuses
<1>3. CASE UNCHANGED ops /\ (to \in ReleasedStatuses => NoUnresolvedWrites(r))
  <2>1. OperationsBelongToRuns'
    BY <1>1, <1>3 DEF OperationsBelongToRuns, Exists, RunStatuses, LeasedStatuses, ActiveRunStatuses,
       Quarantined, ReleasedStatuses, TerminalStatuses
  <2>2. ReleasedRunsAreSettled'
    BY <1>3 DEF ReleasedRunsAreSettled, NoUnresolvedWrites, OpsOf, IsWrite
  <2>3. EarlierAttemptsAreSafe'
    BY <1>1, <1>3 DEF EarlierAttemptsAreSafe, SafeToContinue, IsWrite
  <2> QED BY <1>2, <2>1, <2>2, <2>3
<1>4. CASE to \in LeasedStatuses /\ ops' = OpsReconciled(r)
  <2>0. ASSUME NEW x \in Ops
        PROVE  /\ ops'[x].run = ops[x].run
               /\ ops'[x].attempt = ops[x].attempt
               /\ ops'[x].status # "absent" => ops[x].status # "absent"
    BY <1>4, ReconciledFacts, RowTypes DEF Interruptible
  <2>1. OperationsBelongToRuns'
    <3> SUFFICES ASSUME NEW x \in Ops, ops'[x].status # "absent"
                 PROVE  /\ runs'[ops[x].run].status # "absent"
                        /\ ops[x].attempt <= runs'[ops[x].run].attempt
      BY <2>0 DEF OperationsBelongToRuns, Exists
    <3>1. ops[x].status # "absent" BY <2>0
    <3> QED BY <3>1, <1>1, <1>5, <1>6
  <2>2. ReleasedRunsAreSettled'
    <3> SUFFICES ASSUME NEW s \in Runs, runs'[s].status \in ReleasedStatuses, NEW x \in Ops,
                        ops'[x].run = s, IsWrite(ops'[x])
                 PROVE  ops'[x].status \notin UnresolvedStatuses
      BY DEF ReleasedRunsAreSettled, NoUnresolvedWrites, OpsOf
    <3>1. s # r
      BY <1>4 DEF LeasedStatuses, ReleasedStatuses, ActiveRunStatuses, Quarantined, TerminalStatuses
    <3>2. ops'[x] = ops[x] BY <1>4, <2>0, <3>1, ReconciledFacts DEF Interruptible, OpsOf
    <3> QED BY <3>1, <3>2 DEF ReleasedRunsAreSettled, NoUnresolvedWrites, OpsOf
  <2>3. EarlierAttemptsAreSafe'
    <3> SUFFICES ASSUME NEW x \in Ops, ops'[x].status # "absent",
                        ops'[x].attempt < runs'[ops'[x].run].attempt
                 PROVE  SafeToContinue(ops'[x])
      BY DEF EarlierAttemptsAreSafe, SafeToContinue, IsWrite
    <3>1. ops[x].status # "absent" /\ ops[x].attempt < runs[ops[x].run].attempt
      <4>1. ops[x].status # "absent" BY <2>0
      <4>2. ops'[x].run = ops[x].run /\ ops'[x].attempt = ops[x].attempt BY <2>0
      <4>3. ops[x].run \in Runs BY <4>1, <1>1
      <4> QED BY <4>1, <4>2, <4>3, <1>5
    <3>2. CASE x \in Interruptible(r) BY <3>1, <3>2, <1>4, ReconciledFacts
    <3>3. CASE x \notin Interruptible(r)
      BY <3>1, <3>3, <1>4, ReconciledFacts DEF EarlierAttemptsAreSafe
    <3> QED BY <3>2, <3>3
  <2> QED BY <1>2, <2>1, <2>2, <2>3
<1> QED BY <1>3, <1>4

(* release_expired_run preserves the invariant.                              *)
LEMMA ReleaseExpiredRunStep ==
    ASSUME IInv, TypeOK', NEW r \in Runs, NEW old \in Owners, NEW new \in Owners, NEW a \in Attempts,
           ReleaseExpiredRun(r, old, new, a, runs[r].revision)
    PROVE  IInv'
<1> DEFINE to == IF runs[r].status = "needs_review" THEN "needs_review" ELSE "interrupted"
<1>1. runs[r] \in RunRows BY RowTypes DEF IInv, ReleaseExpiredRun, Owns
<1>2. runs'[r].status = to /\ runs'[r].owner = new /\ runs'[r].lease = TRUE
      /\ runs'[r].attempt = runs[r].attempt
  BY <1>1 DEF ReleaseExpiredRun, IInv, TypeOK, RunRows
<1>3. \A s \in Runs : s # r => runs'[s] = runs[s]
  BY DEF ReleaseExpiredRun, IInv, TypeOK
<1>4. to \in RunStatuses /\ to \in LeasedStatuses
  BY DEF RunStatuses, LeasedStatuses, Quarantined
<1>5. Exists(r) /\ ops' = OpsReconciled(r) BY DEF ReleaseExpiredRun, Owns
<1> QED BY <1>2, <1>3, <1>4, <1>5, OwnersAssumption, RunMovesStep

(* transition_run preserves the invariant.                                   *)
LEMMA TransitionRunStep ==
    ASSUME IInv, TypeOK', NEW r \in Runs, NEW to \in RunStatuses, NEW o \in Owners, NEW a \in Attempts,
           NEW ref \in 0..a, TransitionRun(r, to, o, a, runs[r].revision, ref)
    PROVE  IInv'
<1>1. runs[r] \in RunRows BY RowTypes DEF IInv, TransitionRun, Owns
<1>2. /\ runs'[r].status = StatusAfter(runs[r], to).status
      /\ runs'[r].owner = StatusAfter(runs[r], to).owner
      /\ runs'[r].lease = StatusAfter(runs[r], to).lease
      /\ runs'[r].attempt = StatusAfter(runs[r], to).attempt
  <2>1. StatusAfter(runs[r], to) \in RunRows BY <1>1 DEF StatusAfter, RunRows
  <2> QED BY <2>1 DEF TransitionRun, IInv, TypeOK, RunRows
<1>3. /\ runs'[r].status = to
      /\ runs'[r].owner = IF to \in ReleasedStatuses THEN NoOwner ELSE o
      /\ runs'[r].lease = (to \notin ReleasedStatuses)
      /\ runs'[r].attempt = runs[r].attempt
  BY <1>1, <1>2 DEF StatusAfter, RunRows, TransitionRun, Owns
<1>4. to \in ReleasedStatuses <=> to \notin LeasedStatuses
  BY DEF RunStatuses, ReleasedStatuses, LeasedStatuses, ActiveRunStatuses, Quarantined, TerminalStatuses
<1>5. \A s \in Runs : s # r => runs'[s] = runs[s]
  BY DEF TransitionRun, IInv, TypeOK
<1>6. Exists(r) BY DEF TransitionRun, Owns
<1>7. \/ to \in LeasedStatuses /\ ops' = OpsReconciled(r)
      \/ UNCHANGED ops /\ (to \in ReleasedStatuses => NoUnresolvedWrites(r))
  <2>1. CASE to = "interrupted"
    BY <2>1 DEF TransitionRun, LeasedStatuses, Quarantined
  <2>2. CASE to # "interrupted" BY <2>2 DEF TransitionRun
  <2> QED BY <2>1, <2>2
<1> QED BY <1>3, <1>4, <1>5, <1>6, <1>7, OwnersAssumption, RunMovesStep

(* A step of the owner of a run on one operation of the current attempt.     *)
LEMMA OperationMovesStep ==
    ASSUME IInv, TypeOK', NEW x \in Ops, NEW r \in Runs, runs[r].status \in LeasedStatuses,
           \A y \in Ops : y # x => ops'[y] = ops[y],
           ops'[x].run = r, ops'[x].attempt = runs[r].attempt, ops'[x].status # "absent",
           runs' = [runs EXCEPT ![r] = Touched(runs[r])]
    PROVE  IInv'
<1> USE DEF IInv
<1>0. runs[r] \in RunRows
  BY RowTypes DEF Exists, LeasedStatuses, ActiveRunStatuses, Quarantined
<1>1. ASSUME NEW s \in Runs
      PROVE  /\ runs'[s].status = runs[s].status /\ runs'[s].owner = runs[s].owner
             /\ runs'[s].lease = runs[s].lease /\ runs'[s].attempt = runs[s].attempt
  BY <1>0 DEF Touched, RunRows, TypeOK
<1>2. \A y \in Ops : ops[y].status # "absent" =>
          ops[y].run \in Runs /\ Exists(ops[y].run) /\ ops[y].attempt <= runs[ops[y].run].attempt
  BY RowTypes DEF OpRows, OperationsBelongToRuns
<1>3. OwnedWhileLeased' BY <1>1 DEF OwnedWhileLeased
<1>4. OperationsBelongToRuns'
  <2> SUFFICES ASSUME NEW y \in Ops, ops'[y].status # "absent"
               PROVE  /\ runs'[ops'[y].run].status # "absent"
                      /\ ops'[y].attempt <= runs'[ops'[y].run].attempt
    BY DEF OperationsBelongToRuns, Exists
  <2>1. CASE y = x
    BY <2>1, <1>0, <1>1 DEF LeasedStatuses, ActiveRunStatuses, Quarantined, RunRows, Attempts
  <2>2. CASE y # x BY <2>2, <1>1, <1>2 DEF Exists
  <2> QED BY <2>1, <2>2
<1>5. ReleasedRunsAreSettled'
  <2> SUFFICES ASSUME NEW s \in Runs, runs'[s].status \in ReleasedStatuses, NEW y \in Ops,
                      ops'[y].run = s, IsWrite(ops'[y])
               PROVE  ops'[y].status \notin UnresolvedStatuses
    BY DEF ReleasedRunsAreSettled, NoUnresolvedWrites, OpsOf
  <2>1. s # r
    BY <1>1 DEF LeasedStatuses, ReleasedStatuses, ActiveRunStatuses, Quarantined, TerminalStatuses
  <2>2. y # x BY <2>1
  <2> QED BY <2>2, <1>1 DEF ReleasedRunsAreSettled, NoUnresolvedWrites, OpsOf
<1>6. EarlierAttemptsAreSafe'
  <2> SUFFICES ASSUME NEW y \in Ops, ops'[y].status # "absent",
                      ops'[y].attempt < runs'[ops'[y].run].attempt
               PROVE  SafeToContinue(ops'[y])
    BY DEF EarlierAttemptsAreSafe, SafeToContinue, IsWrite
  <2>1. y # x BY <1>0, <1>1 DEF RunRows, Attempts
  <2> QED BY <2>1, <1>1, <1>2 DEF EarlierAttemptsAreSafe
<1> QED BY <1>3, <1>4, <1>5, <1>6

(* Every operation of a run that has an owner preserves the invariant.       *)
LEMMA OperationActions ==
    ASSUME IInv, TypeOK', NEW x \in Ops, NEW o \in Owners, OperationStep(x, o)
    PROVE  IInv'
<1>0. \A r \in Runs, a \in Attempts : Owns(r, o, a) => runs[r].status \in LeasedStatuses
  BY OwnersAssumption DEF IInv, OwnedWhileLeased, Owns
<1>1. ASSUME NEW a \in Attempts, NEW r \in Runs, NEW effect \in EffectClasses,
             PrepareOperation(x, r, o, a, effect)
      PROVE  IInv'
  <2>1. Owns(r, o, a) BY <1>1 DEF PrepareOperation
  <2>2. ops'[x].run = r /\ ops'[x].attempt = runs[r].attempt /\ ops'[x].status # "absent"
    BY <1>1 DEF PrepareOperation, Owns, IInv, TypeOK
  <2> QED BY <1>0, <1>1, <2>1, <2>2, OperationMovesStep DEF PrepareOperation, IInv, TypeOK
<1>2. ASSUME NEW a \in Attempts, NEW to \in OperationStatuses, NEW result \in Results,
             TransitionOperation(x, to, o, a, result)
      PROVE  IInv'
  <2>1. ops[x] \in OpRows BY <1>2, RowTypes DEF TransitionOperation, IInv
  <2>2. ops[x].run \in Runs /\ Owns(ops[x].run, o, a)
    BY <1>2, <2>1 DEF TransitionOperation, OpRows
  <2>3. /\ ops'[x].run = ops[x].run
        /\ ops'[x].attempt = runs[ops[x].run].attempt
        /\ ops'[x].status = to
    BY <1>2, <2>1, <2>2 DEF TransitionOperation, Owns, IInv, TypeOK, OpRows
  <2>4. to # "absent" BY DEF OperationStatuses, UnresolvedStatuses
  <2> QED BY <1>0, <1>2, <2>2, <2>3, <2>4, OperationMovesStep DEF TransitionOperation, IInv, TypeOK
<1>3. ASSUME NEW a \in Attempts, PromoteOperation(x, o, a)
      PROVE  IInv'
  <2>1. ops[x] \in OpRows BY <1>3, RowTypes DEF PromoteOperation, IInv
  <2>2. ops[x].run \in Runs /\ Owns(ops[x].run, o, a)
    BY <1>3, <2>1 DEF PromoteOperation, OpRows
  <2>3. /\ ops'[x].run = ops[x].run
        /\ ops'[x].attempt = runs[ops[x].run].attempt
        /\ ops'[x].status = "executing"
    BY <1>3, <2>1, <2>2 DEF PromoteOperation, Owns, IInv, TypeOK, OpRows
  <2> QED BY <1>0, <1>3, <2>2, <2>3, OperationMovesStep DEF PromoteOperation, IInv, TypeOK
<1>4. ASSUME NEW a \in Attempts, RecordUnknownVerification(x, o, a)
      PROVE  IInv'
  <2>1. ops[x] \in OpRows BY <1>4, RowTypes DEF RecordUnknownVerification, IInv
  <2>2. ops[x].run \in Runs /\ Owns(ops[x].run, o, a)
    BY <1>4, <2>1 DEF RecordUnknownVerification, OpRows
  <2>3. /\ ops'[x].run = ops[x].run
        /\ ops'[x].attempt = runs[ops[x].run].attempt
        /\ ops'[x].status = ops[x].status
    BY <1>4, <2>1, <2>2 DEF RecordUnknownVerification, Owns, IInv, TypeOK, OpRows
  <2> QED
    BY <1>0, <1>4, <2>2, <2>3, OperationMovesStep DEF RecordUnknownVerification, IInv, TypeOK
<1> QED BY <1>1, <1>2, <1>3, <1>4 DEF OperationStep

(* Sealing a turn preserves the invariant.                                   *)
LEMMA FinalizeTurnStep ==
    ASSUME IInv, TypeOK', NEW r \in Runs, NEW more \in {"none", "text", "attached"}, FinalizeTurn(r, more)
    PROVE  IInv'
<1> USE DEF IInv
<1>0. runs[r] \in RunRows BY RowTypes DEF FinalizeTurn
<1>1. ASSUME NEW s \in Runs
      PROVE  /\ runs'[s].status = runs[s].status /\ runs'[s].owner = runs[s].owner
             /\ runs'[s].lease = runs[s].lease /\ runs'[s].attempt = runs[s].attempt
  <2>1. runs[r].conv \in Conversations BY <1>0 DEF RunRows
  <2>2. runs'[s] = runs[s] \/ (Exists(s) /\ runs'[s] = [runs[s] EXCEPT !.fresh = FALSE])
    BY <2>1, OutdatedRows DEF FinalizeTurn
  <2> QED BY <2>2, RowTypes DEF RunRows
<1>2. ASSUME NEW x \in Ops
      PROVE  /\ ops'[x].status = ops[x].status /\ ops'[x].run = ops[x].run
             /\ ops'[x].attempt = ops[x].attempt /\ ops'[x].effect = ops[x].effect
             /\ ops[x].run # r \/ ops[x].attempt # runs[r].attempt => ops'[x] = ops[x]
  <2>1. ops'[x] = IF ops[x].run = r /\ ops[x].attempt = runs[r].attempt
                  THEN [ops[x] EXCEPT !.sealed = TRUE] ELSE ops[x]
    BY DEF FinalizeTurn
  <2>2. CASE ops[x].run = r /\ ops[x].attempt = runs[r].attempt
    <3>1. ops[x] # NoOp BY <2>2, NobodyAssumption DEF NoOp
    <3>2. ops[x] \in OpRows BY <3>1 DEF TypeOK
    <3> QED BY <2>1, <2>2, <3>2 DEF OpRows
  <2>3. CASE ~(ops[x].run = r /\ ops[x].attempt = runs[r].attempt) BY <2>1, <2>3
  <2> QED BY <2>2, <2>3
<1>3. \A x \in Ops : ops[x].status # "absent" =>
          ops[x].run \in Runs /\ Exists(ops[x].run) /\ ops[x].attempt <= runs[ops[x].run].attempt
  BY RowTypes DEF OpRows, OperationsBelongToRuns
<1>4. OwnedWhileLeased' BY <1>1 DEF OwnedWhileLeased
<1>5. OperationsBelongToRuns'
  BY <1>1, <1>2, <1>3 DEF OperationsBelongToRuns, Exists
<1>6. ReleasedRunsAreSettled'
  BY <1>1, <1>2 DEF ReleasedRunsAreSettled, NoUnresolvedWrites, OpsOf, IsWrite
<1>7. EarlierAttemptsAreSafe'
  <2> SUFFICES ASSUME NEW x \in Ops, ops'[x].status # "absent",
                      ops'[x].attempt < runs'[ops'[x].run].attempt
               PROVE  SafeToContinue(ops'[x])
    BY DEF EarlierAttemptsAreSafe, SafeToContinue, IsWrite
  <2>1. ops[x].run \in Runs /\ ops[x].attempt < runs[ops[x].run].attempt /\ ops[x].status # "absent"
    BY <1>1, <1>2, <1>3
  <2>2. ops'[x] = ops[x] BY <1>0, <1>2, <2>1 DEF RunRows, Attempts
  <2> QED BY <2>1, <2>2 DEF EarlierAttemptsAreSafe
<1> QED BY <1>4, <1>5, <1>6, <1>7

(* Deleting a conversation with its runs and operations preserves the invariant. *)
LEMMA DeleteConversationStep ==
    ASSUME IInv, TypeOK', NEW c \in Conversations, NEW w \in Workspaces, DeleteConversation(c, w)
    PROVE  IInv'
<1> USE DEF IInv
<1> DEFINE gone == {r \in Runs : runs[r].conv = c}
<1>1. \A r \in Runs : runs'[r] = IF r \in gone THEN NoRun ELSE runs[r]
  BY DEF DeleteConversation
<1>2. \A x \in Ops : ops'[x] = IF ops[x].run \in gone THEN NoOp ELSE ops[x]
  BY DEF DeleteConversation
<1>3. \A x \in Ops : ops[x].status # "absent" =>
          ops[x].run \in Runs /\ Exists(ops[x].run) /\ ops[x].attempt <= runs[ops[x].run].attempt
  BY RowTypes DEF OpRows, OperationsBelongToRuns
<1> HIDE DEF gone
<1>4. OwnedWhileLeased'
  BY <1>1 DEF OwnedWhileLeased, NoRun, LeasedStatuses, ActiveRunStatuses, Quarantined
<1>5. OperationsBelongToRuns'
  BY <1>1, <1>2, <1>3 DEF OperationsBelongToRuns, Exists, NoOp
<1>6. ReleasedRunsAreSettled'
  BY <1>1, <1>2 DEF ReleasedRunsAreSettled, NoUnresolvedWrites, OpsOf, IsWrite, NoOp, NoRun,
     UnresolvedStatuses
<1>7. EarlierAttemptsAreSafe'
  <2> SUFFICES ASSUME NEW x \in Ops, ops'[x].status # "absent",
                      ops'[x].attempt < runs'[ops'[x].run].attempt
               PROVE  SafeToContinue(ops'[x])
    BY DEF EarlierAttemptsAreSafe, SafeToContinue, IsWrite
  <2>1. ops[x].run \notin gone /\ ops'[x] = ops[x] BY <1>2 DEF NoOp
  <2> QED BY <1>1, <1>3, <2>1 DEF EarlierAttemptsAreSafe
<1> QED BY <1>4, <1>5, <1>6, <1>7

(* Every step of every caller preserves the invariant.                       *)
LEMMA IInvStep == IInv /\ [Next]_vars => IInv'
<1> SUFFICES ASSUME IInv, [Next]_vars PROVE IInv' OBVIOUS
<1>0. TypeOK' BY TypeStep DEF IInv
<1>1. ASSUME NEW r \in Runs, NEW o \in Owners, RunStep(r, o) PROVE IInv'
  <2>1. CASE \E c \in Conversations, w \in Workspaces : CreateRun(r, c, w, o)
    BY <2>1, <1>0, CreateRunStep
  <2>2. CASE ClaimRun(r, o, runs[r].revision)
    BY <2>2, <1>0, ClaimRunStep
  <2>3. CASE \E a \in Attempts : \/ \E users \in {"text", "attached"} : PersistRecoveryInput(r, o, a, users)
                                \/ RenewLease(r, o, a)
    BY <2>3, <1>0, QuietActions
  <2>4. CASE \E a \in Attempts, new \in Owners : ReleaseExpiredRun(r, o, new, a, runs[r].revision)
    BY <2>4, <1>0, ReleaseExpiredRunStep
  <2>5. CASE \E a \in Attempts, to \in RunStatuses : \E ref \in 0..a :
                TransitionRun(r, to, o, a, runs[r].revision, ref)
    BY <2>5, <1>0, TransitionRunStep
  <2> QED BY <1>1, <2>1, <2>2, <2>3, <2>4, <2>5 DEF RunStep
<1>2. ASSUME NEW x \in Ops, NEW o \in Owners, OperationStep(x, o) PROVE IInv'
  BY <1>0, <1>2, OperationActions
<1>3. CASE ConversationStep
  BY <1>0, <1>3, FinalizeTurnStep, DeleteConversationStep, QuietActions DEF ConversationStep
<1>4. CASE UNCHANGED vars
  BY <1>0, <1>4, QuietStep DEF vars
<1> QED BY <1>1, <1>2, <1>3, <1>4 DEF Next

(* The inductive invariant holds in every reachable state.                   *)
LEMMA Invariance == Spec => []IInv
BY InitIInv, IInvStep, PTL DEF Spec

(* A run has an owner and a lease exactly while its status is a leased one.  *)
THEOREM OwnershipFollowsStatus == Spec => []OwnedWhileLeased
<1>1. IInv => OwnedWhileLeased BY DEF IInv
<1> QED BY <1>1, Invariance, PTL

(* No run is released, by a pause or by its end, while the outcome of one of *)
(* its writes is open.                                                       *)
THEOREM ReleasedMeansSettled == Spec => []ReleasedRunsAreSettled
<1>1. IInv => ReleasedRunsAreSettled BY DEF IInv
<1> QED BY <1>1, Invariance, PTL

(* A superseded attempt leaves only writes one can continue from, for any    *)
(* number of runs, attempts, operations and processes.                       *)
THEOREM SupersededAttemptsAreSafe == Spec => []EarlierAttemptsAreSafe
<1>1. IInv => EarlierAttemptsAreSafe BY DEF IInv
<1> QED BY <1>1, Invariance, PTL

------------------------------------------------------------------------------
(* Finished runs.  Each action touches the row and the operations of one run *)
(* that has an owner, or is paused, or does not exist yet; a finished run is *)
(* none of these.                                                            *)

(* A finished run has no owner, so no fenced method accepts anybody for it.  *)
LEMMA FinishedHasNoOwner ==
    ASSUME IInv, NEW r \in Runs, runs[r].status \in TerminalStatuses
    PROVE  /\ runs[r].owner = NoOwner
           /\ Exists(r)
           /\ runs[r].status # "paused"
           /\ \A o \in Owners, a \in Attempts : ~Owns(r, o, a)
BY OwnersAssumption DEF IInv, OwnedWhileLeased, TerminalStatuses, LeasedStatuses, ActiveRunStatuses,
   Quarantined, Exists, Owns

(* A step leaves a finished run and its operations as they are.              *)
LEMMA FinishedStep ==
    ASSUME IInv, [Next]_vars, NEW r \in Runs
    PROVE  StaysFinished(r)
<1> SUFFICES ASSUME runs[r].status \in TerminalStatuses, runs'[r].status # "absent"
             PROVE  /\ \/ runs'[r] = runs[r]
                       \/ runs'[r] = [runs[r] EXCEPT !.fresh = FALSE]
                    /\ \A x \in Ops : ops[x].run = r \/ ops'[x].run = r => ops'[x] = ops[x]
  BY DEF StaysFinished
<1> USE DEF IInv
<1>f. /\ runs[r].owner = NoOwner /\ Exists(r) /\ runs[r].status # "paused"
      /\ \A o \in Owners, a \in Attempts : ~Owns(r, o, a)
  BY FinishedHasNoOwner
<1>o. ASSUME NEW c \in Conversations
      PROVE  Outdated(c)[r] = runs[r] \/ Outdated(c)[r] = [runs[r] EXCEPT !.fresh = FALSE]
  BY OutdatedRows
<1>1. ASSUME NEW s \in Runs, NEW o \in Owners, RunStep(s, o)
      PROVE  /\ runs'[r] = runs[r] \/ runs'[r] = [runs[r] EXCEPT !.fresh = FALSE]
             /\ \A x \in Ops : ops[x].run = r \/ ops'[x].run = r => ops'[x] = ops[x]
  <2>1. CASE \E c \in Conversations, w \in Workspaces : CreateRun(s, c, w, o)
    BY <2>1, <1>f DEF CreateRun, TypeOK
  <2>2. CASE ClaimRun(s, o, runs[s].revision)
    BY <2>2, <1>f DEF ClaimRun, TypeOK
  <2>3. ASSUME NEW a \in Attempts, NEW users \in {"text", "attached"}, PersistRecoveryInput(s, o, a, users)
        PROVE  runs'[r] = Outdated(runs[s].conv)[r] /\ runs[s].conv \in Conversations /\ ops' = ops
    <3>1. s # r BY <2>3, <1>f DEF PersistRecoveryInput
    <3>2. runs[s] \in RunRows BY <2>3, RowTypes DEF PersistRecoveryInput, Owns
    <3> QED BY <2>3, <3>1, <3>2 DEF PersistRecoveryInput, Outdated, RunRows
  <2>4. CASE \E a \in Attempts : RenewLease(s, o, a)
    BY <2>4, <1>f DEF RenewLease, TypeOK
  <2>5. ASSUME NEW a \in Attempts, NEW new \in Owners, ReleaseExpiredRun(s, o, new, a, runs[s].revision)
        PROVE  runs'[r] = runs[r] /\ ops' = OpsReconciled(s) /\ s # r
    BY <2>5, <1>f DEF ReleaseExpiredRun, TypeOK
  <2>6. ASSUME NEW a \in Attempts, NEW to \in RunStatuses, NEW ref \in 0..a,
               TransitionRun(s, to, o, a, runs[s].revision, ref)
        PROVE  runs'[r] = runs[r] /\ ops' \in {ops, OpsReconciled(s)} /\ s # r
    BY <2>6, <1>f DEF TransitionRun, TypeOK
  <2>7. ASSUME s # r, ops' \in {ops, OpsReconciled(s)}
        PROVE  \A x \in Ops : ops[x].run = r \/ ops'[x].run = r => ops'[x] = ops[x]
    <3> SUFFICES ASSUME NEW x \in Ops, ops'[x] # ops[x]
                 PROVE  ops[x].run # r /\ ops'[x].run # r
      OBVIOUS
    <3>1. ops' = OpsReconciled(s) /\ x \in Interruptible(s) /\ ops'[x] = Reconciled(ops[x])
      BY <2>7 DEF OpsReconciled
    <3>2. ops[x].run = s BY <3>1 DEF Interruptible, OpsOf
    <3>3. ops[x] \in OpRows BY <3>1, RowTypes DEF Interruptible
    <3>4. ops'[x].run = s BY <3>1, <3>2, <3>3 DEF Reconciled, OpRows
    <3> QED BY <2>7, <3>2, <3>4
  <2> QED
    <3>1. CASE \E a \in Attempts, users \in {"text", "attached"} : PersistRecoveryInput(s, o, a, users)
      BY <3>1, <2>3, <1>o
    <3>2. CASE \E a \in Attempts, new \in Owners : ReleaseExpiredRun(s, o, new, a, runs[s].revision)
      BY <3>2, <2>5, <2>7
    <3>3. CASE \E a \in Attempts, to \in RunStatuses : \E ref \in 0..a :
                 TransitionRun(s, to, o, a, runs[s].revision, ref)
      BY <3>3, <2>6, <2>7
    <3>4. CASE \/ \E c \in Conversations, w \in Workspaces : CreateRun(s, c, w, o)
               \/ ClaimRun(s, o, runs[s].revision)
               \/ \E a \in Attempts : RenewLease(s, o, a)
      BY <3>4, <2>1, <2>2, <2>4 DEF CreateRun, ClaimRun, RenewLease
    <3> QED BY <1>1, <3>1, <3>2, <3>3, <3>4 DEF RunStep
<1>2. ASSUME NEW y \in Ops, NEW o \in Owners, OperationStep(y, o)
      PROVE  /\ runs'[r] = runs[r]
             /\ \A x \in Ops : ops[x].run = r \/ ops'[x].run = r => ops'[x] = ops[x]
  <2>1. ASSUME NEW a \in Attempts, NEW s \in Runs, NEW effect \in EffectClasses,
               PrepareOperation(y, s, o, a, effect)
        PROVE  /\ runs'[r] = runs[r]
               /\ \A x \in Ops : ops[x].run = r \/ ops'[x].run = r => ops'[x] = ops[x]
    <3>1. ops[y] = NoOp /\ NoOp.run # r
      BY <2>1, RowTypes, NobodyAssumption DEF PrepareOperation, NoOp
    <3> QED BY <2>1, <1>f, <3>1 DEF PrepareOperation, TypeOK
  <2>2. ASSUME NEW a \in Attempts, NEW to \in OperationStatuses, NEW result \in Results,
               TransitionOperation(y, to, o, a, result)
        PROVE  /\ runs'[r] = runs[r]
               /\ \A x \in Ops : ops[x].run = r \/ ops'[x].run = r => ops'[x] = ops[x]
    <3>1. ops[y] \in OpRows BY <2>2, RowTypes DEF TransitionOperation
    <3>2. ops'[y].run = ops[y].run BY <2>2, <3>1 DEF TransitionOperation, TypeOK, OpRows
    <3> QED BY <2>2, <1>f, <3>1, <3>2 DEF TransitionOperation, TypeOK
  <2>3. ASSUME NEW a \in Attempts, PromoteOperation(y, o, a)
        PROVE  /\ runs'[r] = runs[r]
               /\ \A x \in Ops : ops[x].run = r \/ ops'[x].run = r => ops'[x] = ops[x]
    <3>1. ops[y] \in OpRows BY <2>3, RowTypes DEF PromoteOperation
    <3>2. ops'[y].run = ops[y].run BY <2>3, <3>1 DEF PromoteOperation, TypeOK, OpRows
    <3> QED BY <2>3, <1>f, <3>1, <3>2 DEF PromoteOperation, TypeOK
  <2>4. ASSUME NEW a \in Attempts, RecordUnknownVerification(y, o, a)
        PROVE  /\ runs'[r] = runs[r]
               /\ \A x \in Ops : ops[x].run = r \/ ops'[x].run = r => ops'[x] = ops[x]
    <3>1. ops[y] \in OpRows BY <2>4, RowTypes DEF RecordUnknownVerification
    <3>2. ops'[y].run = ops[y].run BY <2>4, <3>1 DEF RecordUnknownVerification, TypeOK, OpRows
    <3> QED BY <2>4, <1>f, <3>1, <3>2 DEF RecordUnknownVerification, TypeOK
  <2> QED BY <1>2, <2>1, <2>2, <2>3, <2>4 DEF OperationStep
<1>3. ASSUME NEW s \in Runs, NEW more \in {"none", "text", "attached"}, FinalizeTurn(s, more)
      PROVE  /\ runs'[r] = runs[r] \/ runs'[r] = [runs[r] EXCEPT !.fresh = FALSE]
             /\ \A x \in Ops : ops[x].run = r \/ ops'[x].run = r => ops'[x] = ops[x]
  <2>1. s # r BY <1>3, <1>f DEF FinalizeTurn
  <2>2. runs[s].conv \in Conversations BY <1>3, RowTypes DEF FinalizeTurn, RunRows
  <2>3. ASSUME NEW x \in Ops, ops[x].run = r \/ ops'[x].run = r PROVE ops'[x] = ops[x]
    <3>1. CASE ops[x].run = s /\ ops[x].attempt = runs[s].attempt
      <4>1. ops[x] # NoOp BY <3>1, NobodyAssumption DEF NoOp
      <4>2. ops[x] \in OpRows BY <4>1 DEF TypeOK
      <4>3. ops'[x] = [ops[x] EXCEPT !.sealed = TRUE] BY <1>3, <3>1 DEF FinalizeTurn
      <4>4. ops'[x].run = s BY <3>1, <4>2, <4>3 DEF OpRows
      <4> QED BY <2>1, <2>3, <3>1, <4>4
    <3>2. CASE ~(ops[x].run = s /\ ops[x].attempt = runs[s].attempt)
      BY <1>3, <3>2 DEF FinalizeTurn
    <3> QED BY <3>1, <3>2
  <2> QED BY <1>3, <1>o, <2>2, <2>3 DEF FinalizeTurn
<1>4. ASSUME NEW c \in Conversations, NEW w \in Workspaces, UpdateConversation(c, w)
      PROVE  /\ runs'[r] = runs[r] \/ runs'[r] = [runs[r] EXCEPT !.fresh = FALSE]
             /\ ops' = ops
  BY <1>4, <1>o DEF UpdateConversation
<1>5. ASSUME NEW c \in Conversations, NEW w \in Workspaces, DeleteConversation(c, w)
      PROVE  /\ runs'[r] = runs[r]
             /\ \A x \in Ops : ops[x].run = r \/ ops'[x].run = r => ops'[x] = ops[x]
  BY <1>5, NobodyAssumption DEF DeleteConversation, NoRun, NoOp
<1>6. CASE UNCHANGED vars BY <1>6 DEF vars
<1> QED BY <1>1, <1>2, <1>3, <1>4, <1>5, <1>6 DEF Next, ConversationStep

(* No step of any caller changes a finished run.                             *)
THEOREM FinishedMeansFinal == Spec => FinishedRunsAreFinal
<1>1. IInv /\ [Next]_vars => [\A r \in Runs : StaysFinished(r)]_vars
  BY FinishedStep
<1> QED BY <1>1, Invariance, PTL DEF Spec, FinishedRunsAreFinal

------------------------------------------------------------------------------
(* Continuations.  A step writes the turns of the current attempt only, so   *)
(* an input that was committed before a claim stays committed after it.      *)

(* The recovery input of a run is that of an attempt it has made, and each   *)
(* attempt but the first continues from a text of an earlier one.            *)
InputIsBehind(r) ==
    /\ runs[r].ref <= runs[r].attempt
    /\ runs[r].attempt > 1 => \E t \in 1..(runs[r].attempt - 1) : turns[r][t].users = "text"

InputIInv == TypeOK /\ \A r \in Runs : InputIsBehind(r)

(* A step that keeps the attempt of a run and its earlier turns.             *)
KeepsEarlierTurns(r) ==
    /\ runs'[r].attempt = runs[r].attempt
    /\ runs'[r].ref \in {runs[r].ref} \cup 0..runs[r].attempt
    /\ \A t \in 1..(runs[r].attempt - 1) : turns'[r][t] = turns[r][t]

(* No run has made an attempt when the journal is empty.                     *)
LEMMA InitInputIInv == Init => InputIInv
BY InitType DEF Init, InputIInv, InputIsBehind, NoRun

(* Such a step keeps the input behind the run.                               *)
LEMMA EarlierTurnsKept ==
    ASSUME InputIInv, NEW r \in Runs, KeepsEarlierTurns(r)
    PROVE  InputIsBehind(r)'
<1>1. runs[r].ref \in Nat /\ runs[r].attempt \in Nat
  BY BoundsAssumption DEF InputIInv, TypeOK, RunRows, NoRun, Attempts
<1>2. runs'[r].ref <= runs'[r].attempt
  BY <1>1 DEF InputIInv, InputIsBehind, KeepsEarlierTurns
<1>3. ASSUME runs'[r].attempt > 1
      PROVE  \E t \in 1..(runs'[r].attempt - 1) : turns'[r][t].users = "text"
  BY <1>3 DEF InputIInv, InputIsBehind, KeepsEarlierTurns
<1> QED BY <1>2, <1>3 DEF InputIsBehind

(* claim_run demands the text of an attempt made so far before the next.     *)
LEMMA ClaimHasInput ==
    ASSUME InputIInv, NEW r \in Runs, NEW s \in Runs, NEW o \in Owners,
           ClaimRun(s, o, runs[s].revision)
    PROVE  InputIsBehind(r)'
<1>1. runs[s] \in RunRows BY RowTypes DEF ClaimRun, InputIInv
<1>2. CASE r = s
  <2>1. runs[s].attempt \in Nat \ {0} /\ runs[s].ref \in Nat
    BY <1>1, BoundsAssumption DEF RunRows, Attempts
  <2>2. runs'[s].attempt = runs[s].attempt + 1 /\ runs'[s].ref = runs[s].ref
    BY <1>1 DEF ClaimRun, Touched, InputIInv, TypeOK, RunRows
  <2>3. InputTurn(s) \in 1..runs[s].attempt
    BY <2>1 DEF InputTurn, InputIInv, InputIsBehind
  <2>4. turns'[s][InputTurn(s)].users = "text"
    BY DEF ClaimRun, HasSafeResumeInput
  <2>5. runs'[s].ref <= runs'[s].attempt
    BY <2>1, <2>2 DEF InputIInv, InputIsBehind
  <2>6. InputTurn(s) \in 1..(runs'[s].attempt - 1)
    BY <2>1, <2>2, <2>3
  <2> QED BY <1>2, <2>4, <2>5, <2>6 DEF InputIsBehind
<1>3. CASE r # s
  <2>1. KeepsEarlierTurns(r)
    BY <1>3 DEF ClaimRun, InputIInv, TypeOK, KeepsEarlierTurns
  <2> QED BY <2>1, EarlierTurnsKept
<1> QED BY <1>2, <1>3

(* The other steps of a run's owner or of its recovery.                      *)
LEMMA RunStepKeepsInput ==
    ASSUME InputIInv, NEW r \in Runs, NEW s \in Runs, NEW o \in Owners, RunStep(s, o)
    PROVE  InputIsBehind(r)'
<1> USE DEF InputIInv
<1>1. ASSUME NEW c \in Conversations, NEW w \in Workspaces, CreateRun(s, c, w, o)
      PROVE  InputIsBehind(r)'
  <2>1. CASE r = s BY <1>1, <2>1 DEF CreateRun, TypeOK, InputIsBehind
  <2>2. CASE r # s
    <3>1. KeepsEarlierTurns(r)
      BY <1>1, <2>2 DEF CreateRun, TypeOK, KeepsEarlierTurns
    <3> QED BY <3>1, EarlierTurnsKept
  <2> QED BY <2>1, <2>2
<1>2. ASSUME NEW a \in Attempts, NEW users \in {"text", "attached"}, PersistRecoveryInput(s, o, a, users)
      PROVE  KeepsEarlierTurns(r)
  <2>1. runs[s] \in RunRows BY <1>2, RowTypes DEF PersistRecoveryInput, Owns
  <2>2. runs[s].conv \in Conversations BY <2>1 DEF RunRows
  <2>3. a = runs[s].attempt BY <1>2 DEF PersistRecoveryInput, Owns
  <2>4. \A t \in 1..(runs[r].attempt - 1) : turns'[r][t] = turns[r][t]
    <3>1. runs[s].attempt \in Nat BY <2>1, BoundsAssumption DEF RunRows, Attempts
    <3>2. turns' = [turns EXCEPT ![s] = [turns[s] EXCEPT ![a] = [state |-> "pending", users |-> users]]]
      BY <1>2 DEF PersistRecoveryInput
    <3>3. CASE r = s
      <4> SUFFICES ASSUME NEW t \in 1..(runs[s].attempt - 1) PROVE turns'[s][t] = turns[s][t]
        BY <3>3
      <4>1. t # a BY <2>3, <3>1
      <4> QED BY <3>2, <4>1 DEF TypeOK
    <3>4. CASE r # s BY <3>2, <3>4 DEF TypeOK
    <3> QED BY <3>3, <3>4
  <2>5. CASE r = s
    <3>1. runs'[s] = [Touched(runs[s]) EXCEPT !.ref = a]
      BY <1>2 DEF PersistRecoveryInput, Outdated
    <3>2. runs'[s].attempt = runs[s].attempt /\ runs'[s].ref = a
      BY <2>1, <3>1 DEF Touched, RunRows
    <3>3. a \in 0..runs[s].attempt BY <2>1, <2>3, BoundsAssumption DEF RunRows, Attempts
    <3> QED BY <2>4, <2>5, <3>2, <3>3 DEF KeepsEarlierTurns
  <2>6. CASE r # s
    <3>1. runs'[r] = Outdated(runs[s].conv)[r] BY <1>2, <2>6 DEF PersistRecoveryInput, Outdated
    <3> QED BY <2>2, <2>4, <3>1, OutdatedColumns DEF KeepsEarlierTurns
  <2> QED BY <2>5, <2>6
<1>3. ASSUME NEW a \in Attempts, RenewLease(s, o, a)
      PROVE  KeepsEarlierTurns(r)
  <2>1. runs[s] \in RunRows BY <1>3, RowTypes DEF RenewLease, Owns
  <2>2. runs' = [runs EXCEPT ![s] = [runs[s] EXCEPT !.lease = TRUE, !.fresh = TRUE]]
    BY <1>3 DEF RenewLease
  <2> QED BY <1>3, <2>1, <2>2 DEF RenewLease, TypeOK, RunRows, KeepsEarlierTurns
<1>4. ASSUME NEW a \in Attempts, NEW new \in Owners, ReleaseExpiredRun(s, o, new, a, runs[s].revision)
      PROVE  KeepsEarlierTurns(r)
  <2>1. runs[s] \in RunRows BY <1>4, RowTypes DEF ReleaseExpiredRun, Owns
  <2>2. PICK row \in {runs'[s]} : row.attempt = runs[s].attempt /\ row.ref = runs[s].ref
    BY <1>4, <2>1 DEF ReleaseExpiredRun, TypeOK, RunRows
  <2> QED BY <1>4, <2>1, <2>2 DEF ReleaseExpiredRun, TypeOK, KeepsEarlierTurns
<1>5. ASSUME NEW a \in Attempts, NEW to \in RunStatuses, NEW ref \in 0..a,
             TransitionRun(s, to, o, a, runs[s].revision, ref)
      PROVE  KeepsEarlierTurns(r)
  <2>1. runs[s] \in RunRows BY <1>5, RowTypes DEF TransitionRun, Owns
  <2>2. a = runs[s].attempt BY <1>5 DEF TransitionRun, Owns
  <2>3. runs'[s].attempt = runs[s].attempt /\ runs'[s].ref \in {runs[s].ref, ref}
    BY <1>5, <2>1 DEF TransitionRun, StatusAfter, TypeOK, RunRows
  <2>4. r # s => runs'[r] = runs[r] BY <1>5 DEF TransitionRun, TypeOK
  <2>5. turns' = turns BY <1>5 DEF TransitionRun
  <2>6. r = s => runs'[r].ref \in {runs[r].ref} \cup 0..runs[r].attempt
    BY <2>2, <2>3
  <2> QED BY <2>3, <2>4, <2>5, <2>6 DEF KeepsEarlierTurns
<1> QED BY <1>1, <1>2, <1>3, <1>4, <1>5, ClaimHasInput, EarlierTurnsKept DEF RunStep

(* An operation's steps change neither attempts nor turns.                   *)
LEMMA OperationStepKeepsInput ==
    ASSUME InputIInv, NEW r \in Runs, NEW x \in Ops, NEW o \in Owners, OperationStep(x, o)
    PROVE  InputIsBehind(r)'
<1> USE DEF InputIInv
<1>1. ASSUME NEW s \in Runs, Exists(s), runs' = [runs EXCEPT ![s] = Touched(runs[s])], turns' = turns
      PROVE  KeepsEarlierTurns(r)
  <2>1. runs[s] \in RunRows BY <1>1, RowTypes
  <2>2. Touched(runs[s]).attempt = runs[s].attempt /\ Touched(runs[s]).ref = runs[s].ref
    BY <2>1 DEF Touched, RunRows
  <2> QED BY <1>1, <2>2 DEF TypeOK, KeepsEarlierTurns
<1>2. PICK s \in Runs : Exists(s) /\ runs' = [runs EXCEPT ![s] = Touched(runs[s])] /\ turns' = turns
  <2>1. CASE \E a \in Attempts, s \in Runs, effect \in EffectClasses : PrepareOperation(x, s, o, a, effect)
    BY <2>1 DEF PrepareOperation, Owns
  <2>2. ASSUME ops[x].status # "absent" PROVE ops[x].run \in Runs
    BY <2>2, RowTypes DEF OpRows
  <2>3. CASE \E a \in Attempts, to \in OperationStatuses, result \in Results :
               TransitionOperation(x, to, o, a, result)
    BY <2>2, <2>3 DEF TransitionOperation, Owns
  <2>4. CASE \E a \in Attempts : PromoteOperation(x, o, a)
    BY <2>2, <2>4 DEF PromoteOperation, Owns
  <2>5. CASE \E a \in Attempts : RecordUnknownVerification(x, o, a)
    BY <2>2, <2>5 DEF RecordUnknownVerification, Owns
  <2> QED BY <2>1, <2>3, <2>4, <2>5 DEF OperationStep
<1> QED BY <1>1, <1>2, EarlierTurnsKept

(* A conversation's steps write the turn of the current attempt, or none.    *)
LEMMA ConversationStepKeepsInput ==
    ASSUME InputIInv, NEW r \in Runs, ConversationStep
    PROVE  InputIsBehind(r)'
<1> USE DEF InputIInv
<1>1. ASSUME NEW s \in Runs, NEW more \in {"none", "text", "attached"}, FinalizeTurn(s, more)
      PROVE  KeepsEarlierTurns(r)
  <2> DEFINE a   == runs[s].attempt
             row == [state |-> "final", users |-> Joined(turns[s][a].users, more)]
  <2>1. runs[s] \in RunRows BY <1>1, RowTypes DEF FinalizeTurn
  <2>2. runs[s].conv \in Conversations /\ a \in Nat
    BY <2>1, BoundsAssumption DEF RunRows, Attempts
  <2>3. runs'[r] = Outdated(runs[s].conv)[r] BY <1>1 DEF FinalizeTurn
  <2>4. turns' = [turns EXCEPT ![s] = [turns[s] EXCEPT ![a] = row]]
    BY <1>1 DEF FinalizeTurn
  <2> HIDE DEF row
  <2>5. \A t \in 1..(runs[r].attempt - 1) : turns'[r][t] = turns[r][t]
    <3>1. CASE r = s
      <4> SUFFICES ASSUME NEW t \in 1..(a - 1) PROVE turns'[s][t] = turns[s][t]
        BY <3>1
      <4>1. t # a BY <2>2
      <4> QED BY <2>4, <4>1 DEF TypeOK
    <3>2. CASE r # s BY <2>4, <3>2 DEF TypeOK
    <3> QED BY <3>1, <3>2
  <2> QED BY <2>2, <2>3, <2>5, OutdatedColumns DEF KeepsEarlierTurns
<1>2. ASSUME NEW c \in Conversations, NEW w \in Workspaces, UpdateConversation(c, w)
      PROVE  KeepsEarlierTurns(r)
  BY <1>2, OutdatedColumns DEF UpdateConversation, KeepsEarlierTurns
<1>3. ASSUME NEW c \in Conversations, NEW w \in Workspaces, DeleteConversation(c, w)
      PROVE  InputIsBehind(r)'
  <2>1. CASE runs[r].conv = c
    <3>1. runs'[r] = NoRun BY <1>3, <2>1 DEF DeleteConversation
    <3> QED BY <3>1 DEF InputIsBehind, NoRun
  <2>2. CASE runs[r].conv # c
    <3>1. KeepsEarlierTurns(r) BY <1>3, <2>2 DEF DeleteConversation, KeepsEarlierTurns
    <3> QED BY <3>1, EarlierTurnsKept
  <2> QED BY <2>1, <2>2
<1> QED BY <1>1, <1>2, <1>3, EarlierTurnsKept DEF ConversationStep

(* Every step keeps an input behind every run.                               *)
LEMMA InputIInvStep == InputIInv /\ [Next]_vars => InputIInv'
<1> SUFFICES ASSUME InputIInv, [Next]_vars PROVE InputIInv'
  OBVIOUS
<1>1. TypeOK' BY TypeStep DEF InputIInv
<1>2. ASSUME NEW r \in Runs PROVE InputIsBehind(r)'
  <2>1. CASE UNCHANGED vars BY <2>1 DEF vars, InputIInv, InputIsBehind
  <2> QED BY <2>1, RunStepKeepsInput, OperationStepKeepsInput, ConversationStepKeepsInput DEF Next
<1> QED BY <1>1, <1>2 DEF InputIInv

(* A run that was claimed again has a committed text to continue from, for   *)
(* any number of runs, attempts and processes.                               *)
THEOREM ContinuationsAreFounded == Spec => []ContinuationsHaveInput
<1>1. InputIInv => ContinuationsHaveInput
  BY DEF InputIInv, InputIsBehind, ContinuationsHaveInput
<1> QED BY <1>1, InitInputIInv, InputIInvStep, PTL DEF Spec

------------------------------------------------------------------------------
(* Dispatched writes.                                                        *)

(* Recovery turns a dispatched write into an uncertain one.                  *)
LEMMA ReconciledWritesStayOpen ==
    ASSUME TypeOK, NEW s \in Runs, NEW x \in Ops, Dispatched(ops[x])
    PROVE  Dispatched(OpsReconciled(s)[x])
<1>1. ops[x] \in OpRows BY RowTypes DEF Dispatched
<1>2. CASE x \in Interruptible(s)
  <2>1. ops[x].status = "executing"
    BY <1>2 DEF Interruptible, Dispatched
  <2>2. Reconciled(ops[x]).status = "uncertain" /\ Reconciled(ops[x]).effect = ops[x].effect
    BY <1>1, <2>1 DEF Reconciled, OpRows, Dispatched
  <2> QED BY <1>2, <2>2 DEF OpsReconciled, Dispatched, IsWrite
<1>3. CASE x \notin Interruptible(s) BY <1>3 DEF OpsReconciled
<1> QED BY <1>2, <1>3

(* A settlement that the tables of transitions allow brings its evidence.    *)
LEMMA SettlementsBringEvidence ==
    ASSUME TypeOK, NEW x \in Ops, NEW y \in Ops, NEW o \in Owners, NEW a \in Attempts,
           NEW to \in OperationStatuses, NEW result \in Results,
           TransitionOperation(y, to, o, a, result)
    PROVE  EndsWithEvidence(x)
<1>1. ops[y] \in OpRows BY RowTypes DEF TransitionOperation
<1>2. CASE x = y
  <2> SUFFICES ASSUME Dispatched(ops[y]), ~Dispatched(ops'[y])
               PROVE  \/ ops'[y].status = "verified" /\ ops'[y].result = "completed"
                      \/ ops'[y].status = "failed" /\ ops'[y].result = "unchanged"
                      \/ ops'[y].status = "returned" /\ ops'[y].effect = "opaque_effect"
    BY <1>2 DEF EndsWithEvidence
  <2>1. /\ ops'[y].status = to /\ ops'[y].effect = ops[y].effect
        /\ result # "none" => ops'[y].result = result
    BY <1>1 DEF TransitionOperation, TypeOK, OpRows
  <2>2. to \in {"verified", "failed", "returned"}
    BY <2>1 DEF TransitionOperation, OperationTransitions, Dispatched, IsWrite
  <2>3. CASE to = "returned" BY <2>1, <2>3 DEF TransitionOperation
  <2>4. CASE to = "verified"
    <3>1. ops[y].effect = "verifiable_write"
      BY <1>1, <2>4 DEF TransitionOperation, EvidenceFor, Dispatched, IsWrite, OpRows, EffectClasses
    <3> QED BY <2>1, <2>4, <3>1 DEF TransitionOperation, EvidenceFor
  <2>5. CASE to = "failed"
    <3>1. result = "unchanged"
      BY <2>5 DEF TransitionOperation, EvidenceFor, Dispatched
    <3> QED BY <2>1, <2>5, <3>1
  <2> QED BY <2>2, <2>3, <2>4, <2>5
<1>3. CASE x # y BY <1>3 DEF TransitionOperation, TypeOK, EndsWithEvidence
<1> QED BY <1>2, <1>3

(* No step ends a dispatched write in any other way.                         *)
LEMMA EvidenceStep ==
    ASSUME TypeOK, [Next]_vars, NEW x \in Ops
    PROVE  EndsWithEvidence(x)
<1>1. ASSUME Dispatched(ops[x]) => Dispatched(ops'[x]) PROVE EndsWithEvidence(x)
  BY <1>1 DEF EndsWithEvidence
<1>2. ASSUME NEW s \in Runs, NEW o \in Owners, RunStep(s, o)
      PROVE  Dispatched(ops[x]) => Dispatched(ops'[x])
  <2>1. ops' \in {ops, OpsReconciled(s)}
    BY <1>2 DEF RunStep, CreateRun, ClaimRun, PersistRecoveryInput, RenewLease, ReleaseExpiredRun,
                TransitionRun
  <2> QED BY <2>1, ReconciledWritesStayOpen
<1>3. ASSUME NEW y \in Ops, NEW o \in Owners, OperationStep(y, o)
      PROVE  EndsWithEvidence(x)
  <2>1. CASE \E a \in Attempts, s \in Runs, effect \in EffectClasses : PrepareOperation(y, s, o, a, effect)
    <3>1. ~Dispatched(ops[y]) BY <2>1 DEF PrepareOperation, Dispatched
    <3>2. x # y => ops'[x] = ops[x] BY <2>1 DEF PrepareOperation, TypeOK
    <3> QED BY <1>1, <3>1, <3>2
  <2>2. CASE \E a \in Attempts : PromoteOperation(y, o, a)
    <3>1. ops[y] \in OpRows BY <2>2, RowTypes DEF PromoteOperation
    <3>2. ops'[y].status = "executing" /\ ops'[y].effect = "verifiable_write"
      BY <2>2, <3>1 DEF PromoteOperation, TypeOK, OpRows
    <3>3. x # y => ops'[x] = ops[x] BY <2>2 DEF PromoteOperation, TypeOK
    <3> QED BY <1>1, <3>2, <3>3 DEF Dispatched, IsWrite
  <2>3. CASE \E a \in Attempts : RecordUnknownVerification(y, o, a)
    <3>1. ops[y] \in OpRows BY <2>3, RowTypes DEF RecordUnknownVerification
    <3>2. ops'[y].status = ops[y].status /\ ops'[y].effect = ops[y].effect
      BY <2>3, <3>1 DEF RecordUnknownVerification, TypeOK, OpRows
    <3>3. x # y => ops'[x] = ops[x] BY <2>3 DEF RecordUnknownVerification, TypeOK
    <3> QED BY <1>1, <3>2, <3>3 DEF Dispatched, IsWrite
  <2> QED BY <1>3, <2>1, <2>2, <2>3, SettlementsBringEvidence DEF OperationStep
<1>4. ASSUME NEW s \in Runs, NEW more \in {"none", "text", "attached"}, FinalizeTurn(s, more)
      PROVE  Dispatched(ops[x]) => Dispatched(ops'[x])
  <2> SUFFICES ASSUME Dispatched(ops[x]) PROVE Dispatched(ops'[x])
    OBVIOUS
  <2>1. ops[x] \in OpRows BY RowTypes DEF Dispatched
  <2>2. ops'[x] \in {ops[x], [ops[x] EXCEPT !.sealed = TRUE]}
    BY <1>4 DEF FinalizeTurn
  <2> QED BY <2>1, <2>2 DEF OpRows, Dispatched, IsWrite
<1>5. ASSUME NEW c \in Conversations, NEW w \in Workspaces, UpdateConversation(c, w)
      PROVE  Dispatched(ops[x]) => Dispatched(ops'[x])
  BY <1>5 DEF UpdateConversation
<1>6. ASSUME NEW c \in Conversations, NEW w \in Workspaces, DeleteConversation(c, w)
      PROVE  Dispatched(ops[x]) => Dispatched(ops'[x])
  <2> SUFFICES ASSUME Dispatched(ops[x]) PROVE ops'[x] = ops[x]
    OBVIOUS
  <2>1. ops[x].run \in Runs BY RowTypes DEF Dispatched, OpRows
  <2>2. runs[ops[x].run].conv # c
    BY <1>6, <2>1 DEF DeleteConversation, Deletable, OpsOf, Dispatched, UnresolvedStatuses
  <2> QED BY <1>6, <2>2 DEF DeleteConversation
<1>7. CASE UNCHANGED vars BY <1>1, <1>7 DEF vars
<1> QED BY <1>1, <1>2, <1>3, <1>4, <1>5, <1>6, <1>7 DEF Next, ConversationStep

(* A write that was dispatched leaves the open statuses with evidence only,  *)
(* whoever moves it, and is never deleted while it is open.                  *)
THEOREM DispatchedMeansEvidence == Spec => DispatchedWritesNeedEvidence
<1>1. TypeOK /\ [Next]_vars => [\A x \in Ops : EndsWithEvidence(x)]_vars
  BY EvidenceStep
<1> QED BY <1>1, TypeCorrectness, PTL DEF Spec, DispatchedWritesNeedEvidence

------------------------------------------------------------------------------
(* Revisions.                                                                *)

(* What a step may do to a run that it leaves there: nothing that a client   *)
(* sees, or raise the revision by at least as much as it changes operations. *)
SeesNoChange(r) ==
    /\ runs'[r].status = runs[r].status /\ runs'[r].attempt = runs[r].attempt
    /\ runs'[r].owner = runs[r].owner /\ runs'[r].revision = runs[r].revision
    /\ \A x \in Ops : (ops'[x].run = r) <=> (ops[x].run = r)
    /\ \A x \in OpsOf(r) : ops'[x].status = ops[x].status /\ ops'[x].effect = ops[x].effect

Advances(r, moved) ==
    /\ IsFiniteSet(moved)
    /\ runs'[r].revision > runs[r].revision
    /\ runs'[r].revision >= runs[r].revision + Cardinality(moved)
    /\ \A x \in Ops : ops'[x].run = r /\ ops'[x].status # ops[x].status => x \in moved

(* Either of them keeps the promise of the revision.                         *)
LEMMA UnseenMoves ==
    ASSUME TypeOK, NEW r \in Runs, Exists(r), SeesNoChange(r)
    PROVE  MovesTheRevision(r)
<1> DEFINE changed == {x \in Ops : ops'[x].run = r /\ ops'[x].status # ops[x].status}
<1>1. runs[r].revision \in Nat
  BY RowTypes, BoundsAssumption DEF RunRows
<1>2. changed = {} BY DEF SeesNoChange, OpsOf
<1>3. Cardinality(changed) = 0 BY <1>2, FS_EmptySet
<1>4. runs'[r].revision = runs[r].revision
  BY DEF SeesNoChange
<1>5. /\ runs'[r].status = runs[r].status /\ runs'[r].attempt = runs[r].attempt
      /\ runs'[r].owner = runs[r].owner
  BY DEF SeesNoChange
<1>6. {<<x, ops'[x].status, ops'[x].effect>> : x \in {y \in Ops : ops'[y].run = r}}
        = {<<x, ops[x].status, ops[x].effect>> : x \in {y \in Ops : ops[y].run = r}}
  BY DEF SeesNoChange, OpsOf
<1>7. SeenBy(r)' = SeenBy(r) BY <1>5, <1>6 DEF SeenBy, OpsOf
<1>8. runs'[r].revision >= runs[r].revision + Cardinality(changed)
  BY <1>1, <1>3, <1>4
<1> QED BY <1>7, <1>8 DEF MovesTheRevision

LEMMA AdvancesMove ==
    ASSUME TypeOK, TypeOK', NEW r \in Runs, Exists(r), Exists(r)', NEW moved, Advances(r, moved)
    PROVE  MovesTheRevision(r)
<1> DEFINE changed == {x \in Ops : ops'[x].run = r /\ ops'[x].status # ops[x].status}
<1>1. runs[r].revision \in Nat BY RowTypes, BoundsAssumption DEF RunRows
<1>2. runs'[r].revision \in Nat BY BoundsAssumption DEF TypeOK, Exists, RunRows, NoRun
<1>3. changed \subseteq moved BY DEF Advances
<1>4. Cardinality(changed) \in Nat /\ Cardinality(moved) \in Nat /\ Cardinality(changed) <= Cardinality(moved)
  BY <1>3, FS_Subset, FS_CardinalityType DEF Advances
<1> HIDE DEF changed
<1>5. runs'[r].revision >= runs[r].revision + Cardinality(changed)
  BY <1>1, <1>2, <1>4 DEF Advances
<1>6. runs'[r].revision > runs[r].revision BY DEF Advances
<1> QED BY <1>5, <1>6 DEF MovesTheRevision, changed

(* Reconciling moves operations of its own run only, and keeps their runs.   *)
LEMMA ReconciledIsLocal ==
    ASSUME TypeOK, NEW s \in Runs, NEW x \in Ops
    PROVE  /\ OpsReconciled(s)[x].run = ops[x].run
           /\ OpsReconciled(s)[x] # ops[x] => x \in Interruptible(s)
<1>1. CASE x \in Interruptible(s)
  <2>1. ops[x] \in OpRows BY <1>1, RowTypes DEF Interruptible
  <2> QED BY <1>1, <2>1 DEF OpsReconciled, Reconciled, OpRows
<1>2. CASE x \notin Interruptible(s) BY <1>2 DEF OpsReconciled
<1> QED BY <1>1, <1>2

(* A step of a run's owner or of its recovery keeps the promise.             *)
LEMMA RunStepMoves ==
    ASSUME TypeOK, TypeOK', NEW r \in Runs, Exists(r), Exists(r)',
           NEW s \in Runs, NEW o \in Owners, RunStep(s, o)
    PROVE  MovesTheRevision(r)
<1>e. IsFiniteSet({}) /\ Cardinality({}) = 0 BY FS_EmptySet
<1>n. runs[r].revision \in Nat BY RowTypes, BoundsAssumption DEF RunRows
<1>1. ASSUME NEW c \in Conversations, NEW w \in Workspaces, CreateRun(s, c, w, o)
      PROVE  SeesNoChange(r)
  BY <1>1 DEF CreateRun, TypeOK, SeesNoChange, OpsOf
<1>2. ASSUME ClaimRun(s, o, runs[s].revision)
      PROVE  SeesNoChange(r) \/ Advances(r, {})
  <2>1. CASE r = s
    <3>1. runs'[s].revision = runs[s].revision + 1
      <4>1. runs[s] \in RunRows BY <2>1, RowTypes
      <4> QED BY <1>2, <4>1 DEF ClaimRun, Touched, TypeOK, RunRows
    <3>2. ops' = ops BY <1>2 DEF ClaimRun
    <3> QED BY <1>e, <1>n, <2>1, <3>1, <3>2 DEF Advances
  <2>2. CASE r # s BY <1>2, <2>2 DEF ClaimRun, TypeOK, SeesNoChange, OpsOf
  <2> QED BY <2>1, <2>2
<1>3. ASSUME NEW a \in Attempts, NEW users \in {"text", "attached"}, PersistRecoveryInput(s, o, a, users)
      PROVE  SeesNoChange(r) \/ Advances(r, {})
  <2>1. runs[s] \in RunRows BY <1>3, RowTypes DEF PersistRecoveryInput, Owns
  <2>2. ops' = ops BY <1>3 DEF PersistRecoveryInput
  <2>3. CASE r = s
    <3>1. runs'[s] = [Touched(runs[s]) EXCEPT !.ref = a]
      BY <1>3 DEF PersistRecoveryInput, Outdated
    <3>2. runs'[s].revision = runs[s].revision + 1
      BY <2>1, <3>1 DEF Touched, RunRows
    <3> QED BY <1>e, <1>n, <2>2, <2>3, <3>2 DEF Advances
  <2>4. CASE r # s
    <3>1. runs'[r] = Outdated(runs[s].conv)[r] BY <1>3, <2>4 DEF PersistRecoveryInput, Outdated
    <3>2. runs[s].conv \in Conversations BY <2>1 DEF RunRows
    <3> QED BY <2>2, <3>1, <3>2, OutdatedColumns DEF SeesNoChange, OpsOf
  <2> QED BY <2>3, <2>4
<1>4. ASSUME NEW a \in Attempts, RenewLease(s, o, a)
      PROVE  SeesNoChange(r)
  <2>1. runs[s] \in RunRows BY <1>4, RowTypes DEF RenewLease, Owns
  <2>2. runs' = [runs EXCEPT ![s] = [runs[s] EXCEPT !.lease = TRUE, !.fresh = TRUE]]
    BY <1>4 DEF RenewLease
  <2> QED BY <1>4, <2>1, <2>2 DEF RenewLease, TypeOK, RunRows, SeesNoChange, OpsOf
<1>5. ASSUME runs'[s].revision = runs[s].revision + Cardinality(Interruptible(s)) + 1,
             ops' = OpsReconciled(s), s # r => runs'[r] = runs[r]
      PROVE  SeesNoChange(r) \/ Advances(r, Interruptible(r))
  <2>1. CASE r = s
    <3>1. IsFiniteSet(Interruptible(r)) BY OpsAssumption, FS_Subset DEF Interruptible, OpsOf
    <3>2. Cardinality(Interruptible(r)) \in Nat BY InterruptibleCount
    <3>3. runs'[r].revision > runs[r].revision
          /\ runs'[r].revision >= runs[r].revision + Cardinality(Interruptible(r))
      BY <1>5, <1>n, <2>1, <3>2
    <3>4. \A x \in Ops : ops'[x].run = r /\ ops'[x].status # ops[x].status => x \in Interruptible(r)
      BY <1>5, <2>1, ReconciledIsLocal
    <3> QED BY <3>1, <3>3, <3>4 DEF Advances
  <2>2. CASE r # s
    <3>1. \A x \in Ops : ops'[x].run = ops[x].run BY <1>5, ReconciledIsLocal
    <3>2. \A x \in OpsOf(r) : ops'[x] = ops[x]
      BY <1>5, <2>2, ReconciledIsLocal DEF Interruptible, OpsOf
    <3> QED BY <1>5, <2>2, <3>1, <3>2 DEF SeesNoChange
  <2> QED BY <2>1, <2>2
<1>6. ASSUME NEW a \in Attempts, NEW new \in Owners, ReleaseExpiredRun(s, o, new, a, runs[s].revision)
      PROVE  SeesNoChange(r) \/ Advances(r, Interruptible(r))
  <2>1. runs[s] \in RunRows BY <1>6, RowTypes DEF ReleaseExpiredRun, Owns
  <2>2. runs'[s].revision = runs[s].revision + Cardinality(Interruptible(s)) + 1
    BY <1>6, <2>1 DEF ReleaseExpiredRun, TypeOK, RunRows
  <2>3. ops' = OpsReconciled(s) /\ (s # r => runs'[r] = runs[r])
    BY <1>6 DEF ReleaseExpiredRun, TypeOK
  <2> QED BY <1>5, <2>2, <2>3
<1>7. ASSUME NEW a \in Attempts, NEW to \in RunStatuses, NEW ref \in 0..a,
             TransitionRun(s, to, o, a, runs[s].revision, ref)
      PROVE  SeesNoChange(r) \/ Advances(r, {}) \/ Advances(r, Interruptible(r))
  <2>1. runs[s] \in RunRows BY <1>7, RowTypes DEF TransitionRun, Owns
  <2>2. s # r => runs'[r] = runs[r] BY <1>7 DEF TransitionRun, TypeOK
  <2>3. CASE to = "interrupted"
    <3>1. runs'[s].revision = runs[s].revision + Cardinality(Interruptible(s)) + 1
      BY <1>7, <2>1, <2>3 DEF TransitionRun, StatusAfter, TypeOK, RunRows
    <3>2. ops' = OpsReconciled(s) BY <1>7, <2>3 DEF TransitionRun
    <3> QED BY <1>5, <2>2, <3>1, <3>2
  <2>4. CASE to # "interrupted"
    <3>1. runs'[s].revision = runs[s].revision + 0 + 1
      BY <1>7, <2>1, <2>4 DEF TransitionRun, StatusAfter, TypeOK, RunRows
    <3>2. ops' = ops BY <1>7, <2>4 DEF TransitionRun
    <3>3. r = s => Advances(r, {}) BY <1>e, <1>n, <3>1, <3>2 DEF Advances
    <3>4. r # s => SeesNoChange(r) BY <2>2, <3>2 DEF SeesNoChange, OpsOf
    <3> QED BY <3>3, <3>4
  <2> QED BY <2>3, <2>4
<1>8. SeesNoChange(r) \/ Advances(r, {}) \/ Advances(r, Interruptible(r))
  BY <1>1, <1>2, <1>3, <1>4, <1>6, <1>7 DEF RunStep
<1> QED BY <1>8, UnseenMoves, AdvancesMove

(* So does a step on an operation: one row, one revision.                    *)
LEMMA OperationStepMoves ==
    ASSUME TypeOK, TypeOK', NEW r \in Runs, Exists(r), Exists(r)',
           NEW x \in Ops, NEW o \in Owners, OperationStep(x, o)
    PROVE  MovesTheRevision(r)
<1>n. runs[r].revision \in Nat BY RowTypes, BoundsAssumption DEF RunRows
<1>1. ASSUME NEW s \in Runs, Exists(s), runs' = [runs EXCEPT ![s] = Touched(runs[s])],
             ops[x].run \in {s, Nobody}, ops'[x].run = s,
             \A y \in Ops \ {x} : ops'[y] = ops[y]
      PROVE  MovesTheRevision(r)
  <2>1. CASE r = s
    <3>1. runs[s] \in RunRows BY <1>1, RowTypes
    <3>2. runs'[r].revision = runs[r].revision + 1
      BY <1>1, <2>1, <3>1 DEF Touched, TypeOK, RunRows
    <3>3. IsFiniteSet({x}) /\ Cardinality({x}) = 1 BY FS_Singleton
    <3>4. Advances(r, {x}) BY <1>1, <1>n, <3>2, <3>3 DEF Advances
    <3> QED BY <3>4, AdvancesMove
  <2>2. CASE r # s
    <3>1. runs'[r] = runs[r] BY <1>1, <2>2 DEF TypeOK
    <3>2. ops[x].run # r /\ ops'[x].run # r BY <1>1, <2>2, NobodyAssumption
    <3>3. SeesNoChange(r) BY <1>1, <3>1, <3>2 DEF SeesNoChange, OpsOf
    <3> QED BY <3>3, UnseenMoves
  <2> QED BY <2>1, <2>2
<1>2. ASSUME NEW a \in Attempts, NEW s \in Runs, NEW effect \in EffectClasses,
             PrepareOperation(x, s, o, a, effect)
      PROVE  MovesTheRevision(r)
  <2>1. ops[x].run = Nobody BY <1>2, RowTypes DEF PrepareOperation, NoOp
  <2>2. Exists(s) /\ ops'[x].run = s BY <1>2 DEF PrepareOperation, Owns, TypeOK
  <2>3. \A y \in Ops \ {x} : ops'[y] = ops[y] BY <1>2 DEF PrepareOperation, TypeOK
  <2>4. runs' = [runs EXCEPT ![s] = Touched(runs[s])] BY <1>2 DEF PrepareOperation
  <2> QED BY <1>1, <2>1, <2>2, <2>3, <2>4
<1>3. ASSUME ops[x].status # "absent" PROVE ops[x] \in OpRows /\ ops[x].run \in Runs
  BY <1>3, RowTypes DEF OpRows
<1>4. ASSUME NEW a \in Attempts, NEW to \in OperationStatuses, NEW result \in Results,
             TransitionOperation(x, to, o, a, result)
      PROVE  MovesTheRevision(r)
  <2>1. ops[x] \in OpRows /\ ops[x].run \in Runs BY <1>3, <1>4 DEF TransitionOperation
  <2>2. ops'[x].run = ops[x].run BY <1>4, <2>1 DEF TransitionOperation, TypeOK, OpRows
  <2>3. \A y \in Ops \ {x} : ops'[y] = ops[y] BY <1>4 DEF TransitionOperation, TypeOK
  <2>4. Exists(ops[x].run) /\ runs' = [runs EXCEPT ![ops[x].run] = Touched(runs[ops[x].run])]
    BY <1>4 DEF TransitionOperation, Owns
  <2> QED BY <1>1, <2>1, <2>2, <2>3, <2>4
<1>5. ASSUME NEW a \in Attempts, PromoteOperation(x, o, a)
      PROVE  MovesTheRevision(r)
  <2>1. ops[x] \in OpRows /\ ops[x].run \in Runs BY <1>3, <1>5 DEF PromoteOperation
  <2>2. ops'[x].run = ops[x].run BY <1>5, <2>1 DEF PromoteOperation, TypeOK, OpRows
  <2>3. \A y \in Ops \ {x} : ops'[y] = ops[y] BY <1>5 DEF PromoteOperation, TypeOK
  <2>4. Exists(ops[x].run) /\ runs' = [runs EXCEPT ![ops[x].run] = Touched(runs[ops[x].run])]
    BY <1>5 DEF PromoteOperation, Owns
  <2> QED BY <1>1, <2>1, <2>2, <2>3, <2>4
<1>6. ASSUME NEW a \in Attempts, RecordUnknownVerification(x, o, a)
      PROVE  MovesTheRevision(r)
  <2>1. ops[x] \in OpRows /\ ops[x].run \in Runs BY <1>3, <1>6 DEF RecordUnknownVerification
  <2>2. ops'[x].run = ops[x].run BY <1>6, <2>1 DEF RecordUnknownVerification, TypeOK, OpRows
  <2>3. \A y \in Ops \ {x} : ops'[y] = ops[y] BY <1>6 DEF RecordUnknownVerification, TypeOK
  <2>4. Exists(ops[x].run) /\ runs' = [runs EXCEPT ![ops[x].run] = Touched(runs[ops[x].run])]
    BY <1>6 DEF RecordUnknownVerification, Owns
  <2> QED BY <1>1, <2>1, <2>2, <2>3, <2>4
<1> QED BY <1>2, <1>4, <1>5, <1>6 DEF OperationStep

(* The steps of a conversation change nothing that the revision stands for.  *)
LEMMA ConversationStepMoves ==
    ASSUME TypeOK, NEW r \in Runs, Exists(r), Exists(r)', ConversationStep
    PROVE  MovesTheRevision(r)
<1>1. ASSUME NEW s \in Runs, NEW more \in {"none", "text", "attached"}, FinalizeTurn(s, more)
      PROVE  SeesNoChange(r)
  <2>1. runs[s].conv \in Conversations BY <1>1, RowTypes DEF FinalizeTurn, RunRows
  <2>2. runs'[r] = Outdated(runs[s].conv)[r] BY <1>1 DEF FinalizeTurn
  <2>3. ASSUME NEW x \in Ops
        PROVE  /\ ops'[x].run = ops[x].run /\ ops'[x].status = ops[x].status
               /\ ops'[x].effect = ops[x].effect
    <3>1. CASE ops[x].run = s /\ ops[x].attempt = runs[s].attempt
      <4>1. ops[x] \in OpRows BY <3>1, NobodyAssumption DEF TypeOK, NoOp
      <4>2. ops'[x] = [ops[x] EXCEPT !.sealed = TRUE] BY <1>1, <3>1 DEF FinalizeTurn
      <4> QED BY <4>1, <4>2 DEF OpRows
    <3>2. CASE ~(ops[x].run = s /\ ops[x].attempt = runs[s].attempt)
      BY <1>1, <3>2 DEF FinalizeTurn
    <3> QED BY <3>1, <3>2
  <2> QED BY <2>1, <2>2, <2>3, OutdatedColumns DEF SeesNoChange, OpsOf
<1>2. ASSUME NEW c \in Conversations, NEW w \in Workspaces, UpdateConversation(c, w)
      PROVE  SeesNoChange(r)
  BY <1>2, OutdatedColumns DEF UpdateConversation, SeesNoChange, OpsOf
<1>3. ASSUME NEW c \in Conversations, NEW w \in Workspaces, DeleteConversation(c, w)
      PROVE  SeesNoChange(r)
  <2>1. runs[r].conv # c BY <1>3 DEF DeleteConversation, Exists, NoRun
  <2>2. runs'[r] = runs[r] BY <1>3, <2>1 DEF DeleteConversation
  <2>3. \A x \in Ops : IF runs[ops[x].run].conv = c /\ ops[x].run \in Runs
                        THEN ops'[x] = NoOp ELSE ops'[x] = ops[x]
    BY <1>3 DEF DeleteConversation
  <2> QED BY <2>1, <2>2, <2>3, NobodyAssumption DEF SeesNoChange, OpsOf, NoOp
<1> QED BY <1>1, <1>2, <1>3, UnseenMoves DEF ConversationStep

(* The revision is a faithful compare-and-swap token for every client: what  *)
(* it decides on cannot change under an unchanged revision.                  *)
THEOREM RevisionsAreFaithful == Spec => ChangesMoveTheRevision
<1>1. ASSUME TypeOK, TypeOK', [Next]_vars
      PROVE  [\A r \in Runs : Exists(r) /\ Exists(r)' => MovesTheRevision(r)]_vars
  BY <1>1, RunStepMoves, OperationStepMoves, ConversationStepMoves DEF Next
<1> QED BY <1>1, TypeCorrectness, PTL DEF Spec, ChangesMoveTheRevision

------------------------------------------------------------------------------
(* What a step leaves alone, for the proofs about the callers.               *)

(* A run that stays keeps its conversation and its workspace.                *)
LEMMA RunsStay ==
    ASSUME TypeOK, [Next]_vars, NEW r \in Runs, Exists(r), Exists(r)'
    PROVE  runs'[r].conv = runs[r].conv /\ runs'[r].ws = runs[r].ws
<1>r. runs[r] \in RunRows BY RowTypes
<1>1. ASSUME NEW s \in Runs, NEW o \in Owners, RunStep(s, o)
      PROVE  runs'[r].conv = runs[r].conv /\ runs'[r].ws = runs[r].ws
  <2>1. CASE \E c \in Conversations, w \in Workspaces : CreateRun(s, c, w, o)
    BY <2>1 DEF CreateRun, TypeOK
  <2>2. CASE ClaimRun(s, o, runs[s].revision)
    BY <2>2, <1>r DEF ClaimRun, Touched, TypeOK, RunRows
  <2>3. ASSUME NEW a \in Attempts, NEW users \in {"text", "attached"}, PersistRecoveryInput(s, o, a, users)
        PROVE  runs'[r].conv = runs[r].conv /\ runs'[r].ws = runs[r].ws
    <3>1. runs[s].conv \in Conversations BY <2>3, RowTypes DEF PersistRecoveryInput, Owns, RunRows
    <3>2. CASE r = s
      <4>1. runs'[s] = [Touched(runs[s]) EXCEPT !.ref = a]
        BY <2>3 DEF PersistRecoveryInput, Outdated
      <4> QED BY <1>r, <3>2, <4>1 DEF Touched, RunRows
    <3>3. CASE r # s
      <4>1. runs'[r] = Outdated(runs[s].conv)[r] BY <2>3, <3>3 DEF PersistRecoveryInput, Outdated
      <4> QED BY <3>1, <4>1, OutdatedColumns
    <3> QED BY <3>2, <3>3
  <2>4. ASSUME NEW a \in Attempts, RenewLease(s, o, a)
        PROVE  runs'[r].conv = runs[r].conv /\ runs'[r].ws = runs[r].ws
    <3>1. runs' = [runs EXCEPT ![s] = [runs[s] EXCEPT !.lease = TRUE, !.fresh = TRUE]]
      BY <2>4 DEF RenewLease
    <3> QED BY <1>r, <3>1 DEF TypeOK, RunRows
  <2>5. ASSUME NEW a \in Attempts, NEW new \in Owners, ReleaseExpiredRun(s, o, new, a, runs[s].revision)
        PROVE  runs'[r].conv = runs[r].conv /\ runs'[r].ws = runs[r].ws
    BY <2>5, <1>r DEF ReleaseExpiredRun, TypeOK, RunRows
  <2>6. ASSUME NEW a \in Attempts, NEW to \in RunStatuses, NEW ref \in 0..a,
               TransitionRun(s, to, o, a, runs[s].revision, ref)
        PROVE  runs'[r].conv = runs[r].conv /\ runs'[r].ws = runs[r].ws
    BY <2>6, <1>r DEF TransitionRun, StatusAfter, TypeOK, RunRows
  <2> QED BY <1>1, <2>1, <2>2, <2>3, <2>4, <2>5, <2>6 DEF RunStep
<1>2. ASSUME NEW x \in Ops, NEW o \in Owners, OperationStep(x, o)
      PROVE  runs'[r].conv = runs[r].conv /\ runs'[r].ws = runs[r].ws
  <2>1. PICK s : runs' = [runs EXCEPT ![s] = Touched(runs[s])]
    BY <1>2 DEF OperationStep, PrepareOperation, TransitionOperation, PromoteOperation,
                RecordUnknownVerification
  <2> QED BY <1>r, <2>1 DEF Touched, TypeOK, RunRows
<1>3. CASE ConversationStep
  <2>1. ASSUME NEW s \in Runs, NEW more \in {"none", "text", "attached"}, FinalizeTurn(s, more)
        PROVE  runs'[r].conv = runs[r].conv /\ runs'[r].ws = runs[r].ws
    <3>1. runs[s].conv \in Conversations BY <2>1, RowTypes DEF FinalizeTurn, RunRows
    <3> QED BY <2>1, <3>1, OutdatedColumns DEF FinalizeTurn
  <2>2. CASE \E c \in Conversations, w \in Workspaces : UpdateConversation(c, w)
    BY <2>2, OutdatedColumns DEF UpdateConversation
  <2>3. CASE \E c \in Conversations, w \in Workspaces : DeleteConversation(c, w)
    BY <2>3 DEF DeleteConversation, Exists, NoRun
  <2> QED BY <1>3, <2>1, <2>2, <2>3 DEF ConversationStep
<1>4. CASE UNCHANGED vars BY <1>4 DEF vars
<1> QED BY <1>1, <1>2, <1>3, <1>4 DEF Next

(* An operation that stays keeps its run and its attempt.                    *)
LEMMA OpsStay ==
    ASSUME TypeOK, [Next]_vars, NEW x \in Ops, ops[x].status # "absent", ops'[x].status # "absent"
    PROVE  ops'[x].run = ops[x].run /\ ops'[x].attempt = ops[x].attempt
<1>x. ops[x] \in OpRows BY RowTypes
<1>1. ASSUME NEW s \in Runs, NEW o \in Owners, RunStep(s, o)
      PROVE  ops'[x].run = ops[x].run /\ ops'[x].attempt = ops[x].attempt
  <2>1. ops' \in {ops, OpsReconciled(s)}
    BY <1>1 DEF RunStep, CreateRun, ClaimRun, PersistRecoveryInput, RenewLease, ReleaseExpiredRun,
                TransitionRun
  <2>2. ops'[x] \in {ops[x], Reconciled(ops[x])} BY <2>1 DEF OpsReconciled
  <2> QED BY <1>x, <2>2 DEF Reconciled, OpRows
<1>2. ASSUME NEW y \in Ops, NEW o \in Owners, OperationStep(y, o)
      PROVE  ops'[x].run = ops[x].run /\ ops'[x].attempt = ops[x].attempt
  <2>1. CASE \E a \in Attempts, s \in Runs, effect \in EffectClasses : PrepareOperation(y, s, o, a, effect)
    BY <2>1 DEF PrepareOperation, TypeOK
  <2>2. CASE \E a \in Attempts, to \in OperationStatuses, result \in Results :
               TransitionOperation(y, to, o, a, result)
    BY <1>x, <2>2 DEF TransitionOperation, TypeOK, OpRows
  <2>3. CASE \E a \in Attempts : PromoteOperation(y, o, a)
    BY <1>x, <2>3 DEF PromoteOperation, TypeOK, OpRows
  <2>4. CASE \E a \in Attempts : RecordUnknownVerification(y, o, a)
    BY <1>x, <2>4 DEF RecordUnknownVerification, TypeOK, OpRows
  <2> QED BY <1>2, <2>1, <2>2, <2>3, <2>4 DEF OperationStep
<1>3. CASE ConversationStep
  <2>1. CASE \E r \in Runs, more \in {"none", "text", "attached"} : FinalizeTurn(r, more)
    <3>1. ops'[x] \in {ops[x], [ops[x] EXCEPT !.sealed = TRUE]} BY <2>1 DEF FinalizeTurn
    <3> QED BY <1>x, <3>1 DEF OpRows
  <2>2. CASE \E c \in Conversations, w \in Workspaces : UpdateConversation(c, w)
    BY <2>2 DEF UpdateConversation
  <2>3. CASE \E c \in Conversations, w \in Workspaces : DeleteConversation(c, w)
    BY <2>3 DEF DeleteConversation, NoOp
  <2> QED BY <1>3, <2>1, <2>2, <2>3 DEF ConversationStep
<1>4. CASE UNCHANGED vars BY <1>4 DEF vars
<1> QED BY <1>1, <1>2, <1>3, <1>4 DEF Next

=============================================================================
