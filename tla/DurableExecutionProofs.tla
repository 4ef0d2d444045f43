------------------------ MODULE DurableExecutionProofs ------------------------
(***************************************************************************)
(* Theorems about DurableExecution, for every value of its constants: its  *)
(* steps are steps of DurableJournal, so the theorems of the journal hold  *)
(* of the whole system; it is well typed; a live turn owns its run; an     *)
(* operation is settled on what happened; a run that continues knows every *)
(* effect of its earlier attempts; and effects of two runs do not overlap  *)
(* where the journal keeps the runs apart.                                 *)
(***************************************************************************)
EXTENDS DurableExecution, DurableJournalProofs

(* The variables the journal does not have.                                  *)
WorkTypeOK ==
    /\ turn \in [Runs -> TurnsAlive \cup {NoTurnAlive}]
    /\ call \in [Ops -> Calls]
    /\ landed \in SUBSET Ops
    /\ proc \in [Owners -> ProcStates]
    /\ scan \in [Owners -> [Runs -> 0..MaxRevision]]
    /\ fixing \in [Owners -> Runs \cup {Nobody}]
    /\ verdict \in [Ops -> Verdicts]
    /\ early \in SUBSET Ops

(* The input a run or a turn continues from is that of an attempt up to its  *)
(* own; a pause hands it to transition_run.                                  *)
RefsArePast ==
    \A r \in Runs : /\ runs[r].ref <= runs[r].attempt
                    /\ turn[r].phase # "none" => turn[r].input <= turn[r].attempt

(* A call that is not finished belongs to a turn that works, and its row is  *)
(* as far as the call is.                                                    *)
Live(x) == call[x].phase \notin Finished
OnTrack(x) ==
    /\ call[x].phase \in {"scheduled", "blocked"} => ops[x].status = "prepared"
    /\ call[x].phase = "admitted" => ops[x].status = "authorized"
    /\ call[x].phase \in InEffect \cup AtGate => ops[x].status = "executing"
CallsOfTurns ==
    \A x \in Ops : Live(x) =>
        /\ OnTrack(x)
        /\ turn[RunOf(x)].phase = "working"
        /\ turn[RunOf(x)].proc = call[x].proc
        /\ turn[RunOf(x)].attempt = ops[x].attempt
        /\ IsWrite(ops[x]) <=> call[x].tool # "reader"
        /\ call[x].phase \in {"promoted", "landing"} => call[x].tool # "reader"

(* A write that has an effect, or may still have one, is on record for good: *)
(* reconciliation cancels only what was never dispatched.                    *)
Recorded(x) == /\ ops[x].status \notin {"prepared", "authorized", "cancelled"}
               /\ ops[x].status # "absent" => IsWrite(ops[x])
EffectsKnown ==
    \A x \in Ops : x \in landed \/ call[x].phase = "stray" =>
        call[x].phase # "none" /\ Recorded(x)

(* An operation has a call, and the user has one looked at whose call is     *)
(* over, if only for its turn.                                               *)
OpsHaveCalls == \A x \in Ops : ops[x].status # "absent" => call[x].phase # "none"
VerdictsAreLate ==
    \A x \in Ops : verdict[x].by # NoOwner => call[x].phase \in Finished \ {"none"}

ExecIInv == /\ TypeOK /\ WorkTypeOK /\ TurnsOwnTheirRuns /\ RefsArePast
            /\ CallsOfTurns /\ EffectsKnown /\ OpsHaveCalls /\ VerdictsAreLate

(* What a step must show: it is a step of the journal and keeps the rest.    *)
Implements == /\ [Next]_vars
              /\ WorkTypeOK' /\ TurnsOwnTheirRuns' /\ RefsArePast'
              /\ CallsOfTurns' /\ EffectsKnown'

(* The step leaves the columns the invariants read, and the holder of a turn.*)
Kept(s) == /\ runs'[s].status = runs[s].status
           /\ runs'[s].owner = runs[s].owner
           /\ runs'[s].attempt = runs[s].attempt
           /\ runs'[s].ref = runs[s].ref
TurnKept(s) == turn'[s].phase # "none" =>
                   /\ turn[s].phase # "none"
                   /\ turn'[s].proc = turn[s].proc
                   /\ turn'[s].attempt = turn[s].attempt
                   /\ turn'[s].input = turn[s].input
                   /\ proc'[turn[s].proc] = "up"
OpKept(x) == /\ ops'[x].status = ops[x].status
             /\ ops'[x].run = ops[x].run
             /\ ops'[x].attempt = ops[x].attempt
             /\ ops'[x].effect = ops[x].effect
CallsKeepTurns == \A x \in Ops : Live(x) => turn'[RunOf(x)].phase = "working"

------------------------------------------------------------------------------
(* Rows.                                                                     *)

(* What the type invariant says of a turn.                                   *)
LEMMA TurnRow ==
    ASSUME WorkTypeOK, NEW r \in Runs
    PROVE  /\ turn[r].phase # "none" <=> turn[r] \in TurnsAlive
           /\ turn[r].phase = "none" <=> turn[r] = NoTurnAlive
BY DEF WorkTypeOK, TurnsAlive, NoTurnAlive, Phases

(* What a live turn says of its run.                                         *)
LEMMA LiveTurn ==
    ASSUME ExecIInv, NEW r \in Runs, turn[r].phase # "none"
    PROVE  /\ turn[r] \in TurnsAlive
           /\ turn[r].proc \in Owners /\ turn[r].attempt \in Attempts
           /\ proc[turn[r].proc] = "up"
           /\ Owns(r, turn[r].proc, turn[r].attempt)
           /\ runs[r] \in RunRows
           /\ runs[r].status \in ActiveRunStatuses
           /\ turn[r].input \in 0..turn[r].attempt
<1>1. turn[r] \in TurnsAlive BY TurnRow DEF ExecIInv
<1>2. turn[r].proc \in Owners /\ turn[r].attempt \in Attempts /\ turn[r].input \in Attempts
  BY <1>1 DEF TurnsAlive
<1>3. /\ proc[turn[r].proc] = "up"
      /\ Owns(r, turn[r].proc, turn[r].attempt)
      /\ runs[r].status \in ActiveRunStatuses
  BY DEF ExecIInv, TurnsOwnTheirRuns
<1>4. runs[r] \in RunRows BY <1>3, RowTypes DEF ExecIInv, Owns
<1>5. turn[r].input \in 0..turn[r].attempt
  BY <1>2, BoundsAssumption DEF ExecIInv, RefsArePast, Attempts
<1> QED BY <1>1, <1>2, <1>3, <1>4, <1>5

(* The turn of a run that has no owner that is up, or none that works on it. *)
LEMMA NoLiveTurn ==
    ASSUME ExecIInv, NEW r \in Runs,
           \/ runs[r].status \notin ActiveRunStatuses
           \/ \E o \in Owners : runs[r].owner = o /\ proc[o] # "up"
    PROVE  turn[r].phase = "none"
BY DEF ExecIInv, TurnsOwnTheirRuns, Owns

(* A row that is there has typed columns.                                    *)
LEMMA RunRow ==
    ASSUME TypeOK, NEW r \in Runs
    PROVE  /\ Exists(r) => runs[r] \in RunRows /\ runs[r].attempt \in Attempts
           /\ runs[r].attempt \in 0..MaxAttempt /\ runs[r].ref \in 0..MaxAttempt
<1>1. CASE Exists(r)
  BY <1>1, RowTypes, BoundsAssumption DEF RunRows, Attempts
<1>2. CASE ~Exists(r)
  BY <1>2, RowTypes, BoundsAssumption DEF NoRun
<1> QED BY <1>1, <1>2

(* The operation of a call has a run.                                        *)
LEMMA OpRow ==
    ASSUME TypeOK, NEW x \in Ops, ops[x].status # "absent"
    PROVE  ops[x] \in OpRows /\ RunOf(x) \in Runs /\ ops[x].attempt \in Attempts
BY RowTypes DEF OpRows, RunOf

------------------------------------------------------------------------------
(* Holding a run.                                                            *)

(* A step that leaves the columns and the holders alone, but for one run     *)
(* that its turn moves or that has no turn.                                  *)
LEMMA HoldStep ==
    ASSUME ExecIInv, NEW r \in Runs,
           \A s \in Runs : s # r => Kept(s),
           \A s \in Runs : TurnKept(s),
           turn'[r].phase # "none" =>
               /\ runs'[r].status \in ActiveRunStatuses
               /\ runs'[r].owner = runs[r].owner
               /\ runs'[r].attempt = runs[r].attempt,
           runs'[r].ref <= runs'[r].attempt
    PROVE  TurnsOwnTheirRuns' /\ RefsArePast'
<1>1. ASSUME NEW s \in Runs, turn'[s].phase # "none"
      PROVE  /\ proc'[turn'[s].proc] = "up"
             /\ Owns(s, turn[s].proc, turn[s].attempt)'
             /\ runs'[s].status \in ActiveRunStatuses
             /\ turn'[s].input <= turn'[s].attempt
  <2>1. turn[s].phase # "none" BY <1>1 DEF TurnKept
  <2>2. Owns(s, turn[s].proc, turn[s].attempt) /\ turn[s].input <= turn[s].attempt
        /\ runs[s].status \in ActiveRunStatuses
    BY <2>1 DEF ExecIInv, TurnsOwnTheirRuns, RefsArePast
  <2>3. "absent" \notin ActiveRunStatuses BY DEF ActiveRunStatuses
  <2> QED BY <1>1, <2>1, <2>2, <2>3 DEF TurnKept, Kept, Owns, Exists
<1>2. ASSUME NEW s \in Runs PROVE runs'[s].ref <= runs'[s].attempt
  BY DEF ExecIInv, RefsArePast, Kept
<1> QED BY <1>1, <1>2 DEF TurnsOwnTheirRuns, RefsArePast

(* A step that leaves the columns and the holders of every run alone.        *)
LEMMA HoldAll ==
    ASSUME ExecIInv, \A s \in Runs : Kept(s), \A s \in Runs : TurnKept(s)
    PROVE  TurnsOwnTheirRuns' /\ RefsArePast'
<1>1. ASSUME NEW r \in Runs PROVE TurnsOwnTheirRuns' /\ RefsArePast'
  <2>1. /\ turn'[r].phase # "none" =>
               /\ runs'[r].status \in ActiveRunStatuses
               /\ runs'[r].owner = runs[r].owner
               /\ runs'[r].attempt = runs[r].attempt
        /\ runs'[r].ref <= runs'[r].attempt
    BY DEF ExecIInv, TurnsOwnTheirRuns, RefsArePast, Kept, TurnKept
  <2> QED BY <2>1, HoldStep
<1> QED BY <1>1 DEF TurnsOwnTheirRuns, RefsArePast

(* The run of a live call.                                                   *)
LEMMA LiveCall ==
    ASSUME ExecIInv, NEW x \in Ops, Live(x)
    PROVE  /\ RunOf(x) \in Runs /\ ops[x] \in OpRows /\ ops[x].attempt \in Attempts
           /\ OnTrack(x)
           /\ turn[RunOf(x)].phase = "working"
<1>1. call[x].phase \in CallPhases BY DEF ExecIInv, WorkTypeOK, Calls
<1>2. OnTrack(x) /\ turn[RunOf(x)].phase = "working" BY DEF ExecIInv, CallsOfTurns
<1>3. ops[x].status # "absent"
  BY <1>1, <1>2 DEF Live, OnTrack, CallPhases, Finished, Unfinished, InEffect, AtGate
<1> QED BY <1>2, <1>3, OpRow DEF ExecIInv

(* A step that leaves the calls that stay live, their rows and their turns.  *)
LEMMA CallsHold ==
    ASSUME ExecIInv,
           \A x \in Ops : call'[x].phase \notin Finished =>
               /\ call'[x] = call[x] /\ OpKept(x)
               /\ TurnKept(RunOf(x)) /\ turn'[RunOf(x)].phase = "working"
    PROVE  CallsOfTurns'
<1> SUFFICES ASSUME NEW x \in Ops, call'[x].phase \notin Finished
             PROVE  /\ OnTrack(x)'
                    /\ turn'[ops'[x].run].phase = "working"
                    /\ turn'[ops'[x].run].proc = call'[x].proc
                    /\ turn'[ops'[x].run].attempt = ops'[x].attempt
                    /\ (ops'[x].effect # "read_only") <=> call'[x].tool # "reader"
                    /\ call'[x].phase \in {"promoted", "landing"} => call'[x].tool # "reader"
  BY DEF CallsOfTurns, Live, RunOf, IsWrite
<1>1. /\ call'[x] = call[x] /\ OpKept(x) /\ Live(x)
      /\ TurnKept(RunOf(x)) /\ turn'[RunOf(x)].phase = "working"
  BY DEF Live
<1>2. RunOf(x) \in Runs /\ turn[RunOf(x)].phase = "working" BY <1>1, LiveCall
<1>3. /\ OnTrack(x)
      /\ turn[RunOf(x)].proc = call[x].proc
      /\ turn[RunOf(x)].attempt = ops[x].attempt
      /\ IsWrite(ops[x]) <=> call[x].tool # "reader"
      /\ call[x].phase \in {"promoted", "landing"} => call[x].tool # "reader"
  BY <1>1 DEF ExecIInv, CallsOfTurns
<1>4. OnTrack(x)' BY <1>1, <1>3 DEF OnTrack, OpKept
<1>5. /\ turn'[RunOf(x)].proc = turn[RunOf(x)].proc
      /\ turn'[RunOf(x)].attempt = turn[RunOf(x)].attempt
  BY <1>1, <1>2 DEF TurnKept
<1> QED BY <1>1, <1>3, <1>4, <1>5 DEF OpKept, RunOf, IsWrite

(* A step without an effect that forgets none.                               *)
LEMMA EffectsHold ==
    ASSUME ExecIInv, landed' = landed,
           \A x \in Ops : /\ call'[x].phase = "stray" => call[x].phase = "stray"
                          /\ call[x].phase # "none" => call'[x].phase # "none"
                          /\ call[x].phase # "none" /\ Recorded(x) => Recorded(x)'
    PROVE  EffectsKnown'
BY DEF ExecIInv, EffectsKnown

(* Both, for a step that leaves calls and operations alone.                  *)
LEMMA CallsAndEffectsHold ==
    ASSUME ExecIInv, UNCHANGED <<call, landed>>, \A s \in Runs : TurnKept(s), CallsKeepTurns,
           \A x \in Ops : OpKept(x)
    PROVE  CallsOfTurns' /\ EffectsKnown'
<1>1. CallsOfTurns' BY LiveCall, CallsHold DEF CallsKeepTurns, Live
<1>2. EffectsKnown' BY EffectsHold DEF OpKept, Recorded, IsWrite
<1> QED BY <1>1, <1>2

(* Calls keep their turns when no turn stops to work.                        *)
LEMMA WorkingTurns ==
    ASSUME ExecIInv, \A s \in Runs : turn[s].phase = "working" => turn'[s].phase = "working"
    PROVE  CallsKeepTurns
BY LiveCall DEF CallsKeepTurns

------------------------------------------------------------------------------
(* What the transactions of the journal do to the columns, and that a caller *)
(* with a typed fence makes a step of the journal.                           *)

(* A touched row keeps the columns.                                          *)
LEMMA TouchedKeeps ==
    ASSUME TypeOK, NEW r \in Runs, Exists(r), runs' = [runs EXCEPT ![r] = Touched(runs[r])]
    PROVE  \A s \in Runs : Kept(s)
<1>1. runs[r] \in RunRows BY RowTypes
<1>2. /\ runs'[r].status = runs[r].status /\ runs'[r].owner = runs[r].owner
      /\ runs'[r].attempt = runs[r].attempt /\ runs'[r].ref = runs[r].ref
  BY <1>1 DEF TypeOK, Touched, RunRows
<1>3. \A s \in Runs : s # r => runs'[s] = runs[s] BY DEF TypeOK
<1> QED BY <1>2, <1>3 DEF Kept

(* prepare_operation, called with the fence of an owner.                     *)
LEMMA PrepareOperationKeeps ==
    ASSUME TypeOK, NEW x \in Ops, NEW r \in Runs, NEW o \in Owners, NEW a \in Attempts,
           NEW effect \in EffectClasses, PrepareOperation(x, r, o, a, effect)
    PROVE  /\ Next
           /\ \A s \in Runs : Kept(s)
           /\ \A y \in Ops : y # x => OpKept(y)
           /\ ops[x].status = "absent"
           /\ ops'[x].status = "prepared" /\ ops'[x].run = r
           /\ ops'[x].attempt = a /\ ops'[x].effect = effect
<1>1. Next BY DEF Next, OperationStep
<1>2. \A s \in Runs : Kept(s) BY TouchedKeeps DEF PrepareOperation, Owns
<1>3. \A y \in Ops : y # x => OpKept(y) BY DEF PrepareOperation, TypeOK, OpKept
<1> QED BY <1>1, <1>2, <1>3 DEF PrepareOperation, TypeOK

(* transition_operation.                                                     *)
LEMMA TransitionOperationKeeps ==
    ASSUME TypeOK, NEW x \in Ops, NEW to \in OperationStatuses, NEW o \in Owners,
           NEW a, NEW result \in Results, TransitionOperation(x, to, o, a, result)
    PROVE  /\ Next
           /\ \A s \in Runs : Kept(s)
           /\ \A y \in Ops : y # x => OpKept(y)
           /\ ops'[x].status = to /\ ops'[x].run = ops[x].run
           /\ ops'[x].attempt = ops[x].attempt /\ ops'[x].effect = ops[x].effect
<1>1. RunOf(x) \in Runs /\ ops[x].attempt \in Attempts BY OpRow DEF TransitionOperation
<1>2. a \in Attempts BY <1>1 DEF TransitionOperation
<1>3. Next BY <1>2 DEF Next, OperationStep
<1>4. \A s \in Runs : Kept(s)
  BY <1>1, TouchedKeeps DEF TransitionOperation, Owns, RunOf
<1>5. \A y \in Ops : y # x => OpKept(y) BY DEF TransitionOperation, TypeOK, OpKept
<1>6. ops[x] \in OpRows BY OpRow DEF TransitionOperation
<1>7. /\ ops'[x].status = to /\ ops'[x].run = ops[x].run
      /\ ops'[x].attempt = ops[x].attempt /\ ops'[x].effect = ops[x].effect
  BY <1>6 DEF TransitionOperation, TypeOK, OpRows
<1> QED BY <1>3, <1>4, <1>5, <1>7

(* promote_operation_to_verifiable_write.                                    *)
LEMMA PromoteOperationKeeps ==
    ASSUME TypeOK, NEW x \in Ops, NEW o \in Owners, NEW a, PromoteOperation(x, o, a)
    PROVE  /\ Next
           /\ \A s \in Runs : Kept(s)
           /\ \A y \in Ops : y # x => OpKept(y)
           /\ ops'[x].status = ops[x].status /\ ops'[x].run = ops[x].run
           /\ ops'[x].attempt = ops[x].attempt /\ ops'[x].effect = "verifiable_write"
<1>1. RunOf(x) \in Runs /\ ops[x].attempt \in Attempts BY OpRow DEF PromoteOperation
<1>2. a \in Attempts BY <1>1 DEF PromoteOperation
<1>3. Next BY <1>2 DEF Next, OperationStep
<1>4. \A s \in Runs : Kept(s)
  BY <1>1, TouchedKeeps DEF PromoteOperation, Owns, RunOf
<1>5. \A y \in Ops : y # x => OpKept(y) BY DEF PromoteOperation, TypeOK, OpKept
<1>6. ops[x] \in OpRows BY OpRow DEF PromoteOperation
<1>7. /\ ops'[x].status = ops[x].status /\ ops'[x].run = ops[x].run
      /\ ops'[x].attempt = ops[x].attempt /\ ops'[x].effect = "verifiable_write"
  BY <1>6 DEF PromoteOperation, TypeOK, OpRows
<1> QED BY <1>3, <1>4, <1>5, <1>7

(* _record_unknown_operation_verification.                                   *)
LEMMA RecordUnknownKeeps ==
    ASSUME TypeOK, NEW x \in Ops, NEW o \in Owners, NEW a, RecordUnknownVerification(x, o, a)
    PROVE  Next /\ (\A s \in Runs : Kept(s)) /\ (\A y \in Ops : OpKept(y))
<1>1. RunOf(x) \in Runs /\ ops[x].attempt \in Attempts BY OpRow DEF RecordUnknownVerification
<1>2. a \in Attempts BY <1>1 DEF RecordUnknownVerification
<1>3. Next BY <1>2 DEF Next, OperationStep
<1>4. \A s \in Runs : Kept(s)
  BY <1>1, TouchedKeeps DEF RecordUnknownVerification, Owns, RunOf
<1>5. ops[x] \in OpRows BY OpRow DEF RecordUnknownVerification
<1>6. OpKept(x) BY <1>5 DEF RecordUnknownVerification, TypeOK, OpKept, OpRows
<1>7. \A y \in Ops : y # x => OpKept(y) BY DEF RecordUnknownVerification, TypeOK, OpKept
<1> QED BY <1>3, <1>4, <1>6, <1>7

(* persist_turn_messages and update_conversation.                            *)
LEMMA ConversationKeeps ==
    ASSUME TypeOK,
           \/ \E r \in Runs, more \in {"none", "text", "attached"} : FinalizeTurn(r, more)
           \/ \E c \in Conversations, w \in Workspaces : UpdateConversation(c, w)
    PROVE  Next /\ (\A s \in Runs : Kept(s)) /\ (\A y \in Ops : OpKept(y))
<1>1. Next BY DEF Next, ConversationStep
<1>2. \E c \in Conversations : runs' = Outdated(c)
  <2>1. ASSUME NEW r \in Runs, Exists(r) PROVE runs[r].conv \in Conversations
    BY <2>1, RowTypes DEF RunRows
  <2> QED BY <2>1 DEF FinalizeTurn, UpdateConversation
<1>3. \A s \in Runs : Kept(s) BY <1>2, OutdatedColumns DEF Kept
<1>4. ASSUME NEW y \in Ops PROVE OpKept(y)
  <2>1. CASE ops' = ops BY <2>1 DEF OpKept
  <2>2. CASE ops'[y] = [ops[y] EXCEPT !.sealed = TRUE] \/ ops'[y] = ops[y]
    BY <2>2, RowTypes DEF TypeOK, OpRows, NoOp, OpKept
  <2> QED BY <2>1, <2>2 DEF FinalizeTurn, UpdateConversation
<1> QED BY <1>1, <1>3, <1>4

(* A step that leaves the journal alone.                                     *)
LEMMA UnchangedKeeps ==
    ASSUME UNCHANGED vars
    PROVE  [Next]_vars /\ (\A s \in Runs : Kept(s)) /\ (\A y \in Ops : OpKept(y))
BY DEF vars, Kept, OpKept

(* transition_run, with the attempt of a row that is there.                  *)
LEMMA TransitionRunKeeps ==
    ASSUME TypeOK, NEW r \in Runs, NEW to \in RunStatuses, NEW o \in Owners, NEW a,
           NEW v, NEW ref, ref = 0 \/ (to = "paused" /\ ref \in 0..a),
           TransitionRun(r, to, o, a, v, ref)
    PROVE  /\ Next
           /\ \A s \in Runs : s # r => Kept(s)
           /\ runs'[r].status = to
           /\ to \notin ReleasedStatuses => runs'[r].owner = runs[r].owner
           /\ runs'[r].attempt = runs[r].attempt
           /\ runs'[r].ref = IF ref # 0 THEN ref ELSE runs[r].ref
           /\ to # "interrupted" => \A y \in Ops : OpKept(y)
<1>1. runs[r] \in RunRows /\ a \in Attempts /\ runs[r].attempt = a
  BY RunRow DEF TransitionRun, Owns
<1>2. ref \in 0..a BY <1>1, BoundsAssumption DEF Attempts
<1>3. Next
  <2>1. v = runs[r].revision BY DEF TransitionRun
  <2>2. TransitionRun(r, to, o, a, runs[r].revision, ref) BY <2>1 DEF TransitionRun
  <2> QED BY <1>1, <1>2, <2>2 DEF Next, RunStep
<1>4. \A s \in Runs : s # r => Kept(s) BY DEF TransitionRun, TypeOK, Kept
<1>5. /\ runs'[r].status = to
      /\ to \notin ReleasedStatuses => runs'[r].owner = runs[r].owner
      /\ runs'[r].attempt = runs[r].attempt
      /\ runs'[r].ref = IF ref # 0 THEN ref ELSE runs[r].ref
  BY <1>1 DEF TransitionRun, TypeOK, StatusAfter, RunRows
<1>6. to # "interrupted" => \A y \in Ops : OpKept(y) BY DEF TransitionRun, OpKept
<1> QED BY <1>3, <1>4, <1>5, <1>6

(* persist_recovery_input sets the input of the attempt that holds the run.  *)
LEMMA PersistInputKeeps ==
    ASSUME TypeOK, NEW r \in Runs, NEW o \in Owners, NEW a \in Attempts,
           NEW users \in {"text", "attached"}, PersistRecoveryInput(r, o, a, users)
    PROVE  /\ Next
           /\ \A s \in Runs : s # r => Kept(s)
           /\ runs'[r].status = runs[r].status /\ runs'[r].owner = runs[r].owner
           /\ runs'[r].attempt = runs[r].attempt /\ runs'[r].ref = runs'[r].attempt
           /\ \A y \in Ops : OpKept(y)
<1>1. Next BY DEF Next, RunStep
<1>o. \A y \in Ops : OpKept(y) BY DEF PersistRecoveryInput, OpKept
<1>2. runs[r] \in RunRows /\ runs[r].attempt = a /\ runs[r].conv \in Conversations
  BY RowTypes DEF PersistRecoveryInput, Owns, RunRows
<1>3. \A s \in Runs : s # r => runs'[s] = Outdated(runs[r].conv)[s]
  BY DEF PersistRecoveryInput, Outdated
<1>4. \A s \in Runs : s # r => Kept(s) BY <1>2, <1>3, OutdatedColumns DEF Kept
<1>5. runs'[r] = [Touched(runs[r]) EXCEPT !.ref = a]
  BY DEF PersistRecoveryInput, Outdated
<1> QED BY <1>o, <1>1, <1>2, <1>4, <1>5 DEF Touched, RunRows

(* renew_lease.                                                              *)
LEMMA RenewLeaseKeeps ==
    ASSUME TypeOK, NEW r \in Runs, NEW o \in Owners, NEW a \in Attempts, RenewLease(r, o, a)
    PROVE  Next /\ (\A s \in Runs : Kept(s)) /\ (\A y \in Ops : OpKept(y))
<1>1. Next BY DEF Next, RunStep
<1>2. runs[r] \in RunRows BY RowTypes DEF RenewLease, Owns
<1>3. \A s \in Runs : s # r => runs'[s] = runs[s] BY DEF RenewLease, TypeOK
<1>4. runs'[r].status = runs[r].status /\ runs'[r].owner = runs[r].owner
      /\ runs'[r].attempt = runs[r].attempt /\ runs'[r].ref = runs[r].ref
  BY <1>2 DEF RenewLease, TypeOK, RunRows
<1>5. \A y \in Ops : OpKept(y) BY DEF RenewLease, OpKept
<1> QED BY <1>1, <1>3, <1>4, <1>5 DEF Kept

(* create_run.                                                               *)
LEMMA CreateRunKeeps ==
    ASSUME TypeOK, NEW r \in Runs, NEW c \in Conversations, NEW o \in Owners,
           CreateRun(r, c, convs[c].ws, o)
    PROVE  /\ Next
           /\ \A s \in Runs : s # r => Kept(s)
           /\ runs'[r].status = "running" /\ runs'[r].owner = o
           /\ runs'[r].attempt = 1 /\ runs'[r].ref = 0
           /\ \A y \in Ops : OpKept(y)
<1>1. convs[c].ws \in Workspaces BY DEF TypeOK
<1>2. Next BY <1>1 DEF Next, RunStep
<1> QED BY <1>2 DEF CreateRun, TypeOK, Kept, OpKept

(* claim_run.                                                                *)
LEMMA ClaimRunKeeps ==
    ASSUME TypeOK, NEW r \in Runs, NEW o \in Owners, ClaimRun(r, o, runs[r].revision)
    PROVE  /\ Next
           /\ \A s \in Runs : s # r => Kept(s)
           /\ runs[r] \in RunRows
           /\ runs'[r].status = "running" /\ runs'[r].owner = o
           /\ runs'[r].attempt = runs[r].attempt + 1 /\ runs[r].attempt + 1 \in Attempts
           /\ runs'[r].ref = runs[r].ref
           /\ \A y \in Ops : OpKept(y)
<1>1. Next BY DEF Next, RunStep
<1>o. \A y \in Ops : OpKept(y) BY DEF ClaimRun, OpKept
<1>2. runs[r] \in RunRows BY RowTypes DEF ClaimRun
<1>3. runs[r].attempt + 1 \in Attempts
  BY <1>2, BoundsAssumption DEF ClaimRun, RunRows, Attempts
<1>4. runs'[r] = [Touched(runs[r]) EXCEPT !.status = "running", !.owner = o, !.lease = TRUE,
                                          !.attempt = runs[r].attempt + 1]
  BY DEF ClaimRun, TypeOK
<1>5. \A s \in Runs : s # r => Kept(s) BY DEF ClaimRun, TypeOK, Kept
<1> QED BY <1>o, <1>1, <1>2, <1>3, <1>4, <1>5 DEF Touched, RunRows

(* release_expired_run.                                                      *)
LEMMA ReleaseKeeps ==
    ASSUME TypeOK, NEW r \in Runs, NEW old \in Owners, NEW new \in Owners, NEW v,
           ReleaseExpiredRun(r, old, new, runs[r].attempt, v)
    PROVE  /\ Next
           /\ \A s \in Runs : s # r => Kept(s)
           /\ runs[r].owner = old
           /\ runs'[r].attempt = runs[r].attempt /\ runs'[r].ref = runs[r].ref
           /\ \A y \in Ops : OpKept(y) \/ (RunOf(y) = r /\ (Recorded(y) => Recorded(y)'))
<1>1. runs[r] \in RunRows /\ runs[r].attempt \in Attempts /\ v = runs[r].revision
  BY RunRow DEF ReleaseExpiredRun, Owns
<1>2. Next BY <1>1 DEF Next, RunStep
<1>3. \A s \in Runs : s # r => Kept(s) BY DEF ReleaseExpiredRun, TypeOK, Kept
<1>4. runs'[r].attempt = runs[r].attempt /\ runs'[r].ref = runs[r].ref
  BY <1>1 DEF ReleaseExpiredRun, TypeOK, RunRows
<1>5. ASSUME NEW y \in Ops PROVE OpKept(y) \/ (RunOf(y) = r /\ (Recorded(y) => Recorded(y)'))
  <2>1. CASE y \in Interruptible(r)
    <3>1. ops'[y] = Reconciled(ops[y]) BY <2>1 DEF ReleaseExpiredRun, OpsReconciled
    <3>2. ops[y] \in OpRows /\ RunOf(y) = r
          /\ ops[y].status \in {"prepared", "authorized", "executing"}
      BY <2>1, RowTypes DEF Interruptible, OpsOf, RunOf
    <3>3. ops[y].status = "executing" /\ IsWrite(ops[y]) =>
              ops'[y].status = "uncertain" /\ ops'[y].effect = ops[y].effect
      BY <3>1, <3>2 DEF Reconciled, OpRows
    <3> QED BY <3>2, <3>3 DEF Recorded, IsWrite
  <2>2. CASE y \notin Interruptible(r)
    BY <2>2 DEF ReleaseExpiredRun, OpsReconciled, OpKept
  <2> QED BY <2>1, <2>2
<1> QED BY <1>2, <1>3, <1>4, <1>5 DEF ReleaseExpiredRun, Owns

(* delete_conversation takes no run that has an owner.                       *)
LEMMA DeleteKeeps ==
    ASSUME TypeOK, NEW c \in Conversations, NEW w \in Workspaces, DeleteConversation(c, w)
    PROVE  /\ Next
           /\ \A s \in Runs : \/ Kept(s)
                              \/ runs[s].status \notin LeasedStatuses /\ runs'[s] = NoRun
           /\ \A y \in Ops : \/ OpKept(y)
                             \/ /\ RunOf(y) \in Runs
                                /\ runs[RunOf(y)].status \notin LeasedStatuses
                                /\ ops'[y] = NoOp
<1>1. Next BY DEF Next, ConversationStep
<1> QED BY <1>1 DEF DeleteConversation, Deletable, Kept, OpKept, RunOf

------------------------------------------------------------------------------
(* The steps of a turn.                                                      *)

(* A change of one turn, whose step leaves the calls and the processes alone.*)
LEMMA OneTurn ==
    ASSUME ExecIInv, UNCHANGED <<call, landed, procVars>>, NEW r \in Runs,
           turn' = [turn EXCEPT ![r] = turn'[r]],
           \/ turn'[r] = NoTurnAlive
           \/ /\ turn[r].phase # "none"
              /\ turn'[r] \in TurnsAlive
              /\ turn'[r].proc = turn[r].proc
              /\ turn'[r].attempt = turn[r].attempt
              /\ turn'[r].input = turn[r].input
    PROVE  WorkTypeOK' /\ \A s \in Runs : TurnKept(s)
<1>1. proc' = proc BY DEF procVars
<1>2. \A s \in Runs : s # r => turn'[s] = turn[s] BY DEF ExecIInv, WorkTypeOK
<1>3. \A s \in Runs : turn[s].phase # "none" => proc[turn[s].proc] = "up" BY LiveTurn
<1>4. \A s \in Runs : TurnKept(s)
  BY <1>1, <1>2, <1>3 DEF TurnKept, NoTurnAlive
<1>5. WorkTypeOK' BY DEF ExecIInv, WorkTypeOK, procVars
<1> QED BY <1>4, <1>5

(* The turn asks the journal to move its run, and stays or goes.             *)
LEMMA MoveKeeps ==
    ASSUME ExecIInv, NEW r \in Runs, NEW to \in RunStatuses, to # "interrupted",
           turn[r].phase # "none", NEW ref, ref = 0 \/ (to = "paused" /\ ref = turn[r].input),
           Move(r, to, ref), \A s \in Runs : TurnKept(s),
           to \in ActiveRunStatuses \/ turn'[r].phase = "none"
    PROVE  Next /\ TurnsOwnTheirRuns' /\ RefsArePast' /\ (\A y \in Ops : OpKept(y))
<1>1. /\ turn[r].proc \in Owners /\ turn[r].attempt = runs[r].attempt
      /\ turn[r].input \in 0..turn[r].attempt
  BY LiveTurn DEF Owns
<1>2. /\ Next
      /\ \A s \in Runs : s # r => Kept(s)
      /\ runs'[r].status = to
      /\ to \notin ReleasedStatuses => runs'[r].owner = runs[r].owner
      /\ runs'[r].attempt = runs[r].attempt
      /\ runs'[r].ref = IF ref # 0 THEN ref ELSE runs[r].ref
      /\ \A y \in Ops : OpKept(y)
  <2>1. PICK o \in Owners, a \in Attempts, v \in 1..MaxRevision :
               o = turn[r].proc /\ a = turn[r].attempt /\ v = runs[r].revision
    BY <1>1, LiveTurn DEF RunRows
  <2>2. TransitionRun(r, to, o, a, v, ref)
    BY <2>1 DEF Move, TransitionRun, Owns
  <2>3. ref = 0 \/ (to = "paused" /\ ref \in 0..a) BY <1>1, <2>1
  <2> QED BY <2>2, <2>3, TransitionRunKeeps DEF ExecIInv
<1>3. runs'[r].ref <= runs'[r].attempt
  BY <1>1, <1>2, RunRow DEF ExecIInv, RefsArePast
<1>4. turn'[r].phase # "none" =>
               /\ runs'[r].status \in ActiveRunStatuses
               /\ runs'[r].owner = runs[r].owner
               /\ runs'[r].attempt = runs[r].attempt
  BY <1>2 DEF ActiveRunStatuses, ReleasedStatuses, TerminalStatuses
<1>5. TurnsOwnTheirRuns' /\ RefsArePast' BY <1>2, <1>3, <1>4, HoldStep
<1> QED BY <1>2, <1>5

(* Such a move by the task of the turn.                                      *)
LEMMA MoveStep ==
    ASSUME ExecIInv, UNCHANGED <<call, landed, procVars>>, NEW r \in Runs, NEW to \in RunStatuses,
           to # "interrupted", CallsKeepTurns, turn[r].phase # "none",
           NEW ref, ref = 0 \/ (to = "paused" /\ ref = turn[r].input),
           Move(r, to, ref), WorkTypeOK', \A s \in Runs : TurnKept(s),
           to \in ActiveRunStatuses \/ turn'[r].phase = "none"
    PROVE  Implements
<1>1. Next /\ TurnsOwnTheirRuns' /\ RefsArePast' /\ (\A y \in Ops : OpKept(y)) BY MoveKeeps
<1>2. CallsOfTurns' /\ EffectsKnown' BY <1>1, CallsAndEffectsHold
<1> QED BY <1>1, <1>2 DEF Implements

(* A step of the turn alone.                                                 *)
LEMMA QuietTurnStep ==
    ASSUME ExecIInv, UNCHANGED <<call, landed>>, [Next]_vars, \A s \in Runs : Kept(s),
           WorkTypeOK', \A s \in Runs : TurnKept(s), CallsKeepTurns, \A y \in Ops : OpKept(y)
    PROVE  Implements
BY HoldAll, CallsAndEffectsHold DEF Implements

(* A turn that goes away.                                                    *)
LEMMA EndedTurn ==
    ASSUME ExecIInv, UNCHANGED <<call, landed, procVars>>, NEW r \in Runs, Ended(r)
    PROVE  /\ WorkTypeOK'
           /\ \A s \in Runs : TurnKept(s)
           /\ turn'[r].phase = "none"
           /\ turn[r].phase # "working" => CallsKeepTurns
<1>1. turn' = [turn EXCEPT ![r] = turn'[r]] /\ turn'[r] = NoTurnAlive
  BY DEF Ended, ExecIInv, WorkTypeOK
<1>2. turn'[r].phase = "none" BY <1>1 DEF NoTurnAlive
<1>3. \A s \in Runs : s # r => turn'[s] = turn[s] BY <1>1 DEF ExecIInv, WorkTypeOK
<1>4. turn[r].phase # "working" => CallsKeepTurns BY <1>3, WorkingTurns
<1> QED BY <1>1, <1>2, <1>4, OneTurn

(* A live turn whose phase, outcome or flags change.                         *)
StillHolds(r) ==
    /\ turn' = [turn EXCEPT ![r] = turn'[r]]
    /\ turn[r].phase # "none"
    /\ turn'[r] \in TurnsAlive
    /\ turn'[r].proc = turn[r].proc
    /\ turn'[r].attempt = turn[r].attempt
    /\ turn'[r].input = turn[r].input

LEMMA ChangedTurn ==
    ASSUME ExecIInv, UNCHANGED <<call, landed, procVars>>, NEW r \in Runs, StillHolds(r)
    PROVE  /\ WorkTypeOK'
           /\ \A s \in Runs : TurnKept(s)
           /\ (turn[r].phase = "working" => turn'[r].phase = "working") => CallsKeepTurns
<1>1. \A s \in Runs : s # r => turn'[s] = turn[s] BY DEF StillHolds, ExecIInv, WorkTypeOK
<1> QED BY <1>1, OneTurn, WorkingTurns DEF StillHolds

(* A turn starts on a run it creates or claims, in a process that is up.     *)
LEMMA StartTurnStep ==
    ASSUME ExecIInv, NEW r \in Runs, NEW o \in Owners, StartTurn(r, o)
    PROVE  Implements
<1>0. TypeOK /\ proc' = proc /\ proc[o] = "up" /\ turn[r].phase = "none"
  BY DEF ExecIInv, StartTurn, procVars, Resume, BeginTurn
<1>1. \E phase \in {"starting", "queued"}, a \in Attempts, input \in Attempts :
        /\ input <= a
        /\ turn' = [turn EXCEPT ![r] = TurnStarted(phase, o, a, input)]
        /\ runs'[r].owner = o /\ runs'[r].attempt = a /\ runs'[r].status = "running"
        /\ runs'[r].ref <= a
        /\ Next /\ (\A s \in Runs : s # r => Kept(s)) /\ (\A y \in Ops : OpKept(y))
  <2>1. CASE Resume(r, o)
    <3>1. ClaimRun(r, o, runs[r].revision) BY <2>1 DEF Resume
    <3>2. turn' = [turn EXCEPT ![r] = TurnStarted("queued", o, runs[r].attempt + 1, InputTurn(r))]
      BY <2>1 DEF Resume
    <3>3. runs[r].attempt \in Attempts /\ runs[r].ref \in 0..MaxAttempt
          /\ runs[r].ref <= runs[r].attempt
      BY <1>0, <3>1, RunRow DEF ClaimRun, ExecIInv, RefsArePast
    <3>4. InputTurn(r) \in Attempts /\ InputTurn(r) <= runs[r].attempt + 1
          /\ runs[r].ref <= runs[r].attempt + 1
      BY <3>3, BoundsAssumption DEF InputTurn, Attempts
    <3> QED BY <1>0, <3>1, <3>2, <3>4, ClaimRunKeeps
  <2>2. CASE \E c \in Conversations : BeginTurn(r, c, o)
    <3>1. PICK c \in Conversations : BeginTurn(r, c, o) BY <2>2
    <3>2. CreateRun(r, c, convs[c].ws, o) BY <3>1 DEF BeginTurn
    <3>3. turn' = [turn EXCEPT ![r] = TurnStarted("starting", o, 1, 1)] BY <3>1 DEF BeginTurn
    <3>4. 1 \in Attempts /\ 1 <= 1 /\ 0 <= 1 BY BoundsAssumption DEF Attempts
    <3> QED BY <1>0, <3>2, <3>3, <3>4, CreateRunKeeps
  <2> QED BY <2>1, <2>2 DEF StartTurn
<1>2. PICK phase \in {"starting", "queued"}, a \in Attempts, input \in Attempts :
        /\ input <= a
        /\ turn' = [turn EXCEPT ![r] = TurnStarted(phase, o, a, input)]
        /\ runs'[r].owner = o /\ runs'[r].attempt = a /\ runs'[r].status = "running"
        /\ runs'[r].ref <= a
        /\ Next /\ (\A s \in Runs : s # r => Kept(s)) /\ (\A y \in Ops : OpKept(y))
  BY <1>1
<1>3. turn'[r] = TurnStarted(phase, o, a, input) /\ \A s \in Runs : s # r => turn'[s] = turn[s]
  BY <1>2 DEF ExecIInv, WorkTypeOK
<1>4. /\ TurnStarted(phase, o, a, input) \in TurnsAlive
      /\ turn'[r].proc = o /\ turn'[r].attempt = a /\ turn'[r].input = input
  BY <1>3 DEF TurnStarted, NoTurnAlive, TurnsAlive, Phases, Outcomes
<1>5. WorkTypeOK'
  BY <1>2, <1>4 DEF ExecIInv, WorkTypeOK, StartTurn, procVars
<1>6. ASSUME NEW s \in Runs, turn'[s].phase # "none"
      PROVE  /\ proc'[turn'[s].proc] = "up"
             /\ Owns(s, turn[s].proc, turn[s].attempt)'
             /\ runs'[s].status \in ActiveRunStatuses
             /\ turn'[s].input <= turn'[s].attempt
  <2>1. CASE s = r
    BY <2>1, <1>0, <1>2, <1>4 DEF Owns, Exists, ActiveRunStatuses
  <2>2. CASE s # r
    <3>1. turn'[s] = turn[s] /\ Kept(s) BY <2>2, <1>2, <1>3
    <3>2. turn[s].phase # "none" BY <1>6, <3>1
    <3> QED BY <1>0, <3>1, <3>2 DEF ExecIInv, TurnsOwnTheirRuns, RefsArePast, Kept, Owns, Exists
  <2> QED BY <2>1, <2>2
<1>7. ASSUME NEW s \in Runs PROVE runs'[s].ref <= runs'[s].attempt
  BY <1>2 DEF ExecIInv, RefsArePast, Kept
<1>8. \A s \in Runs : TurnKept(s) \/ s = r
  BY <1>0, <1>3, LiveTurn DEF TurnKept
<1>9. ASSUME NEW x \in Ops, call'[x].phase \notin Finished
      PROVE  /\ call'[x] = call[x] /\ OpKept(x)
             /\ TurnKept(RunOf(x)) /\ turn'[RunOf(x)].phase = "working"
  <2>1. call'[x] = call[x] /\ Live(x) BY <1>9 DEF StartTurn, Live
  <2>2. RunOf(x) \in Runs /\ RunOf(x) # r BY <1>0, <2>1, LiveCall
  <2> QED BY <1>2, <1>3, <1>8, <2>1, <2>2, LiveCall
<1>10. CallsOfTurns' BY <1>9, CallsHold
<1>11. EffectsKnown' BY <1>2, EffectsHold DEF StartTurn, OpKept, Recorded, IsWrite
<1> QED BY <1>2, <1>5, <1>6, <1>7, <1>10, <1>11 DEF Implements, TurnsOwnTheirRuns, RefsArePast

(* The lease of a turn comes and goes.                                       *)
LEMMA LeaseSteps ==
    ASSUME ExecIInv, NEW r \in Runs, LeaseStep(r)
    PROVE  Implements
<1>0. UNCHANGED <<call, landed, procVars>> /\ TypeOK BY DEF LeaseStep, ExecIInv
<1>1. turn[r].phase # "none" BY DEF LeaseStep, LeaseExpires, Heartbeat, HeartbeatFails, HasLifecycle
<1>2. turn[r] \in TurnsAlive BY <1>1, LiveTurn
<1>3. WorkTypeOK' /\ (\A s \in Runs : TurnKept(s)) /\ CallsKeepTurns
  <2>0. \A f \in BOOLEAN : /\ [turn[r] EXCEPT !.expired = f] \in TurnsAlive
                            /\ [turn[r] EXCEPT !.lost = f] \in TurnsAlive
    BY <1>2 DEF TurnsAlive
  <2>1. \/ turn' = [turn EXCEPT ![r] = [turn[r] EXCEPT !.expired = TRUE]]
        \/ turn' = [turn EXCEPT ![r] = [turn[r] EXCEPT !.expired = FALSE]]
        \/ turn' = [turn EXCEPT ![r] = [turn[r] EXCEPT !.lost = TRUE]]
    BY DEF LeaseStep, LeaseExpires, Heartbeat, HeartbeatFails
  <2>2. \/ turn'[r] = [turn[r] EXCEPT !.expired = TRUE]
        \/ turn'[r] = [turn[r] EXCEPT !.expired = FALSE]
        \/ turn'[r] = [turn[r] EXCEPT !.lost = TRUE]
    BY <2>1 DEF ExecIInv, WorkTypeOK
  <2>3. /\ turn'[r] \in TurnsAlive /\ turn'[r].proc = turn[r].proc
        /\ turn'[r].attempt = turn[r].attempt /\ turn'[r].input = turn[r].input
        /\ turn'[r].phase = turn[r].phase
    BY <1>2, <2>0, <2>2, ZenonT(30) DEF TurnsAlive
  <2>4. turn' = [turn EXCEPT ![r] = turn'[r]] BY <2>1, <2>2 DEF ExecIInv, WorkTypeOK
  <2>5. StillHolds(r) BY <1>1, <2>3, <2>4 DEF StillHolds
  <2> QED BY <1>0, <2>3, <2>5, ChangedTurn
<1>4. [Next]_vars /\ (\A s \in Runs : Kept(s)) /\ (\A y \in Ops : OpKept(y))
  <2>1. CASE UNCHANGED vars BY <2>1, UnchangedKeeps
  <2>2. CASE Heartbeat(r)
    <3>1. PICK o \in Owners, a \in Attempts : o = turn[r].proc /\ a = turn[r].attempt
      BY <1>1, LiveTurn
    <3>2. RenewLease(r, o, a) BY <2>2, <3>1 DEF Heartbeat, RenewLease, Owns
    <3> QED BY <1>0, <3>2, RenewLeaseKeeps
  <2> QED BY <2>1, <2>2 DEF LeaseStep, LeaseExpires, HeartbeatFails
<1> QED BY <1>0, <1>3, <1>4, QuietTurnStep

(* A phase, an outcome or a flag of a live turn that changes keeps it typed. *)
LEMMA TypedChanges ==
    ASSUME ExecIInv, NEW r \in Runs, turn[r].phase # "none"
    PROVE  /\ \A p \in Phases \ {"none"} : [turn[r] EXCEPT !.phase = p] \in TurnsAlive
           /\ \A p \in Phases \ {"none"}, out \in Outcomes \cup {"none"} :
                [turn[r] EXCEPT !.phase = p, !.outcome = out] \in TurnsAlive
           /\ [turn[r] EXCEPT !.pause = TRUE] \in TurnsAlive
           /\ [turn[r] EXCEPT !.pause = TRUE, !.lost = TRUE] \in TurnsAlive
           /\ [turn[r] EXCEPT !.review = TRUE] \in TurnsAlive
           /\ \A f \in BOOLEAN : [turn[r] EXCEPT !.lost = f] \in TurnsAlive
<1>1. turn[r] \in TurnsAlive BY LiveTurn
<1> QED BY <1>1 DEF TurnsAlive

(* The user drops, pauses or sends the input of a turn.                      *)
LEMMA ChoiceSteps ==
    ASSUME ExecIInv, NEW r \in Runs, ChoiceStep(r)
    PROVE  Implements
<1>0. UNCHANGED <<call, landed, procVars>> /\ TypeOK BY DEF ChoiceStep, ExecIInv
<1>1. turn[r].phase # "none"
  BY DEF ChoiceStep, RejectQueued, CancelQueued, RequestPause, HasLifecycle, PersistInput
<1>2. turn[r] \in TurnsAlive BY <1>1, LiveTurn
<1>3. CASE RejectQueued(r)
  <2>1. Move(r, "failed", 0) /\ Ended(r) /\ turn[r].phase # "working" BY <1>3 DEF RejectQueued
  <2>2. "failed" \in RunStatuses BY DEF RunStatuses, ReleasedStatuses, TerminalStatuses
  <2> QED BY <1>0, <1>1, <2>1, <2>2, EndedTurn, MoveStep
<1>4. CASE CancelQueued(r)
  <2>1. UNCHANGED vars /\ Ended(r) /\ turn[r].phase # "working" BY <1>4 DEF CancelQueued
  <2> QED BY <1>0, <2>1, EndedTurn, UnchangedKeeps, QuietTurnStep
<1>5. CASE RequestPause(r)
  <2>1. CASE Move(r, "pausing", 0) /\ turn' = [turn EXCEPT ![r].pause = TRUE]
    <3>1. turn'[r] = [turn[r] EXCEPT !.pause = TRUE]
      BY <2>1 DEF ExecIInv, WorkTypeOK
    <3>2. turn' = [turn EXCEPT ![r] = turn'[r]] BY <2>1, <3>1 DEF ExecIInv, WorkTypeOK
    <3>3. turn'[r] \in TurnsAlive BY <1>1, <3>1, TypedChanges
    <3>4. StillHolds(r) BY <1>1, <1>2, <3>1, <3>2, <3>3 DEF StillHolds, TurnsAlive
    <3>5. turn'[r].phase = turn[r].phase BY <1>2, <3>1 DEF TurnsAlive
    <3>6. WorkTypeOK' /\ (\A s \in Runs : TurnKept(s)) /\ CallsKeepTurns
      BY <1>0, <3>4, <3>5, ChangedTurn
    <3>7. "pausing" \in RunStatuses /\ "pausing" \in ActiveRunStatuses
      BY DEF RunStatuses, LeasedStatuses, ActiveRunStatuses
    <3> QED BY <1>0, <1>1, <2>1, <3>6, <3>7, MoveStep
  <2>2. CASE UNCHANGED vars /\ turn' = [turn EXCEPT ![r].pause = TRUE, ![r].lost = TRUE]
    <3>1. turn'[r] = [turn[r] EXCEPT !.pause = TRUE, !.lost = TRUE]
      BY <2>2 DEF ExecIInv, WorkTypeOK
    <3>2. turn' = [turn EXCEPT ![r] = turn'[r]] BY <2>2, <3>1 DEF ExecIInv, WorkTypeOK
    <3>3. turn'[r] \in TurnsAlive BY <1>1, <3>1, TypedChanges
    <3>4. StillHolds(r) BY <1>1, <1>2, <3>1, <3>2, <3>3 DEF StillHolds, TurnsAlive
    <3>5. turn'[r].phase = turn[r].phase BY <1>2, <3>1 DEF TurnsAlive
    <3>6. WorkTypeOK' /\ (\A s \in Runs : TurnKept(s)) /\ CallsKeepTurns
      BY <1>0, <3>4, <3>5, ChangedTurn
    <3> QED BY <1>0, <2>2, <3>6, UnchangedKeeps, QuietTurnStep
  <2>3. CASE UNCHANGED vars /\ turn' = [turn EXCEPT ![r].pause = TRUE]
    <3>1. turn'[r] = [turn[r] EXCEPT !.pause = TRUE]
      BY <2>3 DEF ExecIInv, WorkTypeOK
    <3>2. turn' = [turn EXCEPT ![r] = turn'[r]] BY <2>3, <3>1 DEF ExecIInv, WorkTypeOK
    <3>3. turn'[r] \in TurnsAlive BY <1>1, <3>1, TypedChanges
    <3>4. StillHolds(r) BY <1>1, <1>2, <3>1, <3>2, <3>3 DEF StillHolds, TurnsAlive
    <3>5. turn'[r].phase = turn[r].phase BY <1>2, <3>1 DEF TurnsAlive
    <3>6. WorkTypeOK' /\ (\A s \in Runs : TurnKept(s)) /\ CallsKeepTurns
      BY <1>0, <3>4, <3>5, ChangedTurn
    <3> QED BY <1>0, <2>3, <3>6, UnchangedKeeps, QuietTurnStep
  <2> QED BY <1>5, <2>1, <2>2, <2>3 DEF RequestPause
<1>6. CASE \E users \in UserInputs : PersistInput(r, users)
  <2>1. PICK users \in UserInputs : PersistInput(r, users) BY <1>6
  <2>2. PICK o \in Owners : o = turn[r].proc BY <1>1, LiveTurn
  <2>3. PersistRecoveryInput(r, o, 1, users) /\ turn' = turn
    BY <2>1, <2>2 DEF PersistInput, PersistRecoveryInput, Owns
  <2>4. 1 \in Attempts /\ users \in {"text", "attached"}
    BY BoundsAssumption, InputsAssumption DEF Attempts
  <2>5. /\ Next
        /\ \A s \in Runs : s # r => Kept(s)
        /\ runs'[r].status = runs[r].status /\ runs'[r].owner = runs[r].owner
        /\ runs'[r].attempt = runs[r].attempt /\ runs'[r].ref = runs'[r].attempt
        /\ \A y \in Ops : OpKept(y)
    BY <1>0, <2>3, <2>4, PersistInputKeeps
  <2>6. StillHolds(r)
    BY <1>1, <1>2, <2>3 DEF StillHolds, ExecIInv, WorkTypeOK
  <2>7. WorkTypeOK' /\ (\A s \in Runs : TurnKept(s)) /\ CallsKeepTurns
    BY <1>0, <2>3, <2>6, ChangedTurn
  <2>8. runs[r].status \in ActiveRunStatuses BY <1>1, LiveTurn
  <2>9. runs'[r].ref <= runs'[r].attempt
    BY <1>0, <2>5, RunRow
  <2>10. CallsOfTurns' /\ EffectsKnown' BY <1>0, <2>5, <2>7, CallsAndEffectsHold
  <2> QED BY <2>5, <2>7, <2>8, <2>9, <2>10, HoldStep DEF Implements
<1> QED BY <1>3, <1>4, <1>5, <1>6 DEF ChoiceStep

(* The turn has its outcome, and the journal accepts it.                     *)
LEMMA FinishStep ==
    ASSUME ExecIInv, UNCHANGED <<call, landed, procVars>>, NEW r \in Runs, Finish(r)
    PROVE  Implements
<1>1. turn[r].phase # "none" BY DEF Finish, Closing, MayFinish
<1>2. turn[r] \in TurnsAlive /\ runs[r].status \in ActiveRunStatuses
      /\ turn[r].input \in 0..turn[r].attempt /\ turn[r].attempt \in Attempts
  BY <1>1, LiveTurn
<1>3. Move(r, turn[r].outcome, RefFor(r)) /\ Ended(r) BY DEF Finish
<1>4. turn[r].outcome \in RunStatuses
  BY <1>2, <1>3 DEF Move, TransitionRun, RunTransitions, ActiveRunStatuses, RunStatuses,
                    LeasedStatuses, Quarantined, ReleasedStatuses, TerminalStatuses
<1>5. PICK to \in RunStatuses, ref \in Nat : to = turn[r].outcome /\ ref = RefFor(r)
  BY <1>2, <1>4, BoundsAssumption DEF RefFor, Attempts
<1>6. ref = 0 \/ (to = "paused" /\ ref = turn[r].input) BY <1>5 DEF RefFor
<1>7. Move(r, to, ref) BY <1>3, <1>5 DEF Move, TransitionRun
<1>8. turn[r].phase # "working" BY DEF Finish, Closing, MayFinish
<1>9. to # "interrupted" BY <1>2, <1>5 DEF TurnsAlive, Outcomes
<1> QED BY <1>1, <1>3, <1>6, <1>7, <1>8, <1>9, EndedTurn, MoveStep

(* What the task of a turn gets to.                                          *)
LEMMA TurnSteps ==
    ASSUME ExecIInv, NEW r \in Runs, TurnStep(r)
    PROVE  Implements
<1>0. UNCHANGED <<call, landed, procVars>> /\ TypeOK BY DEF TurnStep, ExecIInv
<1>a. "needs_review" \in RunStatuses /\ "pausing" \in RunStatuses /\ "pausing" \in ActiveRunStatuses
  BY DEF RunStatuses, LeasedStatuses, Quarantined, ActiveRunStatuses
(* One change of phase or outcome, with a quiet step of the journal.         *)
<1>b. ASSUME NEW p \in Phases \ {"none"}, NEW out \in Outcomes \cup {"none"}, turn[r].phase # "none",
             \/ turn' = [turn EXCEPT ![r].phase = p]
             \/ turn' = [turn EXCEPT ![r].phase = p, ![r].outcome = out]
      PROVE  /\ WorkTypeOK'
             /\ \A s \in Runs : TurnKept(s)
             /\ turn[r].phase # "working" => CallsKeepTurns
             /\ \A s \in Runs : s # r => turn'[s] = turn[s]
  <2>1. turn[r] \in TurnsAlive BY <1>b, LiveTurn
  <2>2. \/ turn'[r] = [turn[r] EXCEPT !.phase = p]
        \/ turn'[r] = [turn[r] EXCEPT !.phase = p, !.outcome = out]
    BY <1>b DEF ExecIInv, WorkTypeOK
  <2>3. turn' = [turn EXCEPT ![r] = turn'[r]] BY <1>b, <2>2 DEF ExecIInv, WorkTypeOK
  <2>4. turn'[r] \in TurnsAlive BY <2>1, <2>2 DEF TurnsAlive
  <2>5. StillHolds(r) BY <1>b, <2>1, <2>2, <2>3, <2>4 DEF StillHolds, TurnsAlive
  <2>6. \A s \in Runs : s # r => turn'[s] = turn[s] BY <2>3 DEF ExecIInv, WorkTypeOK
  <2> QED BY <1>0, <2>5, <2>6, ChangedTurn
<1>1. CASE Activate(r)
  <2>1. turn[r].phase \notin {"none", "working"} /\ UNCHANGED vars
        /\ turn' = [turn EXCEPT ![r].phase = "starting"]
    BY <1>1 DEF Activate
  <2>2. WorkTypeOK' /\ (\A s \in Runs : TurnKept(s)) /\ CallsKeepTurns BY <1>b, <2>1 DEF Phases
  <2> QED BY <1>0, <2>1, <2>2, UnchangedKeeps, QuietTurnStep
<1>2. CASE StartWork(r, UnfinishedWorkers(r))
  <2>1. turn[r].phase \notin {"none", "working"} BY <1>2 DEF StartWork
  <2>2. runs[r].conv \in Conversations BY <2>1, LiveTurn DEF RunRows
  <2>3. convs[runs[r].conv].ws \in Workspaces BY <1>0, <2>2 DEF TypeOK
  <2>4. \E c \in Conversations, w \in Workspaces : UpdateConversation(c, w)
    BY <1>2, <2>2, <2>3 DEF StartWork
  <2>5. \/ turn' = [turn EXCEPT ![r].phase = "ending", ![r].outcome = "paused"]
        \/ turn' = [turn EXCEPT ![r].phase = "working", ![r].outcome = "none"]
    BY <1>2 DEF StartWork
  <2>6. WorkTypeOK' /\ (\A s \in Runs : TurnKept(s)) /\ CallsKeepTurns
    BY <1>b, <2>1, <2>5 DEF Phases, Outcomes
  <2> QED BY <1>0, <2>4, <2>6, ConversationKeeps, QuietTurnStep
<1>3. CASE CallsSettled(r) /\ \E outcome \in Endings : EndTurn(r, outcome)
  <2>1. PICK outcome \in Endings : EndTurn(r, outcome) BY <1>3
  <2>2. turn[r].phase # "none" /\ UNCHANGED vars
        /\ turn' = [turn EXCEPT ![r].phase = "ending", ![r].outcome = outcome]
    BY <2>1 DEF EndTurn
  <2>3. outcome \in Outcomes /\ "ending" \in Phases BY DEF Endings, Outcomes, Phases
  <2>4. WorkTypeOK' /\ (\A s \in Runs : TurnKept(s)) /\ (\A s \in Runs : s # r => turn'[s] = turn[s])
    BY <1>b, <2>2, <2>3
  <2>5. ASSUME NEW x \in Ops, Live(x) PROVE RunOf(x) # r
    BY <1>3, <2>5 DEF CallsSettled, OfTurn, Live, ExecIInv, CallsOfTurns
  <2>6. CallsKeepTurns BY <2>4, <2>5, LiveCall DEF CallsKeepTurns
  <2> QED BY <1>0, <2>2, <2>4, <2>6, UnchangedKeeps, QuietTurnStep
<1>4. CASE \E more \in UserInputs \cup {"none"} : Seal(r, more)
  <2>1. PICK more \in UserInputs \cup {"none"} : Seal(r, more) BY <1>4
  <2>2. turn[r].phase \notin {"none", "working"} /\ FinalizeTurn(r, more)
        /\ turn' = [turn EXCEPT ![r].phase = "sealed"]
    BY <2>1 DEF Seal
  <2>3. more \in {"none", "text", "attached"} BY InputsAssumption
  <2>4. WorkTypeOK' /\ (\A s \in Runs : TurnKept(s)) /\ CallsKeepTurns BY <1>b, <2>2 DEF Phases
  <2> QED BY <1>0, <2>2, <2>3, <2>4, ConversationKeeps, QuietTurnStep
<1>5. CASE SealFails(r)
  <2>1. turn[r].phase \notin {"none", "working"} /\ UNCHANGED vars
        /\ turn' = [turn EXCEPT ![r].phase = "sealed", ![r].outcome = "failed"]
    BY <1>5 DEF SealFails
  <2>2. WorkTypeOK' /\ (\A s \in Runs : TurnKept(s)) /\ CallsKeepTurns
    BY <1>b, <2>1 DEF Phases, Outcomes
  <2> QED BY <1>0, <2>1, <2>2, UnchangedKeeps, QuietTurnStep
<1>6. CASE FinishForReview(r)
  <2>1. turn[r].phase \notin {"none", "working"} /\ Move(r, "needs_review", 0) /\ Ended(r)
    BY <1>6 DEF FinishForReview
  <2> QED BY <1>0, <1>a, <2>1, EndedTurn, MoveStep
<1>7. CASE FinishUnowned(r)
  <2>1. UNCHANGED vars /\ Ended(r) /\ turn[r].phase # "working" BY <1>7 DEF FinishUnowned
  <2> QED BY <1>0, <2>1, EndedTurn, UnchangedKeeps, QuietTurnStep
<1>8. CASE FinishPausing(r)
  <2>1. turn[r].phase \notin {"none", "working"} /\ Move(r, "pausing", 0)
        /\ turn' = [turn EXCEPT ![r].phase = "closing"]
    BY <1>8 DEF FinishPausing, MayFinish
  <2>2. WorkTypeOK' /\ (\A s \in Runs : TurnKept(s)) /\ CallsKeepTurns BY <1>b, <2>1 DEF Phases
  <2> QED BY <1>0, <1>a, <2>1, <2>2, MoveStep
<1>9. CASE Finish(r) BY <1>0, <1>9, FinishStep
<1>10. CASE FinishRefused(r)
  <2>1. turn[r].phase \notin {"none", "working"} /\ Move(r, "needs_review", 0) /\ Ended(r)
    BY <1>10 DEF FinishRefused, Closing, MayFinish
  <2> QED BY <1>0, <1>a, <2>1, EndedTurn, MoveStep
<1> QED BY <1>1, <1>2, <1>3, <1>4, <1>5, <1>6, <1>7, <1>8, <1>9, <1>10 DEF TurnStep

------------------------------------------------------------------------------
(* The steps of a call.                                                      *)

(* A call that asks the journal to settle its row has a live turn.           *)
LEMMA SettleStepKeeps ==
    ASSUME ExecIInv, NEW x \in Ops, NEW to \in OperationStatuses, NEW result \in Results,
           Settle(x, to, result)
    PROVE  /\ Next
           /\ \A s \in Runs : Kept(s)
           /\ \A y \in Ops : y # x => OpKept(y)
           /\ ops'[x].status = to /\ ops'[x].run = ops[x].run
           /\ ops'[x].attempt = ops[x].attempt /\ ops'[x].effect = ops[x].effect
           /\ RunOf(x) \in Runs /\ turn[RunOf(x)].phase # "none"
<1>1. /\ ops[x].status # "absent"
      /\ Exists(RunOf(x)) /\ runs[RunOf(x)].attempt = turn[RunOf(x)].attempt
  BY DEF Settle, TransitionOperation, Owns, RunOf
<1>2. RunOf(x) \in Runs /\ runs[RunOf(x)].attempt \in Attempts
  BY <1>1, OpRow, RunRow DEF ExecIInv
<1>3. turn[RunOf(x)].phase # "none"
  BY <1>1, <1>2, TurnRow, BoundsAssumption DEF ExecIInv, NoTurnAlive, Attempts
<1>4. PICK o \in Owners, a \in Attempts : o = turn[RunOf(x)].proc /\ a = turn[RunOf(x)].attempt
  BY <1>2, <1>3, LiveTurn
<1>5. TransitionOperation(x, to, o, a, result)
  BY <1>4 DEF Settle, TransitionOperation, Owns
<1> QED BY <1>2, <1>3, <1>5, TransitionOperationKeeps DEF ExecIInv

(* A turn that changes no more than a flag.                                  *)
FlagsOnly == /\ turn' \in [Runs -> TurnsAlive \cup {NoTurnAlive}]
             /\ \A s \in Runs : turn'[s].phase = turn[s].phase /\ TurnKept(s)

LEMMA TurnUnchanged ==
    ASSUME ExecIInv, UNCHANGED <<turn, procVars>>
    PROVE  FlagsOnly
BY LiveTurn DEF FlagsOnly, TurnKept, ExecIInv, WorkTypeOK, procVars

LEMMA TurnFlagged ==
    ASSUME ExecIInv, UNCHANGED procVars, NEW r \in Runs, turn[r].phase # "none",
           \/ ForReview(r)
           \/ \E f \in BOOLEAN : turn' = [turn EXCEPT ![r].lost = f]
    PROVE  FlagsOnly
<1>1. turn[r] \in TurnsAlive BY LiveTurn
<1>2. \/ turn'[r] = [turn[r] EXCEPT !.review = TRUE]
      \/ \E f \in BOOLEAN : turn'[r] = [turn[r] EXCEPT !.lost = f]
  BY DEF ForReview, ExecIInv, WorkTypeOK
<1>3. \A s \in Runs : s # r => turn'[s] = turn[s] BY DEF ForReview, ExecIInv, WorkTypeOK
<1>4. DOMAIN turn' = Runs /\ turn' = [s \in Runs |-> turn'[s]]
  BY DEF ForReview, ExecIInv, WorkTypeOK
<1>5. /\ turn'[r] \in TurnsAlive /\ turn'[r].proc = turn[r].proc
      /\ turn'[r].attempt = turn[r].attempt /\ turn'[r].input = turn[r].input
      /\ turn'[r].phase = turn[r].phase
  BY <1>1, <1>2 DEF TurnsAlive
<1>6. \A s \in Runs : turn'[s] \in TurnsAlive \cup {NoTurnAlive}
  BY <1>3, <1>5 DEF ExecIInv, WorkTypeOK
<1>7. turn' \in [Runs -> TurnsAlive \cup {NoTurnAlive}] BY <1>4, <1>6
<1>8. \A s \in Runs : turn[s].phase # "none" => proc'[turn[s].proc] = "up"
  BY LiveTurn DEF procVars
<1> QED BY <1>3, <1>5, <1>7, <1>8 DEF FlagsOnly, TurnKept

(* A step of one call, whose operation moves with it.                        *)
LEMMA OneCall ==
    ASSUME ExecIInv, UNCHANGED procVars, FlagsOnly, [Next]_vars, NEW x \in Ops,
           TurnsOwnTheirRuns', RefsArePast',
           \A y \in Ops : y # x => OpKept(y),
           call' = [call EXCEPT ![x] = call'[x]], call'[x] \in Calls,
           landed' = landed \/ (landed' = landed \cup {x} /\ Recorded(x)'),
           call[x].phase # "none", call'[x].phase # "none", Recorded(x) => Recorded(x)',
           call'[x].phase = "stray" => Recorded(x)',
           call'[x].phase \notin Finished =>
               /\ Live(x)
               /\ call'[x].proc = call[x].proc /\ call'[x].tool = call[x].tool
               /\ ops'[x].run = ops[x].run /\ ops'[x].attempt = ops[x].attempt
               /\ IsWrite(ops[x])' <=> IsWrite(ops[x])
               /\ OnTrack(x)'
               /\ call'[x].phase \in {"promoted", "landing"} => call[x].tool # "reader"
    PROVE  Implements
<1>1. WorkTypeOK' BY DEF ExecIInv, WorkTypeOK, FlagsOnly, procVars
<1>3. \A y \in Ops : y # x => call'[y] = call[y] BY DEF ExecIInv, WorkTypeOK
<1>4. EffectsKnown'
  <2>1. ASSUME NEW y \in Ops, y \in landed' \/ call'[y].phase = "stray"
        PROVE  call'[y].phase # "none" /\ Recorded(y)'
    <3>1. CASE y = x BY <2>1, <3>1 DEF ExecIInv, EffectsKnown
    <3>2. CASE y # x
      BY <2>1, <3>2, <1>3 DEF ExecIInv, EffectsKnown, OpKept, Recorded, IsWrite
    <3> QED BY <3>1, <3>2
  <2> QED BY <2>1 DEF EffectsKnown
<1>5. ASSUME NEW y \in Ops, call'[y].phase \notin Finished
      PROVE  /\ OnTrack(y)'
             /\ turn'[ops'[y].run].phase = "working"
             /\ turn'[ops'[y].run].proc = call'[y].proc
             /\ turn'[ops'[y].run].attempt = ops'[y].attempt
             /\ (ops'[y].effect # "read_only") <=> call'[y].tool # "reader"
             /\ call'[y].phase \in {"promoted", "landing"} => call'[y].tool # "reader"
  <2>1. Live(y) BY <1>3, <1>5 DEF Live
  <2>2. RunOf(y) \in Runs /\ turn[RunOf(y)].phase = "working" BY <2>1, LiveCall
  <2>3. /\ turn'[RunOf(y)].phase = "working"
        /\ turn'[RunOf(y)].proc = turn[RunOf(y)].proc
        /\ turn'[RunOf(y)].attempt = turn[RunOf(y)].attempt
    BY <2>2 DEF FlagsOnly, TurnKept
  <2>4. /\ OnTrack(y)
        /\ turn[RunOf(y)].proc = call[y].proc
        /\ turn[RunOf(y)].attempt = ops[y].attempt
        /\ IsWrite(ops[y]) <=> call[y].tool # "reader"
        /\ call[y].phase \in {"promoted", "landing"} => call[y].tool # "reader"
    BY <2>1 DEF ExecIInv, CallsOfTurns
  <2>5. CASE y = x BY <1>5, <2>3, <2>4, <2>5 DEF RunOf, IsWrite
  <2>6. CASE y # x
    BY <1>3, <2>3, <2>4, <2>6 DEF RunOf, IsWrite, OpKept, OnTrack
  <2> QED BY <2>5, <2>6
<1>6. CallsOfTurns' BY <1>5 DEF CallsOfTurns, Live, RunOf, IsWrite
<1> QED BY <1>1, <1>4, <1>6 DEF Implements

(* A call that changes its phase.                                            *)
LEMMA PhaseChange ==
    ASSUME ExecIInv, NEW x \in Ops, NEW p \in CallPhases, Phase(x, p)
    PROVE  /\ call' = [call EXCEPT ![x] = call'[x]]
           /\ call'[x] \in Calls /\ call'[x].phase = p
           /\ call'[x].tool = call[x].tool /\ call'[x].proc = call[x].proc
<1>1. call[x] \in Calls BY DEF ExecIInv, WorkTypeOK
<1>2. call'[x] = [call[x] EXCEPT !.phase = p] BY DEF Phase, ExecIInv, WorkTypeOK
<1>3. call' = [call EXCEPT ![x] = call'[x]] BY <1>2 DEF Phase, ExecIInv, WorkTypeOK
<1> QED BY <1>1, <1>2, <1>3 DEF Calls

(* A call that settles its row and changes its phase.                        *)
LEMMA SettledCall ==
    ASSUME ExecIInv, UNCHANGED <<landed, procVars>>, FlagsOnly, NEW x \in Ops,
           NEW to \in OperationStatuses, NEW result \in Results, Settle(x, to, result),
           NEW p \in CallPhases \ {"none"}, Phase(x, p), Live(x),
           Recorded(x) => to \notin {"prepared", "authorized", "cancelled"},
           p = "stray" => to = "uncertain" /\ IsWrite(ops[x]),
           \/ p \in Finished
           \/ p = "admitted" /\ to = "authorized"
           \/ p = "running" /\ to = "executing"
    PROVE  Implements
<1>1. /\ Next
      /\ \A s \in Runs : Kept(s)
      /\ \A y \in Ops : y # x => OpKept(y)
      /\ ops'[x].status = to /\ ops'[x].run = ops[x].run
      /\ ops'[x].attempt = ops[x].attempt /\ ops'[x].effect = ops[x].effect
  BY SettleStepKeeps
<1>2. TurnsOwnTheirRuns' /\ RefsArePast' BY <1>1, HoldAll DEF FlagsOnly
<1>3. /\ call' = [call EXCEPT ![x] = call'[x]]
      /\ call'[x] \in Calls /\ call'[x].phase = p
      /\ call'[x].tool = call[x].tool /\ call'[x].proc = call[x].proc
  BY PhaseChange
<1>4. call[x].phase # "none" BY DEF Live, Finished
<1>5. ops[x].status # "absent" BY LiveCall DEF OpRows, OperationStatuses, UnresolvedStatuses
<1>6. Recorded(x) => Recorded(x)' BY <1>1, <1>5 DEF Recorded, IsWrite
<1>7. p = "stray" => Recorded(x)' BY <1>1 DEF Recorded, IsWrite
<1>8. p \notin Finished => OnTrack(x)' /\ p \notin {"promoted", "landing"}
  BY <1>1, <1>3 DEF OnTrack, InEffect, AtGate
<1>9. IsWrite(ops[x])' <=> IsWrite(ops[x]) BY <1>1 DEF IsWrite
<1> QED BY <1>1, <1>2, <1>3, <1>4, <1>6, <1>7, <1>8, <1>9, OneCall

(* A call that changes its phase and nothing else, or has its effect.        *)
LEMMA QuietCall ==
    ASSUME ExecIInv, UNCHANGED <<vars, turn, procVars>>, NEW x \in Ops,
           call' = [call EXCEPT ![x] = call'[x]], call'[x] \in Calls,
           landed' = landed \/ (landed' = landed \cup {x} /\ Recorded(x)),
           call[x].phase # "none", call'[x].phase # "none",
           call'[x].tool = call[x].tool, call'[x].proc = call[x].proc,
           call'[x].phase = "stray" => call[x].phase = "stray",
           call'[x].phase \notin Finished =>
               /\ Live(x) /\ OnTrack(x)'
               /\ call'[x].phase \in {"promoted", "landing"} => call[x].tool # "reader"
    PROVE  Implements
<1>1. [Next]_vars /\ (\A s \in Runs : Kept(s)) /\ (\A y \in Ops : OpKept(y)) BY UnchangedKeeps
<1>2. FlagsOnly BY TurnUnchanged
<1>3. TurnsOwnTheirRuns' /\ RefsArePast' BY <1>1, <1>2, HoldAll DEF FlagsOnly
<1>4. (Recorded(x) <=> Recorded(x)') /\ (IsWrite(ops[x])' <=> IsWrite(ops[x]))
  BY <1>1 DEF OpKept, Recorded, IsWrite
<1>5. ops'[x].run = ops[x].run /\ ops'[x].attempt = ops[x].attempt BY <1>1 DEF OpKept
<1>6. call[x].phase = "stray" => Recorded(x) BY DEF ExecIInv, EffectsKnown
<1> QED BY <1>1, <1>2, <1>3, <1>4, <1>5, <1>6, OneCall

(* A call is prepared by a turn that works.                                  *)
LEMMA ScheduleStep ==
    ASSUME ExecIInv, UNCHANGED procVars, NEW x \in Ops, NEW r \in Runs, NEW tool \in Tools,
           Schedule(x, r, tool)
    PROVE  Implements
<1>1. /\ turn[r].phase = "working" /\ call[x].phase = "none"
      /\ UNCHANGED <<turn, landed>>
      /\ PrepareOperation(x, r, turn[r].proc, turn[r].attempt, EffectOf(tool))
  BY DEF Schedule
<1>2. PICK o \in Owners, a \in Attempts : o = turn[r].proc /\ a = turn[r].attempt
  BY <1>1, LiveTurn
<1>3. EffectOf(tool) \in EffectClasses /\ (EffectOf(tool) # "read_only" <=> tool # "reader")
  BY DEF EffectOf, EffectClasses
<1>4. PICK effect \in EffectClasses : effect = EffectOf(tool) BY <1>3
<1>5. PrepareOperation(x, r, o, a, effect)
  BY <1>1, <1>2, <1>4 DEF PrepareOperation, Owns
<1>6. /\ Next
      /\ \A s \in Runs : Kept(s)
      /\ \A y \in Ops : y # x => OpKept(y)
      /\ ops'[x].status = "prepared" /\ ops'[x].run = r
      /\ ops'[x].attempt = a /\ ops'[x].effect = effect
  BY <1>5, PrepareOperationKeeps DEF ExecIInv
<1>7. FlagsOnly BY <1>1, TurnUnchanged
<1>8. TurnsOwnTheirRuns' /\ RefsArePast' BY <1>6, <1>7, HoldAll DEF FlagsOnly
<1>9. /\ call'[x] \in Calls
      /\ call'[x].phase \in {"scheduled", "blocked"}
      /\ call'[x].tool = tool /\ call'[x].proc = o
      /\ \A y \in Ops : y # x => call'[y] = call[y]
      /\ call' \in [Ops -> Calls]
  <2>1. call' = [call EXCEPT ![x] =
          [NoCall EXCEPT !.phase = IF UnfinishedWorkers(r) THEN "blocked" ELSE "scheduled",
                         !.tool = tool, !.proc = o]]
    BY <1>2 DEF Schedule
  <2>2. \E p \in {"scheduled", "blocked"} : call'[x] =
          [phase |-> p, tool |-> tool, hops |-> 0, proc |-> o]
    BY <2>1 DEF ExecIInv, WorkTypeOK, NoCall
  <2>3. call'[x] \in Calls /\ call'[x].phase \in {"scheduled", "blocked"}
        /\ call'[x].tool = tool /\ call'[x].proc = o
    BY <2>2, HopsAssumption, ToolsAssumption DEF Calls, CallPhases
  <2> QED BY <2>1, <2>3 DEF ExecIInv, WorkTypeOK
<1>10. WorkTypeOK' BY <1>1, <1>7, <1>9 DEF ExecIInv, WorkTypeOK, FlagsOnly, procVars
<1>11. EffectsKnown'
  <2>1. ASSUME NEW y \in Ops, y \in landed' \/ call'[y].phase = "stray"
        PROVE  call'[y].phase # "none" /\ Recorded(y)'
    <3>1. y # x BY <1>1, <1>9, <2>1 DEF ExecIInv, EffectsKnown
    <3> QED BY <1>1, <1>6, <1>9, <2>1, <3>1 DEF ExecIInv, EffectsKnown, OpKept, Recorded, IsWrite
  <2> QED BY <2>1 DEF EffectsKnown
<1>12. ASSUME NEW y \in Ops, call'[y].phase \notin Finished
      PROVE  /\ OnTrack(y)'
             /\ turn'[ops'[y].run].phase = "working"
             /\ turn'[ops'[y].run].proc = call'[y].proc
             /\ turn'[ops'[y].run].attempt = ops'[y].attempt
             /\ (ops'[y].effect # "read_only") <=> call'[y].tool # "reader"
             /\ call'[y].phase \in {"promoted", "landing"} => call'[y].tool # "reader"
  <2>1. CASE y = x
    BY <1>1, <1>2, <1>3, <1>4, <1>6, <1>9, <2>1 DEF OnTrack, InEffect, AtGate
  <2>2. CASE y # x
    <3>1. Live(y) /\ call'[y] = call[y] BY <1>9, <1>12, <2>2 DEF Live
    <3>2. /\ OnTrack(y)
          /\ turn[RunOf(y)].phase = "working"
          /\ turn[RunOf(y)].proc = call[y].proc
          /\ turn[RunOf(y)].attempt = ops[y].attempt
          /\ IsWrite(ops[y]) <=> call[y].tool # "reader"
          /\ call[y].phase \in {"promoted", "landing"} => call[y].tool # "reader"
      BY <3>1 DEF ExecIInv, CallsOfTurns
    <3> QED BY <1>1, <1>6, <2>2, <3>1, <3>2 DEF RunOf, IsWrite, OpKept, OnTrack
  <2> QED BY <2>1, <2>2
<1>13. CallsOfTurns' BY <1>12 DEF CallsOfTurns, Live, RunOf, IsWrite
<1> QED BY <1>6, <1>8, <1>10, <1>11, <1>13 DEF Implements

(* A worker begins its effect: authorized, then executing.                   *)
LEMMA BeginEffectStep ==
    ASSUME ExecIInv, UNCHANGED procVars, NEW x \in Ops, Admit(x) \/ Enter(x)
    PROVE  Implements
<1>1. UNCHANGED <<landed, turn, procVars>> /\ Live(x)
  BY DEF Admit, Enter, Live, Finished, Unfinished
<1>2. FlagsOnly BY <1>1, TurnUnchanged
<1>3. ~Recorded(x)
  BY <1>1, LiveCall DEF Admit, Enter, OnTrack, Recorded
<1>4. CASE Admit(x)
  <2>1. Settle(x, "authorized", "none") /\ Phase(x, "admitted") BY <1>4 DEF Admit
  <2>2. "authorized" \in OperationStatuses /\ "none" \in Results
        /\ "admitted" \in CallPhases \ {"none"}
    BY DEF OperationStatuses, UnresolvedStatuses, Results, CallPhases
  <2> QED BY <1>1, <1>2, <1>3, <2>1, <2>2, SettledCall
<1>5. CASE Enter(x)
  <2>1. Settle(x, "executing", "none") /\ Phase(x, "running") BY <1>5 DEF Enter
  <2>2. "executing" \in OperationStatuses /\ "none" \in Results
        /\ "running" \in CallPhases \ {"none"}
    BY DEF OperationStatuses, UnresolvedStatuses, Results, CallPhases
  <2> QED BY <1>1, <1>2, <1>3, <2>1, <2>2, SettledCall
<1> QED BY <1>4, <1>5

(* A native call captured its snapshot.                                      *)
LEMMA PromoteStep ==
    ASSUME ExecIInv, UNCHANGED procVars, NEW x \in Ops, Promote(x)
    PROVE  Implements
<1>1. /\ UNCHANGED <<landed, turn, procVars>>
      /\ call[x].phase = "running" /\ call[x].tool = "native"
      /\ PromoteOperation(x, turn[RunOf(x)].proc, turn[RunOf(x)].attempt)
      /\ Phase(x, "promoted")
  BY DEF Promote
<1>2. Live(x) BY <1>1 DEF Live, Finished, Unfinished
<1>3. RunOf(x) \in Runs /\ turn[RunOf(x)].phase = "working" /\ OnTrack(x) BY <1>2, LiveCall
<1>4. PICK o \in Owners, a \in Attempts : o = turn[RunOf(x)].proc /\ a = turn[RunOf(x)].attempt
  BY <1>3, LiveTurn
<1>5. PromoteOperation(x, o, a) BY <1>1, <1>4 DEF PromoteOperation, Owns
<1>6. /\ Next
      /\ \A s \in Runs : Kept(s)
      /\ \A y \in Ops : y # x => OpKept(y)
      /\ ops'[x].status = ops[x].status /\ ops'[x].run = ops[x].run
      /\ ops'[x].attempt = ops[x].attempt /\ ops'[x].effect = "verifiable_write"
  BY <1>5, PromoteOperationKeeps DEF ExecIInv
<1>7. FlagsOnly BY <1>1, TurnUnchanged
<1>8. TurnsOwnTheirRuns' /\ RefsArePast' BY <1>6, <1>7, HoldAll DEF FlagsOnly
<1>9. "promoted" \in CallPhases BY DEF CallPhases
<1>10. /\ call' = [call EXCEPT ![x] = call'[x]]
       /\ call'[x] \in Calls /\ call'[x].phase = "promoted"
       /\ call'[x].tool = call[x].tool /\ call'[x].proc = call[x].proc
  BY <1>1, <1>9, PhaseChange
<1>11. OnTrack(x)' BY <1>1, <1>3, <1>6, <1>10 DEF OnTrack, InEffect
<1>12. IsWrite(ops[x]) /\ IsWrite(ops[x])'
  BY <1>1, <1>2, <1>6 DEF ExecIInv, CallsOfTurns, IsWrite
<1>13. Recorded(x) => Recorded(x)' BY <1>6, <1>12 DEF Recorded
<1> QED BY <1>1, <1>2, <1>6, <1>7, <1>8, <1>10, <1>11, <1>12, <1>13, OneCall

(* A call that changes its phase only.                                       *)
LEMMA PhaseStep ==
    ASSUME ExecIInv, UNCHANGED procVars, NEW x \in Ops,
           PassBoundary(x) \/ Reenter(x) \/ WorkerStops(x)
    PROVE  Implements
<1>1. UNCHANGED <<vars, turn, landed, procVars>> BY DEF PassBoundary, Reenter, WorkerStops
<1>2. PICK p \in CallPhases \ {"none"} :
        /\ Phase(x, p)
        /\ \/ p = "landing" /\ call[x].phase = "promoted"
           \/ p = "running" /\ call[x].phase = "replaying"
           \/ p = "done" /\ call[x].phase # "none"
  BY DEF PassBoundary, Reenter, WorkerStops, CallPhases, Unfinished
<1>3. /\ call' = [call EXCEPT ![x] = call'[x]]
      /\ call'[x] \in Calls /\ call'[x].phase = p
      /\ call'[x].tool = call[x].tool /\ call'[x].proc = call[x].proc
  BY <1>2, PhaseChange
<1>4. ASSUME p # "done"
      PROVE  /\ Live(x) /\ OnTrack(x)'
             /\ p = "landing" => call[x].tool # "reader"
  <2>1. Live(x) BY <1>2, <1>4 DEF Live, Finished, Unfinished
  <2>2. ops'[x].status = ops[x].status BY <1>1 DEF vars
  <2>3. OnTrack(x) /\ (call[x].phase = "promoted" => call[x].tool # "reader")
    BY <2>1 DEF ExecIInv, CallsOfTurns
  <2> QED BY <1>2, <1>3, <1>4, <2>1, <2>2, <2>3 DEF OnTrack, InEffect, AtGate
<1>5. p \in {"landing", "running", "done"} BY <1>2
<1> QED BY <1>1, <1>2, <1>3, <1>4, <1>5, QuietCall DEF Finished

(* The effect of a call happens: its row is on record.                       *)
LEMMA LandStep ==
    ASSUME ExecIInv, UNCHANGED procVars, NEW x \in Ops, Land(x)
    PROVE  Implements
<1>1. UNCHANGED <<vars, turn, call, procVars>> /\ landed' = landed \cup {x} BY DEF Land
<1>2. Recorded(x)
  <2>1. CASE call[x].phase = "stray" BY <2>1 DEF ExecIInv, EffectsKnown
  <2>2. CASE call[x].phase # "stray"
    <3>1. call[x].phase \in InEffect /\ (call[x].phase = "landing" \/ call[x].tool = "opaque")
      BY <2>2 DEF Land, InEffect
    <3>2. Live(x) BY <3>1 DEF Live, InEffect, Finished, Unfinished
    <3>3. ops[x].status = "executing" /\ IsWrite(ops[x])
      BY <3>1, <3>2 DEF ExecIInv, CallsOfTurns, OnTrack, InEffect
    <3> QED BY <3>3 DEF Recorded
  <2> QED BY <2>1, <2>2
<1>3. /\ call' = [call EXCEPT ![x] = call'[x]] /\ call'[x] \in Calls
      /\ call'[x] = call[x] /\ call[x].phase # "none"
  BY <1>1 DEF ExecIInv, WorkTypeOK, Land
<1>4. call'[x].phase \notin Finished =>
         /\ Live(x) /\ OnTrack(x)'
         /\ call'[x].phase \in {"promoted", "landing"} => call[x].tool # "reader"
  <2>1. ops' = ops BY <1>1 DEF vars
  <2> QED BY <1>1, <1>3, <2>1 DEF ExecIInv, CallsOfTurns, Live, OnTrack
<1> QED BY <1>1, <1>2, <1>3, <1>4, QuietCall

(* A call asks for permission, or was given it.                              *)
LEMMA GateStep ==
    ASSUME ExecIInv, UNCHANGED procVars, NEW x \in Ops, AskPermission(x) \/ Replay(x)
    PROVE  Implements
<1>1. /\ UNCHANGED <<turn, landed, procVars>>
      /\ call[x].phase \in {"running", "waiting"}
      /\ \E to \in {"waiting_approval", "running"} : Move(RunOf(x), to, 0) \/ UNCHANGED vars
  BY DEF AskPermission, Replay
<1>2. Live(x) BY <1>1 DEF Live, Finished, Unfinished
<1>3. RunOf(x) \in Runs /\ turn[RunOf(x)].phase = "working" /\ OnTrack(x) BY <1>2, LiveCall
<1>4. FlagsOnly BY <1>1, TurnUnchanged
<1>5. [Next]_vars /\ TurnsOwnTheirRuns' /\ RefsArePast' /\ (\A y \in Ops : OpKept(y))
  <2>1. CASE UNCHANGED vars BY <2>1, <1>4, UnchangedKeeps, HoldAll DEF FlagsOnly
  <2>2. CASE \E to \in {"waiting_approval", "running"} : Move(RunOf(x), to, 0)
    <3>1. PICK to \in {"waiting_approval", "running"} : Move(RunOf(x), to, 0) BY <2>2
    <3>2. PICK r \in Runs : r = RunOf(x) BY <1>3
    <3>3. Move(r, to, 0) BY <3>1, <3>2 DEF Move, TransitionRun, Owns, NoUnresolvedWrites, OpsOf,
             HasRecoveryInput, HasCommittedCheckpoint, Interruptible, OpsReconciled
    <3>4. to \in RunStatuses /\ to \in ActiveRunStatuses /\ to # "interrupted"
      BY DEF RunStatuses, LeasedStatuses, ActiveRunStatuses
    <3> QED BY <1>3, <1>4, <3>2, <3>3, <3>4, MoveKeeps DEF FlagsOnly
  <2> QED BY <1>1, <2>1, <2>2
<1>6. call[x] \in Calls BY DEF ExecIInv, WorkTypeOK
<1>7. /\ call' = [call EXCEPT ![x] = call'[x]]
      /\ call'[x] \in Calls /\ call'[x].phase \in AtGate
      /\ call'[x].tool = call[x].tool /\ call'[x].proc = call[x].proc
  <2>1. CASE AskPermission(x)
    <3>1. call'[x] = [call[x] EXCEPT !.phase = "waiting", !.hops = call[x].hops + 1]
      BY <2>1 DEF AskPermission, ExecIInv, WorkTypeOK
    <3>2. call' = [call EXCEPT ![x] = call'[x]]
      BY <2>1, <3>1 DEF AskPermission, ExecIInv, WorkTypeOK
    <3>3. call[x].hops + 1 \in 0..MaxHops
      BY <2>1, <1>6, HopsAssumption DEF AskPermission, Calls
    <3> QED BY <1>6, <3>1, <3>2, <3>3 DEF Calls, CallPhases, AtGate
  <2>2. CASE Replay(x)
    <3>1. Phase(x, "replaying") /\ "replaying" \in CallPhases BY <2>2 DEF Replay, CallPhases
    <3> QED BY <3>1, PhaseChange DEF AtGate
  <2> QED BY <2>1, <2>2
<1>8. OnTrack(x)' BY <1>1, <1>3, <1>5, <1>7 DEF OnTrack, OpKept, InEffect, AtGate
<1>9. ops'[x].run = ops[x].run /\ ops'[x].attempt = ops[x].attempt
      /\ (IsWrite(ops[x])' <=> IsWrite(ops[x])) /\ (Recorded(x) => Recorded(x)')
  BY <1>5 DEF OpKept, IsWrite, Recorded
<1>10. call'[x].phase \notin {"none", "stray", "promoted", "landing"} BY <1>7 DEF AtGate
<1> QED BY <1>1, <1>2, <1>4, <1>5, <1>7, <1>8, <1>9, <1>10, OneCall

(* What a call may do next.                                                  *)
LEMMA DispatchSteps ==
    ASSUME ExecIInv, NEW x \in Ops, DispatchStep(x)
    PROVE  Implements
BY ScheduleStep, BeginEffectStep, PromoteStep, PhaseStep, LandStep, GateStep DEF DispatchStep

(* A live call that settles its row is over.                                 *)
LEMMA SettlingCall ==
    ASSUME ExecIInv, UNCHANGED <<landed, procVars>>, NEW x \in Ops, Live(x),
           NEW to \in OperationStatuses, NEW result \in Results, Settle(x, to, result),
           NEW p \in Finished \ {"none"}, Phase(x, p),
           Recorded(x) => to \notin {"prepared", "authorized", "cancelled"},
           p = "stray" => to = "uncertain" /\ IsWrite(ops[x]),
           \/ UNCHANGED turn
           \/ ForReview(RunOf(x))
           \/ \E f \in BOOLEAN : turn' = [turn EXCEPT ![RunOf(x)].lost = f]
    PROVE  Implements
<1>1. FlagsOnly
  <2>1. CASE UNCHANGED turn BY <2>1, TurnUnchanged
  <2>2. CASE turn' # turn
    <3>1. PICK r \in Runs : r = RunOf(x) /\ turn[r].phase # "none" BY LiveCall
    <3>2. ForReview(r) \/ \E f \in BOOLEAN : turn' = [turn EXCEPT ![r].lost = f]
      BY <2>2, <3>1 DEF ForReview
    <3> QED BY <3>1, <3>2, TurnFlagged
  <2> QED BY <2>1, <2>2
<1>2. p \in CallPhases \ {"none"} BY DEF Finished, Unfinished, CallPhases
<1> QED BY <1>1, <1>2, SettledCall

(* Every way a call is settled.                                              *)
LEMMA SettleSteps ==
    ASSUME ExecIInv, NEW x \in Ops, SettleStep(x)
    PROVE  Implements
<1>0. UNCHANGED <<landed, procVars>>
  BY DEF SettleStep, Skip, NoEffect, PermissionRefused, Withdraw, VerifyNative, Return, GiveUp
<1>1. Live(x)
  BY DEF SettleStep, Skip, NoEffect, PermissionRefused, Withdraw, VerifyNative, Return, GiveUp,
         Live, Finished, Unfinished, InEffect, AtGate
<1>2. call[x].tool # "reader" => IsWrite(ops[x]) BY <1>1 DEF ExecIInv, CallsOfTurns
<1>3. call[x].phase = "landing" => call[x].tool # "reader" BY <1>1 DEF ExecIInv, CallsOfTurns
<1>a. /\ {"verified", "failed", "uncertain", "returned", "cancelled"} \subseteq OperationStatuses
      /\ {"none", "unchanged", "unknown", "completed"} \subseteq Results
      /\ {"done", "stray", "stopping"} \subseteq Finished \ {"none"}
  BY DEF OperationStatuses, UnresolvedStatuses, Results, Finished, Unfinished
<1>4. CASE Skip(x)
  <2>1. ~Recorded(x) BY <1>1, <1>4, LiveCall DEF Skip, OnTrack, Recorded
  <2>2. Settle(x, "cancelled", "none") /\ Phase(x, "done") /\ UNCHANGED turn BY <1>4 DEF Skip
  <2> QED BY <1>0, <1>1, <1>a, <2>1, <2>2, SettlingCall
<1>5. CASE NoEffect(x) \/ Withdraw(x)
  <2>1. Settle(x, "failed", "unchanged") /\ Phase(x, "done") /\ UNCHANGED turn
    BY <1>5 DEF NoEffect, Withdraw
  <2> QED BY <1>0, <1>1, <1>a, <2>1, SettlingCall
<1>6. CASE PermissionRefused(x)
  <2>1. Settle(x, "failed", "unchanged") /\ Phase(x, "done") BY <1>6 DEF PermissionRefused
  <2>2. \E f \in BOOLEAN : turn' = [turn EXCEPT ![RunOf(x)].lost = f]
    <3>1. turn' = [turn EXCEPT ![RunOf(x)].lost = turn[RunOf(x)].lost \/ ~StillOwned(RunOf(x))]
      BY <1>6 DEF PermissionRefused
    <3> QED BY <3>1
  <2> QED BY <1>0, <1>1, <1>a, <2>1, <2>2, SettlingCall
<1>7. CASE \E result \in Results : VerifyNative(x, result)
  <2>1. PICK result \in Results : VerifyNative(x, result) BY <1>7
  <2>2. PICK to \in {"verified", "failed", "uncertain"} :
           Settle(x, to, result) /\ (UNCHANGED turn \/ ForReview(RunOf(x)))
    BY <2>1 DEF VerifyNative
  <2>3. Phase(x, "done") BY <2>1 DEF VerifyNative
  <2> QED BY <1>0, <1>1, <1>a, <2>2, <2>3, SettlingCall
<1>8. CASE \E ok \in BOOLEAN : Return(x, ok)
  <2>1. PICK ok \in BOOLEAN : Return(x, ok) BY <1>8
  <2>2. PICK to \in {"verified", "failed", "returned", "uncertain"}, result \in Results :
           Settle(x, to, result) /\ (UNCHANGED turn \/ ForReview(RunOf(x)))
    BY <2>1, <1>a DEF Return
  <2>3. Phase(x, "done") BY <2>1 DEF Return
  <2> QED BY <1>0, <1>1, <1>a, <2>2, <2>3, SettlingCall
<1>9. CASE \E alive \in BOOLEAN : GiveUp(x, alive)
  <2>1. PICK alive \in BOOLEAN : GiveUp(x, alive) BY <1>9
  <2>2. PICK to \in {"failed", "uncertain"}, result \in {"none", "unknown"} :
           /\ Settle(x, to, result)
           /\ UNCHANGED turn \/ ForReview(RunOf(x))
           /\ call[x].tool # "reader" => to = "uncertain"
    BY <2>1 DEF GiveUp
  <2>3. PICK p \in {"done", "stray", "stopping"} :
           /\ Phase(x, p)
           /\ p = "stray" => call[x].tool = "opaque" \/ call[x].phase = "landing"
    BY <2>1 DEF GiveUp
  <2>4. p = "stray" => to = "uncertain" /\ IsWrite(ops[x])
    BY <1>2, <1>3, <2>2, <2>3
  <2> QED BY <1>0, <1>1, <1>a, <2>2, <2>3, <2>4, SettlingCall
<1> QED BY <1>4, <1>5, <1>6, <1>7, <1>8, <1>9 DEF SettleStep

------------------------------------------------------------------------------
(* The steps of a process.                                                   *)

(* A process reads and forgets what it has to look at.                       *)
LEMMA ScanTypes ==
    ASSUME ExecIInv, NEW o \in Owners
    PROVE  /\ \A r \in Runs : [scan EXCEPT ![o][r] = 0] \in [Owners -> [Runs -> 0..MaxRevision]]
           /\ \A row \in [Runs -> 0..MaxRevision] :
                 [scan EXCEPT ![o] = row] \in [Owners -> [Runs -> 0..MaxRevision]]
<1>1. 0 \in 0..MaxRevision BY BoundsAssumption
<1> QED BY <1>1 DEF ExecIInv, WorkTypeOK

(* No verdict is one.                                                        *)
LEMMA NoVerdictTyped == NoVerdict \in Verdicts
BY BoundsAssumption DEF NoVerdict, Verdicts, Results

(* A step of a process that leaves the journal and the turns alone.          *)
LEMMA QuietProcess ==
    ASSUME ExecIInv, UNCHANGED <<vars, workVars>>, WorkTypeOK',
           \A q \in Owners : proc[q] = "up" => proc'[q] = "up"
    PROVE  Implements
<1>1. [Next]_vars /\ (\A s \in Runs : Kept(s)) /\ (\A y \in Ops : OpKept(y)) BY UnchangedKeeps
<1>2. UNCHANGED <<turn, call, landed>> BY DEF workVars
<1>3. \A s \in Runs : TurnKept(s) BY <1>2, LiveTurn DEF TurnKept
<1>4. CallsKeepTurns BY <1>2, WorkingTurns
<1> QED BY <1>1, <1>2, <1>3, <1>4, QuietTurnStep

(* A transaction of a process on a run that no turn holds.                   *)
LEMMA TurnlessRun ==
    ASSUME ExecIInv, UNCHANGED <<workVars, proc>>, WorkTypeOK', NEW r \in Runs,
           turn[r].phase = "none", Next, \A s \in Runs : s # r => Kept(s),
           runs'[r].ref <= runs'[r].attempt,
           \A y \in Ops : OpKept(y) \/ (RunOf(y) = r /\ (Recorded(y) => Recorded(y)'))
    PROVE  Implements
<1>1. UNCHANGED <<turn, call, landed, proc>> BY DEF workVars
<1>2. \A s \in Runs : TurnKept(s) BY <1>1, LiveTurn DEF TurnKept
<1>3. turn'[r].phase = "none" BY <1>1
<1>4. TurnsOwnTheirRuns' /\ RefsArePast' BY <1>2, <1>3, HoldStep
<1>5. ASSUME NEW y \in Ops, call'[y].phase \notin Finished
      PROVE  /\ call'[y] = call[y] /\ OpKept(y)
             /\ TurnKept(RunOf(y)) /\ turn'[RunOf(y)].phase = "working"
  <2>1. Live(y) /\ call'[y] = call[y] BY <1>1, <1>5 DEF Live
  <2>2. RunOf(y) \in Runs /\ turn[RunOf(y)].phase = "working" BY <2>1, LiveCall
  <2> QED BY <1>1, <1>2, <2>1, <2>2
<1>6. CallsOfTurns' BY <1>5, CallsHold
<1>7. ASSUME NEW y \in Ops, Recorded(y) PROVE Recorded(y)'
  BY <1>7 DEF OpKept, Recorded, IsWrite
<1>8. EffectsKnown' BY <1>1, <1>7, EffectsHold
<1> QED BY <1>4, <1>6, <1>8 DEF Implements

(* A process starts, or has finished its recovery.                           *)
LEMMA StartSteps ==
    ASSUME ExecIInv, NEW o \in Owners, Start(o) \/ FinishStart(o)
    PROVE  Implements
<1>1. UNCHANGED <<vars, workVars, fixing, verdict, early>> BY DEF Start, FinishStart
<1>2. CASE Start(o)
  <2>1. [r \in Runs |-> IF runs[r].status \in LeasedStatuses THEN runs[r].revision ELSE 0]
           \in [Runs -> 0..MaxRevision]
    <3>1. ASSUME NEW r \in Runs, runs[r].status \in LeasedStatuses
          PROVE  runs[r].revision \in 0..MaxRevision
      <4>1. Exists(r)
        BY <3>1 DEF Exists, LeasedStatuses, ActiveRunStatuses, Quarantined
      <4>2. runs[r] \in RunRows BY <4>1, RunRow DEF ExecIInv
      <4> QED BY <4>2, BoundsAssumption DEF RunRows
    <3>2. 0 \in 0..MaxRevision BY BoundsAssumption
    <3> QED BY <3>1, <3>2
  <2>2. scan' \in [Owners -> [Runs -> 0..MaxRevision]] BY <1>2, <2>1, ScanTypes DEF Start
  <2>3. WorkTypeOK'
    BY <1>1, <1>2, <2>2 DEF Start, ExecIInv, WorkTypeOK, workVars, ProcStates
  <2>4. \A q \in Owners : proc[q] = "up" => proc'[q] = "up"
    BY <1>2 DEF Start, ExecIInv, WorkTypeOK
  <2> QED BY <1>1, <2>3, <2>4, QuietProcess
<1>3. CASE FinishStart(o)
  <2>1. WorkTypeOK'
    BY <1>1, <1>3 DEF FinishStart, ExecIInv, WorkTypeOK, workVars, ProcStates
  <2>2. \A q \in Owners : proc[q] = "up" => proc'[q] = "up"
    BY <1>3 DEF FinishStart, ExecIInv, WorkTypeOK
  <2> QED BY <1>1, <2>1, <2>2, QuietProcess
<1> QED BY <1>2, <1>3

(* A crash takes the turns and the calls of the process along.               *)
LEMMA CrashStep ==
    ASSUME ExecIInv, NEW o \in Owners, Crash(o)
    PROVE  Implements
<1>1. /\ UNCHANGED <<vars, landed>>
      /\ proc' = [proc EXCEPT ![o] = "dead"]
      /\ turn' = [r \in Runs |-> IF turn[r].proc = o THEN NoTurnAlive ELSE turn[r]]
      /\ call' = [x \in Ops |-> IF call[x].proc = o THEN [call[x] EXCEPT !.phase = "done"]
                                ELSE call[x]]
      /\ scan' = [scan EXCEPT ![o] = [r \in Runs |-> 0]]
      /\ fixing' = [fixing EXCEPT ![o] = Nobody]
      /\ verdict' = [x \in Ops |-> IF verdict[x].by = o THEN NoVerdict ELSE verdict[x]]
      /\ early' = early
  BY DEF Crash
<1>2. [Next]_vars /\ (\A s \in Runs : Kept(s)) /\ (\A y \in Ops : OpKept(y))
  BY <1>1, UnchangedKeeps
<1>3. ASSUME NEW y \in Ops
      PROVE  /\ call[y] \in Calls
             /\ call[y].proc # o => call'[y] = call[y]
             /\ call[y].proc = o => call'[y] = [call[y] EXCEPT !.phase = "done"]
  BY <1>1 DEF ExecIInv, WorkTypeOK
<1>4. WorkTypeOK'
  <2>1. [r \in Runs |-> 0] \in [Runs -> 0..MaxRevision] BY BoundsAssumption
  <2>2. scan' \in [Owners -> [Runs -> 0..MaxRevision]] BY <1>1, <2>1, ScanTypes
  <2>3. call' \in [Ops -> Calls] BY <1>1, <1>3 DEF Calls, CallPhases
  <2>4. turn' \in [Runs -> TurnsAlive \cup {NoTurnAlive}] BY <1>1 DEF ExecIInv, WorkTypeOK
  <2>5. verdict' \in [Ops -> Verdicts]
    BY <1>1, NoVerdictTyped DEF ExecIInv, WorkTypeOK
  <2> QED BY <1>1, <2>2, <2>3, <2>4, <2>5 DEF ExecIInv, WorkTypeOK, ProcStates
<1>5. \A s \in Runs : TurnKept(s)
  <2>1. ASSUME NEW s \in Runs, turn'[s].phase # "none"
        PROVE  turn'[s] = turn[s] /\ turn[s].proc # o
    BY <1>1, <2>1 DEF NoTurnAlive
  <2>2. ASSUME NEW s \in Runs, turn[s].phase # "none", turn[s].proc # o
        PROVE  proc'[turn[s].proc] = "up"
    BY <1>1, <2>2, LiveTurn DEF ExecIInv, WorkTypeOK
  <2> QED BY <2>1, <2>2 DEF TurnKept
<1>6. TurnsOwnTheirRuns' /\ RefsArePast' BY <1>2, <1>5, HoldAll
<1>7. ASSUME NEW y \in Ops, call'[y].phase \notin Finished
      PROVE  /\ call'[y] = call[y] /\ OpKept(y)
             /\ TurnKept(RunOf(y)) /\ turn'[RunOf(y)].phase = "working"
  <2>1. call[y].proc # o /\ call'[y] = call[y] BY <1>3, <1>7 DEF Calls, Finished
  <2>2. Live(y) BY <1>7, <2>1 DEF Live
  <2>3. RunOf(y) \in Runs /\ turn[RunOf(y)].phase = "working" BY <2>2, LiveCall
  <2>4. turn[RunOf(y)].proc # o BY <2>1, <2>2 DEF ExecIInv, CallsOfTurns
  <2> QED BY <1>1, <1>2, <1>5, <2>1, <2>3, <2>4
<1>8. CallsOfTurns' BY <1>7, CallsHold
<1>9. ASSUME NEW y \in Ops
      PROVE  /\ call'[y].phase = "stray" => call[y].phase = "stray"
             /\ call[y].phase # "none" => call'[y].phase # "none"
             /\ Recorded(y) => Recorded(y)'
  BY <1>2, <1>3 DEF Calls, OpKept, Recorded, IsWrite
<1>10. EffectsKnown' BY <1>1, <1>9, EffectsHold
<1> QED BY <1>2, <1>4, <1>6, <1>8, <1>10 DEF Implements

(* Startup recovery hands the run of a dead process over ...                 *)
LEMMA HandOffStep ==
    ASSUME ExecIInv, NEW o \in Owners, NEW r \in Runs, HandOff(o, r)
    PROVE  Implements
<1>1. PICK q \in Owners : ProvenDead(q) /\ ReleaseExpiredRun(r, q, o, runs[r].attempt, scan[o][r])
  BY DEF HandOff
<1>2. /\ Next
      /\ \A s \in Runs : s # r => Kept(s)
      /\ runs[r].owner = q
      /\ runs'[r].attempt = runs[r].attempt /\ runs'[r].ref = runs[r].ref
      /\ \A y \in Ops : OpKept(y) \/ (RunOf(y) = r /\ (Recorded(y) => Recorded(y)'))
  <2>1. PICK v : v = scan[o][r] OBVIOUS
  <2>2. ReleaseExpiredRun(r, q, o, runs[r].attempt, v) BY <1>1, <2>1 DEF ReleaseExpiredRun
  <2> QED BY <2>2, ReleaseKeeps DEF ExecIInv
<1>3. turn[r].phase = "none" BY <1>1, <1>2, NoLiveTurn DEF ProvenDead
<1>4. runs'[r].ref <= runs'[r].attempt BY <1>2 DEF ExecIInv, RefsArePast
<1>5. WorkTypeOK'
  <2>1. scan' \in [Owners -> [Runs -> 0..MaxRevision]] BY ScanTypes DEF HandOff
  <2> QED BY <2>1 DEF HandOff, ExecIInv, WorkTypeOK, workVars
<1>6. UNCHANGED <<workVars, proc>> BY DEF HandOff
<1> QED BY <1>2, <1>3, <1>4, <1>5, <1>6, TurnlessRun

(* ... or leaves it alone.                                                   *)
LEMMA LeaveSteps ==
    ASSUME ExecIInv, NEW o \in Owners,
           \/ \E q \in Owners : LeaveToOwner(o, q)
           \/ \E r \in Runs : LeaveChanged(o, r)
    PROVE  Implements
<1>1. UNCHANGED <<vars, workVars, proc, fixing, verdict, early>> BY DEF LeaveToOwner, LeaveChanged
<1>2. scan' \in [Owners -> [Runs -> 0..MaxRevision]]
  <2>1. CASE \E q \in Owners : LeaveToOwner(o, q)
    <3>1. PICK q \in Owners : LeaveToOwner(o, q) BY <2>1
    <3>2. [r \in Runs |-> IF runs[r].owner = q THEN 0 ELSE scan[o][r]] \in [Runs -> 0..MaxRevision]
      BY BoundsAssumption DEF ExecIInv, WorkTypeOK
    <3> QED BY <3>1, <3>2, ScanTypes DEF LeaveToOwner
  <2>2. CASE \E r \in Runs : LeaveChanged(o, r) BY <2>2, ScanTypes DEF LeaveChanged
  <2> QED BY <2>1, <2>2
<1>3. WorkTypeOK' BY <1>1, <1>2 DEF ExecIInv, WorkTypeOK, workVars
<1> QED BY <1>1, <1>3, QuietProcess

(* A verified operation whose call is over.                                  *)
LEMMA VerifiedOperation ==
    ASSUME ExecIInv, UNCHANGED <<workVars, proc>>, WorkTypeOK', NEW o \in Owners, NEW x \in Ops,
           NEW to \in {"verified", "failed"}, NEW result \in Results,
           TransitionOperation(x, to, o, ops[x].attempt, result), ~Live(x)
    PROVE  Implements
<1>0. UNCHANGED <<turn, call, landed, proc>> BY DEF workVars
<1>1. to \in OperationStatuses BY DEF OperationStatuses
<1>2. PICK a : a = ops[x].attempt OBVIOUS
<1>3. TransitionOperation(x, to, o, a, result) BY <1>2 DEF TransitionOperation, Owns
<1>4. /\ Next
      /\ \A s \in Runs : Kept(s)
      /\ \A y \in Ops : y # x => OpKept(y)
      /\ ops'[x].status = to /\ ops'[x].run = ops[x].run
      /\ ops'[x].attempt = ops[x].attempt /\ ops'[x].effect = ops[x].effect
  BY <1>1, <1>3, TransitionOperationKeeps DEF ExecIInv
<1>5. ops[x].status # "absent" BY DEF TransitionOperation
<1>6. \A s \in Runs : TurnKept(s) BY <1>0, LiveTurn DEF TurnKept
<1>7. TurnsOwnTheirRuns' /\ RefsArePast' BY <1>4, <1>6, HoldAll
<1>8. ASSUME NEW y \in Ops, call'[y].phase \notin Finished
      PROVE  /\ call'[y] = call[y] /\ OpKept(y)
             /\ TurnKept(RunOf(y)) /\ turn'[RunOf(y)].phase = "working"
  <2>1. call'[y] = call[y] /\ Live(y) /\ y # x BY <1>0, <1>8 DEF Live
  <2>2. RunOf(y) \in Runs /\ turn[RunOf(y)].phase = "working" BY <2>1, LiveCall
  <2> QED BY <1>0, <1>4, <1>6, <2>1, <2>2
<1>9. CallsOfTurns' BY <1>8, CallsHold
<1>10. ASSUME NEW y \in Ops, Recorded(y) PROVE Recorded(y)'
  <2>1. CASE y = x BY <1>4, <1>5, <1>10, <2>1 DEF Recorded, IsWrite
  <2>2. CASE y # x BY <1>4, <1>10, <2>2 DEF OpKept, Recorded, IsWrite
  <2> QED BY <2>1, <2>2
<1>11. EffectsKnown' BY <1>0, <1>10, EffectsHold
<1> QED BY <1>4, <1>7, <1>9, <1>11 DEF Implements

(* The recovering process verifies what it has taken over ...                *)
LEMMA VerifyRecoveredStep ==
    ASSUME ExecIInv, NEW o \in Owners, NEW x \in Ops, NEW result \in {"completed", "unchanged"},
           VerifyRecovered(o, x, result)
    PROVE  Implements
<1>1. /\ proc[o] = "starting" /\ UNCHANGED <<workVars, procVars>>
      /\ TransitionOperation(x, IF result = "completed" THEN "verified" ELSE "failed",
                             o, ops[x].attempt, result)
  BY DEF VerifyRecovered
<1>2. PICK to \in {"verified", "failed"} : to = IF result = "completed" THEN "verified" ELSE "failed"
  OBVIOUS
<1>3. TransitionOperation(x, to, o, ops[x].attempt, result)
  BY <1>1, <1>2 DEF TransitionOperation, EvidenceFor
<1>4. ~Live(x)
  <2>1. RunOf(x) \in Runs => turn[RunOf(x)].phase = "none"
    BY <1>1, <1>3, NoLiveTurn DEF TransitionOperation, Owns, RunOf
  <2> QED BY <2>1, LiveCall
<1>5. WorkTypeOK' /\ UNCHANGED <<workVars, proc>>
  BY <1>1 DEF ExecIInv, WorkTypeOK, workVars, procVars
<1>6. result \in Results BY DEF Results
<1> QED BY <1>3, <1>4, <1>5, <1>6, VerifiedOperation

(* A run that no turn holds is moved, or left as it is.                      *)
LEMMA MovedRun ==
    ASSUME ExecIInv, UNCHANGED <<workVars, proc, scan, verdict, early>>, NEW o \in Owners, NEW r \in Runs,
           turn[r].phase = "none", fixing' = [fixing EXCEPT ![o] = Nobody],
           \/ UNCHANGED vars
           \/ \E to \in {"needs_review", "paused"} :
                TransitionRun(r, to, o, runs[r].attempt, runs[r].revision, 0)
    PROVE  Implements
<1>1. WorkTypeOK' BY DEF ExecIInv, WorkTypeOK, workVars
<1>2. CASE UNCHANGED vars BY <1>1, <1>2, QuietProcess
<1>3. CASE ~UNCHANGED vars
  <2>1. PICK to \in {"needs_review", "paused"} :
          TransitionRun(r, to, o, runs[r].attempt, runs[r].revision, 0)
    BY <1>3
  <2>2. to \in RunStatuses
    BY DEF RunStatuses, LeasedStatuses, Quarantined, ReleasedStatuses
  <2>3. PICK a, v : a = runs[r].attempt /\ v = runs[r].revision OBVIOUS
  <2>4. TransitionRun(r, to, o, a, v, 0) BY <2>1, <2>3 DEF TransitionRun, Owns
  <2>5. /\ Next
        /\ \A s \in Runs : s # r => Kept(s)
        /\ runs'[r].attempt = runs[r].attempt
        /\ runs'[r].ref = runs[r].ref
        /\ \A y \in Ops : OpKept(y)
    BY <2>2, <2>4, TransitionRunKeeps DEF ExecIInv
  <2>6. runs'[r].ref <= runs'[r].attempt BY <2>5 DEF ExecIInv, RefsArePast
  <2> QED BY <1>1, <2>5, <2>6, TurnlessRun
<1> QED BY <1>2, <1>3

(* ... and concludes.                                                        *)
LEMMA ConcludeStep ==
    ASSUME ExecIInv, NEW o \in Owners, Conclude(o)
    PROVE  Implements
<1>1. PICK r \in Runs : r = fixing[o] BY DEF Conclude, ExecIInv, WorkTypeOK
<1>2. /\ proc[o] = "starting" /\ UNCHANGED <<workVars, proc, scan, verdict, early>>
      /\ fixing' = [fixing EXCEPT ![o] = Nobody]
      /\ \/ UNCHANGED vars
         \/ \E to \in {"needs_review", "paused"} :
                TransitionRun(r, to, o, runs[r].attempt, runs[r].revision, 0)
  BY <1>1 DEF Conclude
<1>3. CASE UNCHANGED vars
  <2>1. WorkTypeOK' BY <1>2 DEF ExecIInv, WorkTypeOK, workVars
  <2> QED BY <1>2, <1>3, <2>1, QuietProcess
<1>4. CASE ~UNCHANGED vars
  <2>1. runs[r].owner = o BY <1>2, <1>4 DEF TransitionRun, Owns
  <2>2. turn[r].phase = "none" BY <1>2, <2>1, NoLiveTurn
  <2> QED BY <1>2, <2>2, MovedRun
<1> QED BY <1>3, <1>4

(* The user verifies an effect, and the run is paused.                       *)
LEMMA UserSteps ==
    ASSUME ExecIInv, NEW o \in Owners, UserStep(o)
    PROVE  Implements
<1>1. ASSUME NEW r \in Runs, runs[r].status \in Quarantined PROVE turn[r].phase = "none"
  BY <1>1, NoLiveTurn DEF Quarantined, ActiveRunStatuses
<1>2. CASE \E x \in Ops, result \in Results : ReadForUser(o, x, result)
  <2>1. PICK x \in Ops, result \in Results : ReadForUser(o, x, result) BY <1>2
  <2>2. UNCHANGED <<vars, workVars, proc, scan, fixing, early>> BY <2>1 DEF ReadForUser
  <2>3. runs[RunOf(x)].revision \in 0..MaxRevision
    BY <2>1, OpRow, RowTypes, BoundsAssumption DEF ReadForUser, ExecIInv, RunRows, NoRun
  <2>4. [by |-> o, result |-> result, revision |-> runs[RunOf(x)].revision,
         astray |-> call[x].phase = "stray"] \in Verdicts
    BY <2>3 DEF Verdicts
  <2>5. WorkTypeOK' BY <2>1, <2>2, <2>4 DEF ReadForUser, ExecIInv, WorkTypeOK, workVars
  <2> QED BY <2>2, <2>5, QuietProcess
<1>4. CASE \E x \in Ops : DropVerdict(o, x)
  <2>1. PICK x \in Ops : DropVerdict(o, x) BY <1>4
  <2>2. UNCHANGED <<vars, workVars, proc, scan, fixing, early>> BY <2>1 DEF DropVerdict
  <2>3. WorkTypeOK' BY <2>1, <2>2, NoVerdictTyped DEF DropVerdict, ExecIInv, WorkTypeOK, workVars
  <2> QED BY <2>2, <2>3, QuietProcess
<1>5. CASE \E x \in Ops : CommitVerdict(o, x)
  <2>1. PICK x \in Ops : CommitVerdict(o, x) BY <1>5
  <2>2. PICK r \in Runs : r = RunOf(x) BY <2>1, OpRow DEF CommitVerdict, StillCurrent, ExecIInv
  <2>o. UNCHANGED <<workVars, proc, scan>> /\ proc[o] = "up" BY <2>1 DEF CommitVerdict
  <2>3. PICK result \in Results : result = verdict[x].result
    BY DEF ExecIInv, WorkTypeOK, Verdicts
  <2>4. fixing' \in [Owners -> Runs \cup {Nobody}]
        /\ verdict' \in [Ops -> Verdicts] /\ early' \in SUBSET Ops
    BY <2>1, <2>2, NoVerdictTyped DEF CommitVerdict, ExecIInv, WorkTypeOK
  <2>5. WorkTypeOK' BY <2>o, <2>4 DEF ExecIInv, WorkTypeOK, workVars
  <2>6. CASE result = "unknown"
    <3>1. PICK a : a = ops[x].attempt OBVIOUS
    <3>2. RecordUnknownVerification(x, o, a)
      BY <2>1, <2>3, <2>6, <3>1 DEF CommitVerdict, RecordUnknownVerification, Owns
    <3>3. Next /\ (\A s \in Runs : Kept(s)) /\ (\A y \in Ops : OpKept(y))
      BY <3>2, RecordUnknownKeeps DEF ExecIInv
    <3>4. UNCHANGED <<turn, call, landed, proc>> BY <2>o DEF workVars
    <3>5. \A s \in Runs : TurnKept(s) BY <3>4, LiveTurn DEF TurnKept
    <3>6. CallsKeepTurns BY <3>4, WorkingTurns
    <3> QED BY <2>5, <3>3, <3>4, <3>5, <3>6, QuietTurnStep
  <2>7. CASE result # "unknown"
    <3>1. PICK to \in {"verified", "failed"} :
             to = IF result = "completed" THEN "verified" ELSE "failed"
      OBVIOUS
    <3>2. TransitionOperation(x, to, o, ops[x].attempt, result)
      BY <2>1, <2>3, <2>7, <3>1 DEF CommitVerdict, TransitionOperation, EvidenceFor
    <3>3. ~Live(x)
      BY <2>1, OwnersAssumption DEF CommitVerdict, ExecIInv, VerdictsAreLate, Live
    <3> QED BY <2>o, <2>5, <3>2, <3>3, VerifiedOperation
  <2> QED BY <2>6, <2>7
<1>3. CASE PauseResolved(o)
  <2>1. PICK r \in Runs : r = fixing[o] BY <1>3 DEF PauseResolved, ExecIInv, WorkTypeOK
  <2>2. /\ UNCHANGED <<workVars, proc, scan, verdict, early>>
        /\ fixing' = [fixing EXCEPT ![o] = Nobody]
        /\ \/ UNCHANGED vars
           \/ /\ runs[r].status \in Quarantined
              /\ TransitionRun(r, "paused", o, runs[r].attempt, runs[r].revision, 0)
    BY <1>3, <2>1 DEF PauseResolved
  <2>3. CASE UNCHANGED vars
    <3>1. WorkTypeOK' BY <2>2 DEF ExecIInv, WorkTypeOK, workVars
    <3> QED BY <2>2, <2>3, <3>1, QuietProcess
  <2>4. CASE ~UNCHANGED vars
    <3>1. turn[r].phase = "none" BY <1>1, <2>2, <2>4
    <3> QED BY <2>2, <3>1, MovedRun
  <2> QED BY <2>3, <2>4
<1> QED BY <1>2, <1>3, <1>4, <1>5 DEF UserStep

(* The user edits a conversation, or deletes it with its finished runs.      *)
LEMMA EditStep ==
    ASSUME ExecIInv, ConversationEdit
    PROVE  Implements
<1>1. UNCHANGED <<turn, call, landed, proc>> /\ WorkTypeOK'
  BY DEF ConversationEdit, workVars, procVars, ExecIInv, WorkTypeOK
<1>2. \A s \in Runs : TurnKept(s) BY <1>1, LiveTurn DEF TurnKept
<1>3. CASE \E c \in Conversations, w \in Workspaces : UpdateConversation(c, w)
  <2>1. CallsKeepTurns BY <1>1, WorkingTurns
  <2>2. Next /\ (\A s \in Runs : Kept(s)) /\ (\A y \in Ops : OpKept(y))
    BY <1>3, ConversationKeeps DEF ExecIInv
  <2> QED BY <1>1, <1>2, <2>1, <2>2, QuietTurnStep
<1>4. CASE \E c \in Conversations, w \in Workspaces : DeleteConversation(c, w)
  <2>1. /\ Next
        /\ \A s \in Runs : \/ Kept(s)
                           \/ runs[s].status \notin LeasedStatuses /\ runs'[s] = NoRun
        /\ \A y \in Ops : \/ OpKept(y)
                          \/ /\ RunOf(y) \in Runs
                             /\ runs[RunOf(y)].status \notin LeasedStatuses
                             /\ ops'[y] = NoOp
    BY <1>4, DeleteKeeps DEF ExecIInv
  <2>2. ASSUME NEW s \in Runs, turn[s].phase # "none" PROVE runs[s].status \in LeasedStatuses
    BY <2>2, LiveTurn DEF LeasedStatuses
  <2>3. ASSUME NEW s \in Runs, turn'[s].phase # "none"
        PROVE  /\ proc'[turn'[s].proc] = "up"
               /\ Owns(s, turn[s].proc, turn[s].attempt)'
               /\ runs'[s].status \in ActiveRunStatuses
               /\ turn'[s].input <= turn'[s].attempt
    <3>1. Kept(s) /\ turn[s].phase # "none" BY <1>1, <2>1, <2>2, <2>3
    <3>2. "absent" \notin ActiveRunStatuses BY DEF ActiveRunStatuses
    <3> QED BY <1>1, <3>1, <3>2
         DEF ExecIInv, TurnsOwnTheirRuns, RefsArePast, Kept, Owns, Exists
  <2>4. ASSUME NEW s \in Runs PROVE runs'[s].ref <= runs'[s].attempt
    BY <2>1 DEF ExecIInv, RefsArePast, Kept, NoRun
  <2>5. ASSUME NEW y \in Ops, call'[y].phase \notin Finished
        PROVE  /\ call'[y] = call[y] /\ OpKept(y)
               /\ TurnKept(RunOf(y)) /\ turn'[RunOf(y)].phase = "working"
    <3>1. Live(y) BY <1>1, <2>5 DEF Live
    <3>2. RunOf(y) \in Runs /\ turn[RunOf(y)].phase = "working" BY <3>1, LiveCall
    <3> QED BY <1>1, <1>2, <2>1, <2>2, <3>2
  <2>6. CallsOfTurns' BY <2>5, CallsHold
  <2>7. ASSUME NEW y \in Ops, Recorded(y) PROVE Recorded(y)'
    BY <2>1, <2>7 DEF OpKept, Recorded, IsWrite, NoOp
  <2>8. EffectsKnown' BY <1>1, <2>7, EffectsHold
  <2> QED BY <1>1, <2>1, <2>3, <2>4, <2>6, <2>8 DEF Implements, TurnsOwnTheirRuns, RefsArePast
<1> QED BY <1>3, <1>4 DEF ConversationEdit

------------------------------------------------------------------------------
(* What a step does to one call, to one operation and to the world.          *)

(* A call is scheduled once, keeps its process, and gets past the executor   *)
(* or to the gate in no other way than through its phases.                   *)
CallMoves(x) ==
    \/ call'[x] = call[x]
    \/ call[x].phase = "none" /\ \E r \in Runs, tool \in Tools : Schedule(x, r, tool)
    \/ /\ call'[x].proc = call[x].proc /\ call'[x].phase # "none"
       /\ call'[x].phase \notin Finished => call[x].phase \notin Finished \cup {"blocked"}
       /\ call'[x].phase \in Unfinished => call[x].phase \in InEffect /\ Outliving # {}
       /\ call'[x].phase \in AtGate => call[x].phase \in AtGate \/ x \notin landed

(* One call moves to a phase, and the others stay.                           *)
LEMMA PhaseOf ==
    ASSUME WorkTypeOK, NEW x \in Ops, NEW p, Phase(x, p)
    PROVE  /\ call'[x] = [call[x] EXCEPT !.phase = p]
           /\ call'[x].phase = p /\ call'[x].proc = call[x].proc
           /\ \A y \in Ops : y # x => call'[y] = call[y]
<1>1. call[x] \in Calls BY DEF WorkTypeOK
<1>2. call' = [call EXCEPT ![x] = [call[x] EXCEPT !.phase = p]] BY DEF Phase
<1>3. call'[x] = [call[x] EXCEPT !.phase = p] BY <1>2 DEF WorkTypeOK
<1> QED BY <1>1, <1>2, <1>3 DEF WorkTypeOK, Calls

(* The phase a call is scheduled in.                                         *)
LEMMA ScheduledPhase ==
    ASSUME WorkTypeOK, NEW x \in Ops, NEW r \in Runs, NEW tool \in Tools, Schedule(x, r, tool)
    PROVE  /\ call'[x].phase = IF UnfinishedWorkers(r) THEN "blocked" ELSE "scheduled"
           /\ call'[x].proc = turn[r].proc
           /\ \A y \in Ops : y # x => call'[y] = call[y]
<1>1. call'[x] = [NoCall EXCEPT !.phase = IF UnfinishedWorkers(r) THEN "blocked" ELSE "scheduled",
                                !.tool = tool, !.proc = turn[r].proc]
  BY DEF Schedule, WorkTypeOK
<1> QED BY <1>1 DEF Schedule, WorkTypeOK, NoCall

(* The steps of a call move it, and the call only.                           *)
LEMMA DispatchMoves ==
    ASSUME ExecIInv, NEW y \in Ops, DispatchStep(y), NEW x \in Ops
    PROVE  CallMoves(x)
<1> USE DEF Finished, Unfinished, InEffect, AtGate
<1>t. WorkTypeOK BY DEF ExecIInv
<1>1. CASE \E r \in Runs, tool \in Tools : Schedule(y, r, tool)
  BY <1>1, <1>t, ZenonT(30) DEF Schedule, WorkTypeOK, CallMoves
<1>2. CASE Admit(y) BY <1>2, <1>t, PhaseOf, ZenonT(30) DEF Admit, CallMoves
<1>3. CASE Enter(y) BY <1>3, <1>t, PhaseOf, ZenonT(30) DEF Enter, CallMoves
<1>4. CASE Promote(y)
  <2>1. Phase(y, "promoted") /\ call[y].phase = "running" BY <1>4 DEF Promote
  <2>2. call'[y].proc = call[y].proc /\ call'[y].phase = "promoted" BY <1>t, <2>1, PhaseOf
  <2>3. x # y => call'[x] = call[x] BY <1>t, <2>1, PhaseOf
  <2> QED BY <2>1, <2>2, <2>3 DEF CallMoves
<1>5. CASE PassBoundary(y) BY <1>5, <1>t, PhaseOf, ZenonT(30) DEF PassBoundary, CallMoves
<1>6. CASE Land(y) BY <1>6 DEF Land, CallMoves
<1>7. CASE AskPermission(y)
  <2>1. call[y] \in Calls BY <1>t DEF WorkTypeOK
  <2>2. call' = [call EXCEPT ![y] = [call[y] EXCEPT !.phase = "waiting", !.hops = call[y].hops + 1]]
    BY <1>7, <1>t DEF AskPermission, WorkTypeOK
  <2>3. call'[y].proc = call[y].proc /\ call'[y].phase = "waiting"
    BY <2>1, <2>2, <1>t DEF WorkTypeOK, Calls
  <2>4. x # y => call'[x] = call[x] BY <2>2, <1>t DEF WorkTypeOK
  <2>5. call[y].phase = "running" /\ y \notin landed BY <1>7 DEF AskPermission
  <2> QED BY <2>3, <2>4, <2>5 DEF CallMoves
<1>8. CASE Replay(y) BY <1>8, <1>t, PhaseOf, ZenonT(30) DEF Replay, CallMoves
<1>9. CASE Reenter(y) BY <1>9, <1>t, PhaseOf, ZenonT(30) DEF Reenter, CallMoves
<1>10. CASE WorkerStops(y) BY <1>10, <1>t, PhaseOf, ZenonT(30) DEF WorkerStops, CallMoves
<1> QED BY <1>1, <1>2, <1>3, <1>4, <1>5, <1>6, <1>7, <1>8, <1>9, <1>10 DEF DispatchStep

(* A settled call is over, or its worker may outlive it.                     *)
LEMMA SettleMoves ==
    ASSUME ExecIInv, NEW y \in Ops, SettleStep(y), NEW x \in Ops
    PROVE  CallMoves(x)
<1> USE DEF Finished, Unfinished, InEffect, AtGate
<1>t. WorkTypeOK BY DEF ExecIInv
<1>1. ASSUME Phase(y, "done") PROVE CallMoves(x) BY <1>1, <1>t, PhaseOf DEF CallMoves
<1>2. ASSUME NEW alive \in BOOLEAN, GiveUp(y, alive) PROVE CallMoves(x)
  <2>1. PICK p \in {"done", "stray", "stopping"} : Phase(y, p) /\ (p # "done" => alive)
    BY <1>2 DEF GiveUp
  <2>2. call[y].phase \in InEffect /\ (alive => Outliving # {}) BY <1>2 DEF GiveUp
  <2> QED BY <1>t, <2>1, <2>2, PhaseOf DEF CallMoves
<1>3. CASE \/ Skip(y) \/ NoEffect(y) \/ PermissionRefused(y) \/ Withdraw(y)
           \/ \E result \in Results : VerifyNative(y, result)
           \/ \E ok \in BOOLEAN : Return(y, ok)
  BY <1>1, <1>3 DEF Skip, NoEffect, PermissionRefused, Withdraw, VerifyNative, Return
<1> QED BY <1>2, <1>3 DEF SettleStep

(* Each step moves each call like that.                                      *)
LEMMA CallStep ==
    ASSUME ExecIInv, [ExecNext]_allVars, NEW x \in Ops
    PROVE  CallMoves(x)
<1>1. ASSUME call' = call PROVE CallMoves(x) BY <1>1 DEF CallMoves
<1>2. CASE \E o \in Owners : Crash(o)
  <2>1. PICK o \in Owners : Crash(o) BY <1>2
  <2>2. call'[x] = IF call[x].proc = o THEN [call[x] EXCEPT !.phase = "done"] ELSE call[x]
    BY <2>1 DEF Crash
  <2>3. call[x] \in Calls BY DEF ExecIInv, WorkTypeOK
  <2> QED BY <2>2, <2>3 DEF CallMoves, Calls, Finished, Unfinished, AtGate
<1>3. CASE \E o \in Owners :
             \/ Start(o) \/ RecoveryStep(o) \/ UserStep(o)
             \/ \E y \in Ops, result \in {"completed", "unchanged"} : VerifyRecovered(o, y, result)
             \/ \E r \in Runs : StartTurn(r, o)
  BY <1>1, <1>3 DEF Start, RecoveryStep, HandOff, LeaveChanged, LeaveToOwner, Conclude, FinishStart,
                    UserStep, ReadForUser, CommitVerdict, DropVerdict, PauseResolved, VerifyRecovered, StartTurn, workVars
<1>4. CASE \E r \in Runs : LeaseStep(r) \/ ChoiceStep(r) \/ TurnStep(r)
  BY <1>1, <1>4 DEF LeaseStep, ChoiceStep, TurnStep
<1>5. CASE \E y \in Ops : DispatchStep(y) \/ SettleStep(y)
  BY <1>5, DispatchMoves, SettleMoves
<1>6. CASE ConversationEdit BY <1>1, <1>6 DEF ConversationEdit, workVars
<1>7. CASE UNCHANGED allVars BY <1>1, <1>7 DEF allVars, workVars
<1> QED BY <1>2, <1>3, <1>4, <1>5, <1>6, <1>7 DEF ExecNext

(* The world changes by an effect of a call that is past its last check.     *)
Lands(x) ==
    /\ call[x].phase \in InEffect \cup {"stray"}
    /\ landed' = landed \cup {x}
    /\ UNCHANGED <<ops, call>>

(* Each step leaves the world alone or lets one effect land.                 *)
LEMMA WorldStep ==
    ASSUME [ExecNext]_allVars
    PROVE  landed' = landed \/ \E x \in Ops : Lands(x)
<1>1. CASE \E x \in Ops : Land(x)
  BY <1>1 DEF Land, Lands, InEffect, vars
<1>2. CASE \E x \in Ops : DispatchStep(x)
  <2>1. PICK x \in Ops : DispatchStep(x) BY <1>2
  <2>2. ASSUME ~Land(x) PROVE landed' = landed
    BY <2>1, <2>2 DEF DispatchStep, Schedule, Admit, Enter, Promote, PassBoundary,
                      AskPermission, Replay, Reenter, WorkerStops
  <2> QED BY <1>1, <2>2
<1>3. CASE \E x \in Ops : SettleStep(x)
  BY <1>3 DEF SettleStep, Skip, NoEffect, PermissionRefused, Withdraw, VerifyNative, Return, GiveUp
<1>4. CASE \E r \in Runs : LeaseStep(r) \/ ChoiceStep(r) \/ TurnStep(r)
  BY <1>4 DEF LeaseStep, ChoiceStep, TurnStep
<1>5. CASE \E o \in Owners :
             \/ Start(o) \/ Crash(o) \/ RecoveryStep(o) \/ UserStep(o)
             \/ \E y \in Ops, result \in {"completed", "unchanged"} : VerifyRecovered(o, y, result)
             \/ \E r \in Runs : StartTurn(r, o)
  BY <1>5 DEF Start, Crash, RecoveryStep, HandOff, LeaveChanged, LeaveToOwner, Conclude, FinishStart,
              UserStep, ReadForUser, CommitVerdict, DropVerdict, PauseResolved, VerifyRecovered, StartTurn, workVars
<1>6. CASE ConversationEdit BY <1>6 DEF ConversationEdit, workVars
<1>7. CASE UNCHANGED allVars BY <1>7 DEF allVars, workVars
<1> QED BY <1>2, <1>3, <1>4, <1>5, <1>6, <1>7 DEF ExecNext

(* The user has an operation read, or what was read is forgotten.            *)
VerdictMoves(x) ==
    \/ verdict'[x] \in {verdict[x], NoVerdict}
    \/ \E o \in Owners, result \in Results : ReadForUser(o, x, result)

LEMMA VerdictStep ==
    ASSUME ExecIInv, [ExecNext]_allVars, NEW x \in Ops
    PROVE  VerdictMoves(x)
<1>0. DOMAIN verdict = Ops BY DEF ExecIInv, WorkTypeOK
<1>1. ASSUME verdict' = verdict PROVE VerdictMoves(x) BY <1>1 DEF VerdictMoves
<1>2. CASE \E o \in Owners : Crash(o)
  BY <1>2 DEF Crash, VerdictMoves
<1>3. CASE \E o \in Owners : UserStep(o)
  <2>1. PICK o \in Owners : UserStep(o) BY <1>3
  <2>2. CASE \E y \in Ops, result \in Results : ReadForUser(o, y, result)
    <3>1. PICK y \in Ops, result \in Results : ReadForUser(o, y, result) BY <2>2
    <3>2. y # x => verdict'[x] = verdict[x] BY <1>0, <3>1 DEF ReadForUser
    <3> QED BY <3>1, <3>2 DEF VerdictMoves
  <2>3. CASE \E y \in Ops : CommitVerdict(o, y) \/ DropVerdict(o, y)
    BY <1>0, <2>3 DEF CommitVerdict, DropVerdict, VerdictMoves
  <2>4. CASE PauseResolved(o) BY <1>1, <2>4 DEF PauseResolved
  <2> QED BY <2>1, <2>2, <2>3, <2>4 DEF UserStep
<1>4. CASE \E o \in Owners :
             \/ Start(o) \/ RecoveryStep(o)
             \/ \E y \in Ops, result \in {"completed", "unchanged"} : VerifyRecovered(o, y, result)
             \/ \E r \in Runs : StartTurn(r, o)
  BY <1>1, <1>4 DEF Start, RecoveryStep, HandOff, LeaveChanged, LeaveToOwner, Conclude, FinishStart,
                    VerifyRecovered, StartTurn, procVars
<1>5. CASE \E r \in Runs : LeaseStep(r) \/ ChoiceStep(r) \/ TurnStep(r)
  BY <1>1, <1>5 DEF LeaseStep, ChoiceStep, TurnStep, procVars
<1>6. CASE \E y \in Ops : DispatchStep(y) \/ SettleStep(y)
  BY <1>1, <1>6 DEF DispatchStep, SettleStep, procVars
<1>7. CASE ConversationEdit BY <1>1, <1>7 DEF ConversationEdit, procVars
<1>8. CASE UNCHANGED allVars BY <1>1, <1>8 DEF allVars, procVars
<1> QED BY <1>2, <1>3, <1>4, <1>5, <1>6, <1>7, <1>8 DEF ExecNext

------------------------------------------------------------------------------
(* Settlements.                                                              *)

(* A call is at the permission gate before its effect only, so one that is   *)
(* withdrawn there has failed unchanged.                                     *)
GateBeforeEffect == \A x \in Ops : call[x].phase \in AtGate => x \notin landed

(* What the user had read of the files still is so when it is committed, but *)
(* for a worker given up on that could act when they were read.              *)
VerdictsStand ==
    \A x \in Ops : verdict[x].by # NoOwner =>
        /\ verdict[x].result \in {"completed", "unchanged", "unknown"}
        /\ verdict[x].result = "completed" => x \in landed
        /\ verdict[x].result = "unchanged" =>
              verdict[x].astray \/ (x \notin landed /\ call[x].phase # "stray")

(* A worker that was given up on lives in a process that serves, and nobody  *)
(* else takes its run while that is at the same attempt.                     *)
StrayHeld ==
    \A x \in Ops : call[x].phase = "stray" =>
        /\ call[x].proc \in Owners /\ proc[call[x].proc] = "up"
        /\ ops[x].status # "absent" /\ runs[RunOf(x)].attempt = ops[x].attempt =>
              runs[RunOf(x)].owner \in {call[x].proc, NoOwner}

Honest == GateBeforeEffect /\ VerdictsStand /\ StrayHeld

(* What a step does to an operation: it leaves it, prepares it with a call,  *)
(* deletes it, moves it without an outcome, or settles it on what happened;  *)
(* one that failed stays without an effect, unless it was read too early.    *)
TruthfulEnd(x) ==
    IsWrite(ops'[x]) =>
        /\ ops'[x].status = "verified" => x \in landed
        /\ ops'[x].status = "failed" =>
              x \in early' \/ (x \notin landed /\ call'[x].phase # "stray")
AppearsWithCall(x) ==
    ops[x].status = "absent" /\ ops'[x].status # "absent" =>
        \E r \in Runs, tool \in Tools : Schedule(x, r, tool)
OpMoves(x) ==
    /\ AppearsWithCall(x)
    /\ \/ ops'[x].status = ops[x].status
       \/ ops'[x].status \notin {"verified", "failed"}
       \/ Honest => TruthfulEnd(x)

(* A step of the journal that settles nothing.                               *)
LEMMA Unsettled ==
    ASSUME TypeOK, NEW x \in Ops, NEW r \in Runs,
           \/ ops' = ops
           \/ ops' = OpsReconciled(r)
           \/ \E more \in {"none", "text", "attached"} : FinalizeTurn(r, more)
           \/ \E c \in Conversations, w \in Workspaces : DeleteConversation(c, w)
    PROVE  OpMoves(x)
<1>1. CASE ops' = ops BY <1>1 DEF OpMoves, AppearsWithCall
<1>2. CASE ops' = OpsReconciled(r)
  <2>1. CASE x \in Interruptible(r)
    <3>1. ops[x] \in OpRows BY <2>1, RowTypes DEF Interruptible
    <3>2. ops[x].status # "absent" /\ Reconciled(ops[x]).status \in {"uncertain", "cancelled"}
      BY <2>1, <3>1 DEF Reconciled, OpRows, Interruptible
    <3> QED BY <1>2, <2>1, <3>2 DEF OpsReconciled, OpMoves, AppearsWithCall
  <2>2. CASE x \notin Interruptible(r) BY <1>2, <2>2 DEF OpsReconciled, OpMoves, AppearsWithCall
  <2> QED BY <2>1, <2>2
<1>3. CASE \E more \in {"none", "text", "attached"} : FinalizeTurn(r, more)
  <2>1. \A y \in Ops : OpKept(y) BY <1>3, ConversationKeeps
  <2> QED BY <2>1 DEF OpKept, OpMoves, AppearsWithCall
<1>4. CASE \E c \in Conversations, w \in Workspaces : DeleteConversation(c, w)
  BY <1>4 DEF DeleteConversation, OpMoves, AppearsWithCall, NoOp
<1> QED BY <1>1, <1>2, <1>3, <1>4

(* The steps of the processes and of the turns settle nothing, but for the   *)
(* verifications, which report what the verifier saw.                        *)
LEMMA ProcessesSettleTruly ==
    ASSUME ExecIInv, NEW o \in Owners, NEW x \in Ops,
           \/ Start(o) \/ Crash(o) \/ RecoveryStep(o) \/ UserStep(o)
           \/ \E y \in Ops, result \in {"completed", "unchanged"} : VerifyRecovered(o, y, result)
           \/ \E r \in Runs : StartTurn(r, o)
    PROVE  OpMoves(x)
<1>t. TypeOK BY DEF ExecIInv
<1>0. ASSUME ops' = ops PROVE OpMoves(x) BY <1>0 DEF OpMoves, AppearsWithCall
<1>1. CASE Start(o) \/ Crash(o) \/ FinishStart(o) \/ (\E q \in Owners : LeaveToOwner(o, q))
           \/ \E r \in Runs : LeaveChanged(o, r) \/ StartTurn(r, o)
  BY <1>0, <1>1 DEF Start, Crash, FinishStart, LeaveToOwner, LeaveChanged, StartTurn, Resume, BeginTurn,
                    ClaimRun, CreateRun, vars
<1>2. CASE \E r \in Runs : HandOff(o, r)
  <2>1. PICK r \in Runs : HandOff(o, r) BY <1>2
  <2>2. ops' = OpsReconciled(r) BY <2>1 DEF HandOff, ReleaseExpiredRun
  <2> QED BY <1>t, <2>2, Unsettled
<1>3. CASE Conclude(o) \/ PauseResolved(o)
  BY <1>0, <1>3 DEF Conclude, PauseResolved, TransitionRun, vars
<1>4. ASSUME NEW y \in Ops, NEW result, NEW to, to = IF result = "completed" THEN "verified" ELSE "failed",
             TransitionOperation(y, to, o, ops[y].attempt, result),
             Honest => /\ result = "completed" => y \in landed
                       /\ result # "completed" =>
                             y \in early' \/ (y \notin landed /\ call'[y].phase # "stray")
      PROVE  OpMoves(x)
  <2>1. x # y => ops'[x] = ops[x] BY <1>4, <1>t DEF TransitionOperation, TypeOK
  <2>2. ops[y] \in OpRows BY <1>4, <1>t, RowTypes DEF TransitionOperation
  <2>3. ops[y].status # "absent" /\ ops'[y].status = to
    BY <1>4, <1>t, <2>2 DEF TransitionOperation, TypeOK, OpRows
  <2>4. Honest => TruthfulEnd(y) BY <1>4, <2>3 DEF TruthfulEnd
  <2> QED BY <2>1, <2>3, <2>4 DEF OpMoves, AppearsWithCall
<1>5. CASE \E y \in Ops, result \in {"completed", "unchanged"} : VerifyRecovered(o, y, result)
  <2>1. PICK y \in Ops, result \in {"completed", "unchanged"} : VerifyRecovered(o, y, result) BY <1>5
  <2>2. Verified(y, result) /\ call' = call /\ proc[o] = "starting"
    BY <2>1 DEF VerifyRecovered, workVars
  <2>3. PICK to : to = IF result = "completed" THEN "verified" ELSE "failed" OBVIOUS
  <2>4. TransitionOperation(y, to, o, ops[y].attempt, result) BY <2>1, <2>3 DEF VerifyRecovered
  <2>5. ASSUME StrayHeld PROVE call[y].phase # "stray"
    <3>1. runs[RunOf(y)].owner = o /\ runs[RunOf(y)].attempt = ops[y].attempt
          /\ ops[y].status # "absent"
      BY <2>4 DEF TransitionOperation, Owns, RunOf
    <3> QED BY <2>2, <2>5, <3>1, OwnersAssumption DEF StrayHeld
  <2>6. /\ result = "completed" => y \in landed
        /\ result # "completed" => y \notin landed
    BY <2>1, <2>2 DEF Verified
  <2> QED BY <1>4, <2>2, <2>3, <2>4, <2>5, <2>6 DEF Honest
<1>6. CASE \E y \in Ops : CommitVerdict(o, y)
  <2>1. PICK y \in Ops : CommitVerdict(o, y) BY <1>6
  <2>2. PICK result : result = verdict[y].result OBVIOUS
  <2>3. CASE result = "unknown"
    <3>1. PICK a : a = ops[y].attempt OBVIOUS
    <3>2. RecordUnknownVerification(y, o, a)
      BY <2>1, <2>2, <2>3, <3>1 DEF CommitVerdict, RecordUnknownVerification, Owns
    <3>3. \A z \in Ops : OpKept(z) BY <1>t, <3>2, RecordUnknownKeeps
    <3> QED BY <3>3 DEF OpKept, OpMoves, AppearsWithCall
  <2>4. CASE result # "unknown"
    <3>1. PICK to : to = IF result = "completed" THEN "verified" ELSE "failed" OBVIOUS
    <3>2. TransitionOperation(y, to, o, ops[y].attempt, result)
      BY <2>1, <2>2, <2>4, <3>1 DEF CommitVerdict
    <3>3. /\ early' = IF result = "unchanged" /\ verdict[y].astray THEN early \cup {y} ELSE early
          /\ verdict[y].by # NoOwner /\ call' = call
      BY <2>1, <2>2, <2>4, OwnersAssumption DEF CommitVerdict, workVars
    <3>4. ASSUME VerdictsStand
          PROVE  /\ result = "completed" => y \in landed
                 /\ result # "completed" =>
                       y \in early' \/ (y \notin landed /\ call'[y].phase # "stray")
      BY <2>2, <2>4, <3>3, <3>4 DEF VerdictsStand
    <3> QED BY <1>4, <3>1, <3>2, <3>4 DEF Honest
  <2> QED BY <2>3, <2>4
<1>7. CASE \/ \E y \in Ops, result \in Results : ReadForUser(o, y, result)
           \/ \E y \in Ops : DropVerdict(o, y)
  BY <1>0, <1>7 DEF ReadForUser, DropVerdict, vars
<1> QED BY <1>1, <1>2, <1>3, <1>5, <1>6, <1>7 DEF RecoveryStep, UserStep

(* The steps of the turns settle nothing.                                    *)
LEMMA TurnsSettleNothing ==
    ASSUME ExecIInv, NEW r \in Runs, LeaseStep(r) \/ ChoiceStep(r) \/ TurnStep(r), NEW x \in Ops
    PROVE  OpMoves(x)
<1>t. TypeOK BY DEF ExecIInv
<1>0. ASSUME ops' = ops PROVE OpMoves(x) BY <1>0 DEF OpMoves, AppearsWithCall
<1>1. ASSUME NEW to, NEW ref, Move(r, to, ref) PROVE OpMoves(x)
  <2>1. ops' \in {ops, OpsReconciled(r)} BY <1>1 DEF Move, TransitionRun
  <2> QED BY <1>t, <2>1, Unsettled
<1>2. CASE LeaseStep(r)
  BY <1>0, <1>2 DEF LeaseStep, LeaseExpires, Heartbeat, HeartbeatFails, RenewLease, vars
<1>3. CASE ChoiceStep(r)
  BY <1>0, <1>1, <1>3 DEF ChoiceStep, RejectQueued, CancelQueued, RequestPause, PersistInput,
                          PersistRecoveryInput, vars
<1>4. CASE \E more \in UserInputs \cup {"none"} : Seal(r, more)
  <2>1. \E more \in {"none", "text", "attached"} : FinalizeTurn(r, more)
    BY <1>4, InputsAssumption DEF Seal
  <2> QED BY <1>t, <2>1, Unsettled
<1>5. CASE \/ Activate(r)
           \/ StartWork(r, UnfinishedWorkers(r))
           \/ \E outcome \in Endings : EndTurn(r, outcome)
           \/ SealFails(r) \/ FinishUnowned(r)
  BY <1>0, <1>5 DEF Activate, StartWork, EndTurn, SealFails, FinishUnowned, UpdateConversation, vars
<1>6. CASE FinishForReview(r) \/ FinishPausing(r) \/ Finish(r) \/ FinishRefused(r)
  BY <1>1, <1>6 DEF FinishForReview, FinishPausing, Finish, FinishRefused
<1> QED BY <1>2, <1>3, <1>4, <1>5, <1>6 DEF TurnStep

(* The steps of a call settle its operation on what happened.                *)
LEMMA CallsSettleTruly ==
    ASSUME ExecIInv, NEW y \in Ops, DispatchStep(y) \/ SettleStep(y), NEW x \in Ops
    PROVE  OpMoves(x)
<1>t. TypeOK /\ WorkTypeOK BY DEF ExecIInv
<1>0. ASSUME ops' = ops PROVE OpMoves(x) BY <1>0 DEF OpMoves, AppearsWithCall
<1>1. ASSUME NEW to, NEW result, Settle(y, to, result),
             \/ to \notin {"verified", "failed"}
             \/ ~IsWrite(ops[y])
             \/ to = "verified" /\ y \in landed
             \/ to = "failed" /\ (GateBeforeEffect => y \notin landed) /\ Phase(y, "done")
      PROVE  OpMoves(x)
  <2>1. x # y => ops'[x] = ops[x] BY <1>1, <1>t DEF Settle, TransitionOperation, TypeOK
  <2>2. ops[y] \in OpRows BY <1>1, <1>t, RowTypes DEF Settle, TransitionOperation
  <2>3. ops[y].status # "absent" /\ ops'[y].status = to /\ ops'[y].effect = ops[y].effect
    BY <1>1, <1>t, <2>2 DEF Settle, TransitionOperation, TypeOK, OpRows
  <2>4. Phase(y, "done") => call'[y].phase = "done" BY <1>t, PhaseOf
  <2>5. Honest => TruthfulEnd(y) \/ to \notin {"verified", "failed"}
    BY <1>1, <2>3, <2>4 DEF Honest, TruthfulEnd, IsWrite
  <2> QED BY <2>1, <2>3, <2>5 DEF OpMoves, AppearsWithCall
<1>2. ASSUME NEW r, NEW to, Move(r, to, 0), to # "interrupted" PROVE ops' = ops
  BY <1>2 DEF Move, TransitionRun
<1>3. CASE \E r \in Runs, tool \in Tools : Schedule(y, r, tool)
  <2>1. PICK r \in Runs, tool \in Tools : Schedule(y, r, tool) BY <1>3
  <2>2. ops'[y].status = "prepared" BY <2>1, <1>t DEF Schedule, PrepareOperation, TypeOK
  <2>3. x # y => ops'[x] = ops[x] BY <2>1, <1>t DEF Schedule, PrepareOperation, TypeOK
  <2> QED BY <1>3, <2>2, <2>3 DEF OpMoves, AppearsWithCall
<1>4. CASE Admit(y) \/ Enter(y) \/ Skip(y)
  BY <1>1, <1>4 DEF Admit, Enter, Skip
<1>5. CASE Promote(y)
  <2>1. ops'[y].status = ops[y].status
    <3>1. ops[y] \in OpRows BY <1>5, <1>t, RowTypes DEF Promote, PromoteOperation
    <3> QED BY <1>5, <1>t, <3>1 DEF Promote, PromoteOperation, TypeOK, OpRows
  <2>2. x # y => ops'[x] = ops[x] BY <1>5, <1>t DEF Promote, PromoteOperation, TypeOK
  <2> QED BY <2>1, <2>2 DEF OpMoves, AppearsWithCall
<1>6. CASE PassBoundary(y) \/ Land(y) \/ Reenter(y) \/ WorkerStops(y) \/ AskPermission(y) \/ Replay(y)
  BY <1>0, <1>2, <1>6 DEF PassBoundary, Land, Reenter, WorkerStops, AskPermission, Replay, vars
<1>7. CASE NoEffect(y) \/ PermissionRefused(y)
  BY <1>1, <1>7 DEF NoEffect, PermissionRefused
<1>8. CASE Withdraw(y)
  BY <1>1, <1>8 DEF Withdraw, GateBeforeEffect
<1>9. CASE \E result \in Results : VerifyNative(y, result)
  BY <1>1, <1>9 DEF VerifyNative, Verified
<1>10. ASSUME call[y].tool = "reader", call[y].phase \in InEffect PROVE ~IsWrite(ops[y])
  BY <1>10 DEF ExecIInv, CallsOfTurns, Live, Finished, Unfinished, InEffect
<1>11. CASE \E ok \in BOOLEAN : Return(y, ok)
  <2>1. PICK ok \in BOOLEAN : Return(y, ok) BY <1>11
  <2>2. call[y].phase \in InEffect BY <2>1 DEF Return, InEffect
  <2>3. CASE call[y].tool = "reader" BY <1>1, <1>10, <2>1, <2>2, <2>3 DEF Return
  <2>4. CASE call[y].tool # "reader" BY <1>1, <2>1, <2>4 DEF Return
  <2> QED BY <2>3, <2>4
<1>12. CASE \E alive \in BOOLEAN : GiveUp(y, alive)
  <2>1. PICK alive \in BOOLEAN : GiveUp(y, alive) BY <1>12
  <2>2. call[y].phase \in InEffect BY <2>1 DEF GiveUp
  <2>3. CASE call[y].tool = "reader" BY <1>1, <1>10, <2>1, <2>2, <2>3 DEF GiveUp
  <2>4. CASE call[y].tool # "reader" BY <1>1, <2>1, <2>4 DEF GiveUp
  <2> QED BY <2>3, <2>4
<1> QED BY <1>3, <1>4, <1>5, <1>6, <1>7, <1>8, <1>9, <1>11, <1>12 DEF DispatchStep, SettleStep

(* Each step moves each operation like that.                                 *)
LEMMA OpStep ==
    ASSUME ExecIInv, [ExecNext]_allVars, NEW x \in Ops
    PROVE  OpMoves(x)
<1>t. TypeOK BY DEF ExecIInv
<1>1. CASE ConversationEdit
  <2>1. CASE \E c \in Conversations, w \in Workspaces : UpdateConversation(c, w)
    BY <2>1 DEF UpdateConversation, OpMoves, AppearsWithCall
  <2>2. CASE \E c \in Conversations, w \in Workspaces : DeleteConversation(c, w)
    BY <2>2 DEF DeleteConversation, OpMoves, AppearsWithCall, NoOp
  <2> QED BY <1>1, <2>1, <2>2 DEF ConversationEdit
<1>2. CASE UNCHANGED allVars BY <1>2 DEF allVars, vars, OpMoves, AppearsWithCall
<1> QED BY <1>1, <1>2, ProcessesSettleTruly, TurnsSettleNothing, CallsSettleTruly DEF ExecNext

------------------------------------------------------------------------------
(* The whole system.                                                         *)

(* No turn, no call and no effect at first.                                  *)
LEMMA InitExec == ExecInit => ExecIInv
<1> SUFFICES ASSUME ExecInit PROVE ExecIInv OBVIOUS
<1>1. TypeOK BY InitType DEF ExecInit
<1>2. WorkTypeOK
  BY BoundsAssumption, HopsAssumption, ToolsAssumption
  DEF ExecInit, WorkTypeOK, NoCall, Calls, CallPhases, ProcStates, NoVerdict, Verdicts, Results
<1>3. TurnsOwnTheirRuns /\ RefsArePast
  BY DEF ExecInit, Init, TurnsOwnTheirRuns, RefsArePast, NoTurnAlive, NoRun
<1>4. CallsOfTurns BY DEF ExecInit, CallsOfTurns, Live, NoCall, Finished
<1>5. EffectsKnown BY DEF ExecInit, EffectsKnown, NoCall
<1>6. OpsHaveCalls /\ VerdictsAreLate
  BY DEF ExecInit, Init, OpsHaveCalls, VerdictsAreLate, NoOp, NoVerdict
<1> QED BY <1>1, <1>2, <1>3, <1>4, <1>5, <1>6 DEF ExecIInv

(* An operation has a call from its first row on.                            *)
LEMMA OpsHaveCallsStep ==
    ASSUME ExecIInv, [ExecNext]_allVars
    PROVE  OpsHaveCalls'
<1> SUFFICES ASSUME NEW x \in Ops, ops'[x].status # "absent" PROVE call'[x].phase # "none"
  BY DEF OpsHaveCalls
<1>1. CallMoves(x) /\ AppearsWithCall(x) BY CallStep, OpStep DEF OpMoves
<1>2. ASSUME NEW r \in Runs, NEW tool \in Tools, Schedule(x, r, tool)
      PROVE  call'[x].phase # "none"
  BY <1>2, ScheduledPhase DEF ExecIInv
<1>3. CASE ops[x].status = "absent" BY <1>1, <1>2, <1>3 DEF AppearsWithCall
<1>4. CASE ops[x].status # "absent"
  BY <1>1, <1>4 DEF ExecIInv, OpsHaveCalls, CallMoves
<1> QED BY <1>3, <1>4

(* The user has no operation looked at whose call is live.                   *)
LEMMA VerdictsAreLateStep ==
    ASSUME ExecIInv, [ExecNext]_allVars
    PROVE  VerdictsAreLate'
<1> SUFFICES ASSUME NEW x \in Ops, verdict'[x].by # NoOwner
             PROVE  call'[x].phase \in Finished \ {"none"}
  BY DEF VerdictsAreLate
<1>1. CASE \E o \in Owners, result \in Results : ReadForUser(o, x, result)
  <2>1. PICK o \in Owners, result \in Results : ReadForUser(o, x, result) BY <1>1
  <2>2. call' = call /\ ops[x].status # "absent" /\ runs[RunOf(x)].status \in Quarantined
    BY <2>1 DEF ReadForUser, workVars
  <2>3. call[x].phase # "none" BY <2>2 DEF ExecIInv, OpsHaveCalls
  <2>4. ~Live(x)
    <3>1. ASSUME Live(x) PROVE FALSE
      <4>1. RunOf(x) \in Runs /\ turn[RunOf(x)].phase = "working" BY <3>1, LiveCall
      <4>2. runs[RunOf(x)].status \in ActiveRunStatuses BY <4>1, LiveTurn
      <4> QED BY <2>2, <4>2 DEF Quarantined, ActiveRunStatuses
    <3> QED BY <3>1
  <2> QED BY <2>2, <2>3, <2>4 DEF Live
<1>2. CASE verdict'[x] = verdict[x]
  <2>1. call[x].phase \in Finished \ {"none"} BY <1>2 DEF ExecIInv, VerdictsAreLate
  <2> QED BY <2>1, CallStep DEF CallMoves
<1>3. CASE verdict'[x] = NoVerdict BY <1>3 DEF NoVerdict
<1> QED BY <1>1, <1>2, <1>3, VerdictStep DEF VerdictMoves

(* Every step is one of the journal and keeps the invariant.                 *)
LEMMA ExecStep ==
    ASSUME ExecIInv, [ExecNext]_allVars
    PROVE  [Next]_vars /\ ExecIInv'
<1>1. Implements
  <2>1. CASE UNCHANGED allVars
    <3>1. UNCHANGED <<vars, workVars, procVars>> BY <2>1 DEF allVars
    <3>2. WorkTypeOK' /\ proc' = proc
      BY <3>1 DEF ExecIInv, WorkTypeOK, workVars, procVars
    <3> QED BY <3>1, <3>2, QuietProcess
  <2>2. CASE \E o \in Owners :
               \/ Start(o) \/ Crash(o) \/ RecoveryStep(o) \/ UserStep(o)
               \/ \E x \in Ops, result \in {"completed", "unchanged"} : VerifyRecovered(o, x, result)
               \/ \E r \in Runs : StartTurn(r, o)
    <3>1. PICK o \in Owners :
               \/ Start(o) \/ Crash(o) \/ RecoveryStep(o) \/ UserStep(o)
               \/ \E x \in Ops, result \in {"completed", "unchanged"} : VerifyRecovered(o, x, result)
               \/ \E r \in Runs : StartTurn(r, o)
      BY <2>2
    <3>2. CASE RecoveryStep(o)
      BY <3>2, HandOffStep, LeaveSteps, ConcludeStep, StartSteps DEF RecoveryStep
    <3> QED BY <3>1, <3>2, StartSteps, CrashStep, UserSteps, VerifyRecoveredStep, StartTurnStep
  <2>3. CASE \E r \in Runs : LeaseStep(r) \/ ChoiceStep(r) \/ TurnStep(r)
    BY <2>3, LeaseSteps, ChoiceSteps, TurnSteps
  <2>4. CASE \E x \in Ops : DispatchStep(x) \/ SettleStep(x)
    BY <2>4, DispatchSteps, SettleSteps
  <2>5. CASE ConversationEdit BY <2>5, EditStep
  <2> QED BY <2>1, <2>2, <2>3, <2>4, <2>5 DEF ExecNext
<1>2. TypeOK' BY <1>1, TypeStep DEF Implements, ExecIInv
<1> QED BY <1>1, <1>2, OpsHaveCallsStep, VerdictsAreLateStep DEF Implements, ExecIInv

(* The invariant holds always.                                               *)
LEMMA ExecInvariance == ExecSpec => []ExecIInv
<1>1. ExecIInv /\ [ExecNext]_allVars => ExecIInv' BY ExecStep
<1> QED BY InitExec, <1>1, PTL DEF ExecSpec

(* Every row and every column keeps its type, and so does what the processes *)
(* keep in memory.                                                           *)
THEOREM ExecTypeCorrectness == ExecSpec => []ExecTypeOK
<1>1. ExecIInv => ExecTypeOK BY DEF ExecIInv, WorkTypeOK, ExecTypeOK
<1> QED BY ExecInvariance, <1>1, PTL

(* The processes with their turns, calls, recoveries and crashes implement   *)
(* the journal: each of their steps is one of its transactions or none.      *)
THEOREM ImplementsTheJournal == ExecSpec => Spec
<1>1. ExecInit => Init BY DEF ExecInit
<1>2. ExecIInv /\ [ExecNext]_allVars => [Next]_vars BY ExecStep
<1> QED BY ExecInvariance, <1>1, <1>2, PTL DEF ExecSpec, Spec

(* So a released run has no write with an open outcome, whatever crashed,    *)
(* timed out or was stopped.                                                 *)
THEOREM ReleasedRunsStaySettled == ExecSpec => []ReleasedRunsAreSettled
BY ImplementsTheJournal, ReleasedMeansSettled, PTL

(* A live turn holds its run: no recovery, command or other process takes it *)
(* away or moves it out of the active statuses while its process runs.       *)
THEOREM TurnsHoldTheirRuns == ExecSpec => []TurnsOwnTheirRuns
<1>1. ExecIInv => TurnsOwnTheirRuns BY DEF ExecIInv
<1> QED BY ExecInvariance, <1>1, PTL

(* An effect is on record before it happens, and for good: no crash, stop or *)
(* recovery leaves its row as that of an operation that was not dispatched.  *)
THEOREM EffectsStayOnRecord == ExecSpec => []EffectsAreOnRecord
<1>1. ExecIInv => EffectsAreOnRecord
  BY DEF ExecIInv, EffectsKnown, EffectsAreOnRecord, Recorded, WorkTypeOK
<1> QED BY ExecInvariance, <1>1, PTL

------------------------------------------------------------------------------
(* What the settlements rest on: calls at the gate, calls and runs from one   *)
(* step to the next, and who holds the run of a worker that was given up on. *)

(* Nothing lands from the gate.                                              *)
LEMMA GateHolds ==
    ASSUME ExecIInv, GateBeforeEffect, [ExecNext]_allVars
    PROVE  GateBeforeEffect'
<1> SUFFICES ASSUME NEW x \in Ops, call'[x].phase \in AtGate PROVE x \notin landed'
  BY DEF GateBeforeEffect
<1>1. x \notin landed
  <2>1. CallMoves(x) BY CallStep
  <2>2. ASSUME NEW r \in Runs, NEW tool \in Tools, Schedule(x, r, tool) PROVE FALSE
    <3>1. call'[x] = [NoCall EXCEPT !.phase = IF UnfinishedWorkers(r) THEN "blocked" ELSE "scheduled",
                                    !.tool = tool, !.proc = turn[r].proc]
      BY <2>2 DEF Schedule, ExecIInv, WorkTypeOK
    <3>2. call'[x].phase \in {"blocked", "scheduled"} BY <3>1 DEF NoCall
    <3> QED BY <3>2 DEF AtGate
  <2> QED BY <2>1, <2>2 DEF CallMoves, GateBeforeEffect
<1>2. ASSUME NEW y \in Ops, Lands(y) PROVE x # y
  BY <1>2 DEF Lands, InEffect, AtGate
<1> QED BY <1>1, <1>2, WorldStep DEF Lands

(* The run of a live call is held by the process of the call.                *)
LEMMA LiveOwner ==
    ASSUME ExecIInv, NEW x \in Ops, Live(x)
    PROVE  /\ RunOf(x) \in Runs /\ Exists(RunOf(x))
           /\ runs[RunOf(x)].owner = call[x].proc
           /\ runs[RunOf(x)].status \in LeasedStatuses
           /\ ops[x].attempt = turn[RunOf(x)].attempt
           /\ ops[x].status # "absent"
<1>1. RunOf(x) \in Runs /\ turn[RunOf(x)].phase = "working" /\ OnTrack(x) BY LiveCall
<1>2. /\ Owns(RunOf(x), turn[RunOf(x)].proc, turn[RunOf(x)].attempt)
      /\ runs[RunOf(x)].status \in ActiveRunStatuses
  BY <1>1, LiveTurn
<1>3. turn[RunOf(x)].proc = call[x].proc /\ turn[RunOf(x)].attempt = ops[x].attempt
  BY DEF ExecIInv, CallsOfTurns
<1>4. ops[x].status # "absent"
  BY <1>1 DEF OnTrack, Live, Finished, Unfinished, InEffect, AtGate, ExecIInv, WorkTypeOK, Calls, CallPhases
<1> QED BY <1>1, <1>2, <1>3, <1>4 DEF Owns, LeasedStatuses

(* How a call got to be live, or given up on, in one step.                   *)
LEMMA LiveBefore ==
    ASSUME ExecIInv, [ExecNext]_allVars, NEW x \in Ops, Live(x)'
    PROVE  \/ /\ Live(x) /\ call'[x].proc = call[x].proc
              /\ call'[x].phase # "blocked" => call[x].phase # "blocked"
           \/ \E r \in Runs, tool \in Tools : Schedule(x, r, tool)
BY CallStep DEF CallMoves, Live

(* How a call got to be stray.                                               *)
LEMMA StrayBefore ==
    ASSUME ExecIInv, [ExecNext]_allVars, NEW x \in Ops, call'[x].phase \in Unfinished
    PROVE  /\ call'[x].proc = call[x].proc
           /\ call'[x] = call[x] \/ call[x].phase \in InEffect
<1>1. WorkTypeOK BY DEF ExecIInv
<1>2. ASSUME NEW r \in Runs, NEW tool \in Tools, Schedule(x, r, tool) PROVE FALSE
  BY <1>1, <1>2, ScheduledPhase DEF Unfinished
<1> QED BY <1>2, CallStep DEF CallMoves

(* The run of a call that stays stays, too, with its conversation.           *)
LEMMA CallRunsStay ==
    ASSUME ExecIInv, IInv, ExecIInv', IInv', [Next]_vars, NEW x \in Ops,
           ops[x].status # "absent", ops'[x].status # "absent"
    PROVE  /\ RunOf(x) \in Runs /\ RunOf(x)' = RunOf(x) /\ ops'[x].attempt = ops[x].attempt
           /\ Exists(RunOf(x)) /\ Exists(RunOf(x))'
           /\ runs'[RunOf(x)].conv = runs[RunOf(x)].conv
           /\ runs'[RunOf(x)].ws = runs[RunOf(x)].ws
<1>1. RunOf(x) \in Runs /\ ops'[x].run = ops[x].run /\ ops'[x].attempt = ops[x].attempt
  BY OpRow, OpsStay DEF ExecIInv, RunOf
<1>2. Exists(RunOf(x)) /\ Exists(RunOf(x))'
  BY <1>1 DEF IInv, OperationsBelongToRuns, RunOf, Exists
<1> QED BY <1>1, <1>2, RunsStay DEF ExecIInv, RunOf

(* A run changes hands by a new attempt, or when the process it had is dead. *)
KeepsOwner(r) == runs'[r].attempt = runs[r].attempt /\ runs'[r].owner \in {runs[r].owner, NoOwner}
OwnerMoves(r) ==
    \/ KeepsOwner(r)
    \/ runs'[r].attempt = runs[r].attempt + 1
    \/ /\ runs'[r].attempt = runs[r].attempt
       /\ runs[r].owner \in Owners /\ proc[runs[r].owner] = "dead"

LEMMA KeptOwner ==
    ASSUME NEW r \in Runs, UNCHANGED runs \/ Kept(r)
    PROVE  OwnerMoves(r)
BY DEF OwnerMoves, KeepsOwner, Kept

LEMMA TransitionOwner ==
    ASSUME TypeOK, NEW s, NEW to, NEW o, NEW a, NEW v, NEW ref, TransitionRun(s, to, o, a, v, ref),
           NEW r \in Runs, Exists(r)
    PROVE  OwnerMoves(r)
<1>1. runs[r] \in RunRows BY RowTypes
<1>2. CASE r = s
  BY <1>1, <1>2 DEF TransitionRun, TypeOK, StatusAfter, RunRows, OwnerMoves, KeepsOwner
<1>3. CASE r # s BY <1>3 DEF TransitionRun, TypeOK, OwnerMoves, KeepsOwner
<1> QED BY <1>2, <1>3

LEMMA OperationOwner ==
    ASSUME TypeOK, NEW x \in Ops, NEW o, NEW a, NEW r \in Runs,
           \/ \E to, result : TransitionOperation(x, to, o, a, result)
           \/ PromoteOperation(x, o, a)
           \/ RecordUnknownVerification(x, o, a)
    PROVE  OwnerMoves(r)
<1>1. RunOf(x) \in Runs /\ Exists(RunOf(x)) /\ runs' = [runs EXCEPT ![RunOf(x)] = Touched(runs[RunOf(x)])]
  BY OpRow DEF TransitionOperation, PromoteOperation, RecordUnknownVerification, Owns, RunOf
<1> QED BY <1>1, TouchedKeeps, KeptOwner

(* The steps of the turns.                                                   *)
LEMMA TurnOwnerStep ==
    ASSUME ExecIInv, NEW s \in Runs, LeaseStep(s) \/ ChoiceStep(s) \/ TurnStep(s),
           NEW r \in Runs, Exists(r)
    PROVE  OwnerMoves(r)
<1>t. TypeOK BY DEF ExecIInv
<1>0. ASSUME runs' = runs PROVE OwnerMoves(r) BY <1>0, KeptOwner
<1>1. ASSUME NEW to, NEW ref, Move(s, to, ref) PROVE OwnerMoves(r)
  BY <1>1, <1>t, TransitionOwner DEF Move
<1>2. CASE LeaseStep(s)
  <2>1. CASE UNCHANGED vars BY <1>0, <2>1 DEF vars
  <2>2. CASE Heartbeat(s) /\ ~UNCHANGED vars
    <3>1. runs' = [runs EXCEPT ![s].lease = TRUE, ![s].fresh = TRUE]
      BY <2>2 DEF Heartbeat, RenewLease
    <3>2. runs[r] \in RunRows BY <1>t, RowTypes
    <3>3. runs'[r].owner = runs[r].owner /\ runs'[r].attempt = runs[r].attempt
      BY <1>t, <3>1, <3>2 DEF TypeOK, RunRows
    <3> QED BY <3>3 DEF OwnerMoves, KeepsOwner
  <2> QED BY <1>2, <2>1, <2>2 DEF LeaseStep, LeaseExpires, HeartbeatFails
<1>3. CASE ChoiceStep(s)
  <2>1. CASE \E users \in UserInputs : PersistInput(s, users)
    <3>1. PICK users \in UserInputs : PersistInput(s, users) BY <2>1
    <3>2. turn[s].phase # "none" BY <3>1 DEF PersistInput
    <3>3. PICK o \in Owners : o = turn[s].proc BY <3>2, LiveTurn
    <3>4. PersistRecoveryInput(s, o, 1, users)
      BY <3>1, <3>3 DEF PersistInput, PersistRecoveryInput, Owns
    <3>5. 1 \in Attempts /\ users \in {"text", "attached"}
      BY BoundsAssumption, InputsAssumption DEF Attempts
    <3>6. /\ \A q \in Runs : q # s => Kept(q)
          /\ runs'[s].owner = runs[s].owner /\ runs'[s].attempt = runs[s].attempt
      BY <1>t, <3>4, <3>5, PersistInputKeeps
    <3> QED BY <3>6, KeptOwner DEF OwnerMoves, KeepsOwner
  <2> QED BY <1>0, <1>1, <1>3, <2>1 DEF ChoiceStep, RejectQueued, CancelQueued, RequestPause, vars
<1>4. CASE (\E more \in UserInputs \cup {"none"} : Seal(s, more)) \/ StartWork(s, UnfinishedWorkers(s))
  <2>1. CASE \E more \in UserInputs \cup {"none"} : Seal(s, more)
    <3>1. \E more \in {"none", "text", "attached"} : FinalizeTurn(s, more)
      BY <2>1, InputsAssumption DEF Seal
    <3> QED BY <1>t, <3>1, ConversationKeeps, KeptOwner
  <2>2. CASE StartWork(s, UnfinishedWorkers(s))
    <3>1. turn[s].phase # "none" BY <2>2 DEF StartWork
    <3>2. runs[s].conv \in Conversations BY <3>1, LiveTurn DEF RunRows
    <3>3. convs[runs[s].conv].ws \in Workspaces BY <1>t, <3>2 DEF TypeOK
    <3>4. \E c \in Conversations, w \in Workspaces : UpdateConversation(c, w)
      BY <2>2, <3>2, <3>3 DEF StartWork
    <3> QED BY <1>t, <3>4, ConversationKeeps, KeptOwner
  <2> QED BY <1>4, <2>1, <2>2
<1>5. CASE \/ Activate(s) \/ (\E outcome \in Endings : EndTurn(s, outcome))
           \/ SealFails(s) \/ FinishUnowned(s)
  BY <1>0, <1>5 DEF Activate, EndTurn, SealFails, FinishUnowned, vars
<1>6. CASE FinishForReview(s) \/ FinishPausing(s) \/ Finish(s) \/ FinishRefused(s)
  BY <1>1, <1>6 DEF FinishForReview, FinishPausing, Finish, FinishRefused
<1> QED BY <1>2, <1>3, <1>4, <1>5, <1>6 DEF TurnStep

(* The steps of the calls.                                                   *)
LEMMA CallOwnerStep ==
    ASSUME ExecIInv, NEW x \in Ops, DispatchStep(x) \/ SettleStep(x), NEW r \in Runs, Exists(r)
    PROVE  OwnerMoves(r)
<1>t. TypeOK BY DEF ExecIInv
<1>0. ASSUME UNCHANGED vars PROVE OwnerMoves(r) BY <1>0, KeptOwner DEF vars
<1>1. ASSUME NEW to, NEW result, Settle(x, to, result) PROVE OwnerMoves(r)
  BY <1>1, <1>t, OperationOwner DEF Settle
<1>2. ASSUME NEW to, Move(RunOf(x), to, 0) PROVE OwnerMoves(r)
  BY <1>2, <1>t, TransitionOwner DEF Move
<1>3. CASE \E s \in Runs, tool \in Tools : Schedule(x, s, tool)
  <2>1. PICK s \in Runs, tool \in Tools : Schedule(x, s, tool) BY <1>3
  <2>2. Exists(s) /\ runs' = [runs EXCEPT ![s] = Touched(runs[s])]
    BY <2>1 DEF Schedule, PrepareOperation, Owns
  <2> QED BY <1>t, <2>2, TouchedKeeps, KeptOwner
<1>4. CASE Admit(x) \/ Enter(x) BY <1>1, <1>4 DEF Admit, Enter
<1>5. CASE Promote(x) BY <1>t, <1>5, OperationOwner DEF Promote
<1>6. CASE PassBoundary(x) \/ Land(x) \/ Reenter(x) \/ WorkerStops(x)
  BY <1>0, <1>6 DEF PassBoundary, Land, Reenter, WorkerStops
<1>7. CASE AskPermission(x) \/ Replay(x) BY <1>0, <1>2, <1>7 DEF AskPermission, Replay
<1>8. CASE SettleStep(x)
  BY <1>1, <1>8 DEF SettleStep, Skip, NoEffect, PermissionRefused, Withdraw, VerifyNative, Return, GiveUp
<1> QED BY <1>3, <1>4, <1>5, <1>6, <1>7, <1>8 DEF DispatchStep

(* Each step moves the owner of each run like that.                          *)
LEMMA OwnerStep ==
    ASSUME ExecIInv, [ExecNext]_allVars, NEW r \in Runs, Exists(r), Exists(r)'
    PROVE  OwnerMoves(r)
<1>t. TypeOK BY DEF ExecIInv
<1>0. ASSUME UNCHANGED vars PROVE OwnerMoves(r) BY <1>0, KeptOwner DEF vars
<1>1. ASSUME NEW o \in Owners, RecoveryStep(o) PROVE OwnerMoves(r)
  <2>1. CASE \E s \in Runs : HandOff(o, s)
    <3>1. PICK s \in Runs, q \in Owners :
             ProvenDead(q) /\ ReleaseExpiredRun(s, q, o, runs[s].attempt, scan[o][s])
      BY <2>1 DEF HandOff
    <3>2. PICK v : v = scan[o][s] OBVIOUS
    <3>3. ReleaseExpiredRun(s, q, o, runs[s].attempt, v) BY <3>1, <3>2 DEF ReleaseExpiredRun
    <3>4. /\ \A p \in Runs : p # s => Kept(p)
          /\ runs[s].owner = q /\ runs'[s].attempt = runs[s].attempt
      BY <1>t, <3>3, ReleaseKeeps
    <3> QED BY <3>1, <3>4, KeptOwner DEF OwnerMoves, ProvenDead
  <2>2. CASE Conclude(o) BY <1>0, <1>t, <2>2, TransitionOwner DEF Conclude
  <2> QED BY <1>0, <1>1, <2>1, <2>2 DEF RecoveryStep, LeaveChanged, LeaveToOwner, FinishStart
<1>2. ASSUME NEW o \in Owners, UserStep(o) PROVE OwnerMoves(r)
  <2>1. CASE \E x \in Ops : CommitVerdict(o, x) BY <1>t, <2>1, OperationOwner DEF CommitVerdict
  <2>2. CASE PauseResolved(o) BY <1>0, <1>t, <2>2, TransitionOwner DEF PauseResolved
  <2> QED BY <1>0, <1>2, <2>1, <2>2 DEF UserStep, ReadForUser, DropVerdict
<1>3. ASSUME NEW o \in Owners, NEW x \in Ops, NEW result, VerifyRecovered(o, x, result)
      PROVE  OwnerMoves(r)
  BY <1>3, <1>t, OperationOwner DEF VerifyRecovered
<1>4. ASSUME NEW o \in Owners, NEW s \in Runs, StartTurn(s, o) PROVE OwnerMoves(r)
  <2>1. CASE Resume(s, o)
    <3>1. ClaimRun(s, o, runs[s].revision) BY <2>1 DEF Resume
    <3>2. (\A p \in Runs : p # s => Kept(p)) /\ runs'[s].attempt = runs[s].attempt + 1
      BY <1>t, <3>1, ClaimRunKeeps
    <3> QED BY <3>2, KeptOwner DEF OwnerMoves
  <2>2. CASE \E c \in Conversations : BeginTurn(s, c, o)
    <3>1. PICK c \in Conversations : CreateRun(s, c, convs[c].ws, o) BY <2>2 DEF BeginTurn
    <3>2. (\A p \in Runs : p # s => Kept(p)) /\ r # s
      BY <1>t, <3>1, CreateRunKeeps DEF CreateRun
    <3> QED BY <3>2, KeptOwner
  <2> QED BY <1>4, <2>1, <2>2 DEF StartTurn
<1>5. CASE ConversationEdit
  <2>1. CASE \E c \in Conversations, w \in Workspaces : UpdateConversation(c, w)
    BY <1>t, <2>1, ConversationKeeps, KeptOwner
  <2>2. CASE \E c \in Conversations, w \in Workspaces : DeleteConversation(c, w)
    <3>1. Kept(r) \/ runs'[r] = NoRun BY <1>t, <2>2, DeleteKeeps
    <3> QED BY <3>1, KeptOwner DEF Exists, NoRun
  <2> QED BY <1>5, <2>1, <2>2 DEF ConversationEdit
<1>6. ASSUME NEW o \in Owners, Start(o) \/ Crash(o) PROVE OwnerMoves(r)
  BY <1>0, <1>6 DEF Start, Crash
<1>7. CASE UNCHANGED allVars BY <1>0, <1>7 DEF allVars
<1> QED BY <1>1, <1>2, <1>3, <1>4, <1>5, <1>6, <1>7, TurnOwnerStep, CallOwnerStep DEF ExecNext

(* A process that serves goes on to, unless it crashes.                      *)
LEMMA ProcStep ==
    ASSUME ExecIInv, [ExecNext]_allVars, NEW q \in Owners, proc[q] = "up", proc'[q] # "up"
    PROVE  Crash(q)
<1>0. DOMAIN proc = Owners BY DEF ExecIInv, WorkTypeOK
<1>1. ASSUME proc' = proc PROVE FALSE BY <1>1
<1>2. CASE \E o \in Owners : Crash(o)
  <2>1. PICK o \in Owners : Crash(o) BY <1>2
  <2>2. q # o => proc'[q] = proc[q] BY <1>0, <2>1 DEF Crash
  <2> QED BY <2>1, <2>2
<1>3. CASE \E o \in Owners : Start(o) \/ FinishStart(o)
  BY <1>0, <1>3 DEF Start, FinishStart
<1>4. CASE \E o \in Owners :
             \/ \E r \in Runs : HandOff(o, r) \/ LeaveChanged(o, r) \/ StartTurn(r, o)
             \/ \E p \in Owners : LeaveToOwner(o, p)
             \/ Conclude(o) \/ UserStep(o)
             \/ \E y \in Ops, result \in {"completed", "unchanged"} : VerifyRecovered(o, y, result)
  BY <1>1, <1>4 DEF HandOff, LeaveChanged, LeaveToOwner, Conclude, UserStep, ReadForUser, CommitVerdict,
                    DropVerdict, PauseResolved, VerifyRecovered, StartTurn, procVars
<1>5. CASE \E r \in Runs : LeaseStep(r) \/ ChoiceStep(r) \/ TurnStep(r)
  BY <1>1, <1>5 DEF LeaseStep, ChoiceStep, TurnStep, procVars
<1>6. CASE \E y \in Ops : DispatchStep(y) \/ SettleStep(y)
  BY <1>1, <1>6 DEF DispatchStep, SettleStep, procVars
<1>7. CASE ConversationEdit \/ UNCHANGED allVars
  BY <1>1, <1>7 DEF ConversationEdit, allVars, procVars
<1> QED BY <1>2, <1>3, <1>4, <1>5, <1>6, <1>7 DEF ExecNext, RecoveryStep

------------------------------------------------------------------------------
(* Settlements are true: what the user had read stands, workers given up on  *)
(* keep their runs, and no effect lands late unseen.                         *)

(* An effect that lands after its operation was found to have failed is that *)
(* of a worker that could act when the files were read.                      *)
LateLandings ==
    \A x \in Ops : ops[x].status = "failed" /\ (x \in landed \/ call[x].phase = "stray") =>
        x \in early

EvidenceIInv == ExecIInv /\ IInv /\ Honest /\ LateLandings

(* What was read stays so: only a worker given up on could change it.        *)
LEMMA VerdictsStandStep ==
    ASSUME ExecIInv, Honest, [ExecNext]_allVars
    PROVE  VerdictsStand'
<1> SUFFICES ASSUME NEW x \in Ops, verdict'[x].by # NoOwner
             PROVE  /\ verdict'[x].result \in {"completed", "unchanged", "unknown"}
                    /\ verdict'[x].result = "completed" => x \in landed'
                    /\ verdict'[x].result = "unchanged" =>
                          verdict'[x].astray \/ (x \notin landed' /\ call'[x].phase # "stray")
  BY DEF VerdictsStand
<1>1. CASE \E o \in Owners, result \in Results : ReadForUser(o, x, result)
  <2>1. PICK o \in Owners, result \in Results : ReadForUser(o, x, result) BY <1>1
  <2>2. /\ Verified(x, result) /\ call' = call /\ landed' = landed
        /\ verdict' = [verdict EXCEPT ![x] =
              [by |-> o, result |-> result, revision |-> runs[RunOf(x)].revision,
               astray |-> call[x].phase = "stray"]]
    BY <2>1 DEF ReadForUser, workVars
  <2>3. verdict'[x].result = result /\ verdict'[x].astray = (call[x].phase = "stray")
    BY <2>2 DEF ExecIInv, WorkTypeOK
  <2> QED BY <2>2, <2>3 DEF Verified
<1>2. CASE verdict'[x] = verdict[x]
  <2>1. call[x].phase \in Finished \ {"none"} BY <1>2 DEF ExecIInv, VerdictsAreLate
  <2>2. landed \subseteq landed' BY WorldStep DEF Lands
  <2>3. ASSUME x \notin landed, call[x].phase # "stray"
        PROVE  x \notin landed' /\ call'[x].phase # "stray"
    <3>1. ~Lands(x)
      BY <2>1, <2>3 DEF Lands, InEffect, Finished, Unfinished
    <3>2. x \notin landed' BY <2>3, <3>1, WorldStep DEF Lands
    <3>3. call'[x].phase # "stray"
      BY <2>1, <2>3, CallStep DEF CallMoves, InEffect, Finished, Unfinished
    <3> QED BY <3>2, <3>3
  <2> QED BY <1>2, <2>2, <2>3 DEF Honest, VerdictsStand
<1>3. CASE verdict'[x] = NoVerdict BY <1>3 DEF NoVerdict
<1> QED BY <1>1, <1>2, <1>3, VerdictStep DEF VerdictMoves

(* A worker that was given up on keeps its process, and its run its owner.   *)
LEMMA StrayHeldStep ==
    ASSUME ExecIInv, IInv, Honest, ExecIInv', IInv', [ExecNext]_allVars
    PROVE  StrayHeld'
<1> SUFFICES ASSUME NEW x \in Ops, call'[x].phase = "stray"
             PROVE  /\ call'[x].proc \in Owners /\ proc'[call'[x].proc] = "up"
                    /\ ops'[x].status # "absent" /\ runs'[RunOf(x)'].attempt = ops'[x].attempt =>
                          runs'[RunOf(x)'].owner \in {call'[x].proc, NoOwner}
  BY DEF StrayHeld
<1>n. [Next]_vars BY ExecStep
<1>1. /\ call'[x].proc = call[x].proc
      /\ call[x].phase = "stray" \/ call[x].phase \in InEffect
  BY StrayBefore DEF Unfinished
<1>2. call[x].phase \in InEffect => Live(x) BY DEF Live, InEffect, Finished, Unfinished
<1>3. call[x].proc \in Owners /\ proc[call[x].proc] = "up"
  <2>1. CASE call[x].phase = "stray" BY <2>1 DEF Honest, StrayHeld
  <2>2. CASE Live(x)
    <3>1. RunOf(x) \in Runs /\ turn[RunOf(x)].phase = "working" BY <2>2, LiveCall
    <3>2. turn[RunOf(x)].proc = call[x].proc BY <2>2 DEF ExecIInv, CallsOfTurns
    <3> QED BY <3>1, <3>2, LiveTurn
  <2> QED BY <1>1, <1>2, <2>1, <2>2
<1>4. proc'[call[x].proc] = "up"
  <2>1. ASSUME Crash(call[x].proc) PROVE FALSE
    <3>1. call'[x] = [call[x] EXCEPT !.phase = "done"] BY <2>1 DEF Crash
    <3>2. call[x] \in Calls BY DEF ExecIInv, WorkTypeOK
    <3> QED BY <3>1, <3>2 DEF Calls
  <2> QED BY <1>3, <2>1, ProcStep
<1>5. ASSUME ops'[x].status # "absent", runs'[RunOf(x)'].attempt = ops'[x].attempt
      PROVE  runs'[RunOf(x)'].owner \in {call[x].proc, NoOwner}
  <2>1. ops[x].status # "absent"
    <3>1. ASSUME NEW r \in Runs, NEW tool \in Tools, Schedule(x, r, tool) PROVE FALSE
      BY <3>1, ScheduledPhase DEF ExecIInv
    <3> QED BY <1>5, <3>1, OpStep DEF OpMoves, AppearsWithCall
  <2>2. /\ RunOf(x) \in Runs /\ RunOf(x)' = RunOf(x) /\ ops'[x].attempt = ops[x].attempt
        /\ Exists(RunOf(x)) /\ Exists(RunOf(x))'
    BY <1>5, <1>n, <2>1, CallRunsStay
  <2>3. runs[RunOf(x)].attempt = ops[x].attempt =>
            runs[RunOf(x)].owner \in {call[x].proc, NoOwner}
    BY <1>1, <1>2, <2>1, LiveOwner DEF Honest, StrayHeld
  <2>4. ops[x].attempt <= runs[RunOf(x)].attempt
        /\ runs[RunOf(x)].attempt \in Nat /\ ops[x].attempt \in Nat
    <3>1. ops[x].attempt \in Attempts /\ runs[RunOf(x)].attempt \in 0..MaxAttempt
      BY <2>1, <2>2, OpRow, RunRow DEF ExecIInv
    <3> QED BY <2>1, <3>1, BoundsAssumption DEF IInv, OperationsBelongToRuns, RunOf, Attempts
  <2>5. OwnerMoves(RunOf(x)) BY <2>2, OwnerStep
  <2>6. runs'[RunOf(x)].attempt = ops[x].attempt BY <1>5, <2>2
  <2>7. runs'[RunOf(x)].attempt # runs[RunOf(x)].attempt + 1 BY <2>4, <2>6
  <2> QED BY <1>3, <2>2, <2>3, <2>5, <2>6, <2>7, OwnersAssumption DEF OwnerMoves, KeepsOwner
<1> QED BY <1>1, <1>3, <1>4, <1>5

(* The failures that rest on files read too early stay known.                *)
LEMMA EarlyGrows ==
    ASSUME [ExecNext]_allVars
    PROVE  early \subseteq early'
<1>1. CASE \E o \in Owners : UserStep(o)
  BY <1>1 DEF UserStep, ReadForUser, CommitVerdict, DropVerdict, PauseResolved
<1>2. CASE \E o \in Owners :
             \/ Start(o) \/ Crash(o) \/ RecoveryStep(o)
             \/ \E y \in Ops, result \in {"completed", "unchanged"} : VerifyRecovered(o, y, result)
             \/ \E r \in Runs : StartTurn(r, o)
  BY <1>2 DEF Start, Crash, RecoveryStep, HandOff, LeaveChanged, LeaveToOwner, Conclude, FinishStart,
              VerifyRecovered, StartTurn, procVars
<1>3. CASE \E r \in Runs : LeaseStep(r) \/ ChoiceStep(r) \/ TurnStep(r)
  BY <1>3 DEF LeaseStep, ChoiceStep, TurnStep, procVars
<1>4. CASE \E y \in Ops : DispatchStep(y) \/ SettleStep(y)
  BY <1>4 DEF DispatchStep, SettleStep, procVars
<1>5. CASE ConversationEdit \/ UNCHANGED allVars BY <1>5 DEF ConversationEdit, allVars, procVars
<1> QED BY <1>1, <1>2, <1>3, <1>4, <1>5 DEF ExecNext

(* No step lets an effect land late unseen.                                  *)
LEMMA LateStep ==
    ASSUME EvidenceIInv, ExecIInv', [ExecNext]_allVars
    PROVE  LateLandings'
<1> USE DEF EvidenceIInv
<1> SUFFICES ASSUME NEW x \in Ops, ops'[x].status = "failed",
                    x \in landed' \/ call'[x].phase = "stray"
             PROVE  x \in early'
  BY DEF LateLandings
<1>w. IsWrite(ops'[x])
  <2>1. Recorded(x)' BY DEF ExecIInv, EffectsKnown
  <2> QED BY <2>1 DEF Recorded
<1>e. ASSUME call[x].phase \in InEffect PROVE ops[x].status = "executing"
  BY <1>e DEF ExecIInv, CallsOfTurns, Live, OnTrack, InEffect, Finished, Unfinished
<1>l. ASSUME x \in landed', x \notin landed
      PROVE  ops' = ops /\ call' = call /\ call[x].phase \in InEffect \cup {"stray"}
  BY <1>l, WorldStep DEF Lands
<1>1. CASE ops'[x].status = ops[x].status
  <2>1. x \in landed \/ call[x].phase = "stray"
    <3>1. CASE x \in landed' BY <1>1, <1>e, <1>l, <3>1
    <3>2. CASE call'[x].phase = "stray" BY <1>1, <1>e, <3>2, StrayBefore DEF Unfinished
    <3> QED BY <3>1, <3>2
  <2>2. x \in early BY <1>1, <2>1 DEF LateLandings
  <2> QED BY <2>2, EarlyGrows
<1>2. CASE ops'[x].status # ops[x].status
  <2>1. OpMoves(x) BY OpStep
  <2>2. TruthfulEnd(x) BY <1>2, <2>1 DEF OpMoves
  <2>3. x \in early' \/ (x \notin landed /\ call'[x].phase # "stray")
    BY <1>w, <2>2 DEF TruthfulEnd
  <2> QED BY <1>2, <1>l, <2>3
<1> QED BY <1>1, <1>2

(* The invariant the settlements rest on.                                    *)
LEMMA EvidenceInvariance == ExecSpec => []EvidenceIInv
<1>1. ExecInit => Honest /\ LateLandings
  BY DEF ExecInit, Honest, GateBeforeEffect, VerdictsStand, StrayHeld, LateLandings, NoCall, AtGate,
         NoVerdict
<1>2. ExecInit => IInv BY InitIInv DEF ExecInit
<1>3. ExecInit => EvidenceIInv BY <1>1, <1>2, InitExec DEF EvidenceIInv
<1>4. EvidenceIInv /\ [ExecNext]_allVars => EvidenceIInv'
  <2> SUFFICES ASSUME EvidenceIInv, [ExecNext]_allVars PROVE EvidenceIInv' OBVIOUS
  <2>1. ExecIInv /\ IInv /\ Honest BY DEF EvidenceIInv
  <2>2. [Next]_vars /\ ExecIInv' BY <2>1, ExecStep
  <2>3. IInv' BY <2>1, <2>2, IInvStep
  <2>4. GateBeforeEffect' BY <2>1, GateHolds DEF Honest
  <2>5. Honest' BY <2>1, <2>2, <2>3, <2>4, VerdictsStandStep, StrayHeldStep DEF Honest
  <2> QED BY <2>2, <2>3, <2>5, LateStep DEF EvidenceIInv
<1> QED BY <1>3, <1>4, PTL DEF ExecSpec

(* An operation is settled on what happened, by its turn, by recovery or by  *)
(* the user, whose request reads the files before it commits, and whatever   *)
(* the turn, its worker or its process did in between: only the worker of    *)
(* the call itself can belie a failure, and only one that was given up on    *)
(* and could still act when the files were read for the user.                *)
THEOREM SettlementsAreTrue == ExecSpec => SettledOnEvidence
<1>1. EvidenceIInv /\ [ExecNext]_allVars =>
        [\A x \in Ops : ops[x].status # ops'[x].status /\ IsWrite(ops'[x]) =>
            /\ ops'[x].status = "verified" => x \in landed
            /\ ops'[x].status = "failed" /\ x \in landed => x \in early']_allVars
  BY OpStep DEF EvidenceIInv, OpMoves, TruthfulEnd
<1> QED BY <1>1, EvidenceInvariance, PTL DEF ExecSpec, SettledOnEvidence

(* Each attempt but the first knows of every effect of the attempts before   *)
(* it, workers that outlived their turn included, with the same exception.   *)
THEOREM ContinuationsKnowTheEffects == ExecSpec => []EffectsKnownBeforeContinuing
<1>1. EvidenceIInv => EffectsKnownBeforeContinuing
  <2> SUFFICES ASSUME EvidenceIInv, NEW x \in landed,
                      ops[x].status # "absent", ops[x].attempt < runs[RunOf(x)].attempt
               PROVE  \/ ops[x].status \in {"verified", "returned"}
                      \/ ops[x].status = "failed" /\ x \in early
    BY DEF EffectsKnownBeforeContinuing
  <2>1. x \in Ops BY DEF EvidenceIInv, ExecIInv, WorkTypeOK
  <2>2. SafeToContinue(ops[x]) BY <2>1 DEF EvidenceIInv, IInv, EarlierAttemptsAreSafe, RunOf
  <2>3. Recorded(x) BY <2>1 DEF EvidenceIInv, ExecIInv, EffectsKnown
  <2>4. ops[x].status = "failed" => x \in early BY <2>1 DEF EvidenceIInv, LateLandings
  <2> QED BY <2>2, <2>3, <2>4 DEF SafeToContinue, Recorded
<1> QED BY <1>1, EvidenceInvariance, PTL

------------------------------------------------------------------------------
(* Runs beside each other.  Calls of two runs are apart from the moment they *)
(* are scheduled: the fence that lets one in sees the row of the other, and  *)
(* the turns of both hold their rows while the calls are live.               *)

LiveRunsApart ==
    \A x, y \in Ops : Live(x) /\ Live(y) /\ RunOf(x) # RunOf(y) =>
        /\ runs[RunOf(x)].conv # runs[RunOf(y)].conv
        /\ runs[RunOf(x)].ws = runs[RunOf(y)].ws => call[x].proc = call[y].proc

ApartIInv == ExecIInv /\ IInv /\ GateBeforeEffect /\ LiveRunsApart /\ NoCallBesideStrayWorkers

(* What scheduling tells of the new call and of the runs beside it.          *)
LEMMA ScheduledApart ==
    ASSUME ApartIInv, NEW x \in Ops, NEW r \in Runs, NEW tool \in Tools, Schedule(x, r, tool)
    PROVE  /\ ops[x].status = "absent" /\ RunOf(x)' = r /\ Exists(r)
           /\ ops'[x].attempt = turn[r].attempt
           /\ turn[r].phase = "working"
           /\ call'[x].proc = runs[r].owner /\ call'[x].proc = turn[r].proc
           /\ call'[x].phase # "blocked" => ~UnfinishedWorkers(r)
           /\ \A y \in Ops \ {x} : call'[y] = call[y] /\ ops'[y] = ops[y]
           /\ \A s \in Runs : runs'[s].conv = runs[s].conv /\ runs'[s].ws = runs[s].ws
           /\ \A s \in Runs \ {r} : ~Shields(s, r)
<1>1. ExecIInv /\ TypeOK /\ WorkTypeOK BY DEF ApartIInv, ExecIInv
<1>2. /\ turn[r].phase = "working" /\ \A s \in Runs \ {r} : ~Shields(s, r)
      /\ PrepareOperation(x, r, turn[r].proc, turn[r].attempt, EffectOf(tool))
      /\ Owns(r, turn[r].proc, turn[r].attempt)
  BY DEF Schedule, DispatchAllowed, RunDispatchAllowed, StillOwned
<1>3. runs[r] \in RunRows BY <1>1, <1>2, RowTypes DEF Owns
<1>4. \A s \in Runs : runs'[s].conv = runs[s].conv /\ runs'[s].ws = runs[s].ws
  BY <1>1, <1>2, <1>3 DEF PrepareOperation, TypeOK, Touched, RunRows
<1>5. /\ ops[x].status = "absent" /\ ops'[x].run = r /\ ops'[x].attempt = turn[r].attempt
      /\ \A y \in Ops \ {x} : ops'[y] = ops[y]
  BY <1>1, <1>2 DEF PrepareOperation, TypeOK
<1>6. /\ call'[x].phase # "blocked" => ~UnfinishedWorkers(r)
      /\ call'[x].proc = turn[r].proc
      /\ \A y \in Ops \ {x} : call'[y] = call[y]
  BY <1>1, ScheduledPhase
<1> QED BY <1>2, <1>4, <1>5, <1>6 DEF Owns, RunOf

(* A call that is scheduled now beside one that was live.                    *)
LEMMA NewBesideLive ==
    ASSUME ApartIInv, NEW x \in Ops, NEW r \in Runs, NEW tool \in Tools, Schedule(x, r, tool),
           NEW y \in Ops, Live(y), RunOf(y) # r
    PROVE  /\ runs[RunOf(y)].conv # runs[r].conv
           /\ runs[RunOf(y)].ws = runs[r].ws => call[y].proc = call'[x].proc
<1>1. /\ RunOf(y) \in Runs /\ runs[RunOf(y)].owner = call[y].proc
      /\ runs[RunOf(y)].status \in LeasedStatuses
  BY LiveOwner DEF ApartIInv
<1>2. ~Shields(RunOf(y), r) /\ call'[x].proc = runs[r].owner
  BY <1>1, ScheduledApart
<1> QED BY <1>1, <1>2 DEF Shields

(* Two live calls stay apart.                                                *)
LEMMA ApartStep ==
    ASSUME ApartIInv, ExecIInv', IInv', [ExecNext]_allVars
    PROVE  LiveRunsApart'
<1> SUFFICES ASSUME NEW x \in Ops, NEW y \in Ops, Live(x)', Live(y)', RunOf(x)' # RunOf(y)'
             PROVE  /\ runs'[RunOf(x)'].conv # runs'[RunOf(y)'].conv
                    /\ runs'[RunOf(x)'].ws = runs'[RunOf(y)'].ws => call'[x].proc = call'[y].proc
  BY DEF LiveRunsApart
<1>0. ExecIInv BY DEF ApartIInv
<1>n. [Next]_vars BY <1>0, ExecStep
<1>p. ops'[x].status # "absent" /\ ops'[y].status # "absent"
  <2>2. \A z \in Ops : Live(z)' => ops'[z].status # "absent"
    <3> SUFFICES ASSUME NEW z \in Ops, Live(z)' PROVE ops'[z].status # "absent" OBVIOUS
    <3>1. OnTrack(z)' /\ call'[z].phase \in CallPhases
      BY DEF ExecIInv, CallsOfTurns, WorkTypeOK, Calls
    <3> QED BY <3>1 DEF OnTrack, Live, Finished, Unfinished, InEffect, AtGate, CallPhases
  <2> QED BY <2>2
<1>1. ASSUME NEW z \in Ops, Live(z), ops'[z].status # "absent"
      PROVE  /\ RunOf(z) \in Runs /\ RunOf(z)' = RunOf(z)
             /\ runs'[RunOf(z)].conv = runs[RunOf(z)].conv
             /\ runs'[RunOf(z)].ws = runs[RunOf(z)].ws
  BY <1>0, <1>1, <1>n, LiveOwner, CallRunsStay DEF ApartIInv
<1>2. CASE Live(x) /\ call'[x].proc = call[x].proc /\ Live(y) /\ call'[y].proc = call[y].proc
  BY <1>1, <1>2, <1>p DEF ApartIInv, LiveRunsApart
<1>3. ASSUME NEW u \in Ops, NEW v \in Ops, Live(u)', Live(v)', RunOf(u)' # RunOf(v)', ops'[v].status # "absent",
             NEW r \in Runs, NEW tool \in Tools, Schedule(u, r, tool)
      PROVE  /\ runs'[RunOf(u)'].conv # runs'[RunOf(v)'].conv
             /\ runs'[RunOf(u)'].ws = runs'[RunOf(v)'].ws => call'[u].proc = call'[v].proc
  <2>1. u # v BY <1>3
  <2>2. /\ RunOf(u)' = r
        /\ call'[v] = call[v] /\ ops'[v] = ops[v]
        /\ \A s \in Runs : runs'[s].conv = runs[s].conv /\ runs'[s].ws = runs[s].ws
    BY <1>3, <2>1, ScheduledApart
  <2>3. Live(v) /\ RunOf(v)' = RunOf(v) BY <1>3, <2>2 DEF Live, RunOf
  <2>4. RunOf(v) \in Runs BY <1>0, <2>3, LiveOwner
  <2>5. /\ runs[RunOf(v)].conv # runs[r].conv
        /\ runs[RunOf(v)].ws = runs[r].ws => call[v].proc = call'[u].proc
    BY <1>3, <2>2, <2>3, NewBesideLive
  <2> QED BY <2>2, <2>3, <2>4, <2>5
<1> QED BY <1>0, <1>2, <1>3, <1>p, LiveBefore

(* A stray worker is alone in its conversation and process, but for the      *)
(* calls that its own turn had scheduled before it was given up on.          *)
LEMMA StrayStep ==
    ASSUME ApartIInv, ExecIInv', IInv', [ExecNext]_allVars
    PROVE  NoCallBesideStrayWorkers'
<1> SUFFICES ASSUME NEW x \in Ops, NEW y \in Ops,
                    call'[x].phase \in Unfinished, ops'[x].status # "absent",
                    call'[y].phase \in {"scheduled", "admitted"} \cup InEffect \cup AtGate,
                    call'[x].proc = call'[y].proc,
                    runs'[RunOf(x)'].conv = runs'[RunOf(y)'].conv
             PROVE  RunOf(x)' = RunOf(y)' /\ ops'[x].attempt = ops'[y].attempt
  BY DEF NoCallBesideStrayWorkers
<1>0. ExecIInv /\ WorkTypeOK BY DEF ApartIInv, ExecIInv
<1>n. [Next]_vars BY <1>0, ExecStep
<1>1. call'[x].proc = call[x].proc /\ (call'[x] = call[x] \/ call[x].phase \in InEffect)
  BY <1>0, StrayBefore
<1>2. Live(y)' /\ call'[y].phase # "blocked"
  BY DEF Live, Finished, Unfinished, InEffect, AtGate
<1>3. x # y BY <1>2 DEF Live, Finished
<1>4. ops[x].status # "absent"
  <2>1. ASSUME NEW r \in Runs, NEW tool \in Tools, Schedule(x, r, tool) PROVE FALSE
    BY <1>0, <2>1, ScheduledPhase DEF Unfinished
  <2>2. OpMoves(x) BY <1>0, OpStep
  <2> QED BY <2>1, <2>2 DEF OpMoves, AppearsWithCall
<1>5. /\ RunOf(x) \in Runs /\ RunOf(x)' = RunOf(x) /\ ops'[x].attempt = ops[x].attempt
      /\ runs'[RunOf(x)].conv = runs[RunOf(x)].conv
  BY <1>0, <1>4, <1>n, CallRunsStay DEF ApartIInv
<1>6. CASE \E r \in Runs, tool \in Tools : Schedule(y, r, tool)
  <2>1. PICK r \in Runs, tool \in Tools : Schedule(y, r, tool) BY <1>6
  <2>2. /\ RunOf(y)' = r /\ call'[x] = call[x] /\ ~UnfinishedWorkers(r)
        /\ call'[y].proc = turn[r].proc /\ runs'[r].conv = runs[r].conv
    BY <1>2, <1>3, <2>1, ScheduledApart
  <2>3. UnfinishedWorkers(r)
    BY <1>1, <1>4, <1>5, <2>2 DEF UnfinishedWorkers
  <2> QED BY <2>2, <2>3
<1>7. CASE Live(y) /\ call'[y].proc = call[y].proc /\ call[y].phase # "blocked"
  <2>1. ops'[y].status # "absent"
    <3>1. OnTrack(y)' /\ call'[y].phase \in CallPhases
      BY <1>2 DEF ExecIInv, CallsOfTurns, WorkTypeOK, Calls
    <3> QED BY <1>2, <3>1 DEF OnTrack, Live, Finished, Unfinished, InEffect, AtGate, CallPhases
  <2>2. ops[y].status # "absent" /\ ops[y].attempt = turn[RunOf(y)].attempt BY <1>0, <1>7, LiveOwner
  <2>3. /\ RunOf(y) \in Runs /\ RunOf(y)' = RunOf(y) /\ ops'[y].attempt = ops[y].attempt
        /\ runs'[RunOf(y)].conv = runs[RunOf(y)].conv
    BY <1>0, <1>n, <2>1, <2>2, CallRunsStay DEF ApartIInv
  <2>4. call[y].phase \in {"scheduled", "admitted"} \cup InEffect \cup AtGate
    BY <1>0, <1>7 DEF WorkTypeOK, Calls, CallPhases, Live, Finished, Unfinished, InEffect, AtGate
  <2>5. runs[RunOf(x)].conv = runs[RunOf(y)].conv BY <1>5, <2>3
  <2>6. RunOf(x) = RunOf(y) /\ ops[x].attempt = ops[y].attempt
    <3>1. CASE call[x].phase \in Unfinished
      BY <1>1, <1>4, <1>7, <2>4, <2>5, <3>1 DEF ApartIInv, NoCallBesideStrayWorkers
    <3>2. CASE call[x].phase \in InEffect
      <4>1. Live(x) BY <3>2 DEF Live, InEffect, Finished, Unfinished
      <4>2. RunOf(x) = RunOf(y) BY <1>7, <2>5, <4>1 DEF ApartIInv, LiveRunsApart
      <4>3. ops[x].attempt = turn[RunOf(x)].attempt BY <1>0, <4>1, LiveOwner
      <4> QED BY <2>2, <4>2, <4>3
    <3> QED BY <1>1, <3>1, <3>2
  <2> QED BY <1>5, <2>3, <2>6
<1> QED BY <1>0, <1>2, <1>6, <1>7, LiveBefore

(* The invariant that keeps the effects of runs apart.                       *)
LEMMA ApartInvariance == ExecSpec => []ApartIInv
<1>1. ExecInit => ApartIInv
  <2>1. ExecInit => GateBeforeEffect /\ LiveRunsApart /\ NoCallBesideStrayWorkers
    BY DEF ExecInit, GateBeforeEffect, LiveRunsApart, Live, NoCallBesideStrayWorkers, NoCall, AtGate,
           Finished, Unfinished
  <2>2. ExecInit => IInv BY InitIInv DEF ExecInit
  <2> QED BY <2>1, <2>2, InitExec DEF ApartIInv
<1>2. ApartIInv /\ [ExecNext]_allVars => ApartIInv'
  <2> SUFFICES ASSUME ApartIInv, [ExecNext]_allVars PROVE ApartIInv' OBVIOUS
  <2>1. [Next]_vars /\ ExecIInv' BY ExecStep DEF ApartIInv
  <2>2. IInv' BY <2>1, IInvStep DEF ApartIInv
  <2>3. GateBeforeEffect' BY GateHolds DEF ApartIInv
  <2> QED BY <2>1, <2>2, <2>3, ApartStep, StrayStep DEF ApartIInv
<1> QED BY <1>1, <1>2, PTL DEF ExecSpec

(* Two runs never have calls in effect at once in one conversation, nor in   *)
(* one workspace from two processes, however they were paused and claimed.   *)
THEOREM EffectsDoNotOverlap == ExecSpec => []RunsDoNotOverlap
<1>1. ApartIInv => RunsDoNotOverlap
  <2> SUFFICES ASSUME ApartIInv, NEW r \in RunsWithEffects, NEW s \in RunsWithEffects, r # s
               PROVE  /\ runs[r].conv # runs[s].conv
                      /\ runs[r].ws = runs[s].ws => runs[r].owner = runs[s].owner
    BY DEF RunsDoNotOverlap
  <2>1. PICK x \in Ops : call[x].phase \in InEffect /\ r = RunOf(x) BY DEF RunsWithEffects
  <2>2. PICK y \in Ops : call[y].phase \in InEffect /\ s = RunOf(y) BY DEF RunsWithEffects
  <2>3. Live(x) /\ Live(y) BY <2>1, <2>2 DEF Live, InEffect, Finished, Unfinished
  <2>4. runs[r].owner = call[x].proc /\ runs[s].owner = call[y].proc
    BY <2>1, <2>2, <2>3, LiveOwner DEF ApartIInv
  <2> QED BY <2>1, <2>2, <2>3, <2>4 DEF ApartIInv, LiveRunsApart
<1> QED BY <1>1, ApartInvariance, PTL

(* While a worker that a turn gave up on may still act, no other turn of its *)
(* conversation gets a call past the executor of that process.               *)
THEOREM StrayWorkersAreAlone == ExecSpec => []NoCallBesideStrayWorkers
<1>1. ApartIInv => NoCallBesideStrayWorkers BY DEF ApartIInv
<1> QED BY <1>1, ApartInvariance, PTL

=============================================================================
