------------------------------ MODULE ToolCalls ------------------------------
(***************************************************************************)
(* The tool calls of a live turn: class OperationExecution and its fences  *)
(* (durable/operation_execution.py, assert_run_dispatch_allowed of         *)
(* durable/recovery.py), the executor and its workers (harness/            *)
(* tool_runner.py, tool_executor.py, workers.py) and the permission gate   *)
(* (execution_gate.py).                                                    *)
(*                                                                         *)
(* The fences are read in one place and the row is moved by a transaction  *)
(* of its own, in the thread of the worker: other calls of the turn, the   *)
(* event loop and other processes act in between.  landed is the world     *)
(* outside: the operations whose effect has taken place.                   *)
(***************************************************************************)
EXTENDS TurnOwner

CONSTANTS
    Tools,      \* the kinds of tool the instance offers
    Outliving,  \* those of them whose worker may outlive Stop and a timeout
    MaxHops     \* MAX_GATE_HOPS, the permission requests one call may make

ASSUME ToolsAssumption ==
    Tools \subseteq {"reader", "native", "opaque"} /\ Outliving \subseteq Tools
ASSUME HopsAssumption == MaxHops \in Nat

VARIABLES
    call,       \* the call that owns operation x
    landed      \* the operations whose effect has happened

(* phase: scheduled (prepared, waiting for a thread and its locks), blocked  *)
(* (turned away by the executor), admitted (authorized), running (the        *)
(* handler was entered), promoted and landing (a native mutation before and  *)
(* past its last check), waiting and replaying (at the gate), stray (the     *)
(* turn gave up on a worker that may still act), stopping (on one that can   *)
(* not any more), done.                                                      *)
CallPhases ==
    {"none", "scheduled", "blocked", "admitted", "running", "promoted", "landing",
     "waiting", "replaying", "stray", "stopping", "done"}
Calls == [phase : CallPhases, tool : {"reader", "native", "opaque"}, hops : 0..MaxHops,
          proc : Owners \cup {NoOwner}]
NoCall == [phase |-> "none", tool |-> "reader", hops |-> 0, proc |-> NoOwner]

InEffect   == {"running", "promoted", "landing"}
AtGate     == {"waiting", "replaying"}
Unfinished == {"stray", "stopping"}
Finished   == {"none", "done"} \cup Unfinished

RunOf(x) == ops[x].run
OfTurn(r) == {x \in Ops : RunOf(x) = r /\ ops[x].attempt = turn[r].attempt}

(* unfinished_workers: a worker some turn of the conversation gave up on.    *)
UnfinishedBug(r) ==
    \E x \in Ops : call[x].phase \in Unfinished /\ x \in OfTurn(r)
UnfinishedWorkers(r) ==
    \E x \in Ops : /\ call[x].phase \in Unfinished /\ call[x].proc = turn[r].proc
                   /\ ops[x].status # "absent" /\ runs[RunOf(x)].conv = runs[r].conv

------------------------------------------------------------------------------
(* The fences.                                                               *)

(* Another run that is active or quarantined keeps the conversation, and the *)
(* workspace too when it is quarantined, has a write with an open outcome or *)
(* belongs to another process.                                               *)
Shields(s, r) ==
    /\ runs[s].status \in LeasedStatuses
    /\ \/ runs[s].conv = runs[r].conv
       \/ /\ runs[s].ws = runs[r].ws
          /\ \/ runs[s].status \in Quarantined
             \/ runs[s].owner # runs[r].owner
             \/ \E x \in OpsOf(s) :
                   IsWrite(ops[x]) /\ ops[x].status \in {"executing", "uncertain", "needs_review"}

NoFenceBug(r) ==
    /\ StillOwned(r)
    /\ runs[r].status = "running"
    /\ convs[runs[r].conv].ws = runs[r].ws

(* assert_run_dispatch_allowed.                                              *)
RunDispatchAllowed(r) ==
    /\ StillOwned(r)
    /\ runs[r].status = "running"
    /\ convs[runs[r].conv].ws = runs[r].ws
    /\ \A s \in Runs \ {r} : ~Shields(s, r)

(* assert_dispatch_allowed: what the objects know comes first, and no write  *)
(* of the run may be uncertain.                                              *)
FlagsAllow(r) == ~turn[r].lost /\ ~turn[r].pause /\ ~turn[r].review
NothingUncertain(r) ==
    \A x \in OpsOf(r) : IsWrite(ops[x]) => ops[x].status \notin {"uncertain", "needs_review"}
DispatchAllowed(r) == FlagsAllow(r) /\ RunDispatchAllowed(r) /\ NothingUncertain(r)

(* The transaction a call asks for.                                          *)
Settle(x, to, result) ==
    TransitionOperation(x, to, turn[RunOf(x)].proc, turn[RunOf(x)].attempt, result)

Phase(x, p) == call' = [call EXCEPT ![x].phase = p]
ForReview(r) == turn' = [turn EXCEPT ![r].review = TRUE]

------------------------------------------------------------------------------
(* Dispatch.                                                                 *)

(* prepare_tool_operation on the event loop; execute then looks for workers  *)
(* that have not stopped.                                                    *)
EffectOf(tool) == IF tool = "reader" THEN "read_only" ELSE "opaque_effect"

Schedule(x, r, tool) ==
    /\ turn[r].phase = "working" /\ HasInput(r)
    /\ call[x].phase = "none"
    /\ DispatchAllowed(r)
    /\ PrepareOperation(x, r, turn[r].proc, turn[r].attempt, EffectOf(tool))
    /\ call' = [call EXCEPT ![x] =
          [NoCall EXCEPT !.phase = IF UnfinishedWorkers(r) THEN "blocked" ELSE "scheduled",
                         !.tool = tool, !.proc = turn[r].proc]]
    /\ UNCHANGED <<turn, landed>>

(* begin_effect in the worker: the fences and authorized ...                 *)
Admit(x) ==
    /\ call[x].phase = "scheduled"
    /\ DispatchAllowed(RunOf(x))
    /\ Settle(x, "authorized", "none")
    /\ Phase(x, "admitted")
    /\ UNCHANGED <<turn, landed>>

(* ... and then executing, just before the handler is entered.               *)
Enter(x) ==
    /\ call[x].phase = "admitted"
    /\ Settle(x, "executing", "none")
    /\ Phase(x, "running")
    /\ UNCHANGED <<turn, landed>>

(* Steered away, turned away by a fence, or stopped before the entry.        *)
Skip(x) ==
    /\ call[x].phase \in {"scheduled", "blocked", "admitted"}
    /\ Settle(x, "cancelled", "none")
    /\ Phase(x, "done")
    /\ UNCHANGED <<turn, landed>>

------------------------------------------------------------------------------
(* Effects.                                                                  *)

(* promote_native_file_mutation, once the snapshot is captured.              *)
Promote(x) ==
    LET r == RunOf(x) IN
    /\ call[x].phase = "running" /\ call[x].tool = "native"
    /\ DispatchAllowed(r)
    /\ PromoteOperation(x, turn[r].proc, turn[r].attempt)
    /\ Phase(x, "promoted")
    /\ UNCHANGED <<turn, landed>>

(* assert_native_file_effect_allowed, the last check before the file I/O.    *)
PassBoundary(x) ==
    /\ call[x].phase = "promoted"
    /\ DispatchAllowed(RunOf(x))
    /\ Phase(x, "landing")
    /\ UNCHANGED <<vars, turn, landed>>

(* native_file_no_effect.                                                    *)
NoEffect(x) ==
    /\ call[x].phase \in {"running", "promoted"} /\ call[x].tool = "native"
    /\ x \notin landed
    /\ Settle(x, "failed", "unchanged")
    /\ Phase(x, "done")
    /\ UNCHANGED <<turn, landed>>

(* The effect itself; it does not know whether somebody still waits for it.  *)
Land(x) ==
    /\ \/ call[x].tool = "opaque" /\ call[x].phase = "running"
       \/ call[x].phase \in {"landing", "stray"}
    /\ landed' = landed \cup {x}
    /\ UNCHANGED <<vars, turn, call>>

(* What the read-only verifier makes of the files: the truth, or nothing.    *)
Verified(x, result) ==
    \/ result = "completed" /\ x \in landed
    \/ result = "unchanged" /\ x \notin landed
    \/ result = "unknown"

VerifyNative(x, result) ==
    /\ call[x].phase = "landing"
    /\ Verified(x, result)
    /\ \/ result = "completed" /\ Settle(x, "verified", result) /\ UNCHANGED turn
       \/ result = "unchanged" /\ Settle(x, "failed", result) /\ UNCHANGED turn
       \/ result = "unknown" /\ Settle(x, "uncertain", result) /\ ForReview(RunOf(x))
    /\ Phase(x, "done")
    /\ UNCHANGED landed

(* The handler returned: settle.  ok says that it reports success; an        *)
(* attested browser action that was not executed is known to have no effect. *)
Return(x, ok) ==
    /\ call[x].phase = "running"
    /\ \/ call[x].tool = "reader" /\ Settle(x, IF ok THEN "verified" ELSE "failed", "none")
          /\ UNCHANGED turn
       \/ call[x].tool # "reader" /\ ok /\ Settle(x, "returned", "unknown") /\ UNCHANGED turn
       \/ call[x].tool # "reader" /\ ~ok /\ Settle(x, "uncertain", "unknown") /\ ForReview(RunOf(x))
       \/ call[x].tool = "opaque" /\ ~ok /\ x \notin landed
          /\ Settle(x, "failed", "unchanged") /\ UNCHANGED turn
    /\ Phase(x, "done")
    /\ UNCHANGED landed

GivenUpBug(x, alive) ==
    /\ call[x].phase \in InEffect
    /\ Settle(x, "failed", "unchanged")
    /\ Phase(x, IF alive THEN "stopping" ELSE "done")
    /\ UNCHANGED <<turn, landed>>

(* Stop or a timeout: the worker gets a grace, and may be alive after it.  A *)
(* native worker that has not passed the boundary is stopped there.          *)
GiveUp(x, alive) ==
    LET r == RunOf(x)
        acts == call[x].tool = "opaque" \/ call[x].phase = "landing"
    IN
    /\ call[x].phase \in InEffect
    /\ alive => call[x].tool \in Outliving
    /\ IF call[x].tool = "reader"
       THEN Settle(x, "failed", "none") /\ UNCHANGED turn
       ELSE Settle(x, "uncertain", "unknown") /\ ForReview(r)
    /\ Phase(x, IF ~alive THEN "done" ELSE IF acts THEN "stray" ELSE "stopping")
    /\ UNCHANGED landed

WorkerStops(x) ==
    /\ call[x].phase \in Unfinished
    /\ Phase(x, "done")
    /\ UNCHANGED <<vars, turn, landed>>

------------------------------------------------------------------------------
(* The permission gate.                                                      *)

(* A trusted preflight asks before any effect.  The calls of a turn wait one *)
(* at a time; wait_for_approval may raise, and then the call has failed.     *)
AskPermission(x) ==
    LET r == RunOf(x) IN
    /\ call[x].phase = "running" /\ x \notin landed
    /\ call[x].hops < MaxHops
    /\ \A y \in OfTurn(r) : call[y].phase \notin AtGate
    /\ ~turn[r].pause /\ ~turn[r].lost /\ StillOwned(r)
    /\ \/ runs[r].status = "running" /\ Move(r, "waiting_approval", 0)
       \/ runs[r].status = "waiting_approval" /\ UNCHANGED vars
    /\ call' = [call EXCEPT ![x].phase = "waiting", ![x].hops = @ + 1]
    /\ UNCHANGED <<turn, landed>>

PermissionRefused(x) ==
    LET r == RunOf(x) IN
    /\ call[x].phase = "running" /\ x \notin landed
    /\ turn[r].pause \/ turn[r].lost \/ ~StillOwned(r)
    /\ Settle(x, "failed", "unchanged")
    /\ Phase(x, "done")
    /\ turn' = [turn EXCEPT ![r].lost = @ \/ ~StillOwned(r)]
    /\ UNCHANGED landed

(* Approved: the second begin_effect returns the run to running ...          *)
Replay(x) ==
    LET r == RunOf(x) IN
    /\ call[x].phase = "waiting"
    /\ FlagsAllow(r) /\ StillOwned(r)
    /\ \/ runs[r].status = "waiting_approval" /\ Move(r, "running", 0)
       \/ runs[r].status = "running" /\ UNCHANGED vars
    /\ Phase(x, "replaying")
    /\ UNCHANGED <<turn, landed>>

(* ... and passes the other fences before the handler is entered again.      *)
Reenter(x) ==
    /\ call[x].phase = "replaying"
    /\ RunDispatchAllowed(RunOf(x)) /\ NothingUncertain(RunOf(x))
    /\ Phase(x, "running")
    /\ UNCHANGED <<vars, turn, landed>>

(* Denied, expired, withdrawn for a pause or by Stop, or turned away by a    *)
(* fence: the operation failed unchanged, and the run stays as it is.        *)
Withdraw(x) ==
    /\ call[x].phase \in AtGate
    /\ Settle(x, "failed", "unchanged")
    /\ Phase(x, "done")
    /\ UNCHANGED <<turn, landed>>
=============================================================================
