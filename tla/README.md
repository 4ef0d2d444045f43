# TLA+ models of monaw

monaw runs an agent on the user's desktop: a Python backend (`src/backend/app`)
serves turns of a conversation, each turn asks a model, calls tools that change
files, browsers and programs, and keeps a durable record of all of it, so that a
crash, a stop or a timeout leaves a *Run* one can inspect, undo and continue.
This directory specifies that record, the processes that write it, the
permission gates and tools in front of the effects, the streams a window reads,
and the scheduler; TLC checks the specifications on small instances, and TLAPS
proves what matters most for every value of their constants.

Paths below are relative to `src/backend/app/agent/` unless they start with
`src/`, `api/`, `skills/` or `integrations/` (these three are below
`src/backend/app/`); `journal.py`, `turn_run.py`, `recovery.py` and
`operation_execution.py` are in `durable/`.

## 1. The system

### Components

| component | state it keeps | operations | talks to | what makes it correct |
|---|---|---|---|---|
| **Run and operation journal** (`journal.py`, `durable/models.py`) | tables `agent_runs`, `run_operations`; events of a run | create, claim, lease, release, transition of a run; prepare, transition, promote of an operation | called by every other part; one SQLite file, one `BEGIN IMMEDIATE` per method | owner, attempt and revision fences; a released run has no open write; a continuation starts from settled effects |
| **Conversations and checkpoints** (`database.py`) | `conversations`, `chat_messages`, `turn_checkpoints` | persist a turn, update, delete | same file and lock as the journal, but no fence | which run a newer conversation leaves resumable; cascade of a deletion |
| **Owner of a live turn** (`turn_run.py`, `harness/turn_lifecycle.py`) | recovery input, pause, review and lost flags, stop reason; the lease | resume, heartbeat, pause, finalize | journal; turn loop; HTTP routes | a live turn owns its run; every turn gets its run out of the active statuses or gives it up |
| **Operation execution, tool workers** (`operation_execution.py`, `harness/tool_*.py`, `harness/workers.py`) | one object per call; the workers that have not stopped | prepare, begin, promote, verify, settle; give up after a grace | journal (from worker threads), gate, skills | no effect without a record; no settlement against the facts; no call beside a worker that is still alive |
| **Startup recovery, owner proof** (`recovery.py`) | a lock file per process; the page of runs read at startup | hand over the runs of dead processes, verify, conclude; the dispatch fence | journal; the files | only the runs of dead processes are taken; nothing is claimed without evidence |
| **Run control routes** (`api/routes/runs.py`, `chat.py`) | idempotency records | pause, resume, stop, resolve an operation | turn owner, journal | a command is carried out on the row the client saw |
| **Undo** (`file_mutation/`, `api/routes/file_mutations.py`) | `undo_operations` and steps, confirmations, snapshots | preview, claim, step, adopt, finish | journal, files | no step twice, no undo over an edit, none claimed that did not happen |
| **Event store and its viewer** (`durable/event_store.py`, `useRunEvents.ts`) | events, retention floor, cursors | append, page, follow, prune, recover | run stream, run routes | no gap goes unnoticed |
| **Approval and access brokers, gate** (`approval_broker.py`, `access_grant_broker.py`, `execution_gate.py`, `execution_resume.py`) | tickets, waiters, grants | request, review, decide, expire, supersede, retire, replay | UI over HTTP, Telegram, the workers that wait | a decision is used once, by the ticket it was made for, and the model is told what happened |
| **File tools and Apply** (`skills/filesystem/file_ops.py`) | a plan, a staged file, snapshots of one operation | plan, approve, capture, last look, effect, verdict; preview and Apply | operation execution, gate, snapshot store | the approved plan lands on the files it was approved for, or nothing does |
| **Shell commands and sandbox** (`skills/exec/tools.py`, `sandbox/`) | sessions, containers, capability cache | classify, ask, replay, run, poll, stop, expire | gate, Docker | a command runs as it was reviewed, where its mode allows |
| **MCP bridge** (`skills/mcp_bridge/`) | a manager per server, its thread, the active map, reflected tools | start, restart, close, call, refresh, reset | worker threads, an external server | a call reaches the server and tool that were approved |
| **Scheduler** (`scheduler.py`, `database.py`) | `scheduled_tasks`, occurrences, leases | tick, accept, drain, start, renew, settle, recover, edit | runtime | one start and one outcome for each occurrence |
| **Turn stream, jobs, steering** (`run_stream.py`, `job_manager.py`, `steering.py`, `useChat.ts`) | replay and backlog of a turn, logs and queues of jobs, the inbox of a turn | publish, subscribe, replay, cut off, steer | HTTP viewers, the turn | a viewer sees everything in order or is told; a message is read once or runs next |
| **Observability** (`observability/recorder.py`) | its own tables, daily files, bundles | record, finish, prune, cap, Delete Data | every part logs to it | it shows what was recorded, and nothing that was deleted comes back |
| **Telegram** (`integrations/telegram/`) | one application, sessions, models, efforts | start, restart, stop, handle, answer | runtime, gate | one poller; a chat's messages one after the other in its own session |
| **Turn loop, agent runtime** (`turn_loop.py`, `runtime.py`) | rounds, budgets, cached runtimes | model request, tool batch, persist; start and resume | everything above | leaves its rounds at every stop reason; a run that cannot start is finalized |
| **Permission policy, memory, providers, other skills, control plane, desktop shell** | mostly none, or external | decide, select, call out | - | tables and I/O, see section 7 |

### How they interact

A turn is an asyncio task in one backend process. It holds the session lock of
its conversation in that process, calls the journal without an `await` between
reading its row and writing it, and hands tool calls to worker threads. These
call the journal themselves: the fences are read first, the row is moved by
later transactions. A call that needs permission leaves its worker with a ticket;
the gate waits for the decision on the loop and sends the call to a worker again.
Several backend processes may share the file, because a crashed one is followed
by a new one and nothing prevents two; a process proves that another is dead by
taking the lock file that one held for its lifetime. Verification by the user, by
recovery and by a live call all end in the same journal method. What a turn emits
goes through a bounded stream to any number of windows, which may close, lag and
come back, and durable events are paged from the journal besides.

### What is hard

* interleavings of the worker threads of a batch, the event loop, other processes
  and the user, each of them between the check of a fence and the commit after it;
* crashes between `authorized`, `executing`, the effect and its settlement, between
  the steps of an undo, and in the middle of recovery itself;
* leases that run out under a live turn or a scheduled run, and late heartbeats;
* workers that ignore Stop or a timeout and act when nobody waits for them;
* tickets that expire, are superseded or withdrawn while their decision arrives;
* files, settings, Docker and MCP servers that change between a review and its effect;
* bounded logs, queues and retention that cut under a reader's cursor;
* statuses from which an outcome is illegal, and attempts superseded while their
  rows stay.

`PROJECT.json` lists these hazards at their lines with the properties that watch
them. Five have none, each with a note there: the same claims are discussed in
section 5.

## 2. The plan and what became of it

| step | modules | state |
|---|---|---|
| the journal as fenced transactions, the abstract specification of what follows | `DurableJournal` | checked and proved |
| processes, turns, calls, recovery, implementing the journal | `TurnOwner`, `ToolCalls`, `DurableExecution` | checked and proved, refinement included |
| undo, and what it promises | `UndoJournal`, `UndoPromise` | checked and proved, refinement included |
| events, retention and a viewer against an abstract feed | `RunEvents`, `RunFeed` | checked and proved, refinement included |
| tickets, gates, grants | `ApprovalGate` | checked and proved |
| scheduler | `Scheduler` | checked and proved, but for liveness |
| turn stream, steering, jobs | `TurnStream`, `JobFeed` | checked and proved, but for liveness |
| the surroundings of a turn: files, shell, MCP, Telegram, records | `FileEffects`, `ShellCommands`, `McpServers`, `TelegramChats`, `RunRecords` | checked and proved |
| left: idempotency keys of the run commands; desktop and browser tools | - | planned, in this order |

Constants carry named assumptions, there is one action per operation, invariants
are conjunctions of named parts, and no module uses a RECURSIVE operator, so each
can be proved about. Definitions introduced by a comment `Faulty:` and those whose
names end in `Bug` are mutated forms used to test the properties; no
specification refers to them.

## 3. The modules and the code

`PROJECT.json` maps every definition to its lines; here is how to read a module.

### DurableJournal

Variables are tables: `runs` (`agent_runs`), `ops` (`run_operations`), `turns`
(`turn_checkpoints`), `convs` (`conversations`). Each writing method of class
`Journal` is one action with the same fences; a fence that fails raises, and the
transaction is rolled back, so the action is not enabled. One guard is no fence:
`persist_turn_messages` looks at no owner (database.py:813), and `FinalizeTurn` asks
that the run has one because the only caller is a live turn, which holds its run
(`TurnsOwnTheirRuns`, checked and proved of the whole system).

| action | code |
|---|---|
| `CreateRun`, `ClaimRun`, `RenewLease`, `ReleaseExpiredRun`, `TransitionRun` | `create_run`, `claim_run`, `renew_lease`, `release_expired_run`, `transition_run` |
| `PersistRecoveryInput` | `persist_recovery_input` |
| `PrepareOperation`, `TransitionOperation`, `PromoteOperation` | `prepare_operation`, `transition_operation`, `promote_operation_to_verifiable_write` |
| `RecordUnknownVerification` | `_record_unknown_operation_verification` in `routes/runs.py` |
| `FinalizeTurn`, `UpdateConversation`, `DeleteConversation` | the methods of `database.py` that touch those rows |

`HasSafeResumeInput`, `NoUnresolvedWrites`, `HasRecoveryInput` and `Reconciled`
are the helper queries of the same names. Abstracted: a turn id is the pair of
run and attempt; timestamps are the two comparisons the code makes (`fresh`: the
conversation is not newer than the run; `sealed`: the reply is not older than the
operation); what a checkpoint holds is `none`, `text` or `attached`.

### TurnOwner, ToolCalls, DurableExecution

`TurnOwner` adds `turn[r]`, what a process keeps of the turn of run `r`: its
phase (`queued` behind the session lock, `starting`, `working`, `ending`,
`sealed`, `closing`), owner, attempt, input, outcome and flags. `Resume` to
`FinishRefused` are `resume_run`, the lifecycle, and `finalize`, which is two
actions where it commits twice. A method that checks and commits without an
`await` is one action.

`ToolCalls` adds `call[x]`, the call behind operation `x`, and `landed`, the
operations whose effect has really happened: the world, which no row may
contradict. `Schedule`, `Admit`, `Enter`, `Promote`, `PassBoundary`, `Land`,
`VerifyNative`, `Return`, `GiveUp`, `WorkerStops` follow a call from
`prepare_tool_operation` to its settlement; the fence (`DispatchAllowed`) is read
where the code reads it. `AskPermission`, `Replay`, `Reenter`, `Withdraw` and
`PermissionRefused` are the gate as the journal sees it.

`DurableExecution` adds processes: `proc`, the page `scan` a starting process
read, and the run it is `fixing`. `Start`, `HandOff`, `LeaveToOwner`,
`LeaveChanged`, `VerifyRecovered`, `Conclude`, `FinishStart` are
`recover_startup_runs`. `resolve_run_operation` is `ReadForUser` (the verifier reads the
files in a thread; what it found is kept in `verdict[x]`), `CommitVerdict` (the
transaction after the `await`, if run and folder are still what they were) or
`DropVerdict`, and `PauseResolved`, its second transaction; anything may happen in
between, and another request may read again. `early` holds the operations the
user's request settled as failed on files read while a worker of the call, given up
on by its turn, could still act. `Crash` takes the turns, calls and verdicts of a
process along and leaves the journal and the world.

`Disturbances` names what an instance lets happen beside the ordinary course:
`crash`, `lease` (expiry and heartbeat), turns that are `failed` or `cancelled`,
`drop` (a queued turn is rejected or stopped), `unsaved` (the reply cannot be
persisted), `edit` and deletion of the conversation, `pause` and `verify` by the
user. It keeps each run about one question; the theorems hold for every choice.

Abstractions, each on the side of more behaviour unless noted: the owner proof and
the page are looked at in any order, where the code goes by the page; recovery and the
worker of a live call read the files and commit in one step, since the only other one
who could land the effect is dead or is that worker itself; the resource locks of `unfinished_workers` across conversations and transient database errors
outside the heartbeat and the reply are left out (fewer behaviours); of two requests
of the user for one operation the later reading is kept (the revision refuses the
second commit anyway); a process is between the two commits of such a request for
one run at a time (`fixing`), and a lease does not expire between those of a pause,
because in both they follow each other without an `await`.

### UndoJournal, UndoPromise

A request is one confirmed preview under one idempotency key. `undo[s][k]` is the
row and its steps, `disk[s]` what the inverse did to the files, `conf` the
confirmations in memory, `scan` what a starting process still has to recover.
`Claimed` to `SuspectUndo` are `UndoManager.undo` with a transaction, an effect or a
verification per action; `Adopt`, `RecoverStep`, `RecoverUnsureStep`, `RecoverUndo`
are `recover_pending_undo_operations`; `PassOver` leaves an undo whose owner cannot be
proved dead or cannot be read, and `RecoveryRaises` stops in the middle of one, after
which the loop goes on with the next. A preparation of a step that fails aborts the
step, or sends the undo to review when a staged file of a restore cannot be removed.
A process may die and the user may edit a file between any two.
`UndoPromise` says the same without rows, keys, processes or recovery: claimed by
one request at a time, touched only while claimed, released only untouched,
called undone only if wholly applied. `UndoJournal` implements it (`KeepsPromise`).

### RunEvents, RunFeed

The log of events with retention (`EnforceRetention` after each end), the answers
of the routes (`Page`, `Expired`, the stream's three reads), and `useRunEvents.ts`
with its two loops, `sync` and `main`; a request and its answer are two steps. A
snapshot that is older than the viewer's cursor can move it backward: events may
be shown twice, but never skipped in silence. `RunFeed` is what a viewer may be
shown: all events after a snapshot, in order and without a hole, or a newer start.

### ApprovalGate

`ticket`, `resume` (registered waiters), `call`, `turn` and `access` (policy and
grants). A call goes through the phases of `resolve_pending_output`; `Created` and
`Superseded` are `create_ticket`, `Answer` and `AnswerGrant` the routes, `Woken`,
`WaitTimesOut`, `WithdrawForPause`, `Leave` the ends of a wait, `StartReplay` to
`ReplayReturns` `execution_resume.py`. A superseded ticket changes under the lock and
its waiter is signalled after it; here that is one step, because the thread between
the two is that of the call whose ticket it is: no gate waits on that ticket until
the thread returns, nothing else reads or moves it, and a restart takes the thread
along with the waiters, so nobody can see the state in between. Expiry and the timeout of the gate are
independent, as in the code, where nobody signals an expiry: the gate waits out
its ten minutes. Two observations are modelled as they are: a once grant has a
scope of conversation, principal, target and access, not of the action, so a
parallel call or the recheck of a replay may consume it (`access_grant_broker.py:6`
speaks of the action); and `INSERT OR REPLACE` lets a later "once" replace a
"session" grant. Left out: unattended profiles, retention of tickets, ownership
and binding hashes.

### Scheduler

`task`, `rows`, `clock`, `mode`, `agenda` (what a service does between two awaits,
one transaction a step). `Fire`, `AcceptDue`, `StartQueued` are a tick, `Enter`,
`Finish`, `LoseLease`, `Unwind`, `Revoke` the coroutine of an occurrence, `Stop`,
`StopCancel`, `StopEnd`, `Crash` the end of a service; `Edit`, `Delete`, `RunNow`
are the routes. A lease lapses (`Lapse`) independently of the clock. A queued occurrence cancelled before it
ran hides the earlier result (`MAX(id)` counts cancelled rows); after a lost lease
the next occurrence may start while the old coroutine still executes. Not
modelled: database errors, edits of the task kind, rows of older versions,
retention, notifications and cron arithmetic (a due time is a number).

### TurnStream, JobFeed

`TurnStream` is a turn as its window lives it: `turn.outbox`, the inbox, the
`RunStream` (events are numbered; an entry covers a range, because deltas merge),
the response `conn`, and `useChat.ts` as `view`. The limit of the inbox is part of
`SteerFails`. `JobFeed` is `job_manager.py`: a log of the last `MaxLog` events, the
bounded queue of a follower, replay by `Last-Event-ID`. Observed and modelled: a
response of a job that no longer runs ends right after the replay, so the tail in
its queue is dropped and fetched again by its cursor; a `done` that found the queue
full leaves a follower with heartbeats; a job cancelled before its first run stays
`running` without an event.

### FileEffects, ShellCommands, McpServers, RunRecords, TelegramChats

These share no state and have disjoint names, so that one instance holds them all.

* `FileEffects` is one file operation from the tool call or Apply to the verdict on
  its row: plan, access and approval, staging, snapshot capture and promotion, the
  last look, the system calls one by one, verification, and the sweep of snapshots.
  Every look at the disk and every change is a step, edits come between any two. The
  window between the last look and the system call is the code's (POSIX delete,
  `os.replace`, in-place rewrite; none for a Windows delete). A move whose operands cannot
be planned (unsupported kind, two volumes, too large to fingerprint) falls to the
path of an opaque call (`Unplanned`, `TooLarge`). Reads, mkdir and dry
  runs are left out. Snapshots are assumed to be older than seven days only after
  their operation ended (`Age`).
* `ShellCommands` is `exec`, `exec_start`, `exec_write_stdin`: classification under
  the settings of the moment, permission, replay, the recheck of the manager, local
  and Docker processes, sessions. `docker rm` may fail, and nobody looks at its answer. Blocked patterns, elevated and custom modes and
  the copying of files are left out.
* `McpServers` is one server: managers, their threads and lifecycle lock, the active
  map, calls with their approved scope, refresh, reconnect, reset. A start whose wait
  timed out (`WaitTimesOut`) takes the lock later (`StartTimesOut`) and stops what it finds.
* `RunRecords` is the recorder: rows and daily files, a lock that covers the tables
  and not always the files, crashes, failing writes, retention (a model day is the
  retention period), the storage cap, Delete Data.
* `TelegramChats` is the service that owns an application, the handlers of a chat,
  its session files and turns.

## 4. The runs

| run | instance | what it shows |
|---|---|---|
| `journal_attempts` | 1 run, 2 attempts, 1 operation, 2 processes, any calls | ownership follows status; released runs are settled; superseded attempts are safe; continuations have input; finished runs are final; dispatched writes need evidence |
| `exec_effects` | 2 processes, 2 attempts, one call (opaque, or a native file mutation) with a gate, all disturbances, workers of opaque tools that outlive their turn | a live turn owns its run; every effect is on record |
| `exec_overlap` | 2 runs, 2 conversations, 1 workspace, 2 processes, paused and resumed in any order | runs that may both be active have no overlapping calls |
| `exec_stray_workers` | workers that outlive their turn, 2 operations, 2 attempts, 2 processes that crash and take over, a user who verifies while such a worker may act | the next turn gets no call past the executor beside such a worker; every operation is settled on evidence and every effect is known to a continuation; each visible change moves the revision, by one for each row it changes |
| `exec_liveness` | 2 processes, fairness | an accepted pause ends; a dead process's runs are taken over |
| `undo_promised` | one operation of each kind, two keys, up to 3 processes, edits | one claim at a time, no edit overwritten, `UndoPromise` implemented, every abandoned undo settled unless the recovery that finds it dies, cannot prove its owner dead, or raises |
| `viewer_feed` | 2 runs, 4 events, retention of 2 per run and 2 in all, pages of 2, one lost request | retention leaves no hole, the viewer implements `RunFeed` and learns of the end |
| `turn_views` | a turn with 2 messages, replay and backlog of 2, one return; or a job of 5 events with a log of 3 and a queue of 2 | views have no gap, misses are counted, what was read is not sent again, no steering is lost, views end, followers catch up |
| `approval_gates` | 2 calls, 3 tickets, 2 hops, all ways to decide | consent before each effect, once; the model is told the truth; decisions wake the gate |
| `scheduled` | 2 services, 1 task (recurring with a queue, or one-time), 1 manual key, 3 occurrences | an occurrence is accepted and started once; completions keep their place; nothing waits for ever |
| `scheduled_once` | a queued one-time task, run by hand before its date | *violated*: see section 5 |
| `surroundings` | files, shell, MCP, records, Telegram, one per behaviour | file changes are safe; commands are as reviewed; MCP calls are scoped; records are true; chats are served |

### Bounds

Symmetry is used only where ids are merely compared, and never for liveness.
`CHECK_DEADLOCK FALSE` everywhere, because a system whose runs are over and whose
user asks for nothing stops, as does one at a bound.

* Journal and execution: `MaxAttempt` and `MaxRevision` cap the attempts and the
  revision of a run. A full life of an operation costs four revisions and a pause, a
  resume or a handoff one or two more, so 10 reach a second attempt above a settled
  operation, 14 to 16 a whole first attempt with permission request, crash, handoff,
  verification, pause and a second attempt with its own end, and 8 a call in effect
  after a resume in `exec_overlap`. Two processes are the recovering and the dead one.
  `MaxHops` stands for `MAX_GATE_HOPS` (3 in the code).
  One opaque call and a gate meet every disturbance (1.8 million states); two calls
  without a gate meet stray workers, crashes and verifications (1.1 million): a sibling
  that becomes uncertain, and a late effect between the reading and the commit of a
  verdict or after it.
* `MCUndoJournal`: two keys make two handlers race for one source; a third process
  starts only where one request was made, which is a recovery that is itself recovered.
* `MCRunEvents`: the other run ends with one event before the viewer opens: what it is
  there for is to push the total over its limit.
* `MCTurnStream`: `Bound` spends the second message on turns that are not left and do
  nothing else, and excludes pairs of disturbances whose parts appear alone: a followed
  turn that is also stopped, or that also loses a request. A replay of 2 and a log
  of 3 are exceeded by the events of one turn and of one job.
* `MCApprovalGate`: two calls are needed for two replays of one decision and for one
  grant between two; three tickets for a superseded one. One ticket grows too old, and
  beside it one of Stop, pause, blocked target and restart happens, at a time when a
  gate is at work; two hops for the three of the code, since the third only repeats.
* `MCScheduler`: two services, which is every pair of a transaction and a rival;
  at most one disturbance (a service that ends, a lapse, an edit, a deletion, or a
  second service at work); while both services are at work the clock stays below its
  bound. `cancel_previous` is in the model and in the proofs, and in no instance.
* `MCSurroundings`: `scene` chooses the module of a behaviour and the others stand
  still; nothing they share is lost, for they share nothing. Of two jobs of the
  bridge one calls and the other changes the connection; Telegram's application is
  rebuilt twice around one update; one of two shell calls is trusted; one edit or
  one change of the policy around a file; two records; `KeepDays = 0`, because a
  model day is the whole retention period.

### Fairness

Fairness is assumed only of what the program schedules by itself: tasks of an event
loop, threads, timeouts. Nothing is assumed of users, models, heartbeats or crashes.

* `FairExecSpec`: weak fairness of `RecoveryStep(o)` (startup does not end before
  recovery does), `TurnStep(r)` (every turn has a timeout and every stop reason leads
  to `finalize`) and `SettleStep(x)` (each call is settled by its handler, its timeout,
  the expiry of its ticket, or when the turn gives it up). `PausesEnd` therefore excepts
  turns that lost their lease or process, and `DeadRunsAreTakenOver` a recovering
  process that dies. The instance has no `verify`: a user may ask for the same
  inconclusive check again and again, and each one is a revision.
* Undo: weak fairness of a live handler and of recovery; none of `PassOver` and `RecoveryRaises`,
  which `AbandonedUndosAreSettled` excepts.
* `EventsFairness`: the reader's loops, the routes and the stream go on; each
  request is answered or fails.
* `StreamFairness`: the turn ends (its model and tools answer or time out), its events
  are published and read, requests are answered. `JobFairness`: weak for the job, and
  strong for the reading of a follower, whose loop alternates with reconnections.
* `SchedFairness`: strong for a tick and for the coroutines, because the loop's ready
  queue is first in, first out, so what is ready again and again is run; weak for the
  transactions, lapses and workers.

## 5. Where repository and code disagree

One run is spent on a disagreement, `scheduled_once`: docs/scheduling.md:81-82 says that
"A manual run before its future date does not consume that future occurrence." The
completion of a manual run computes the next date after the present, and for a
one-time task whose date has passed meanwhile it switches the task off
(scheduler.py:480); so the occurrence is lost when the run works past the date,
before it was accepted as well as while it waits in the queue.

Others were met while modelling. TLC refutes each of them within a few states of
the modules as they stand; no run of the project is kept for them.

| claim | what the code does |
|---|---|
| one active run per conversation | a paused run is claimed while a newer one is active: `claim_run` looks at no other row (journal.py:467), though recovery.py:793 speaks of "the" active run; the dispatch fence then stops both |
| a run that blocks deletion can be resolved (database.py:175, docs/operations.md:208) | a paused run older than a change of its conversation can be neither resumed nor stopped, and blocks the deletion |
| a review has a subject (turn_run.py:249) | a denied permission leaves the run in `waiting_approval`; `completed` is illegal from there, and the fallback asks to review an effect that does not exist |
| `unchanged` files mean a write did not land (runs.py:843) | the user verifies while the abandoned worker is alive, and then it writes: between the reading and the commit (runs.py:923, 974) or after both; the properties except just these operations (`early`) |
| no effect is entered beside an uncertain one (operation_execution.py:49) | a call past the fences enters its handler after a sibling became uncertain (operation_execution.py:233) |
| recovery sorts each run it checked (docs/v1.1-implementation-plan.md:63) | a run with no open write and no safe input stays `interrupted` (recovery.py:681) |
| an active run has a worker (runs.py:533) | Stop during the wait for the session lock leaves a `running` row without one (chat.py:218) |
| "Steering messages the agent never read run as the next turn instead" (useChat.ts:281) | a reply to a steer request that comes after the end of the turn queues a message that was read (useChat.ts:310) |
| a retired MCP server stops | a start past its check goes on after the reset that retired and closed its manager |
| Telegram's buttons decide (docs/telegram.md:139) | its turns are not interactive, and the gate denies them at once (execution_gate.py:385-403) |
| "Two host cases ask regardless of permission mode, including Full Access" (docs/sandboxing.md:56) | under Full Access `_permission_check` of the exec tool clears the question |

Seen as well, and modelled as they are:

* a call denied at its gate is recorded as `failed`, `unchanged` (`Withdraw`), where the
  implementation plan of v1.1 says `cancelled`;
* a run in review because of an uncertain *opaque* effect has no way out, since only
  verifiable writes can be resolved and `skip` is refused; this looks intended;
* the rewrite of an overwritten file by an undo has a window between its last look
  and the write; `EditsSurvive` excepts it (docs/permissions.md:210-214 does not);
* approval tickets, unlike access grants, are not retired by a timeout or Stop; a late
  review leaves a ticket the user approved as `approved`; `clear_session_grants`, "called
  on app restart", is called nowhere;
* an approved plan whose path permission became a session grant is replayed on the
  opaque path, which compares nothing; an approved relative move always fails as
  stale, for its digest holds relative paths and the ticket absolute ones; an error
  while a staged file is fingerprinted leaves the staged file; Apply of identical
  content answers `applied` over a row that is `failed`, `unchanged`;
* `exec_start` has no second check by the manager between permission and process; `docker
  rm -f` before the container exists, or that fails, lets it outlive its call; a local session's stop
  kills only the shell; an expired session leaves its script file;
* a call of the bridge that times out stops whatever runtime the manager has by then;
  an old start registers its retired manager over a new one;
* the row of a crashed run stays `running` in the records; their summary counts running
  and paused runs as failed; Delete Data answers ok although deleting a table failed,
  and calls in flight may add content after it;
* overlapping saves of the Telegram settings leave two pollers; messages are lost in a
  restart; only the first permission notice of a message is shown; "A previous
  Telegram request is still running" is never reached;
* acceptance of a skipped occurrence overwrites the last status of its task;
  `_max_per_task_concurrency` is unused.

## 6. The proofs

All with TLAPS, for any sets of runs, operations, processes, conversations, calls,
tickets, tasks and messages, any number of bots, managers, callers and edits, and any
bounds. Stated are all the invariants, action properties and refinements of the passing
runs. Assumed are the named assumptions of the modules and nothing else.

In each module the strengthened invariant is one predicate; a lemma per action shows
that it is kept, often through a predicate that says what any such step may do, and
the theorem combines them by temporal logic.

| module | theorem | states |
|---|---|---|
| `DurableJournalProofs` | `TypeCorrectness`, `OwnershipFollowsStatus`, `ReleasedMeansSettled`, `SupersededAttemptsAreSafe`, `ContinuationsAreFounded` | the invariants of `journal_attempts` |
| | `FinishedMeansFinal`, `DispatchedMeansEvidence` | its action properties |
| | `RevisionsAreFaithful` | `ChangesMoveTheRevision` |
| `DurableExecutionProofs` | `ImplementsTheJournal` | `ExecSpec => Spec`: every theorem of the journal holds of the whole system |
| | `ExecTypeCorrectness`, `TurnsHoldTheirRuns`, `EffectsStayOnRecord`, `ReleasedRunsStaySettled` | types; the invariants of `exec_effects` |
| | `SettlementsAreTrue`, `ContinuationsKnowTheEffects` | settlement on evidence and what a continuation knows (`exec_stray_workers`) |
| | `EffectsDoNotOverlap`, `StrayWorkersAreAlone` | `exec_overlap`; no call beside a stray worker |
| `UndoJournalProofs` | `UndoTypes`, `UndosHaveOneHand`, `ChangedFilesAreLeft`, `UndoIsAsPromised` | all of `undo_promised` but its liveness, the refinement included |
| `ApprovalGateProofs` | `GateInvariant`, `ApprovalTypes`, `ConsentPrecedesEffects`, `OutcomesAreTrue`, `DecisionsAreHeard` | all of `approval_gates` |
| `SchedulerProofs` | `OccurrencesStaySingle`, `OutcomesAreKept` | `scheduled` but its liveness |
| `SurroundingsProofs` | `CommandsStayControlled`, `RecordsStayTrue`, `ChatsStayServed` | three of the five of `surroundings` |
| `EdgeProofs` | `McpCallsStayScoped`, `FileChangesStaySafe` | the other two |
| | `HistoriesStaySuffixes`, `TheViewerIsShownTheFeed` | all of `viewer_feed` but its liveness, the refinement included |
| `ViewProofs` | `ViewsHaveNoGap`, `FollowersMissOnlyWhatIsCounted`, `TheUnreadRunNext` | `turn_views` but its liveness |

**Journal.** `IInv` is `TypeOK`, `OwnedWhileLeased`, `ReleasedRunsAreSettled`,
`EarlierAttemptsAreSafe` and `OperationsBelongToRuns`: an operation never outlives its
run nor is of a later attempt. Without the last a run id used again after a deletion
could start with operations of an earlier life, and a claim could supersede operations
nobody looked at. `ReleasedRunsAreSettled` needs `OwnedWhileLeased`: no owner is left
who could open a write. `InputIInv` carries `ContinuationsAreFounded`: a step writes
only the turn of the current attempt, so the input a run refers back to stays. The
evidence and revision theorems are about single steps from typed states; a step
either advances the revision of the run (`Advances`) or shows a client no change
(`SeesNoChange`).

**Execution.** `ExecIInv` is types, `TurnsOwnTheirRuns`, `RefsArePast` (bounds the input a
pause hands to `transition_run`, so that the step is one the journal offers),
`CallsOfTurns` (ties a live call to a working turn of its process and attempt and to the
status of its row; it is why a handoff never meets a call in effect) and `EffectsKnown` (a
write that landed, or whose stray worker may still act, has a row past dispatch).
`Implements` is what each step is shown to do: be a step of the journal or leave it
alone, and keep the parts.

**Effects.** `SettlementsAreTrue` and `ContinuationsKnowTheEffects` hold with workers that
outlive their turn and with a verification whose reading and commit lie apart. Both
use `EvidenceIInv`: a call that waits at its gate has not acted (`GateBeforeEffect`); what a
request has read stays true until it is committed, unless a stray worker could act
when it was read (`VerdictsStand`); a stray worker lives in a serving process, and no
other one takes its run at the same attempt (`StrayHeld`: this is why neither recovery
nor another process judges an effect too early); and a late effect on a row that is
`failed` belongs to `early` (`LateLandings`). `early` is set only by a commit of the user's
verdict, so the exception does not widen: whoever else settles a write settles it on
what happened. `EffectsDoNotOverlap` and `StrayWorkersAreAlone` add
`LiveRunsApart`: of two runs that share a place only one passes the fence, because the
fence is read when a call is scheduled, the turn holds its row, and the other run's
row would have stopped it.

**Undo.** `RowStep` says what a step about one row may do: keep the row sound, tell
truthfully of the files (`DiskTells`), move status and touch as `Moves` allows, and let the
scan only shrink. From it follow the invariant of all other rows (a touch happens only
under a claim, and then no other row of the source is open), and the step of `UndoPromise`
(`PromiseMove`). Processes are numbered as they start and dead ones do not return.

**Gates.** `GateIInv` is types, counted grants, and what holds of each call (`OfCall`) and each
ticket (`OfTicket`). A ticket is of one call (`CallIsLocal`), so a step about one call keeps
the others; `ThreadKeeps` does the same for the two threads of a call, its gate and its
replay. It is by locality that the proof covers any number of calls and tickets.

**Scheduler.** `SchedIInv` has ten parts; two facts carry it. A row leaves the queue once,
because only the start of a queued row makes a coroutine; and a due time only moves
past the clock, so an occurrence is accepted once. `Step` is what every step but a
start may do to rows and agendas: one lemma per action shows it is a `Step`, one per
part shows that a `Step` keeps it, and `StartKeeps` is the start of a queued row. No bound of
`MCScheduler` is used; in particular two disturbances and `cancel_previous` are covered.

**Surroundings.** `ShellIInv` is types and, for each call, `ReviewIsKept` (the consent it
carries tells the truth about who must answer, and the environment is the one shown)
and `RunsAsAllowed` (a process belongs to a call past its check). `RecordsIInv` names
what retention and deletion rely on: ids are given once and in order (`IdsAreGiven`,
`IdsAreOwn`), a run's rows follow its days (`RunFlows`, `DaysFollow`: why retention never takes
only a part of a run it keeps), the counters add up, content is there by consent, and
the ids doomed by a deletion vanish file by file (`DeletionHolds`).

**Views.** `TurnIInv` describes the entries of the replay (they cover the events from the
first they keep to the last, and that one is the second event of the turn unless some
were dropped), the outbox (`turn_started` is the first event and no other) and the queue of
an open response: `Unbroken`, in order and with no gap together with what was seen, or
`CutOff`, when the backlog was exceeded and what was seen is whole by itself
(`SeenIsWhole`). `JobIInv` says that a log is the end of what was numbered, that what an
open response still brings is in order, and that there is a set of at most `dropped`
numbers that accounts for every number missed before the log (`Accounted`).

**Steering.** `TheUnreadRunNext` (a message the turn has read is not sent again) needs
`SteeringIInv`. While a turn works, no end of it is under way to its view (`WorksOn`); a
request belongs to the view that sent it, and a message is in the inbox only once its
request arrived (`RequestsFit`); and for each message that was read while a view still
expects it, what is under way, queue first and then outbox, tells of the reading before
it tells of an end (`Awaited`). The last is the order `chat.py` and the loop rely on and no
code checks. TLC checked the invariant with two messages, and with one whose view returns
twice; the proof uses no bound.

**Events.** `EventsIInv` says that the store keeps suffixes of its histories, that a view
holds exactly what lies between its snapshot and its cursor (`ViewOK`), and that nothing
under way to it - answers, pages, queued events of the stream, cursors - is newer than
the run. A page is an interval because retention takes the oldest first
(`OldestIsPrefix`) and a page the next of what is left. Then each step is one of
`RunFeed`: the store lets the feed grow, the viewer shows, starts over or leaves, and
everything else stutters (`FeedStep`).

**Telegram.** `ChatIInv` says that saves of the settings work on bots of their own
(`SavesOwnBots`), that at most one bot is up unless two restarts ran side by side
(`OneIsUp`, the case the property excludes), that the settings saved last reach the bot
(`SettingsKept`, while no start failed), that a bot works on one update at a time, with
a model and an effort that fit each other (`HandlersOK`), and that while one bot is up
what was uploaded stays with the conversation its turn is for (`UploadsOK`).

**MCP.** `McpIInv` follows managers, threads and callers: a manager keeps the
configuration it was made with; a thread that lives is the one its manager knows, and
its loop belongs to that manager; a caller past `ensure` waits on a loop of its manager
and sends only where the configuration is the one of its scope. A manager forgets a
thread only after joining it, and from this alone follows that it never has two: the proof
does not use the lock around the start.

**Files.** `FilesIInv` follows one operation from its plan to the verdict on its row. The plan
a handler carries is the one that was agreed on (`PlanAgreed`); a planned effect leaves
its trace on the disk (`Touched`), so the verdict of recovery cannot miss it; what is lost
of the planned file is in the snapshot, but for what was put there in the instant between
the last look and the change (`EffectIInv`); and the snapshot is young when an
open row comes to refer to it, so a sweep that did not see the row spares it
(`SnapshotIInv`). TLC checked it first with two edits and two changes; the proof
needs no bound on either.

Only model-checked is liveness: `PausesEnd`, `DeadRunsAreTakenOver`,
`AbandonedUndosAreSettled`, `ViewerLearnsTheEnd`, `SteeringIsNotLost`, `ViewsEnd`,
`FollowersCatchUp` and `IntentIsServed`. Fairness and ENABLED are out of the prover's
reach. What the violation run refutes is no theorem.

## 7. What is not modelled, and why

* The idempotency keys of the run commands (runs.py:301): planned. What a command
  does to the journal is modelled, and the journal refuses a stale revision.
* Of the turn loop its rounds, budgets and prompts; of the runtime its cache; of
  the executor its per-tool attestation and output handling: none of it reaches
  the journal other than through the actions modelled.
* Permission decision tables: data without state. What depends on time, the
  coverage of a call by grants, is in `ApprovalGate`.
* Memory and context: text selection, except that saving the goal of a task makes
  the conversation newer, which is part of `StartWork`.
* Model providers, desktop, browser and document tools, diagnostics, settings, the
  control plane's authentication, the Electron shell and the rendering of the web
  interface: I/O around the core. `ToolCalls` and `ApprovalGate` model when the effect of
  such a tool may happen, whatever it is.
* What each module leaves out of its own part is said with it in section 3.
