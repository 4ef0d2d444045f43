----------------------------- MODULE Scheduler -----------------------------
(* Scheduled tasks: the occurrences a scheduler service accepts, queues,      *)
(* starts and settles (scheduler.py) through the leased rows of a database    *)
(* several services share (database.py). A service is one event loop; what it *)
(* does between two awaits is its agenda, one transaction a step, and another *)
(* service may run its own between any two. A dead service never returns: the *)
(* one that starts after it has a new lease owner.                            *)
EXTENDS Naturals, Sequences, FiniteSets

CONSTANTS
    Schedulers,   \* service instances, each its own lease owner
    Tasks,        \* scheduled tasks
    Shapes,       \* what a task can be: its overlap_policy, and whether its kind is "once"
    Requests,     \* operation keys a client may run each task with
    RunAt,        \* the time of a one-time task; others recur every unit of time
    MaxRunning,   \* max_global_concurrency
    MaxQueued,    \* max_queued_occurrences
    MaxFailures,  \* _MAX_CONSECUTIVE_FAILURES
    MaxRuns,      \* bound: rows of run history
    MaxTime,      \* bound: the clock
    MaxEdits      \* bound: config_revision of a task

ASSUME SchedulerAssumption ==
    /\ IsFiniteSet(Schedulers) /\ IsFiniteSet(Tasks)
    /\ Shapes \subseteq [policy : {"skip", "queue", "cancel_previous"}, once : BOOLEAN]
    /\ RunAt \in Nat \ {0} /\ MaxRunning \in Nat \ {0} /\ MaxQueued \in Nat \ {0}
    /\ MaxFailures \in Nat \ {0} /\ MaxRuns \in Nat /\ MaxTime \in Nat /\ MaxEdits \in Nat
    /\ \A t \in Tasks : "" \notin Requests[t]

VARIABLES
    task,     \* the rows of scheduled_tasks
    rows,     \* scheduled_task_runs, in the order of their ids
    exec,     \* the coroutine of a run in each service
    mode,     \* the life of each service
    agenda,   \* transactions a service has yet to make before its next await
    stray,    \* runs a native worker of a service has outlived
    clock     \* the time schedules are read against

vars == <<task, rows, exec, mode, agenda, stray, clock>>

RunIds   == 1..MaxRuns
NoOwner  == "nobody"
Statuses == {"queued", "running", "succeeded", "failed", "cancelled", "skipped", "dead_letter",
             "abandoned", "deleted"}
Phases   == {"none", "ready", "revoked", "running", "cancelling", "over"}
Modes    == {"off", "up", "stopping", "down"}
AllKeys  == {""} \cup UNION {Requests[t] : t \in Tasks}
Active(s) == {r \in RunIds : exec[s][r] \notin {"none", "over"}}

\* compute_next_run, after the present; 0 is the empty next_run_at.
NextOf(t) == IF ~task[t].once THEN clock + 1 ELSE IF RunAt > clock THEN RunAt ELSE 0

SchedInit ==
    /\ clock  = 0
    /\ \E shape \in [Tasks -> Shapes] :
         task = [t \in Tasks |-> [exists |-> TRUE, enabled |-> TRUE, rev |-> 0, failures |-> 0,
                                  policy |-> shape[t].policy, once |-> shape[t].once,
                                  next |-> IF shape[t].once THEN RunAt ELSE 1,
                                  last |-> 0, shown |-> ""]]
    /\ rows   = <<>>
    /\ exec   = [s \in Schedulers |-> [r \in RunIds |-> "none"]]
    /\ mode   = [s \in Schedulers |-> "off"]
    /\ agenda = [s \in Schedulers |-> <<>>]
    /\ stray  = [s \in Schedulers |-> {}]

-----------------------------------------------------------------------------
(* The tables. *)

Ids            == DOMAIN rows
With(st)       == {r \in Ids : rows[r].status = st}
Of(t, st)      == {r \in With(st) : rows[r].task = t}
Settled(r, st) == [r EXCEPT !.status = st, !.owner = NoOwner, !.lease = FALSE]
Manual(r)      == r.key # ""
\* Mutant: a service starts only what it accepted itself.
OnlyMine(s, r) == r.owner = s

Mine(s, r)     == r.owner = s \/ ~r.lease
MayRun(tk, r)  == tk[r.task].exists /\ (tk[r.task].enabled \/ Manual(r))

\* _stopping_resources: what unfinished workers of this process still occupy.
Stopping(runs) == {r \in runs \cap Ids : rows[r].status # "deleted"}
Blocked(runs)  == {rows[r].task : r \in Stopping(runs)}

\* accept_scheduled_occurrence: manual runs and "cancel_previous" replace what is there.
Replaces(t, key) == key # "" \/ task[t].policy = "cancel_previous"
MustSkip(s, rw, t, key) ==
    LET queued  == {r \in DOMAIN rw : rw[r].status = "queued"}
        running == {r \in DOMAIN rw : rw[r].status = "running"}
        pending == {r \in queued : rw[r].task = t}
    IN  \/ /\ task[t].policy = "skip" /\ key = ""
           /\ \/ pending # {} \/ t \in Blocked(stray[s]) \/ \E r \in running : rw[r].task = t
              \/ Cardinality(running) + Cardinality(Stopping(stray[s])) >= MaxRunning
        \/ ~Replaces(t, key) /\ pending # {}
        \/ Cardinality(IF Replaces(t, key) THEN queued \ pending ELSE queued) >= MaxQueued

Replaced(t, r) ==
    CASE r.task = t /\ r.status = "queued"  -> Settled(r, "cancelled")
      [] r.task = t /\ r.status = "running" -> [r EXCEPT !.cancel = TRUE]
      [] OTHER                              -> r

NewRow(s, t, key, due, skip) ==
    [task |-> t, key |-> key, due |-> due, rev |-> task[t].rev, cancel |-> FALSE,
     status |-> IF skip THEN "skipped" ELSE "queued",
     owner  |-> IF skip THEN NoOwner ELSE s, lease |-> ~skip]

WithRow(s, t, key, due) ==
    LET skip == MustSkip(s, rows, t, key) IN
    Append([r \in Ids |-> IF Replaces(t, key) /\ ~skip THEN Replaced(t, rows[r]) ELSE rows[r]],
           NewRow(s, t, key, due, skip))

Advanced(s, t) ==
    LET skip == MustSkip(s, rows, t, "") IN
    [task[t] EXCEPT !.next    = IF task[t].once THEN 0 ELSE clock + 1,
                    !.enabled = @ /\ ~(skip /\ task[t].once),
                    !.shown   = IF skip THEN "skipped" ELSE @]

-----------------------------------------------------------------------------
(* finalize_scheduled_task_run: the evidence of a run is committed once, by    *)
(* the holder of a live lease; the summary of the task follows its latest run. *)

\* Mutant: a late completion is taken although its lease is gone.
SettleableLate(s, r) ==
    /\ task[rows[r].task].exists /\ rows[r].status \in {"queued", "running", "abandoned"}

Settleable(s, r) ==
    /\ task[rows[r].task].exists
    /\ rows[r].status \in {"queued", "running"} /\ rows[r].owner = s /\ rows[r].lease

IsLatest(r) ==
    \A q \in Ids : rows[q].task = rows[r].task /\ q > r => rows[q].status \in {"skipped", "queued"}

\* prepare_task_update of _finish_run, and what finalize lets it change.
Completed(r, status) ==
    LET t        == task[rows[r].task]
        failures == CASE status = "succeeded" -> 0
                      [] status = "failed"    -> t.failures + 1
                      [] OTHER                -> t.failures
        dead     == failures >= MaxFailures
        computed == IF t.enabled /\ ~dead THEN NextOf(rows[r].task) ELSE 0
        stays    == t.enabled /\ ~dead /\ ~(computed = 0 /\ t.once)
        edited   == t.rev # rows[r].rev /\ t.next # 0 /\ status # "failed"
        kept     == ~Manual(rows[r]) \/ t.next # 0
        enabled  == IF kept /\ edited THEN t.enabled ELSE stays
    IN  [t EXCEPT !.failures = failures, !.enabled = enabled, !.last = r,
                  !.next = IF ~kept THEN computed ELSE IF enabled THEN t.next ELSE 0,
                  !.shown = IF dead THEN "dead_letter" ELSE status]

\* The done callback of a coroutine cancelled before it ran only shows the cancellation.
Revoked(r) == LET t == task[rows[r].task] IN
    [t EXCEPT !.shown = "cancelled",
              !.next = IF (Manual(rows[r]) /\ t.next = 0) \/ t.enabled THEN t.next ELSE 0]

Summary(r, status, entered) ==
    IF ~IsLatest(r) THEN task[rows[r].task]
    ELSE IF entered THEN Completed(r, status) ELSE Revoked(r)
Stored(r, status, entered) ==
    IF IsLatest(r) /\ Summary(r, status, entered).shown = "dead_letter" THEN "dead_letter" ELSE status

-----------------------------------------------------------------------------
(* The agenda of a service: lists it has read and works off, one transaction   *)
(* for each row, while other services may change what was read.                *)

Awaits(s)    == mode[s] \in {"up", "stopping"} /\ agenda[s] = <<>>
Next1(s, op) == agenda[s] # <<>> /\ Head(agenda[s]).op = op

\* _cancel_requested_runs: Task.cancel on the runs of this service.
CancelRequested(s, rw) ==
    [r \in RunIds |->
       IF r \notin DOMAIN rw \/ exec[s][r] \notin {"ready", "running"} THEN exec[s][r]
       ELSE IF rw[r].status # "running" \/ ~rw[r].cancel \/ rw[r].owner # s THEN exec[s][r]
       ELSE IF exec[s][r] = "ready" THEN "revoked" ELSE "cancelling"]

\* cancel_disabled_scheduled_occurrences
Disabled(rw, tk) ==
    [r \in DOMAIN rw |-> IF rw[r].status = "queued" /\ ~MayRun(tk, rw[r])
                         THEN Settled(rw[r], "cancelled") ELSE rw[r]]

\* list_queued_scheduled_occurrences, less the tasks an unfinished worker blocks, by their ids.
Listed(s, rw) ==
    {r \in DOMAIN rw :
       rw[r].status = "queued" /\ Mine(s, rw[r]) /\ rw[r].task \notin Blocked(stray'[s])}
InOrder(runs) ==
    {list \in [1..Cardinality(runs) -> runs] : \A i, j \in DOMAIN list : i < j => list[i] < list[j]}
Starts(s, list) ==
    [i \in DOMAIN list |->
       [op |-> "start", run |-> list[i], used |-> Cardinality(Stopping(stray'[s]))]]

\* _drain_pending, after which the service goes on with the rest of its agenda.
Drain(s, rw, tk, rest) ==
    /\ task' = tk
    /\ IF mode'[s] = "up"
       THEN /\ rows' = Disabled(rw, tk)
            /\ \E list \in InOrder(Listed(s, Disabled(rw, tk))) :
                 agenda' = [agenda EXCEPT ![s] = Starts(s, list) \o rest]
       ELSE /\ rows'   = rw
            /\ agenda' = [agenda EXCEPT ![s] = rest]

\* list_due_scheduled_tasks, in the order they fell due.
IsDue(tk, t)    == tk[t].exists /\ tk[t].enabled /\ tk[t].next # 0 /\ tk[t].next <= clock
DueLists(tk) ==
    LET due == {t \in Tasks : IsDue(tk, t)} IN
    {list \in [1..Cardinality(due) -> due] :
        \A i, j \in DOMAIN list : i < j => list[i] # list[j] /\ tk[list[i]].next <= tk[list[j]].next}
Accepts(tk, list) ==
    [i \in DOMAIN list |-> [op |-> "accept", task |-> list[i], due |-> tk[list[i]].next,
                            rev |-> tk[list[i]].rev]]

\* recover_expired_scheduled_task_runs and repair_scheduled_intent
Retired ==
    [r \in Ids |-> IF rows[r].status = "running" /\ ~rows[r].lease
                   THEN Settled(rows[r], "abandoned") ELSE rows[r]]
Repaired(rw) ==
    [t \in Tasks |->
       IF /\ task[t].exists /\ task[t].enabled /\ task[t].next = 0
          /\ \A r \in DOMAIN rw : rw[r].task = t => rw[r].status \notin {"queued", "running"}
       THEN [task[t] EXCEPT !.next = NextOf(t), !.enabled = NextOf(t) # 0]
       ELSE task[t]]

\* _fire_due_tasks reads both lists, then makes its starts and acceptances.
Fire(s) ==
    /\ UNCHANGED <<stray, clock>>
    /\ \E list \in DueLists(Repaired(Retired)) :
         Drain(s, Retired, Repaired(Retired), Accepts(Repaired(Retired), list))
    /\ exec' = [exec EXCEPT ![s] = CancelRequested(s, Retired)]

\* start, and every turn of _tick_loop
Start(s) == mode[s] = "off" /\ mode' = [mode EXCEPT ![s] = "up"] /\ Fire(s)
Tick(s)  == mode[s] = "up" /\ Awaits(s) /\ UNCHANGED mode /\ Fire(s)

\* start_scheduled_occurrence
MayStart(s, r, used) ==
    /\ rows[r].status = "queued" /\ ~rows[r].cancel /\ Mine(s, rows[r]) /\ MayRun(task, rows[r])
    /\ Cardinality(With("running")) + used < MaxRunning
    /\ Of(rows[r].task, "running") = {}

StartQueued(s) ==
    /\ Next1(s, "start")
    /\ LET r == Head(agenda[s]).run IN
       IF MayStart(s, r, Head(agenda[s]).used)
       THEN /\ rows' = [rows EXCEPT ![r].status = "running", ![r].owner = s, ![r].lease = TRUE]
            /\ exec' = [exec EXCEPT ![s][r] = "ready"]
       ELSE UNCHANGED <<rows, exec>>
    /\ agenda' = [agenda EXCEPT ![s] = Tail(@)]
    /\ UNCHANGED <<task, mode, stray, clock>>

\* Mutant: what the list said is not looked at again.
StillEnabled(want) == task[want.task].exists /\ task[want.task].enabled

\* An acceptance checks what the list said; then cancellations and starts, before the next of the list.
StillDue(want) ==
    /\ IsDue(task, want.task) /\ task[want.task].next = want.due /\ task[want.task].rev = want.rev

AcceptDue(s) ==
    /\ Next1(s, "accept") /\ UNCHANGED <<mode, stray, clock>>
    /\ LET want == Head(agenda[s])
           t    == want.task
           new  == IF StillDue(want) THEN WithRow(s, t, "", want.due) ELSE rows
       IN  /\ Len(new) <= MaxRuns
           /\ IF ~task[t].exists
              THEN agenda' = [agenda EXCEPT ![s] = Tail(@)] /\ UNCHANGED <<task, rows, exec>>
              ELSE /\ Drain(s, new, [task EXCEPT ![t] = IF StillDue(want) THEN Advanced(s, t) ELSE @],
                            Tail(agenda[s]))
                   /\ exec' = [exec EXCEPT ![s] = CancelRequested(s, new)]

-----------------------------------------------------------------------------
(* The coroutine of a run: _run_prepared_task and its done callback, which     *)
(* settle the run if its lease still stands and drain what waits.              *)

Ends(s, r, status, entered) ==
    /\ IF Settleable(s, r)
       THEN Drain(s, [rows EXCEPT ![r] = Settled(@, Stored(r, status, entered))],
                  [task EXCEPT ![rows[r].task] = Summary(r, status, entered)], <<>>)
       ELSE Drain(s, rows, task, <<>>)
    /\ exec' = [exec EXCEPT ![s][r] = "over"]

\* renew_scheduled_task_run_lease
Renewable(s, r) ==
    /\ rows[r].owner = s /\ rows[r].status \in {"queued", "running"} /\ rows[r].lease
    /\ task[rows[r].task].exists

Enter(s, r) ==
    /\ Awaits(s) /\ exec[s][r] = "ready" /\ UNCHANGED <<mode, stray, clock>>
    /\ IF Renewable(s, r) /\ MayRun(task, rows[r])
       THEN exec' = [exec EXCEPT ![s][r] = "running"] /\ UNCHANGED <<task, rows, agenda>>
       ELSE Ends(s, r, "cancelled", TRUE)

Finish(s, r) ==
    /\ Awaits(s) /\ exec[s][r] = "running" /\ UNCHANGED <<mode, stray, clock>>
    /\ \E status \in {"succeeded", "failed"} : Ends(s, r, status, TRUE)

\* _keep_run_lease: the heartbeat of a run whose lease is gone cancels it.
LoseLease(s, r) ==
    /\ Awaits(s) /\ exec[s][r] = "running" /\ ~Renewable(s, r)
    /\ exec' = [exec EXCEPT ![s][r] = "cancelling"]
    /\ UNCHANGED <<task, rows, mode, agenda, stray, clock>>

\* The cancelled turn unwinds; a native worker of it may go on.
Unwind(s, r) ==
    /\ Awaits(s) /\ exec[s][r] = "cancelling" /\ UNCHANGED <<mode, clock>>
    /\ stray' \in {stray, [stray EXCEPT ![s] = @ \cup {r}]}
    /\ Ends(s, r, "cancelled", TRUE)

Revoke(s, r) ==
    /\ Awaits(s) /\ exec[s][r] = "revoked" /\ UNCHANGED <<mode, stray, clock>>
    /\ Ends(s, r, "cancelled", FALSE)

WorkerEnds(s, r) ==
    /\ r \in stray[s]
    /\ stray' = [stray EXCEPT ![s] = @ \ {r}]
    /\ UNCHANGED <<task, rows, exec, mode, agenda, clock>>

-----------------------------------------------------------------------------
(* The end of a service: stop, its grace, and a process that dies. *)

Stop(s) ==
    /\ mode[s] = "up" /\ Awaits(s)
    /\ mode' = [mode EXCEPT ![s] = "stopping"]
    /\ UNCHANGED <<task, rows, exec, agenda, stray, clock>>

StopCancel(s) ==
    /\ mode[s] = "stopping" /\ Awaits(s)
    /\ \E r \in Active(s) : exec[s][r] \in {"ready", "running"}
    /\ exec' = [exec EXCEPT ![s] = [r \in RunIds |->
                  CASE @[r] = "ready" -> "revoked" [] @[r] = "running" -> "cancelling"
                    [] OTHER -> @[r]]]
    /\ UNCHANGED <<task, rows, mode, agenda, stray, clock>>

\* release_queued_scheduled_occurrences
StopEnd(s) ==
    /\ mode[s] = "stopping" /\ Awaits(s) /\ Active(s) = {}
    /\ mode' = [mode EXCEPT ![s] = "down"]
    /\ rows' = [r \in Ids |-> IF rows[r].status = "queued" /\ rows[r].owner = s
                              THEN [rows[r] EXCEPT !.owner = NoOwner, !.lease = FALSE]
                              ELSE rows[r]]
    /\ UNCHANGED <<task, exec, agenda, stray, clock>>

Crash(s) ==
    /\ mode[s] \in {"up", "stopping"}
    /\ mode'   = [mode EXCEPT ![s] = "down"]
    /\ exec'   = [exec EXCEPT ![s] = [r \in RunIds |-> IF @[r] = "none" THEN "none" ELSE "over"]]
    /\ agenda' = [agenda EXCEPT ![s] = <<>>]
    /\ stray'  = [stray EXCEPT ![s] = {}]
    /\ UNCHANGED <<task, rows, clock>>

-----------------------------------------------------------------------------
(* The user, through the routes of a running service, and time. *)

RunNow(s, t, key) ==
    /\ mode[s] = "up" /\ Awaits(s) /\ task[t].exists /\ UNCHANGED <<mode, stray, clock>>
    /\ LET known == \E r \in Ids : rows[r].task = t /\ rows[r].key = key
           new   == IF known THEN rows ELSE WithRow(s, t, key, 0)
       IN  /\ known \/ ~MustSkip(s, rows, t, key)
           /\ Len(new) <= MaxRuns
           /\ Drain(s, new, task, <<>>)
           /\ exec' = [exec EXCEPT ![s] = CancelRequested(s, new)]

\* update_scheduled_task: an edit bumps the revision; one of the switch or the
\* schedule also recomputes the next run, and is refused when there is none.
Edited(t, what) ==
    [task[t] EXCEPT !.rev     = @ + 1,
                    !.enabled = IF what = "title" THEN @ ELSE what = "on",
                    !.next    = CASE what = "title" -> @
                                  [] what = "on"    -> NextOf(t)
                                  [] OTHER          -> 0]

Edit(s, t, what) ==
    /\ mode[s] = "up" /\ Awaits(s) /\ task[t].exists /\ task[t].rev < MaxEdits
    /\ what = "on" => NextOf(t) # 0
    /\ UNCHANGED <<exec, mode, stray, clock>>
    /\ Drain(s, rows, [task EXCEPT ![t] = Edited(t, what)], <<>>)

Delete(s, t) ==
    /\ Awaits(s) /\ task[t].exists
    /\ task' = [task EXCEPT ![t].exists = FALSE]
    /\ rows' = [r \in Ids |-> IF rows[r].task = t THEN Settled(rows[r], "deleted") ELSE rows[r]]
    /\ UNCHANGED <<exec, mode, agenda, stray, clock>>

Pass ==
    /\ clock < MaxTime
    /\ clock' = clock + 1
    /\ UNCHANGED <<task, rows, exec, mode, agenda, stray>>

\* Time passes a lease nobody renewed: its service is dead, busy or asleep, or the row is queued.
Lapse(r) ==
    /\ rows[r].lease
    /\ rows' = [rows EXCEPT ![r].lease = FALSE]
    /\ UNCHANGED <<task, exec, mode, agenda, stray, clock>>

Coroutine(s, r) == Enter(s, r) \/ Finish(s, r) \/ Unwind(s, r) \/ Revoke(s, r)

Transaction(s) == StartQueued(s) \/ AcceptDue(s)

User(s) ==
    \E t \in Tasks :
        \/ \E key \in Requests[t] : RunNow(s, t, key)
        \/ \E what \in {"title", "on", "off"} : Edit(s, t, what)
        \/ Delete(s, t)

SchedNext ==
    \/ Pass
    \/ \E r \in Ids : Lapse(r)
    \/ \E s \in Schedulers :
         \/ Start(s) \/ Tick(s) \/ Transaction(s) \/ User(s)
         \/ Stop(s) \/ StopCancel(s) \/ StopEnd(s) \/ Crash(s)
         \/ \E r \in Ids : Coroutine(s, r) \/ LoseLease(s, r) \/ WorkerEnds(s, r)

-----------------------------------------------------------------------------
(* Fairness: the event loop of a live service turns, time passes, and a turn,  *)
(* cancelled or not, comes to an end. Nothing makes anybody start a service.   *)

SchedFairness ==
    /\ \A s \in Schedulers :
         /\ SF_vars(Tick(s))
         /\ WF_vars(Transaction(s))
         /\ SF_vars(StopCancel(s) \/ StopEnd(s) \/ \E r \in Ids : Coroutine(s, r))
    /\ WF_vars(\E r \in Ids : Lapse(r) \/ \E s \in Schedulers : WorkerEnds(s, r))

SchedSpec == SchedInit /\ [][SchedNext]_vars

FairSchedSpec == SchedSpec /\ SchedFairness

-----------------------------------------------------------------------------
(* Properties. *)

(* The rows, coroutines and agendas have the shapes the actions rely on.       *)
SchedTypeOK ==
    /\ task \in [Tasks -> [exists : BOOLEAN, enabled : BOOLEAN, rev : 0..MaxEdits, failures : Nat,
                           policy : {"skip", "queue", "cancel_previous"}, once : BOOLEAN,
                           next : Nat, last : 0..MaxRuns,
                           shown : Statuses \cup {""}]]
    /\ Len(rows) \in 0..MaxRuns
    /\ \A r \in Ids : rows[r] \in [task : Tasks, key : AllKeys, due : Nat, rev : 0..MaxEdits,
                                   cancel : BOOLEAN, status : Statuses,
                                   owner : Schedulers \cup {NoOwner}, lease : BOOLEAN]
    /\ exec \in [Schedulers -> [RunIds -> Phases]]
    /\ mode \in [Schedulers -> Modes]
    /\ \A s \in Schedulers : mode[s] \notin {"up", "stopping"} => agenda[s] = <<>>
    /\ stray \in [Schedulers -> SUBSET RunIds]
    /\ clock \in 0..MaxTime

(* Whatever schedulers share the database, die and take each other's rows     *)
(* over: an occurrence is accepted once, at most one service ever starts it,  *)
(* and what was skipped is never started; the slots are not overbooked, and   *)
(* no task has two running rows; a coroutine whose row still runs holds the   *)
(* row; and a replacement waits for the native worker of the run it cancelled. *)
OccurrencesRunOnce ==
    /\ SchedTypeOK
    /\ \A q, r \in Ids : q # r /\ rows[q].task = rows[r].task =>
         <<rows[q].key, rows[q].due, rows[q].rev>> # <<rows[r].key, rows[r].due, rows[r].rev>>
    /\ \A r \in RunIds : Cardinality({s \in Schedulers : exec[s][r] # "none"}) <= 1
    /\ \A s \in Schedulers, r \in RunIds : exec[s][r] # "none" =>
         r \in Ids /\ rows[r].status \notin {"queued", "skipped"}
    /\ Cardinality(With("running")) <= MaxRunning
    /\ \A t \in Tasks : Cardinality(Of(t, "running")) <= 1
    /\ \A s \in Schedulers, r \in RunIds :
         r \in Active(s) /\ rows[r].status = "running" => rows[r].owner = s
    /\ \A s \in Schedulers : \A q \in stray[s], r \in Active(s) :
         ~(/\ q < r /\ rows[q].task = rows[r].task
           /\ rows[q].status = "cancelled" /\ rows[r].status = "running")

OutcomesStay ==
    /\ \A r \in Ids : rows[r].status \notin {"queued", "running"} =>
          rows'[r].status \in {rows[r].status, "deleted"}
    /\ \A t \in Tasks :
          /\ task'[t].last # task[t].last =>
                /\ task'[t].last > task[t].last
                /\ rows[task'[t].last].status = "running"
                /\ rows'[task'[t].last].status = task'[t].shown
          /\ task'[t].enabled /\ ~task[t].enabled => task'[t].rev # task[t].rev
          /\ task[t].next # 0 /\ task'[t].next # 0 => task'[t].next >= task[t].next

(* What has an outcome keeps it; the summary of a task moves only to a later   *)
(* run, together with the outcome of that run; and no completion, however      *)
(* late, switches a task on that the user switched off, or the due time of an  *)
(* accepted occurrence back.                                                   *)
CompletionsKeepTheirPlace == [][OutcomesStay]_vars

(* As long as some service stays up, no occurrence waits for ever: again and   *)
(* again (the bounds end the stream of new ones) nothing is queued, whoever    *)
(* accepted it, and nothing that fell due is left unrecorded.                  *)
IntentIsServed ==
    <>[](\E s \in Schedulers : mode[s] = "up")
        => []<>(With("queued") = {} /\ \A t \in Tasks : ~IsDue(task, t))

(* docs/scheduling.md:81: "A manual run before its future date does not        *)
(* consume that future occurrence" of a one-time task: its due time goes only  *)
(* when its occurrence is recorded, and this one is cancelled before it starts *)
(* only by a newer request, an edit, or the suspension of the task.            *)
OneTimeOccurrencesAreKept ==
    [][\A t \in Tasks :
         task[t].once /\ task[t].exists /\ Len(rows') = Len(rows)
         /\ task'[t].rev = 0 /\ task'[t].shown # "dead_letter" =>
            /\ task[t].next # 0 => task'[t].next # 0
            /\ \A r \in Ids : rows[r].task = t /\ rows[r].key = "" /\ rows[r].status = "queued"
                              => rows'[r].status # "cancelled"]_vars

=============================================================================
