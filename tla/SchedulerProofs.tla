-------------------------- MODULE SchedulerProofs --------------------------
(* What holds of the scheduler services for any number of services, tasks and *)
(* rows. Two facts carry the argument. A row leaves the queue once: only the  *)
(* start of a queued row makes a coroutine, so a row with a coroutine         *)
(* anywhere is never started again. And the due time of a task only moves     *)
(* past the clock, so what was accepted at one revision stays behind it.      *)
EXTENDS Scheduler, FiniteSetTheorems, TLAPS

-----------------------------------------------------------------------------
(* The inductive invariant. *)

Row     == [task : Tasks, key : AllKeys, due : Nat, rev : 0..MaxEdits, cancel : BOOLEAN,
            status : Statuses, owner : Schedulers \cup {NoOwner}, lease : BOOLEAN]
TaskRow == [exists : BOOLEAN, enabled : BOOLEAN, rev : 0..MaxEdits, failures : Nat,
            policy : {"skip", "queue", "cancel_previous"}, once : BOOLEAN, next : Nat,
            last : 0..MaxRuns, shown : Statuses \cup {""}]
Item    == [op : {"start"}, run : RunIds, used : Nat]
           \cup [op : {"accept"}, task : Tasks, due : Nat, rev : 0..MaxEdits]

Lives    == {"ready", "revoked", "running", "cancelling"}
Outcomes == {"succeeded", "failed", "cancelled", "dead_letter"}

SchedTypes ==
    /\ task \in [Tasks -> TaskRow]
    /\ rows \in Seq(Row) /\ Len(rows) <= MaxRuns
    /\ exec \in [Schedulers -> [RunIds -> Phases]]
    /\ mode \in [Schedulers -> Modes]
    /\ agenda \in [Schedulers -> Seq(Item)]
    /\ \A s \in Schedulers : mode[s] \notin {"up", "stopping"} => agenda[s] = <<>>
    /\ stray \in [Schedulers -> SUBSET RunIds]
    /\ clock \in 0..MaxTime

\* An occurrence lies behind the due time its task has at the same revision.
Behind(r) ==
    /\ rows[r].rev <= task[rows[r].task].rev
    /\ rows[r].key = "" =>
         /\ rows[r].due <= clock
         /\ rows[r].rev = task[rows[r].task].rev /\ task[rows[r].task].next # 0
            => rows[r].due < task[rows[r].task].next

SameIntent(q, r) ==
    /\ rows[q].task = rows[r].task /\ rows[q].key = rows[r].key
    /\ rows[q].due = rows[r].due /\ rows[q].rev = rows[r].rev

\* A task is due no later than its next tick, and its summary shows a settled run.
OnTime(t) ==
    /\ IF task[t].once THEN task[t].next \in {0, RunAt} ELSE task[t].next <= clock + 1
    /\ task[t].last # 0 =>
         /\ task[t].last \in Ids /\ rows[task[t].last].task = t
         /\ rows[task[t].last].status \notin {"queued", "running", "skipped"}

\* A coroutine is of a started row, and holds the row as long as that runs.
Held(s, r) ==
    /\ exec[s][r] # "none" => r \in Ids /\ rows[r].status \notin {"queued", "skipped"}
    /\ exec[s][r] \in Lives =>
         /\ rows[r].status \in {"running", "abandoned", "deleted"}
         /\ rows[r].status = "running" => rows[r].owner = s
    /\ r \in stray[s] => exec[s][r] = "over"

ReplacementWaits(s, q, r) ==
    q \in stray[s] /\ exec[s][r] \in Lives =>
      ~(/\ q < r /\ rows[q].task = rows[r].task
        /\ rows[q].status = "cancelled" /\ rows[r].status = "running")

\* What the agenda starts is not blocked by an unfinished worker.
Sound(s, item) ==
    item.op = "start" => item.run \in Ids /\ rows[item.run].task \notin Blocked(stray[s])

AcceptedOnce == \A q, r \in Ids : q # r => ~SameIntent(q, r)
OneHand      == \A s, u \in Schedulers, r \in RunIds :
                    exec[s][r] # "none" /\ exec[u][r] # "none" => s = u
OneRunning   == \A q, r \in Ids : rows[q].task = rows[r].task /\ rows[q].status = "running"
                                  /\ rows[r].status = "running" => q = r
SlotsHold    == Cardinality(With("running")) <= MaxRunning

SchedIInv ==
    /\ SchedTypes
    /\ \A r \in Ids : Behind(r)
    /\ \A t \in Tasks : OnTime(t)
    /\ \A s \in Schedulers, r \in RunIds : Held(s, r)
    /\ \A s \in Schedulers, q, r \in RunIds : ReplacementWaits(s, q, r)
    /\ \A s \in Schedulers : \A i \in 1..Len(agenda[s]) : Sound(s, agenda[s][i])
    /\ AcceptedOnce
    /\ OneHand
    /\ OneRunning
    /\ SlotsHold

-----------------------------------------------------------------------------
(* What a step may do. Every step but the start of a queued row is such a     *)
(* step; the values are those before the rows of the queue are worked off.    *)

Same(a, b) == a.task = b.task /\ a.key = b.key /\ a.due = b.due /\ a.rev = b.rev

\* A row is left alone, cancelled in the queue, deleted with its task, or abandoned ...
Quiet(a, b) ==
    /\ Same(a, b)
    /\ \/ b.status = a.status /\ (a.status = "running" => b.owner = a.owner)
       \/ a.status = "queued" /\ b.status = "cancelled"
       \/ b.status = "deleted"
       \/ a.status = "running" /\ b.status = "abandoned"

\* ... or settled by its coroutine, which is over then.
Goes(r, b) ==
    \/ Quiet(rows[r], b)
    \/ /\ Same(rows[r], b) /\ rows[r].status = "running" /\ b.status \in Outcomes
       /\ \E s \in Schedulers : exec[s][r] \in Lives /\ exec'[s][r] = "over"

TaskGoes(t, rw, tk) ==
    /\ tk[t].once = task[t].once
    /\ tk[t].rev \in {task[t].rev, task[t].rev + 1}
    /\ tk[t].next \in {task[t].next, 0, NextOf(t)}
    /\ tk[t].enabled /\ ~task[t].enabled => tk[t].rev # task[t].rev
    /\ \/ tk[t].last = task[t].last
       \/ /\ tk[t].last \in Ids /\ tk[t].last > task[t].last
          /\ rows[tk[t].last].task = t /\ rows[tk[t].last].status = "running"
          /\ rw[tk[t].last].status \in Outcomes /\ rw[tk[t].last].status = tk[t].shown

\* A new row is of an occurrence that was due, or of a request never seen.
IsNew(b, tk) ==
    /\ b.status # "running"
    /\ b.rev = task[b.task].rev /\ b.rev = tk[b.task].rev
    /\ IF b.key = ""
       THEN /\ b.due = task[b.task].next /\ b.due \in 1..clock
            /\ tk[b.task].next \in {0, clock + 1}
       ELSE \A q \in Ids : ~(rows[q].task = b.task /\ rows[q].key = b.key)

TablesGo(rw, tk) ==
    /\ rw \in Seq(Row) /\ Len(rw) <= MaxRuns /\ tk \in [Tasks -> TaskRow]
    /\ \A r \in Ids : r \in DOMAIN rw /\ Goes(r, rw[r])
    /\ \A t \in Tasks : TaskGoes(t, rw, tk)
    /\ \/ Len(rw) = Len(rows)
       \/ Len(rw) = Len(rows) + 1 /\ IsNew(rw[Len(rows) + 1], tk)

ExecGoes(s, r) ==
    /\ exec'[s][r] = "none" <=> exec[s][r] = "none"
    /\ exec'[s][r] \in Lives => exec[s][r] \in Lives
    /\ r \in stray'[s] =>
         \/ r \in stray[s]
         \/ exec[s][r] \in Lives /\ exec'[s][r] = "over"

\* An item of an agenda was on it, or starts what is not blocked.
Fresh(s, item) ==
    item.op = "start" => item.run \in Ids' /\ rows'[item.run].task \notin Blocked(stray'[s])
ItemGoes(s, item) ==
    \/ Fresh(s, item)
    \/ stray'[s] \subseteq stray[s] /\ \E j \in 1..Len(agenda[s]) : item = agenda[s][j]

Step ==
    /\ SchedTypes'
    /\ TablesGo(rows', task')
    /\ \A s \in Schedulers, r \in RunIds : ExecGoes(s, r)
    /\ \A s \in Schedulers : \A i \in 1..Len(agenda'[s]) : ItemGoes(s, agenda'[s][i])
    /\ clock' >= clock

-----------------------------------------------------------------------------
(* The operators of the model. *)

LEMMA ListsAreRows ==
    ASSUME NEW S, NEW n \in Nat, NEW f, DOMAIN f = 1..n, \A i \in 1..n : f[i] \in S,
           f = [i \in 1..n |-> f[i]]
    PROVE  f \in Seq(S) /\ Len(f) = n
<1>1. f \in [1..n -> S]
  OBVIOUS
<1> QED
  BY <1>1

LEMMA Bounds ==
    /\ IsFiniteSet(Schedulers) /\ IsFiniteSet(Tasks)
    /\ RunAt \in Nat \ {0} /\ MaxRunning \in Nat \ {0} /\ MaxFailures \in Nat \ {0}
    /\ MaxRuns \in Nat /\ MaxTime \in Nat /\ MaxEdits \in Nat
  BY SchedulerAssumption, Zenon

LEMMA ShapesAreTyped == Shapes \subseteq [policy : {"skip", "queue", "cancel_previous"}, once : BOOLEAN]
  BY SchedulerAssumption, Zenon

(* A set whose members are all the same has at most one. *)
LEMMA SmallSets ==
    ASSUME NEW S, \A x, y \in S : x = y
    PROVE  Cardinality(S) <= 1
<1>1. CASE S = {}
  BY <1>1, FS_EmptySet
<1>2. CASE S # {}
  <2>1. PICK x \in S : TRUE
    BY <1>2
  <2>2. S = {x}
    BY <2>1
  <2> QED
    BY <2>2, FS_Singleton
<1> QED
  BY <1>1, <1>2

LEMMA RequestsHaveKeys == \A t \in Tasks : "" \notin Requests[t]
  BY SchedulerAssumption, Zenon

LEMMA RowsAreNumbered ==
    ASSUME SchedTypes
    PROVE  Ids = 1..Len(rows) /\ Ids \subseteq RunIds /\ Len(rows) \in Nat
           /\ (\A r \in Ids : rows[r] \in Row)
  BY Bounds DEF SchedTypes, Ids, RunIds

LEMMA SettledRows ==
    ASSUME NEW r \in Row, NEW st \in Statuses
    PROVE  /\ Settled(r, st) \in Row
           /\ Same(r, Settled(r, st)) /\ Settled(r, st).status = st
  BY DEF Settled, Row, Same

(* A quiet move stays one when the queue is worked off after it. *)
LEMMA QuietThenCancelled ==
    ASSUME NEW a \in Row, NEW b \in Row, Quiet(a, b), b.status = "queued"
    PROVE  Quiet(a, Settled(b, "cancelled"))
<1>1. "cancelled" \in Statuses
  BY DEF Statuses
<1>2. Same(b, Settled(b, "cancelled")) /\ Settled(b, "cancelled").status = "cancelled"
  BY <1>1, SettledRows
<1> QED
  BY <1>2 DEF Quiet, Same

LEMMA DisabledRows ==
    ASSUME NEW rw \in Seq(Row), NEW tk
    PROVE  /\ Disabled(rw, tk) \in Seq(Row) /\ Len(Disabled(rw, tk)) = Len(rw)
           /\ \A r \in 1..Len(rw) :
                \/ Disabled(rw, tk)[r] = rw[r]
                \/ rw[r].status = "queued" /\ Disabled(rw, tk)[r] = Settled(rw[r], "cancelled")
<1> DEFINE d == Disabled(rw, tk)
<1>1. DOMAIN rw = 1..Len(rw) /\ Len(rw) \in Nat /\ \A r \in 1..Len(rw) : rw[r] \in Row
  OBVIOUS
<1>2. "cancelled" \in Statuses
  BY DEF Statuses
<1>3. DOMAIN d = 1..Len(rw) /\ d = [r \in 1..Len(rw) |-> d[r]]
  BY <1>1 DEF Disabled
<1>4. \A r \in 1..Len(rw) : \/ d[r] = rw[r]
                            \/ rw[r].status = "queued" /\ d[r] = Settled(rw[r], "cancelled")
  BY <1>1 DEF Disabled
<1>5. \A r \in 1..Len(rw) : d[r] \in Row
  BY <1>1, <1>2, <1>4, SettledRows
<1> HIDE DEF d
<1>6. d \in Seq(Row) /\ Len(d) = Len(rw)
  BY <1>1, <1>3, <1>5, ListsAreRows
<1> QED
  BY <1>4, <1>6 DEF d

(* What is on the list to start are rows of the queue, in a sequence of items. *)
LEMMA ListsAreItems ==
    ASSUME SchedTypes, NEW s \in Schedulers, NEW rw \in Seq(Row),
           Len(rw) <= MaxRuns, stray' \in [Schedulers -> SUBSET RunIds],
           NEW list \in InOrder(Listed(s, rw))
    PROVE  /\ Starts(s, list) \in Seq(Item)
           /\ \A i \in 1..Len(Starts(s, list)) :
                /\ Starts(s, list)[i].run \in DOMAIN rw
                /\ rw[Starts(s, list)[i].run].task \notin Blocked(stray'[s])
<1> DEFINE runs  == Listed(s, rw)
           n     == Cardinality(runs)
           st    == Starts(s, list)
           slots == Cardinality(Stopping(stray'[s]))
<1>1. DOMAIN rw = 1..Len(rw) /\ Len(rw) \in Nat /\ 1..Len(rw) \subseteq RunIds
  BY Bounds DEF RunIds
<1>2. IsFiniteSet(RunIds)
  BY Bounds, FS_Interval DEF RunIds
<1>3. runs \subseteq RunIds /\ Stopping(stray'[s]) \subseteq RunIds
  BY <1>1 DEF Listed, Stopping
<1>4. n \in Nat /\ slots \in Nat
  BY <1>2, <1>3, FS_Subset, FS_CardinalityType
<1>5. list \in [1..n -> runs]
  BY DEF InOrder
<1>6. DOMAIN st = 1..n /\ st = [i \in 1..n |-> st[i]]
  BY <1>5 DEF Starts
<1>7. \A i \in 1..n : st[i] = [op |-> "start", run |-> list[i], used |-> slots]
  BY <1>5 DEF Starts
<1>8. \A i \in 1..n : list[i] \in runs
  BY <1>5
<1>9. \A i \in 1..n : list[i] \in DOMAIN rw /\ rw[list[i]].task \notin Blocked(stray'[s])
  BY <1>8 DEF Listed
<1> HIDE DEF runs, n, slots, st
<1>10. ASSUME NEW i \in 1..n  PROVE st[i] \in Item /\ st[i].run = list[i]
  <2>1. list[i] \in RunIds
    BY <1>3, <1>8
  <2>2. [op |-> "start", run |-> list[i], used |-> slots] \in Item
    BY <2>1, <1>4 DEF Item
  <2>3. st[i] = [op |-> "start", run |-> list[i], used |-> slots]
    BY <1>7
  <2> QED
    BY <2>2, <2>3
<1>11. st \in Seq(Item) /\ Len(st) = n
  BY <1>4, <1>6, <1>10, ListsAreRows
<1> QED
  BY <1>9, <1>10, <1>11 DEF st

(* Working off the queue leaves the tables as far as a step may move them,     *)
(* and puts nothing on the agenda but unblocked starts.                        *)
LEMMA DrainGoes ==
    ASSUME SchedTypes, NEW s \in Schedulers, NEW rw, NEW tk, NEW rest \in Seq(Item),
           Drain(s, rw, tk, rest), TablesGo(rw, tk),
           stray' \in [Schedulers -> SUBSET RunIds]
    PROVE  /\ TablesGo(rows', task')
           /\ agenda' \in [Schedulers -> Seq(Item)]
           /\ \A u \in Schedulers : u # s => agenda'[u] = agenda[u]
           /\ \A i \in 1..Len(agenda'[s]) :
                Fresh(s, agenda'[s][i]) \/ \E j \in 1..Len(rest) : agenda'[s][i] = rest[j]
<1>1. /\ rw \in Seq(Row) /\ Len(rw) <= MaxRuns /\ DOMAIN rw = 1..Len(rw) /\ Len(rw) \in Nat
      /\ task' = tk /\ agenda \in [Schedulers -> Seq(Item)] /\ rows \in Seq(Row)
  BY DEF TablesGo, Drain, SchedTypes
<1>2. CASE mode'[s] # "up"
  <2>1. rows' = rw /\ agenda' = [agenda EXCEPT ![s] = rest]
    BY <1>2 DEF Drain
  <2> QED
    BY <1>1, <2>1
<1>3. CASE mode'[s] = "up"
  <2>1. PICK d : d = Disabled(rw, tk)
    OBVIOUS
  <2>2. PICK list \in InOrder(Listed(s, d)) :
          rows' = d /\ agenda' = [agenda EXCEPT ![s] = Starts(s, list) \o rest]
    BY <1>3, <2>1 DEF Drain
  <2>3. /\ d \in Seq(Row) /\ Len(d) = Len(rw)
        /\ \A r \in 1..Len(rw) : \/ d[r] = rw[r]
                                 \/ rw[r].status = "queued" /\ d[r] = Settled(rw[r], "cancelled")
    BY <1>1, <2>1, DisabledRows
  <2>4. /\ Starts(s, list) \in Seq(Item)
        /\ \A i \in 1..Len(Starts(s, list)) :
             /\ Starts(s, list)[i].run \in DOMAIN d
             /\ d[Starts(s, list)[i].run].task \notin Blocked(stray'[s])
    BY <1>1, <2>3, ListsAreItems
  <2>5. PICK st \in Seq(Item) : st = Starts(s, list)
    BY <2>4
  <2>6. /\ st \o rest \in Seq(Item) /\ Len(st \o rest) = Len(st) + Len(rest)
        /\ \A i \in 1..Len(st) + Len(rest) :
             IF i \in 1..Len(st) THEN (st \o rest)[i] = st[i]
             ELSE i - Len(st) \in 1..Len(rest) /\ (st \o rest)[i] = rest[i - Len(st)]
    OBVIOUS
  <2>7. agenda' = [agenda EXCEPT ![s] = st \o rest]
    BY <2>2, <2>5
  <2>8. agenda'[s] = st \o rest /\ agenda' \in [Schedulers -> Seq(Item)]
        /\ \A u \in Schedulers : u # s => agenda'[u] = agenda[u]
    BY <1>1, <2>6, <2>7
  <2>9. \A i \in 1..Len(st) : Fresh(s, st[i])
    BY <2>2, <2>4, <2>5 DEF Fresh, Ids
  <2>10. \A i \in 1..Len(agenda'[s]) :
           Fresh(s, agenda'[s][i]) \/ \E j \in 1..Len(rest) : agenda'[s][i] = rest[j]
    BY <2>6, <2>8, <2>9
  <2>11. TablesGo(d, tk)
    <3>1. ASSUME NEW r \in Ids  PROVE r \in DOMAIN d /\ Goes(r, d[r])
      <4>1. r \in 1..Len(rw) /\ Goes(r, rw[r]) /\ rw[r] \in Row /\ rows[r] \in Row
        <5>1. r \in DOMAIN rw /\ Goes(r, rw[r])
          BY DEF TablesGo
        <5>2. r \in 1..Len(rows)
          BY <1>1 DEF Ids
        <5> QED
          BY <1>1, <5>1, <5>2
      <4>2. CASE d[r] = rw[r]
        BY <2>3, <4>1, <4>2
      <4>3. CASE rw[r].status = "queued" /\ d[r] = Settled(rw[r], "cancelled")
        <5>1. Quiet(rows[r], rw[r])
          BY <4>1, <4>3 DEF Goes, Outcomes
        <5>2. Quiet(rows[r], d[r])
          BY <4>1, <4>3, <5>1, QuietThenCancelled
        <5> QED
          BY <2>3, <4>1, <5>2 DEF Goes
      <4> QED
        BY <2>3, <4>1, <4>2, <4>3
    <3>2. ASSUME NEW t \in Tasks  PROVE TaskGoes(t, d, tk)
      <4>1. TaskGoes(t, rw, tk)
        BY DEF TablesGo
      <4>2. ASSUME tk[t].last \in Ids, rw[tk[t].last].status \in Outcomes
            PROVE  d[tk[t].last] = rw[tk[t].last]
        <5>1. tk[t].last \in 1..Len(rw)
          BY <1>1, <4>2 DEF TablesGo
        <5> QED
          BY <2>3, <4>2, <5>1 DEF Outcomes
      <4> QED
        BY <4>1, <4>2 DEF TaskGoes
    <3>3. ASSUME Len(rw) = Len(rows) + 1, IsNew(rw[Len(rows) + 1], tk)
          PROVE  IsNew(d[Len(rows) + 1], tk)
      <4>1. PICK n : n = Len(rows) + 1
        OBVIOUS
      <4>2. n \in 1..Len(rw) /\ rw[n] \in Row
        BY <1>1, <3>3, <4>1
      <4>3. CASE d[n] = rw[n]
        BY <3>3, <4>1, <4>3
      <4>4. CASE d[n] = Settled(rw[n], "cancelled")
        <5>1. "cancelled" \in Statuses
          BY DEF Statuses
        <5>2. Same(rw[n], d[n]) /\ d[n].status = "cancelled"
          BY <4>2, <4>4, <5>1, SettledRows
        <5> QED
          BY <3>3, <4>1, <5>2 DEF IsNew, Same
      <4> QED
        BY <2>3, <4>2, <4>3, <4>4
    <3> QED
      BY <1>1, <2>3, <3>1, <3>2, <3>3 DEF TablesGo
  <2> QED
    BY <1>1, <2>2, <2>8, <2>10, <2>11
<1> QED
  BY <1>2, <1>3

(* A handler that works off the queue of its service is a step.                *)
LEMMA DrainsAreSteps ==
    ASSUME SchedTypes, NEW s \in Schedulers, NEW rw, NEW tk, NEW rest \in Seq(Item),
           Drain(s, rw, tk, rest), TablesGo(rw, tk),
           \A i \in 1..Len(rest) : rest[i].op = "accept" \/ ItemGoes(s, rest[i]),
           stray' \in [Schedulers -> SUBSET RunIds],
           \A u \in Schedulers : u # s => stray'[u] = stray[u] /\ mode'[u] = mode[u],
           exec' \in [Schedulers -> [RunIds -> Phases]],
           mode' \in [Schedulers -> Modes], mode'[s] \in {"up", "stopping"},
           \A u \in Schedulers, r \in RunIds : ExecGoes(u, r),
           clock' = clock
    PROVE  Step
<1>1. /\ TablesGo(rows', task')
      /\ agenda' \in [Schedulers -> Seq(Item)]
      /\ \A u \in Schedulers : u # s => agenda'[u] = agenda[u]
      /\ \A i \in 1..Len(agenda'[s]) :
           Fresh(s, agenda'[s][i]) \/ \E j \in 1..Len(rest) : agenda'[s][i] = rest[j]
  BY DrainGoes
<1>2. clock' \in 0..MaxTime /\ clock' >= clock
  BY Bounds DEF SchedTypes
<1>3. \A u \in Schedulers : mode'[u] \notin {"up", "stopping"} => agenda'[u] = <<>>
  BY <1>1 DEF SchedTypes
<1>4. SchedTypes'
  BY <1>1, <1>2, <1>3 DEF SchedTypes, TablesGo
<1>5. ASSUME NEW u \in Schedulers, NEW i \in 1..Len(agenda'[u])
      PROVE  ItemGoes(u, agenda'[u][i])
  <2>1. CASE u # s
    BY <1>1, <2>1 DEF ItemGoes
  <2>2. CASE u = s
    <3>1. CASE Fresh(s, agenda'[s][i])
      BY <2>2, <3>1 DEF ItemGoes
    <3>2. CASE \E j \in 1..Len(rest) : agenda'[s][i] = rest[j]
      <4>1. PICK j \in 1..Len(rest) : agenda'[s][i] = rest[j]
        BY <3>2
      <4>2. rest[j].op = "accept" => Fresh(s, rest[j])
        BY DEF Fresh
      <4> QED
        BY <2>2, <4>1, <4>2 DEF ItemGoes
    <3> QED
      BY <1>1, <1>5, <2>2, <3>1, <3>2
  <2> QED
    BY <2>1, <2>2
<1> QED
  BY <1>1, <1>2, <1>4, <1>5 DEF Step

-----------------------------------------------------------------------------
(* Such a step keeps the invariant.                                            *)

LEMMA RowsGo ==
    ASSUME SchedTypes, Step
    PROVE  /\ Ids = 1..Len(rows) /\ Ids' = 1..Len(rows') /\ Len(rows) \in Nat /\ Len(rows') \in Nat
           /\ \A r \in Ids : /\ r \in Ids' /\ Goes(r, rows'[r]) /\ Same(rows[r], rows'[r])
                           /\ rows[r] \in Row
           /\ \A r \in Ids' : rows'[r] \in Row
           /\ \A r \in Ids' \ Ids : r = Len(rows) + 1 /\ IsNew(rows'[r], task')
<1>1. TablesGo(rows', task') /\ SchedTypes'
  BY DEF Step
<1>2. /\ Ids = 1..Len(rows) /\ Ids' = 1..Len(rows') /\ Len(rows) \in Nat /\ Len(rows') \in Nat
      /\ \A r \in Ids : rows[r] \in Row
      /\ \A r \in Ids' : rows'[r] \in Row
  BY <1>1, RowsAreNumbered DEF SchedTypes, Ids
<1>3. ASSUME NEW r \in Ids  PROVE r \in Ids' /\ Goes(r, rows'[r]) /\ Same(rows[r], rows'[r])
  <2>1. r \in DOMAIN rows' /\ Goes(r, rows'[r])
    BY <1>1, Zenon DEF TablesGo
  <2>2. Same(rows[r], rows'[r])
    BY <2>1 DEF Goes, Quiet
  <2> QED
    BY <2>1, <2>2 DEF Ids
<1>4. \/ Len(rows') = Len(rows)
      \/ Len(rows') = Len(rows) + 1 /\ IsNew(rows'[Len(rows) + 1], task')
  BY <1>1, Zenon DEF TablesGo
<1>5. ASSUME NEW r \in Ids' \ Ids  PROVE r = Len(rows) + 1 /\ IsNew(rows'[r], task')
  <2>1. r \in 1..Len(rows') /\ r \notin 1..Len(rows)
    BY <1>2, <1>5
  <2>2. Len(rows') = Len(rows) + 1 /\ r = Len(rows) + 1
    BY <1>2, <1>4, <2>1
  <2> QED
    BY <1>4, <2>2
<1> QED
  BY <1>2, <1>3, <1>5

LEMMA TasksGo ==
    ASSUME SchedIInv, Step, NEW t \in Tasks
    PROVE  /\ TaskGoes(t, rows', task') /\ OnTime(t)
           /\ task[t] \in TaskRow /\ task'[t] \in TaskRow
           /\ task[t].rev \in Nat /\ task'[t].rev \in Nat
           /\ task[t].next \in Nat /\ task'[t].next \in Nat
           /\ clock \in Nat /\ clock' \in Nat /\ clock' >= clock
<1>1. task \in [Tasks -> TaskRow] /\ task' \in [Tasks -> TaskRow]
      /\ clock \in 0..MaxTime /\ clock' \in 0..MaxTime /\ clock' >= clock
  BY DEF SchedIInv, Step, SchedTypes
<1>2. TaskGoes(t, rows', task') /\ OnTime(t)
  BY Zenon DEF SchedIInv, Step, TablesGo
<1>3. task[t] \in TaskRow /\ task'[t] \in TaskRow
  BY <1>1
<1>4. /\ task[t].rev \in 0..MaxEdits /\ task'[t].rev \in 0..MaxEdits
      /\ task[t].next \in Nat /\ task'[t].next \in Nat
  BY <1>3 DEF TaskRow
<1> QED
  BY <1>1, <1>2, <1>3, <1>4, Bounds

LEMMA StepKeepsPlaces ==
    ASSUME SchedIInv, Step
    PROVE  (\A r \in Ids : Behind(r))' /\ (\A t \in Tasks : OnTime(t))'
<1>1. SchedTypes
  BY DEF SchedIInv
<1>2. ASSUME NEW t \in Tasks
      PROVE  /\ task'[t].next \in {task[t].next, 0} \/ task'[t].next > clock
             /\ task'[t].rev >= task[t].rev
  <2>1. NextOf(t) = 0 \/ NextOf(t) > clock
    BY TasksGo, Bounds DEF NextOf
  <2>2. task'[t].next \in {task[t].next, 0, NextOf(t)} /\ task'[t].rev \in {task[t].rev, task[t].rev + 1}
    BY TasksGo DEF TaskGoes
  <2> QED
    BY <2>1, <2>2, TasksGo
<1>3. ASSUME NEW r \in Ids
      PROVE  r \in Ids' /\ Goes(r, rows'[r]) /\ Same(rows[r], rows'[r]) /\ Behind(r)
  BY <1>1, RowsGo DEF SchedIInv
<1>4. ASSUME NEW r \in Ids'  PROVE Behind(r)'
  <2>1. PICK t : t = rows'[r].task
    OBVIOUS
  <2>2. rows'[r] \in Row
    BY <1>1, RowsGo
  <2>3. t \in Tasks /\ rows'[r].due \in Nat /\ rows'[r].rev \in Nat
    <3>1. t \in Tasks /\ rows'[r].due \in Nat /\ rows'[r].rev \in 0..MaxEdits
      BY <2>1, <2>2 DEF Row
    <3> QED
      BY <3>1, Bounds
  <2>4. /\ task'[t].next \in {task[t].next, 0} \/ task'[t].next > clock
        /\ task'[t].rev >= task[t].rev
    BY <1>2, <2>3
  <2>5. /\ task[t].rev \in Nat /\ task'[t].rev \in Nat
        /\ task[t].next \in Nat /\ task'[t].next \in Nat
        /\ clock \in Nat /\ clock' \in Nat /\ clock' >= clock
    BY <2>3, TasksGo
  <2>6. CASE r \in Ids
    <3>1. Behind(r) /\ Same(rows[r], rows'[r])
      BY <1>3, <2>6
    <3>2. /\ rows'[r].rev <= task[t].rev
          /\ rows'[r].key = "" =>
               /\ rows'[r].due <= clock
               /\ rows'[r].rev = task[t].rev /\ task[t].next # 0 => rows'[r].due < task[t].next
      BY <2>1, <3>1 DEF Behind, Same
    <3>3. PICK d \in Nat, v \in Nat : d = rows'[r].due /\ v = rows'[r].rev
      BY <2>3
    <3>4. v <= task[t].rev /\ v <= task'[t].rev
      <4>1. v <= task[t].rev
        BY <3>2, <3>3, Zenon
      <4>2. PICK m \in Nat, n \in Nat : m = task[t].rev /\ n = task'[t].rev
        BY <2>5
      <4>3. n >= m
        BY <2>4, <4>2, Zenon
      <4> QED
        BY <4>1, <4>2, <4>3
    <3>5. ASSUME rows'[r].key = ""
          PROVE  /\ d <= clock'
                 /\ v = task'[t].rev /\ task'[t].next # 0 => d < task'[t].next
      <4>1. d <= clock /\ (v = task[t].rev /\ task[t].next # 0 => d < task[t].next)
        BY <3>2, <3>3, <3>5
      <4>2. ASSUME v = task'[t].rev, task'[t].next # 0  PROVE d < task'[t].next
        <5>1. v = task[t].rev
          BY <2>4, <2>5, <3>4, <4>2
        <5>2. CASE task'[t].next = task[t].next
          BY <4>1, <4>2, <5>1, <5>2
        <5>3. CASE task'[t].next > clock
          BY <2>5, <4>1, <5>3
        <5> QED
          BY <2>4, <4>2, <5>2, <5>3
      <4>3. d <= clock'
        BY <2>5, <4>1
      <4> QED
        BY <4>2, <4>3
    <3> QED
      BY <2>1, <3>3, <3>4, <3>5 DEF Behind
  <2>7. CASE r \notin Ids
    <3>1. IsNew(rows'[r], task')
      BY <1>1, <2>7, RowsGo
    <3>2. /\ rows'[r].rev = task'[t].rev
          /\ rows'[r].key = "" => rows'[r].due \in 1..clock /\ task'[t].next \in {0, clock + 1}
      BY <2>1, <3>1 DEF IsNew
    <3>3. PICK d \in Nat, v \in Nat : d = rows'[r].due /\ v = rows'[r].rev
      BY <2>3
    <3>4. v = task'[t].rev
      BY <3>2, <3>3, Zenon
    <3>5. ASSUME rows'[r].key = ""
          PROVE  d <= clock' /\ (task'[t].next # 0 => d < task'[t].next)
      <4>1. d \in 1..clock /\ task'[t].next \in {0, clock + 1}
        BY <3>2, <3>3, <3>5
      <4> QED
        BY <2>5, <4>1
    <3>6. v <= task'[t].rev
      BY <3>4
    <3> QED
      BY <2>1, <3>3, <3>5, <3>6 DEF Behind
  <2> QED
    BY <2>6, <2>7
<1>5. ASSUME NEW t \in Tasks  PROVE OnTime(t)'
  <2>1. TaskGoes(t, rows', task') /\ OnTime(t)
    BY TasksGo
  <2>2. IF task'[t].once THEN task'[t].next \in {0, RunAt} ELSE task'[t].next <= clock' + 1
    <3>1. /\ task'[t].once = task[t].once /\ task'[t].next \in {task[t].next, 0, NextOf(t)}
          /\ IF task[t].once THEN task[t].next \in {0, RunAt} ELSE task[t].next <= clock + 1
      BY <2>1 DEF TaskGoes, OnTime
    <3>2. IF task[t].once THEN NextOf(t) \in {0, RunAt} ELSE NextOf(t) = clock + 1
      BY DEF NextOf
    <3> QED
      BY <3>1, <3>2, TasksGo
  <2>3. ASSUME task'[t].last # 0
        PROVE  /\ task'[t].last \in Ids' /\ rows'[task'[t].last].task = t
               /\ rows'[task'[t].last].status \notin {"queued", "running", "skipped"}
    <3>1. PICK r : r = task'[t].last
      OBVIOUS
    <3>2. r \in Ids /\ rows[r].task = t
      BY <2>1, <2>3, <3>1 DEF TaskGoes, OnTime
    <3>3. r \in Ids' /\ Goes(r, rows'[r]) /\ rows'[r].task = t
      BY <1>3, <3>2 DEF Same
    <3>4. CASE task'[t].last = task[t].last
      <4>1. rows[r].status \notin {"queued", "running", "skipped"}
        BY <2>1, <2>3, <3>1, <3>4 DEF OnTime
      <4> QED
        BY <3>1, <3>3, <4>1 DEF Goes, Quiet
    <3>5. CASE task'[t].last # task[t].last
      <4>1. rows'[r].status \in Outcomes
        BY <2>1, <3>1, <3>5 DEF TaskGoes
      <4> QED
        BY <3>1, <3>3, <4>1 DEF Outcomes
    <3> QED
      BY <3>4, <3>5
  <2> QED
    BY <2>2, <2>3 DEF OnTime
<1> QED
  BY <1>4, <1>5

(* No two rows of a task record one occurrence: what a new row records is due *)
(* now, and everything accepted at its revision lies behind it.               *)
LEMMA StepKeepsIntents ==
    ASSUME SchedIInv, Step
    PROVE  AcceptedOnce'
<1>1. SchedTypes
  BY DEF SchedIInv
<1>2. ASSUME NEW r \in Ids  PROVE Same(rows[r], rows'[r]) /\ rows[r] \in Row /\ Behind(r)
  BY <1>1, RowsGo DEF SchedIInv
<1>3. ASSUME NEW q \in Ids, NEW r \in Ids', r \notin Ids  PROVE ~SameIntent(q, r)'
  <2>1. IsNew(rows'[r], task')
    BY <1>1, <1>3, RowsGo
  <2>2. Behind(q) /\ Same(rows[q], rows'[q]) /\ rows[q] \in Row
    BY <1>2
  <2>3. rows[q].due \in Nat /\ clock \in Nat
    BY <1>1, <2>2, Bounds DEF Row, SchedTypes
  <2>4. SUFFICES ASSUME SameIntent(q, r)'  PROVE FALSE
    OBVIOUS
  <2>5. PICK b : b = rows'[r]
    OBVIOUS
  <2>6. rows[q].task = b.task /\ rows[q].key = b.key /\ rows[q].due = b.due /\ rows[q].rev = b.rev
    BY <2>2, <2>4, <2>5 DEF SameIntent, Same
  <2>7. IsNew(b, task')
    BY <2>1, <2>5
  <2>8. b.key = "" /\ b.due = task[b.task].next /\ b.due \in 1..clock /\ b.rev = task[b.task].rev
    BY <2>6, <2>7 DEF IsNew
  <2>9. task[b.task].next # 0 => rows[q].due < task[b.task].next
    BY <2>2, <2>6, <2>8 DEF Behind
  <2>10. PICK d : d = b.due
    OBVIOUS
  <2>11. d \in Nat /\ clock \in Nat /\ d \in 1..clock /\ d = task[b.task].next
    BY <2>3, <2>6, <2>8, <2>10
  <2>12. d # 0 => d < d
    BY <2>6, <2>9, <2>10, <2>11
  <2> QED
    BY <2>11, <2>12
<1>4. ASSUME NEW q \in Ids', NEW r \in Ids', q # r  PROVE ~SameIntent(q, r)'
  <2>1. CASE q \in Ids /\ r \in Ids
    <3>1. ~SameIntent(q, r) /\ Same(rows[q], rows'[q]) /\ Same(rows[r], rows'[r])
      BY <1>2, <1>4, <2>1 DEF SchedIInv, AcceptedOnce
    <3> QED
      BY <3>1 DEF SameIntent, Same
  <2>2. CASE q \in Ids /\ r \notin Ids
    BY <1>3, <2>2
  <2>3. CASE q \notin Ids /\ r \in Ids
    <3>1. ~SameIntent(r, q)'
      BY <1>3, <2>3
    <3> QED
      BY <3>1 DEF SameIntent
  <2>4. CASE q \notin Ids /\ r \notin Ids
    <3>1. q = Len(rows) + 1 /\ r = Len(rows) + 1
      BY <1>1, <2>4, RowsGo
    <3> QED
      BY <1>4, <3>1
  <2> QED
    BY <2>1, <2>2, <2>3, <2>4
<1> QED
  BY <1>4 DEF AcceptedOnce

(* A coroutine keeps its row, and only its own service may still end it.       *)
LEMMA StepKeepsHolds ==
    ASSUME SchedIInv, Step
    PROVE  (\A s \in Schedulers, r \in RunIds : Held(s, r))' /\ OneHand'
<1>1. SchedTypes
  BY DEF SchedIInv
<1>2. ASSUME NEW s \in Schedulers, NEW r \in RunIds
      PROVE  ExecGoes(s, r) /\ Held(s, r) /\ exec[s][r] \in Phases /\ exec'[s][r] \in Phases
  BY DEF SchedIInv, Step, SchedTypes
<1>3. ASSUME NEW s \in Schedulers, NEW u \in Schedulers, NEW r \in RunIds,
             exec'[s][r] # "none", exec'[u][r] # "none"
      PROVE  s = u
  <2>1. exec[s][r] # "none" /\ exec[u][r] # "none"
    BY <1>2, <1>3 DEF ExecGoes
  <2> QED
    BY <2>1 DEF SchedIInv, OneHand
<1>4. ASSUME NEW s \in Schedulers, NEW r \in RunIds  PROVE Held(s, r)'
  <2>1. ExecGoes(s, r) /\ Held(s, r) /\ exec[s][r] \in Phases /\ exec'[s][r] \in Phases
    BY <1>2
  <2>2. exec'[s][r] # "none" => /\ r \in Ids /\ r \in Ids' /\ Goes(r, rows'[r])
                                /\ rows[r].status \notin {"queued", "skipped"}
    BY <1>1, <2>1, RowsGo DEF ExecGoes, Held
  <2>3. exec'[s][r] # "none" => r \in Ids' /\ rows'[r].status \notin {"queued", "skipped"}
    BY <2>2 DEF Goes, Quiet, Outcomes
  <2>4. ASSUME exec'[s][r] \in Lives
        PROVE  /\ rows'[r].status \in {"running", "abandoned", "deleted"}
               /\ rows'[r].status = "running" => rows'[r].owner = s
    <3>1. /\ exec[s][r] \in Lives /\ exec'[s][r] # "none" /\ exec'[s][r] # "over"
          /\ exec[s][r] # "none"
      BY <2>1, <2>4 DEF ExecGoes, Lives
    <3>2. /\ rows[r].status \in {"running", "abandoned", "deleted"}
          /\ rows[r].status = "running" => rows[r].owner = s
      BY <2>1, <3>1 DEF Held
    <3>3. CASE Quiet(rows[r], rows'[r])
      BY <3>2, <3>3 DEF Quiet
    <3>4. CASE \E u \in Schedulers : exec[u][r] \in Lives /\ exec'[u][r] = "over"
      <4>1. PICK u \in Schedulers : exec[u][r] \in Lives /\ exec'[u][r] = "over"
        BY <3>4
      <4>2. s = u
        BY <1>3, <3>1, <4>1
      <4> QED
        BY <3>1, <4>1, <4>2
    <3> QED
      BY <2>2, <3>1, <3>3, <3>4 DEF Goes
  <2>5. ASSUME r \in stray'[s]  PROVE exec'[s][r] = "over"
    <3>1. CASE r \in stray[s]
      <4>1. exec[s][r] = "over"
        BY <2>1, <3>1 DEF Held
      <4> QED
        BY <2>1, <4>1 DEF ExecGoes, Lives, Phases
    <3>2. CASE exec'[s][r] = "over"
      BY <3>2
    <3> QED
      BY <2>1, <2>5, <3>1, <3>2 DEF ExecGoes
  <2> QED
    BY <2>3, <2>4, <2>5 DEF Held
<1> QED
  BY <1>3, <1>4 DEF OneHand

(* Nothing but a start makes a row run.                                        *)
LEMMA StepKeepsSlots ==
    ASSUME SchedIInv, Step
    PROVE  OneRunning' /\ SlotsHold'
<1>1. SchedTypes /\ SchedTypes'
  BY DEF SchedIInv, Step
<1>2. ASSUME NEW r \in Ids', rows'[r].status = "running"
      PROVE  r \in Ids /\ rows[r].status = "running" /\ rows[r].task = rows'[r].task
  <2>1. r \in Ids
    BY <1>1, <1>2, RowsGo DEF IsNew
  <2>2. Goes(r, rows'[r]) /\ Same(rows[r], rows'[r])
    BY <1>1, <2>1, RowsGo
  <2> QED
    BY <1>2, <2>1, <2>2 DEF Goes, Quiet, Outcomes, Same
<1>3. OneRunning'
  BY <1>2 DEF SchedIInv, OneRunning
<1>4. With("running")' \subseteq With("running")
  BY <1>2 DEF With
<1>5. With("running") \subseteq RunIds /\ IsFiniteSet(RunIds)
  BY <1>1, RowsAreNumbered, Bounds, FS_Interval DEF With, RunIds
<1>6. /\ IsFiniteSet(With("running")) /\ IsFiniteSet(With("running")')
      /\ Cardinality(With("running")') <= Cardinality(With("running"))
  BY <1>4, <1>5, FS_Subset
<1>7. Cardinality(With("running")') \in Nat /\ Cardinality(With("running")) \in Nat
  BY <1>6, FS_CardinalityType
<1>8. Cardinality(With("running")) <= MaxRunning
  BY DEF SchedIInv, SlotsHold
<1>9. Cardinality(With("running")') <= MaxRunning
  BY <1>6, <1>7, <1>8, Bounds
<1> QED
  BY <1>3, <1>9 DEF SlotsHold

(* A replacement does not run beside the worker of what it replaced: a run     *)
(* that becomes cancelled was the one running row of its task.                 *)
LEMMA StepKeepsWaiting ==
    ASSUME SchedIInv, Step
    PROVE  (\A s \in Schedulers, q, r \in RunIds : ReplacementWaits(s, q, r))'
<1>1. SchedTypes
  BY DEF SchedIInv
<1>2. SUFFICES ASSUME NEW s \in Schedulers, NEW q \in RunIds, NEW r \in RunIds,
                      q \in stray'[s], exec'[s][r] \in Lives, q < r,
                      rows'[q].task = rows'[r].task,
                      rows'[q].status = "cancelled", rows'[r].status = "running"
               PROVE  FALSE
  BY DEF ReplacementWaits
<1>3. /\ ExecGoes(s, q) /\ ExecGoes(s, r) /\ Held(s, q) /\ Held(s, r)
      /\ ReplacementWaits(s, q, r)
  BY DEF SchedIInv, Step
<1>4. exec[s][r] \in Lives /\ exec[s][r] # "none" /\ exec[s][q] # "none"
  BY <1>2, <1>3 DEF ExecGoes, Held, Lives
<1>5. q \in Ids /\ r \in Ids
  BY <1>3, <1>4 DEF Held
<1>6. /\ Goes(q, rows'[q]) /\ Goes(r, rows'[r])
      /\ Same(rows[q], rows'[q]) /\ Same(rows[r], rows'[r])
  BY <1>1, <1>5, RowsGo
<1>7. rows[r].status = "running" /\ rows[q].task = rows[r].task
  BY <1>2, <1>6 DEF Goes, Quiet, Outcomes, Same
<1>8. rows[q].status # "queued"
  BY <1>3, <1>4 DEF Held
<1>9. rows[q].status # "running"
  <2>1. q # r
    BY <1>2, Bounds DEF RunIds
  <2> QED
    BY <1>5, <1>7, <2>1 DEF SchedIInv, OneRunning
<1>10. rows[q].status = "cancelled"
  BY <1>2, <1>6, <1>8, <1>9 DEF Goes, Quiet
<1>11. q \notin stray[s]
  BY <1>2, <1>3, <1>4, <1>7, <1>10 DEF ReplacementWaits
<1>12. exec[s][q] \in Lives
  BY <1>2, <1>3, <1>11 DEF ExecGoes
<1> QED
  BY <1>3, <1>10, <1>12 DEF Held

LEMMA StepKeepsAgendas ==
    ASSUME SchedIInv, Step
    PROVE  (\A s \in Schedulers : \A i \in 1..Len(agenda[s]) : Sound(s, agenda[s][i]))'
<1>1. SchedTypes
  BY DEF SchedIInv
<1>2. ASSUME NEW s \in Schedulers  PROVE Blocked(stray[s])' \subseteq Blocked(stray'[s])
  <2>1. SUFFICES ASSUME NEW q \in stray'[s], q \in Ids', rows'[q].status # "deleted"
                 PROVE  q \in Ids /\ rows[q].status # "deleted" /\ rows[q].task = rows'[q].task
    BY DEF Blocked, Stopping
  <2>2. q \in RunIds
    BY DEF Step, SchedTypes
  <2>3. ExecGoes(s, q) /\ Held(s, q)
    BY <2>2 DEF SchedIInv, Step
  <2>4. q \in Ids
    BY <2>1, <2>3 DEF ExecGoes, Held, Lives
  <2>5. Goes(q, rows'[q]) /\ Same(rows[q], rows'[q])
    BY <1>1, <2>4, RowsGo
  <2> QED
    BY <2>1, <2>4, <2>5 DEF Goes, Quiet, Same
<1>3. ASSUME NEW s \in Schedulers, NEW item, ItemGoes(s, item)  PROVE Sound(s, item)'
  <2>1. CASE Fresh(s, item)
    BY <1>2, <2>1 DEF Fresh, Sound
  <2>2. CASE stray'[s] \subseteq stray[s] /\ \E j \in 1..Len(agenda[s]) : item = agenda[s][j]
    <3>1. Sound(s, item)
      BY <2>2 DEF SchedIInv
    <3>2. Blocked(stray'[s]) \subseteq Blocked(stray[s])
      BY <2>2 DEF Blocked, Stopping
    <3>3. ASSUME item.op = "start"
          PROVE  /\ item.run \in Ids' /\ rows'[item.run].task = rows[item.run].task
                 /\ rows[item.run].task \notin Blocked(stray[s])
      <4>1. item.run \in Ids /\ rows[item.run].task \notin Blocked(stray[s])
        BY <3>1, <3>3 DEF Sound
      <4> QED
        BY <1>1, <4>1, RowsGo DEF Same
    <3> QED
      BY <1>2, <3>2, <3>3 DEF Sound
  <2> QED
    BY <1>3, <2>1, <2>2 DEF ItemGoes
<1> QED
  BY <1>3 DEF Step

LEMMA StepKeeps ==
    ASSUME SchedIInv, Step
    PROVE  SchedIInv'
<1>1. SchedTypes'
  BY DEF Step
<1> QED
  BY <1>1, StepKeepsPlaces, StepKeepsIntents, StepKeepsHolds, StepKeepsSlots,
     StepKeepsWaiting, StepKeepsAgendas DEF SchedIInv

-----------------------------------------------------------------------------
(* Every step but a start is such a step.                                      *)

LEMMA RowsStay ==
    ASSUME SchedTypes, NEW tk \in [Tasks -> TaskRow], \A t \in Tasks : TaskGoes(t, rows, tk)
    PROVE  TablesGo(rows, tk)
<1>1. rows \in Seq(Row) /\ Len(rows) <= MaxRuns
  BY DEF SchedTypes
<1>2. \A r \in Ids : r \in DOMAIN rows /\ Goes(r, rows[r])
  BY DEF Ids, Goes, Quiet, Same
<1> QED
  BY <1>1, <1>2 DEF TablesGo

LEMMA TasksStay ==
    ASSUME NEW t \in Tasks, NEW rw, NEW tk, tk[t] = task[t]
    PROVE  TaskGoes(t, rw, tk)
  BY DEF TaskGoes

LEMMA AgendasStay ==
    ASSUME NEW s \in Schedulers, agenda'[s] = agenda[s], stray'[s] \subseteq stray[s]
    PROVE  \A i \in 1..Len(agenda'[s]) : ItemGoes(s, agenda'[s][i])
  BY DEF ItemGoes

(* _cancel_requested_runs only cancels coroutines that are still going.        *)
LEMMA CancelsGo ==
    ASSUME SchedTypes, NEW s \in Schedulers, NEW rw, stray' = stray,
           exec' = [exec EXCEPT ![s] = CancelRequested(s, rw)]
    PROVE  /\ exec' \in [Schedulers -> [RunIds -> Phases]]
           /\ \A u \in Schedulers, r \in RunIds : ExecGoes(u, r)
<1>1. exec \in [Schedulers -> [RunIds -> Phases]]
  BY DEF SchedTypes
<1>2. PICK c : c = CancelRequested(s, rw)
  OBVIOUS
<1>3. exec' = [exec EXCEPT ![s] = c]
  BY <1>2
<1>6. ASSUME NEW r \in RunIds
      PROVE  /\ exec[s][r] \in Phases /\ c[r] \in Phases
             /\ \/ c[r] = exec[s][r]
                \/ exec[s][r] \in {"ready", "running"} /\ (c[r] = "revoked" \/ c[r] = "cancelling")
  <2>1. c[r] = IF r \notin DOMAIN rw \/ exec[s][r] \notin {"ready", "running"} THEN exec[s][r]
               ELSE IF rw[r].status # "running" \/ ~rw[r].cancel \/ rw[r].owner # s
               THEN exec[s][r]
               ELSE IF exec[s][r] = "ready" THEN "revoked" ELSE "cancelling"
    BY <1>2, Zenon DEF CancelRequested
  <2>2. \/ c[r] = exec[s][r]
        \/ exec[s][r] \in {"ready", "running"} /\ (c[r] = "revoked" \/ c[r] = "cancelling")
    BY <2>1, Zenon
  <2>3. exec[s][r] \in Phases
    BY <1>1
  <2> QED
    BY <2>2, <2>3 DEF Phases
<1>7. c \in [RunIds -> Phases]
  <2>1. DOMAIN c = RunIds /\ c = [r \in RunIds |-> c[r]]
    BY <1>2 DEF CancelRequested
  <2> QED
    BY <1>6, <2>1
<1>4. exec' \in [Schedulers -> [RunIds -> Phases]]
  BY <1>1, <1>3, <1>7
<1>5. ASSUME NEW u \in Schedulers, NEW r \in RunIds  PROVE ExecGoes(u, r)
  <2>1. CASE u = s
    <3>1. exec'[u][r] = c[r]
      BY <1>1, <1>3, <2>1
    <3> QED
      BY <1>6, <2>1, <3>1 DEF ExecGoes, Lives
  <2>2. CASE u # s
    BY <1>1, <1>3, <2>2 DEF ExecGoes
  <2> QED
    BY <2>1, <2>2
<1> QED
  BY <1>4, <1>5

LEMMA ExecStays ==
    ASSUME exec' = exec, NEW s \in Schedulers, NEW r \in RunIds, stray'[s] \subseteq stray[s]
    PROVE  ExecGoes(s, r)
  BY DEF ExecGoes

OneMore(w, t, key, due) ==
    /\ w \in Seq(Row) /\ Len(w) = Len(rows) + 1
    /\ \A r \in Ids : r \in DOMAIN w /\ Goes(r, w[r])
    /\ w[Len(rows) + 1].task = t /\ w[Len(rows) + 1].key = key
    /\ w[Len(rows) + 1].due = due /\ w[Len(rows) + 1].rev = task[t].rev
    /\ w[Len(rows) + 1].status # "running"

(* accept_scheduled_occurrence moves what it replaces quietly, and adds a row. *)
LEMMA RowsWithOneMore ==
    ASSUME SchedTypes, NEW s \in Schedulers, NEW t \in Tasks, NEW key \in AllKeys, NEW due \in Nat,
           NEW w, w = WithRow(s, t, key, due)
    PROVE  OneMore(w, t, key, due)
<1>1. PICK n \in Nat : n = Len(rows) /\ Ids = 1..n /\ \A r \in 1..n : rows[r] \in Row
  BY RowsAreNumbered
<1>2. PICK skip \in BOOLEAN : skip = MustSkip(s, rows, t, key)
  BY DEF MustSkip
<1>3. PICK new : new = NewRow(s, t, key, due, skip)
  OBVIOUS
<1>4. PICK old : old = [r \in Ids |-> IF Replaces(t, key) /\ ~skip THEN Replaced(t, rows[r])
                                      ELSE rows[r]]
  OBVIOUS
<1>5. w = Append(old, new)
  BY <1>2, <1>3, <1>4 DEF WithRow
<1>6. /\ new \in Row /\ new.task = t /\ new.key = key /\ new.due = due /\ new.rev = task[t].rev
      /\ new.status # "running"
  <2>1. task[t].rev \in 0..MaxEdits
    BY DEF SchedTypes, TaskRow
  <2>2. CASE skip
    BY <1>3, <2>1, <2>2 DEF NewRow, Row, Statuses
  <2>3. CASE ~skip
    BY <1>3, <2>1, <2>3 DEF NewRow, Row, Statuses
  <2> QED
    BY <2>2, <2>3
<1>7. ASSUME NEW r \in 1..n  PROVE old[r] \in Row /\ Quiet(rows[r], old[r])
  <2>1. rows[r] \in Row
    BY <1>1
  <2>2. old[r] = rows[r] \/ old[r] = Replaced(t, rows[r])
    BY <1>1, <1>4
  <2>3. CASE old[r] = rows[r]
    BY <2>1, <2>3 DEF Quiet, Same
  <2>4. CASE old[r] = Replaced(t, rows[r])
    <3>1. CASE rows[r].task = t /\ rows[r].status = "queued"
      <4>1. old[r] = Settled(rows[r], "cancelled") /\ "cancelled" \in Statuses
        BY <2>4, <3>1 DEF Replaced, Statuses
      <4>2. old[r] \in Row /\ Same(rows[r], old[r]) /\ old[r].status = "cancelled"
        BY <2>1, <4>1, SettledRows
      <4> QED
        BY <3>1, <4>2 DEF Quiet
    <3>2. CASE rows[r].task = t /\ rows[r].status = "running"
      <4>1. old[r] = [rows[r] EXCEPT !.cancel = TRUE]
        BY <2>4, <3>2 DEF Replaced
      <4> QED
        BY <2>1, <4>1 DEF Row, Quiet, Same
    <3>3. CASE ~(rows[r].task = t /\ rows[r].status = "queued")
               /\ ~(rows[r].task = t /\ rows[r].status = "running")
      <4>1. old[r] = rows[r]
        BY <2>4, <3>3 DEF Replaced
      <4> QED
        BY <2>3, <4>1
    <3> QED
      BY <3>1, <3>2, <3>3
  <2> QED
    BY <2>2, <2>3, <2>4
<1>8. old \in Seq(Row) /\ Len(old) = n
  <2>1. DOMAIN old = 1..n /\ old = [r \in 1..n |-> old[r]]
    BY <1>1, <1>4
  <2> QED
    BY <1>7, <2>1, ListsAreRows
<1>9. /\ w \in Seq(Row) /\ Len(w) = n + 1 /\ w[n + 1] = new
      /\ \A r \in 1..n : r \in DOMAIN w /\ w[r] = old[r]
  BY <1>5, <1>6, <1>8
<1>10. \A r \in Ids : r \in DOMAIN w /\ Goes(r, w[r])
  BY <1>1, <1>7, <1>9 DEF Goes
<1> QED
  BY <1>1, <1>6, <1>9, <1>10 DEF OneMore

LEMMA TablesStay ==
    ASSUME SchedTypes, rows' = rows, task' = task
    PROVE  TablesGo(rows', task')
<1>1. task \in [Tasks -> TaskRow]
  BY DEF SchedTypes
<1>2. TablesGo(rows, task)
  BY <1>1, RowsStay, TasksStay
<1> QED
  BY <1>2

LEMMA PassIsStep ==
    ASSUME SchedIInv, Pass
    PROVE  Step
<1>1. SchedTypes
  BY DEF SchedIInv
<1>2. clock \in 0..MaxTime /\ clock' = clock + 1 /\ clock < MaxTime
      /\ UNCHANGED <<task, rows, exec, mode, agenda, stray>>
  BY <1>1 DEF Pass, SchedTypes
<1>3. clock' \in 0..MaxTime /\ clock' >= clock
  BY <1>2, Bounds
<1>4. SchedTypes'
  BY <1>1, <1>2, <1>3 DEF SchedTypes
<1> QED
  BY <1>1, <1>2, <1>3, <1>4, TablesStay, ExecStays, AgendasStay DEF Step

(* Steps that change a table of their own rows only.                           *)
LEMMA RowsChange ==
    ASSUME SchedTypes, NEW f, rows' = [r \in Ids |-> f[r]], DOMAIN f = Ids,
           \A r \in Ids : f[r] \in Row /\ Goes(r, f[r]),
           task' \in [Tasks -> TaskRow], \A t \in Tasks : TaskGoes(t, rows', task')
    PROVE  /\ TablesGo(rows', task') /\ rows' \in Seq(Row) /\ Len(rows') <= MaxRuns
<1>1. Ids = 1..Len(rows) /\ Len(rows) \in Nat /\ Len(rows) <= MaxRuns
  BY RowsAreNumbered DEF SchedTypes
<1>2. PICK g : g = rows'
  OBVIOUS
<1>3. DOMAIN g = 1..Len(rows) /\ g = [r \in 1..Len(rows) |-> g[r]]
      /\ \A r \in 1..Len(rows) : g[r] = f[r]
  BY <1>1, <1>2
<1>4. g \in Seq(Row) /\ Len(g) = Len(rows)
  BY <1>1, <1>3, ListsAreRows
<1>5. \A r \in Ids : r \in DOMAIN g /\ Goes(r, g[r])
  BY <1>1, <1>3
<1>6. TablesGo(g, task')
  BY <1>1, <1>2, <1>4, <1>5 DEF TablesGo
<1> QED
  BY <1>1, <1>2, <1>4, <1>6

LEMMA LapseIsStep ==
    ASSUME SchedIInv, NEW q \in Ids, Lapse(q)
    PROVE  Step
<1>1. SchedTypes /\ task \in [Tasks -> TaskRow]
  BY DEF SchedIInv, SchedTypes
<1>2. rows' = [rows EXCEPT ![q].lease = FALSE]
      /\ UNCHANGED <<task, exec, mode, agenda, stray, clock>>
  BY DEF Lapse
<1>3. Ids = 1..Len(rows) /\ rows \in Seq(Row) /\ \A r \in Ids : rows[r] \in Row
  BY <1>1, RowsAreNumbered DEF SchedTypes
<1>4. PICK f : f = rows'
  OBVIOUS
<1>5. f = [r \in Ids |-> f[r]] /\ DOMAIN f = Ids
      /\ \A r \in Ids : f[r] = IF r = q THEN [rows[r] EXCEPT !.lease = FALSE] ELSE rows[r]
  <2>1. f = [r \in DOMAIN rows |-> IF r = q THEN [rows[q] EXCEPT !.lease = FALSE] ELSE rows[r]]
    BY <1>2, <1>4
  <2> QED
    BY <2>1 DEF Ids
<1>6. ASSUME NEW r \in Ids  PROVE f[r] \in Row /\ Goes(r, f[r])
  <2>1. rows[r] \in Row /\ f[r] = IF r = q THEN [rows[r] EXCEPT !.lease = FALSE] ELSE rows[r]
    BY <1>3, <1>5
  <2> QED
    BY <2>1 DEF Row, Goes, Quiet, Same
<1>7. TablesGo(rows', task') /\ rows' \in Seq(Row) /\ Len(rows') <= MaxRuns
  <2>1. task' \in [Tasks -> TaskRow] /\ \A t \in Tasks : TaskGoes(t, rows', task')
    BY <1>1, <1>2, TasksStay
  <2>2. rows' = [r \in Ids |-> f[r]] /\ DOMAIN f = Ids
    BY <1>4, <1>5
  <2> QED
    BY <1>1, <1>6, <2>1, <2>2, RowsChange
<1>8. SchedTypes' /\ clock' >= clock
  <2>1. UNCHANGED <<task, exec, mode, agenda, stray, clock>>
    BY <1>2
  <2> QED
    BY <1>1, <1>7, <2>1, Bounds DEF SchedTypes
<1> QED
  BY <1>2, <1>7, <1>8, ExecStays, AgendasStay DEF Step

(* A task is deleted with its rows.                                            *)
LEMMA DeleteIsStep ==
    ASSUME SchedIInv, NEW s \in Schedulers, NEW t \in Tasks, Delete(s, t)
    PROVE  Step
<1>1. SchedTypes /\ task \in [Tasks -> TaskRow]
  BY DEF SchedIInv, SchedTypes
<1>2. /\ task' = [task EXCEPT ![t].exists = FALSE]
      /\ rows' = [r \in Ids |-> IF rows[r].task = t THEN Settled(rows[r], "deleted") ELSE rows[r]]
      /\ UNCHANGED <<exec, mode, agenda, stray, clock>>
  BY DEF Delete
<1>3. \A r \in Ids : rows[r] \in Row
  BY <1>1, RowsAreNumbered
<1>4. PICK f : f = rows'
  OBVIOUS
<1>5. ASSUME NEW r \in Ids  PROVE f[r] \in Row /\ Goes(r, f[r])
  <2>1. rows[r] \in Row /\ f[r] = IF rows[r].task = t THEN Settled(rows[r], "deleted") ELSE rows[r]
    BY <1>2, <1>3, <1>4
  <2>2. "deleted" \in Statuses
    BY DEF Statuses
  <2>3. Settled(rows[r], "deleted") \in Row /\ Same(rows[r], Settled(rows[r], "deleted"))
        /\ Settled(rows[r], "deleted").status = "deleted"
    BY <2>1, <2>2, SettledRows
  <2> QED
    BY <2>1, <2>3 DEF Goes, Quiet, Same
<1>6. ASSUME NEW u \in Tasks  PROVE task'[u] \in TaskRow /\ TaskGoes(u, rows', task')
  <2>1. task[u] \in TaskRow
    BY <1>1
  <2>2. task'[u] = IF u = t THEN [task[u] EXCEPT !.exists = FALSE] ELSE task[u]
    BY <1>1, <1>2
  <2> QED
    BY <2>1, <2>2 DEF TaskRow, TaskGoes
<1>7. task' \in [Tasks -> TaskRow]
  BY <1>1, <1>2, <1>6
<1>8. f = [r \in Ids |-> f[r]] /\ DOMAIN f = Ids
  BY <1>2, <1>4
<1>9. TablesGo(rows', task') /\ rows' \in Seq(Row) /\ Len(rows') <= MaxRuns
  BY <1>1, <1>4, <1>5, <1>6, <1>7, <1>8, RowsChange
<1>10. SchedTypes' /\ clock' >= clock
  BY <1>1, <1>2, <1>7, <1>9, Bounds DEF SchedTypes
<1> QED
  BY <1>2, <1>9, <1>10, ExecStays, AgendasStay DEF Step

LEMMA StopIsStep ==
    ASSUME SchedIInv, NEW s \in Schedulers, Stop(s)
    PROVE  Step
<1>1. SchedTypes /\ agenda[s] = <<>>
  BY DEF SchedIInv, Stop, Awaits
<1>2. mode' = [mode EXCEPT ![s] = "stopping"] /\ UNCHANGED <<task, rows, exec, agenda, stray, clock>>
  BY DEF Stop
<1>3. SchedTypes' /\ clock' >= clock
  BY <1>1, <1>2, Bounds DEF SchedTypes, Modes
<1> QED
  BY <1>1, <1>2, <1>3, TablesStay, ExecStays, AgendasStay DEF Step

LEMMA StopCancelIsStep ==
    ASSUME SchedIInv, NEW s \in Schedulers, StopCancel(s)
    PROVE  Step
<1>1. SchedTypes /\ exec \in [Schedulers -> [RunIds -> Phases]]
  BY DEF SchedIInv, SchedTypes
<1>2. UNCHANGED <<task, rows, mode, agenda, stray, clock>>
  BY DEF StopCancel
<1>3. PICK c : c = [r \in RunIds |->
                      CASE exec[s][r] = "ready" -> "revoked" [] exec[s][r] = "running" -> "cancelling"
                        [] OTHER -> exec[s][r]]
  OBVIOUS
<1>4. exec' = [exec EXCEPT ![s] = c]
  BY <1>1, <1>3 DEF StopCancel
<1>5. ASSUME NEW r \in RunIds
      PROVE  /\ c[r] \in Phases
             /\ \/ c[r] = exec[s][r]
                \/ c[r] \in {"revoked", "cancelling"} /\ exec[s][r] \in {"ready", "running"}
  <2>1. exec[s][r] \in Phases
    BY <1>1
  <2>2. CASE exec[s][r] = "ready"
    <3>1. c[r] = "revoked"
      BY <1>3, <2>2
    <3> QED
      BY <2>2, <3>1 DEF Phases
  <2>3. CASE exec[s][r] = "running"
    <3>1. c[r] = "cancelling"
      BY <1>3, <2>3
    <3> QED
      BY <2>3, <3>1 DEF Phases
  <2>4. CASE exec[s][r] # "ready" /\ exec[s][r] # "running"
    <3>1. c[r] = exec[s][r]
      BY <1>3, <2>4
    <3> QED
      BY <2>1, <3>1
  <2> QED
    BY <2>2, <2>3, <2>4
<1>6. c \in [RunIds -> Phases]
  <2>1. c = [r \in RunIds |-> c[r]]
    BY <1>3
  <2> QED
    BY <1>5, <2>1
<1>7. exec' \in [Schedulers -> [RunIds -> Phases]]
  BY <1>1, <1>4, <1>6
<1>8. ASSUME NEW u \in Schedulers, NEW r \in RunIds  PROVE ExecGoes(u, r)
  <2>1. exec'[u][r] = IF u = s THEN c[r] ELSE exec[u][r]
    BY <1>1, <1>4
  <2> QED
    BY <1>2, <1>5, <2>1 DEF ExecGoes, Lives
<1>9. SchedTypes' /\ clock' >= clock
  BY <1>1, <1>2, <1>7, Bounds DEF SchedTypes
<1> QED
  BY <1>1, <1>2, <1>8, <1>9, TablesStay, AgendasStay DEF Step

LEMMA StopEndIsStep ==
    ASSUME SchedIInv, NEW s \in Schedulers, StopEnd(s)
    PROVE  Step
<1>1. SchedTypes /\ task \in [Tasks -> TaskRow] /\ agenda[s] = <<>>
  BY DEF SchedIInv, SchedTypes, StopEnd, Awaits
<1>2. /\ mode' = [mode EXCEPT ![s] = "down"] /\ UNCHANGED <<task, exec, agenda, stray, clock>>
      /\ rows' = [r \in Ids |-> IF rows[r].status = "queued" /\ rows[r].owner = s
                                THEN [rows[r] EXCEPT !.owner = NoOwner, !.lease = FALSE] ELSE rows[r]]
  BY DEF StopEnd
<1>3. \A r \in Ids : rows[r] \in Row
  BY <1>1, RowsAreNumbered
<1>4. PICK f : f = rows'
  OBVIOUS
<1>5. ASSUME NEW r \in Ids  PROVE f[r] \in Row /\ Goes(r, f[r])
  <2>1. rows[r] \in Row /\ f[r] = IF rows[r].status = "queued" /\ rows[r].owner = s
                                  THEN [rows[r] EXCEPT !.owner = NoOwner, !.lease = FALSE]
                                  ELSE rows[r]
    BY <1>2, <1>3, <1>4
  <2> QED
    BY <2>1 DEF Row, Goes, Quiet, Same
<1>6. f = [r \in Ids |-> f[r]] /\ DOMAIN f = Ids
  BY <1>2, <1>4
<1>7. TablesGo(rows', task') /\ rows' \in Seq(Row) /\ Len(rows') <= MaxRuns
  BY <1>1, <1>2, <1>4, <1>5, <1>6, RowsChange, TasksStay
<1>8. SchedTypes' /\ clock' >= clock
  <2>1. mode' = [mode EXCEPT ![s] = "down"] /\ UNCHANGED <<task, exec, agenda, stray, clock>>
    BY <1>2
  <2> QED
    BY <1>1, <1>7, <2>1, Bounds DEF SchedTypes, Modes
<1> QED
  BY <1>2, <1>7, <1>8, ExecStays, AgendasStay DEF Step

LEMMA CrashIsStep ==
    ASSUME SchedIInv, NEW s \in Schedulers, Crash(s)
    PROVE  Step
<1>1. SchedTypes /\ exec \in [Schedulers -> [RunIds -> Phases]]
      /\ agenda \in [Schedulers -> Seq(Item)] /\ stray \in [Schedulers -> SUBSET RunIds]
  BY DEF SchedIInv, SchedTypes
<1>2. /\ mode' = [mode EXCEPT ![s] = "down"] /\ UNCHANGED <<task, rows, clock>>
      /\ agenda' = [agenda EXCEPT ![s] = <<>>] /\ stray' = [stray EXCEPT ![s] = {}]
  BY DEF Crash
<1>3. PICK c : c = [r \in RunIds |-> IF exec[s][r] = "none" THEN "none" ELSE "over"]
  OBVIOUS
<1>4. exec' = [exec EXCEPT ![s] = c]
  BY <1>1, <1>3 DEF Crash
<1>5. c \in [RunIds -> Phases]
  BY <1>3 DEF Phases
<1>6. exec' \in [Schedulers -> [RunIds -> Phases]] /\ agenda' \in [Schedulers -> Seq(Item)]
      /\ stray' \in [Schedulers -> SUBSET RunIds]
  BY <1>1, <1>2, <1>4, <1>5
<1>7. ASSUME NEW u \in Schedulers, NEW r \in RunIds  PROVE ExecGoes(u, r)
  <2>1. exec'[u][r] = IF u = s THEN c[r] ELSE exec[u][r]
    BY <1>1, <1>4
  <2>2. r \in stray'[u] => r \in stray[u]
    BY <1>1, <1>2
  <2> QED
    BY <1>3, <2>1, <2>2 DEF ExecGoes, Lives
<1>8. ASSUME NEW u \in Schedulers, NEW i \in 1..Len(agenda'[u])  PROVE ItemGoes(u, agenda'[u][i])
  <2>1. u # s
    BY <1>1, <1>2
  <2> QED
    BY <1>1, <1>2, <2>1 DEF ItemGoes
<1>9. SchedTypes' /\ clock' >= clock
  BY <1>1, <1>2, <1>6, Bounds DEF SchedTypes, Modes
<1> QED
  BY <1>1, <1>2, <1>7, <1>8, <1>9, TablesStay DEF Step

LEMMA LoseLeaseIsStep ==
    ASSUME SchedIInv, NEW s \in Schedulers, NEW r \in Ids, LoseLease(s, r)
    PROVE  Step
<1>1. SchedTypes /\ exec \in [Schedulers -> [RunIds -> Phases]] /\ r \in RunIds
  BY RowsAreNumbered DEF SchedIInv, SchedTypes
<1>2. /\ exec[s][r] = "running" /\ exec' = [exec EXCEPT ![s][r] = "cancelling"]
      /\ UNCHANGED <<task, rows, mode, agenda, stray, clock>>
  BY DEF LoseLease
<1>3. exec' \in [Schedulers -> [RunIds -> Phases]]
  BY <1>1, <1>2 DEF Phases
<1>4. ASSUME NEW u \in Schedulers, NEW q \in RunIds  PROVE ExecGoes(u, q)
  <2>1. exec'[u][q] = IF u = s /\ q = r THEN "cancelling" ELSE exec[u][q]
    BY <1>1, <1>2
  <2> QED
    BY <1>2, <2>1 DEF ExecGoes, Lives
<1>5. SchedTypes' /\ clock' >= clock
  BY <1>1, <1>2, <1>3, Bounds DEF SchedTypes
<1> QED
  BY <1>1, <1>2, <1>4, <1>5, TablesStay, AgendasStay DEF Step

LEMMA WorkerEndsIsStep ==
    ASSUME SchedIInv, NEW s \in Schedulers, NEW r \in Ids, WorkerEnds(s, r)
    PROVE  Step
<1>1. SchedTypes /\ stray \in [Schedulers -> SUBSET RunIds]
  BY DEF SchedIInv, SchedTypes
<1>2. /\ stray' = [stray EXCEPT ![s] = @ \ {r}]
      /\ UNCHANGED <<task, rows, exec, mode, agenda, clock>>
  BY DEF WorkerEnds
<1>3. stray' \in [Schedulers -> SUBSET RunIds] /\ \A u \in Schedulers : stray'[u] \subseteq stray[u]
  BY <1>1, <1>2
<1>4. SchedTypes' /\ clock' >= clock
  BY <1>1, <1>2, <1>3, Bounds DEF SchedTypes
<1> QED
  BY <1>1, <1>2, <1>3, <1>4, TablesStay, ExecStays, AgendasStay DEF Step

LEMMA TaskFields ==
    ASSUME SchedTypes, NEW t \in Tasks
    PROVE  /\ task[t] \in TaskRow /\ task[t].rev \in Nat /\ task[t].rev <= MaxEdits
           /\ task[t].next \in Nat /\ task[t].failures \in Nat /\ task[t].last \in Nat
           /\ task[t].enabled \in BOOLEAN
<1>1. task[t] \in TaskRow
  BY DEF SchedTypes
<1>2. /\ task[t].rev \in 0..MaxEdits /\ task[t].last \in 0..MaxRuns
      /\ task[t].next \in Nat /\ task[t].failures \in Nat /\ task[t].enabled \in BOOLEAN
  BY <1>1 DEF TaskRow
<1> QED
  BY <1>1, <1>2, Bounds

LEMMA EditIsStep ==
    ASSUME SchedIInv, NEW s \in Schedulers, NEW t \in Tasks, NEW what \in {"title", "on", "off"},
           Edit(s, t, what)
    PROVE  Step
<1>1. SchedTypes /\ task \in [Tasks -> TaskRow] /\ mode \in [Schedulers -> Modes] /\ clock \in 0..MaxTime
      /\ stray \in [Schedulers -> SUBSET RunIds] /\ exec \in [Schedulers -> [RunIds -> Phases]]
  BY DEF SchedIInv, SchedTypes
<1>2. mode[s] = "up" /\ task[t].rev < MaxEdits /\ UNCHANGED <<exec, mode, stray, clock>>
  BY DEF Edit
<1>3. PICK e : e = Edited(t, what)
  OBVIOUS
<1>4. PICK tk : tk = [task EXCEPT ![t] = e]
  OBVIOUS
<1>5. Drain(s, rows, tk, <<>>)
  BY <1>3, <1>4 DEF Edit
<1>6. /\ e \in TaskRow /\ e.once = task[t].once /\ e.rev = task[t].rev + 1 /\ e.last = task[t].last
      /\ e.next \in {task[t].next, 0, NextOf(t)}
  <2>1. task[t] \in TaskRow /\ task[t].rev \in 0..MaxEdits /\ task[t].rev + 1 \in 0..MaxEdits
    BY <1>1, <1>2, Bounds, TaskFields
  <2>2. NextOf(t) \in Nat
    BY <1>1, Bounds DEF NextOf
  <2>3. PICK on, n : /\ on = (IF what = "title" THEN task[t].enabled ELSE what = "on")
                     /\ n = CASE what = "title" -> task[t].next
                              [] what = "on"    -> NextOf(t)
                              [] OTHER          -> 0
    OBVIOUS
  <2>4. on \in BOOLEAN /\ n \in {task[t].next, 0, NextOf(t)} /\ n \in Nat
    <3>1. task[t].enabled \in BOOLEAN /\ task[t].next \in Nat
      BY <2>1 DEF TaskRow
    <3>2. CASE what = "title"
      BY <2>3, <3>1, <3>2
    <3>3. CASE what = "on"
      BY <2>2, <2>3, <3>3
    <3>4. CASE what = "off"
      BY <2>3, <3>4
    <3> QED
      BY <3>2, <3>3, <3>4
  <2>5. e = [task[t] EXCEPT !.rev = task[t].rev + 1, !.enabled = on, !.next = n]
    BY <1>3, <2>3 DEF Edited
  <2> QED
    BY <2>1, <2>4, <2>5 DEF TaskRow
<1>7. ASSUME NEW u \in Tasks  PROVE tk[u] \in TaskRow /\ TaskGoes(u, rows, tk)
  <2>1. tk[u] = IF u = t THEN e ELSE task[u]
    BY <1>1, <1>4
  <2>2. task[u] \in TaskRow /\ task[u].rev \in Nat
    <3>1. task[u] \in TaskRow /\ task[u].rev \in 0..MaxEdits
      BY <1>1 DEF TaskRow
    <3> QED
      BY <3>1, Bounds
  <2>3. CASE u = t
    BY <1>6, <2>1, <2>2, <2>3 DEF TaskGoes
  <2>4. CASE u # t
    BY <2>1, <2>2, <2>4, TasksStay
  <2> QED
    BY <2>3, <2>4
<1>8. tk \in [Tasks -> TaskRow]
  BY <1>1, <1>4, <1>7
<1>9. TablesGo(rows, tk)
  BY <1>1, <1>7, <1>8, RowsStay
<1>10. \A u \in Schedulers, r \in RunIds : ExecGoes(u, r)
  BY <1>2, ExecStays
<1>11. /\ stray' \in [Schedulers -> SUBSET RunIds] /\ exec' \in [Schedulers -> [RunIds -> Phases]]
       /\ mode' \in [Schedulers -> Modes] /\ mode'[s] \in {"up", "stopping"} /\ clock' = clock
       /\ \A u \in Schedulers : u # s => stray'[u] = stray[u] /\ mode'[u] = mode[u]
  BY <1>1, <1>2
<1>14. << >> \in Seq(Item) /\ Len(<< >>) = 0
  OBVIOUS
<1>12. PICK none \in Seq(Item) : none = << >> /\ Len(none) = 0
  BY <1>14, Zenon
<1>13. Drain(s, rows, tk, none) /\ \A i \in 1..Len(none) : ItemGoes(s, none[i])
  BY <1>5, <1>12
<1> QED
  BY <1>1, <1>9, <1>10, <1>11, <1>13, DrainsAreSteps

LEMMA RunNowIsStep ==
    ASSUME SchedIInv, NEW s \in Schedulers, NEW t \in Tasks, NEW key \in Requests[t],
           RunNow(s, t, key)
    PROVE  Step
<1>1. SchedTypes /\ task \in [Tasks -> TaskRow] /\ mode \in [Schedulers -> Modes]
      /\ stray \in [Schedulers -> SUBSET RunIds] /\ exec \in [Schedulers -> [RunIds -> Phases]]
  BY DEF SchedIInv, SchedTypes
<1>2. PICK known \in BOOLEAN : known = \E r \in Ids : rows[r].task = t /\ rows[r].key = key
  OBVIOUS
<1>3. PICK w : w = WithRow(s, t, key, 0)
  OBVIOUS
<1>4. PICK new : new = IF known THEN rows ELSE w
  OBVIOUS
<1>5. /\ mode[s] = "up" /\ UNCHANGED <<mode, stray, clock>>
      /\ Len(new) <= MaxRuns /\ Drain(s, new, task, <<>>)
      /\ exec' = [exec EXCEPT ![s] = CancelRequested(s, new)]
  BY <1>2, <1>3, <1>4 DEF RunNow
<1>6. key \in AllKeys /\ key # ""
  BY RequestsHaveKeys DEF AllKeys
<1>7. /\ exec' \in [Schedulers -> [RunIds -> Phases]]
      /\ \A u \in Schedulers, r \in RunIds : ExecGoes(u, r)
  BY <1>1, <1>5, CancelsGo
<1>8. TablesGo(new, task)
  <2>1. CASE known
    BY <1>1, <1>4, <2>1, RowsStay, TasksStay
  <2>2. CASE ~known
    <3>0. 0 \in Nat
      OBVIOUS
    <3>1. OneMore(w, t, key, 0)
      BY <1>1, <1>3, <1>6, <3>0, RowsWithOneMore, Zenon
    <3>2. IsNew(w[Len(rows) + 1], task)
      BY <1>2, <1>6, <2>2, <3>1 DEF IsNew, OneMore
    <3>3. \A u \in Tasks : TaskGoes(u, w, task)
      BY TasksStay
    <3>4. new = w
      BY <1>4, <2>2
    <3> QED
      BY <1>1, <1>5, <3>1, <3>2, <3>3, <3>4 DEF TablesGo, OneMore
  <2> QED
    BY <2>1, <2>2
<1>9. /\ stray' \in [Schedulers -> SUBSET RunIds]
      /\ mode' \in [Schedulers -> Modes] /\ mode'[s] \in {"up", "stopping"} /\ clock' = clock
      /\ \A u \in Schedulers : u # s => stray'[u] = stray[u] /\ mode'[u] = mode[u]
  BY <1>1, <1>5
<1>12. << >> \in Seq(Item) /\ Len(<< >>) = 0
  OBVIOUS
<1>10. PICK none \in Seq(Item) : none = << >> /\ Len(none) = 0
  BY <1>12, Zenon
<1>11. Drain(s, new, task, none) /\ \A i \in 1..Len(none) : ItemGoes(s, none[i])
  BY <1>5, <1>10
<1> QED
  BY <1>1, <1>7, <1>8, <1>9, <1>11, DrainsAreSteps

LEMMA AcceptDueIsStep ==
    ASSUME SchedIInv, NEW s \in Schedulers, AcceptDue(s)
    PROVE  Step
<1>1. SchedTypes /\ task \in [Tasks -> TaskRow] /\ mode \in [Schedulers -> Modes]
      /\ stray \in [Schedulers -> SUBSET RunIds] /\ exec \in [Schedulers -> [RunIds -> Phases]]
      /\ agenda \in [Schedulers -> Seq(Item)] /\ clock \in Nat
  BY Bounds DEF SchedIInv, SchedTypes
<1>2. agenda[s] # <<>> /\ Head(agenda[s]).op = "accept" /\ UNCHANGED <<mode, stray, clock>>
  BY DEF AcceptDue, Next1
<1>3. PICK want, t, rest : want = Head(agenda[s]) /\ t = want.task /\ rest = Tail(agenda[s])
  OBVIOUS
<1>4. want \in Item /\ rest \in Seq(Item) /\ Len(rest) = Len(agenda[s]) - 1
      /\ \A i \in 1..Len(rest) : i + 1 \in 1..Len(agenda[s]) /\ rest[i] = agenda[s][i + 1]
  <2>1. agenda[s] \in Seq(Item)
    BY <1>1
  <2> QED
    BY <1>2, <1>3, <2>1
<1>5. t \in Tasks /\ want.due \in Nat
  BY <1>2, <1>3, <1>4 DEF Item
<1>6. \A i \in 1..Len(rest) : ItemGoes(s, rest[i])
  BY <1>2, <1>4 DEF ItemGoes
<1>7. PICK still \in BOOLEAN : still = StillDue(want)
  BY DEF StillDue
<1>8. PICK w : w = WithRow(s, t, "", want.due)
  OBVIOUS
<1>9. PICK new : new = IF still THEN w ELSE rows
  OBVIOUS
<1>10. /\ Len(new) <= MaxRuns
       /\ IF ~task[t].exists
          THEN agenda' = [agenda EXCEPT ![s] = rest] /\ UNCHANGED <<task, rows, exec>>
          ELSE /\ Drain(s, new, [task EXCEPT ![t] = IF still THEN Advanced(s, t) ELSE @], rest)
               /\ exec' = [exec EXCEPT ![s] = CancelRequested(s, new)]
  BY <1>3, <1>7, <1>8, <1>9 DEF AcceptDue
<1>11. mode[s] \in {"up", "stopping"}
  BY <1>1, <1>2 DEF SchedTypes
<1>12. CASE ~task[t].exists
  <2>1. agenda' = [agenda EXCEPT ![s] = rest] /\ UNCHANGED <<task, rows, exec>>
    BY <1>10, <1>12
  <2>2. agenda' \in [Schedulers -> Seq(Item)] /\ agenda'[s] = rest
        /\ \A u \in Schedulers : u # s => agenda'[u] = agenda[u]
    BY <1>1, <1>4, <2>1
  <2>3. SchedTypes' /\ clock' >= clock
    BY <1>1, <1>2, <1>11, <2>1, <2>2, Bounds DEF SchedTypes
  <2>4. ASSUME NEW u \in Schedulers, NEW i \in 1..Len(agenda'[u])  PROVE ItemGoes(u, agenda'[u][i])
    <3>1. CASE u = s
      BY <1>6, <2>2, <2>4, <3>1
    <3>2. CASE u # s
      BY <1>2, <2>2, <2>4, <3>2, AgendasStay
    <3> QED
      BY <3>1, <3>2
  <2> QED
    BY <1>1, <1>2, <2>1, <2>3, <2>4, TablesStay, ExecStays DEF Step
<1>13. CASE task[t].exists
  <2>1. PICK e : e = IF still THEN Advanced(s, t) ELSE task[t]
    OBVIOUS
  <2>2. PICK tk : tk = [task EXCEPT ![t] = e]
    OBVIOUS
  <2>3. Drain(s, new, tk, rest) /\ exec' = [exec EXCEPT ![s] = CancelRequested(s, new)]
    BY <1>10, <1>13, <2>1, <2>2
  <2>4. ASSUME still
        PROVE  /\ task[t].enabled /\ task[t].next \in 1..clock /\ task[t].next = want.due
               /\ e \in TaskRow /\ e.once = task[t].once /\ e.rev = task[t].rev
               /\ e.last = task[t].last /\ e.next \in {0, clock + 1} /\ e.next \in {0, NextOf(t)}
    <3>1. task[t] \in TaskRow /\ task[t].next \in Nat /\ task[t].enabled \in BOOLEAN
      BY <1>1, <1>5, TaskFields
    <3>0. task[t].enabled /\ task[t].next # 0 /\ task[t].next <= clock /\ task[t].next = want.due
      BY <1>3, <1>7, <2>4, Zenon DEF StillDue, IsDue
    <3>2. task[t].next \in 1..clock
      BY <1>1, <3>0, <3>1
    <3>3. PICK skip \in BOOLEAN : skip = MustSkip(s, rows, t, "")
      BY DEF MustSkip
    <3>4. PICK on \in BOOLEAN : on = (task[t].enabled /\ ~(skip /\ task[t].once))
      OBVIOUS
    <3>5. PICK n, show : /\ n = (IF task[t].once THEN 0 ELSE clock + 1)
                         /\ show = (IF skip THEN "skipped" ELSE task[t].shown)
      OBVIOUS
    <3>6. e = [task[t] EXCEPT !.next = n, !.enabled = on, !.shown = show]
      BY <2>1, <2>4, <3>3, <3>4, <3>5 DEF Advanced
    <3>7. n \in {0, clock + 1} /\ n \in {0, NextOf(t)} /\ n \in Nat
      <4>1. CASE task[t].once
        BY <3>5, <4>1
      <4>2. CASE ~task[t].once
        <5>1. n = clock + 1 /\ NextOf(t) = clock + 1
          BY <3>5, <4>2, Zenon DEF NextOf
        <5> QED
          BY <1>1, <5>1
      <4> QED
        BY <4>1, <4>2
    <3>8. show \in Statuses \cup {""}
      BY <3>1, <3>5 DEF Statuses, TaskRow
    <3>9. /\ e \in TaskRow /\ e.once = task[t].once /\ e.rev = task[t].rev
          /\ e.last = task[t].last /\ e.next = n
      BY <3>1, <3>4, <3>6, <3>7, <3>8 DEF TaskRow
    <3> QED
      BY <3>0, <3>2, <3>7, <3>9
  <2>5. e \in TaskRow /\ TaskGoes(t, new, tk)
    <3>1. tk[t] = e /\ task[t] \in TaskRow
      BY <1>1, <1>5, <2>2
    <3>2. CASE still
      <4>1. task[t].rev \in Nat
        BY <1>1, <1>5, TaskFields
      <4> QED
        BY <2>4, <3>1, <3>2, <4>1 DEF TaskGoes
    <3>3. CASE ~still
      BY <1>5, <2>1, <3>1, <3>3, TasksStay
    <3> QED
      BY <3>2, <3>3
  <2>6. tk \in [Tasks -> TaskRow] /\ \A u \in Tasks : TaskGoes(u, new, tk)
    <3>1. ASSUME NEW u \in Tasks, u # t  PROVE TaskGoes(u, new, tk)
      <4>1. tk[u] = task[u]
        BY <1>1, <2>2, <3>1
      <4> QED
        BY <4>1, TasksStay
    <3> QED
      BY <1>1, <1>5, <2>2, <2>5, <3>1
  <2>7. TablesGo(new, tk)
    <3>1. CASE still
      <4>1. "" \in AllKeys
        BY DEF AllKeys
      <4>2. OneMore(w, t, "", want.due)
        BY <1>1, <1>5, <1>8, <4>1, RowsWithOneMore, Zenon
      <4>3. tk[t] = e
        BY <1>1, <1>5, <2>2
      <4>4. IsNew(w[Len(rows) + 1], tk)
        BY <2>4, <3>1, <4>2, <4>3 DEF IsNew, OneMore
      <4>5. new = w
        BY <1>9, <3>1
      <4> QED
        BY <1>10, <2>6, <4>2, <4>4, <4>5 DEF TablesGo, OneMore
    <3>2. CASE ~still
      BY <1>1, <1>9, <2>6, <3>2, RowsStay
    <3> QED
      BY <3>1, <3>2
  <2>8. /\ exec' \in [Schedulers -> [RunIds -> Phases]]
        /\ \A u \in Schedulers, r \in RunIds : ExecGoes(u, r)
    BY <1>1, <1>2, <2>3, CancelsGo
  <2>9. /\ stray' \in [Schedulers -> SUBSET RunIds]
        /\ mode' \in [Schedulers -> Modes] /\ mode'[s] \in {"up", "stopping"} /\ clock' = clock
        /\ \A u \in Schedulers : u # s => stray'[u] = stray[u] /\ mode'[u] = mode[u]
    BY <1>1, <1>2, <1>11
  <2>10. Drain(s, new, tk, rest)
    BY <2>3
  <2> QED
    BY <1>1, <1>4, <1>6, <2>7, <2>8, <2>9, <2>10, DrainsAreSteps
<1> QED
  BY <1>12, <1>13

(* The lists of a tick: rows whose lease is gone are abandoned, tasks whose    *)
(* intent was lost are repaired, and what is due is to be accepted.            *)
LEMMA RetiredRows ==
    ASSUME SchedTypes, NEW w, w = Retired
    PROVE  /\ w \in Seq(Row) /\ Len(w) = Len(rows)
           /\ \A r \in Ids : r \in DOMAIN w /\ Goes(r, w[r])
<1>1. PICK n \in Nat : n = Len(rows) /\ Ids = 1..n /\ \A r \in 1..n : rows[r] \in Row
  BY RowsAreNumbered
<1>2. ASSUME NEW r \in 1..n  PROVE w[r] \in Row /\ Goes(r, w[r])
  <2>1. rows[r] \in Row /\ w[r] = IF rows[r].status = "running" /\ ~rows[r].lease
                                  THEN Settled(rows[r], "abandoned") ELSE rows[r]
    BY <1>1 DEF Retired
  <2>2. "abandoned" \in Statuses
    BY DEF Statuses
  <2>3. Settled(rows[r], "abandoned") \in Row /\ Same(rows[r], Settled(rows[r], "abandoned"))
        /\ Settled(rows[r], "abandoned").status = "abandoned"
    BY <2>1, <2>2, SettledRows
  <2> QED
    BY <2>1, <2>3 DEF Goes, Quiet, Same
<1>3. DOMAIN w = 1..n /\ w = [r \in 1..n |-> w[r]]
  BY <1>1 DEF Retired
<1>4. w \in Seq(Row) /\ Len(w) = n
  BY <1>2, <1>3, ListsAreRows
<1> QED
  BY <1>1, <1>2, <1>3, <1>4

LEMMA RepairedTasks ==
    ASSUME SchedTypes, NEW rw, NEW tk, tk = Repaired(rw)
    PROVE  tk \in [Tasks -> TaskRow] /\ \A t \in Tasks : TaskGoes(t, rw, tk)
<1>1. ASSUME NEW t \in Tasks  PROVE tk[t] \in TaskRow /\ TaskGoes(t, rw, tk)
  <2>1. task[t] \in TaskRow /\ task[t].rev \in Nat
    BY TaskFields
  <2>2. NextOf(t) \in Nat
    BY Bounds DEF NextOf, SchedTypes
  <2>3. PICK on \in BOOLEAN : on = (NextOf(t) # 0)
    OBVIOUS
  <2>4. \/ tk[t] = task[t]
        \/ task[t].enabled /\ tk[t] = [task[t] EXCEPT !.next = NextOf(t), !.enabled = on]
    BY <2>3 DEF Repaired
  <2>5. CASE tk[t] = task[t]
    BY <2>1, <2>5, TasksStay
  <2>6. CASE task[t].enabled /\ tk[t] = [task[t] EXCEPT !.next = NextOf(t), !.enabled = on]
    <3>1. /\ tk[t] \in TaskRow /\ tk[t].once = task[t].once /\ tk[t].rev = task[t].rev
          /\ tk[t].last = task[t].last /\ tk[t].next = NextOf(t)
      BY <2>1, <2>2, <2>6 DEF TaskRow
    <3> QED
      BY <2>1, <2>6, <3>1 DEF TaskGoes
  <2> QED
    BY <2>4, <2>5, <2>6
<1>2. DOMAIN tk = Tasks /\ tk = [t \in Tasks |-> tk[t]]
  BY DEF Repaired
<1> QED
  BY <1>1, <1>2

LEMMA AcceptsAreItems ==
    ASSUME NEW tk \in [Tasks -> TaskRow], NEW list \in DueLists(tk)
    PROVE  /\ Accepts(tk, list) \in Seq(Item)
           /\ \A i \in 1..Len(Accepts(tk, list)) : Accepts(tk, list)[i].op = "accept"
<1>1. PICK due : due = {t \in Tasks : IsDue(tk, t)}
  OBVIOUS
<1>2. PICK n : n = Cardinality(due)
  OBVIOUS
<1>3. n \in Nat
  <2>1. due \subseteq Tasks
    BY <1>1
  <2> QED
    BY <1>2, <2>1, Bounds, FS_Subset, FS_CardinalityType
<1>4. list \in [1..n -> due]
  BY <1>1, <1>2 DEF DueLists
<1>5. PICK f : f = Accepts(tk, list)
  OBVIOUS
<1>6. DOMAIN f = 1..n /\ f = [i \in 1..n |-> f[i]]
  BY <1>4, <1>5 DEF Accepts
<1>7. ASSUME NEW i \in 1..n  PROVE f[i] \in Item /\ f[i].op = "accept"
  <2>1. PICK t, d, v : t = list[i] /\ d = tk[t].next /\ v = tk[t].rev
    OBVIOUS
  <2>2. t \in Tasks /\ tk[t] \in TaskRow
    BY <1>1, <1>4, <2>1
  <2>3. d \in Nat /\ v \in 0..MaxEdits
    BY <2>1, <2>2 DEF TaskRow
  <2>4. f[i] = [op |-> "accept", task |-> t, due |-> d, rev |-> v]
    BY <1>4, <1>5, <2>1 DEF Accepts
  <2>5. [op |-> "accept", task |-> t, due |-> d, rev |-> v] \in Item
    BY <2>2, <2>3 DEF Item
  <2> QED
    BY <2>4, <2>5
<1>8. f \in Seq(Item) /\ Len(f) = n
  BY <1>3, <1>6, <1>7, ListsAreRows
<1> QED
  BY <1>5, <1>7, <1>8

LEMMA FireIsStep ==
    ASSUME SchedIInv, NEW s \in Schedulers, Fire(s),
           mode' \in [Schedulers -> Modes], mode'[s] = "up",
           \A u \in Schedulers : u # s => mode'[u] = mode[u]
    PROVE  Step
<1>1. SchedTypes /\ stray \in [Schedulers -> SUBSET RunIds]
  BY DEF SchedIInv, SchedTypes
<1>2. PICK w, tk : w = Retired /\ tk = Repaired(w)
  OBVIOUS
<1>3. PICK list \in DueLists(tk) : Drain(s, w, tk, Accepts(tk, list))
  BY <1>2 DEF Fire
<1>4. exec' = [exec EXCEPT ![s] = CancelRequested(s, w)] /\ stray' = stray /\ clock' = clock
  BY <1>2 DEF Fire
<1>5. /\ w \in Seq(Row) /\ Len(w) = Len(rows)
      /\ \A r \in Ids : r \in DOMAIN w /\ Goes(r, w[r])
  BY <1>1, <1>2, RetiredRows
<1>6. tk \in [Tasks -> TaskRow] /\ \A t \in Tasks : TaskGoes(t, w, tk)
  BY <1>1, <1>2, RepairedTasks
<1>7. Len(rows) <= MaxRuns
  BY <1>1 DEF SchedTypes
<1>8. TablesGo(w, tk)
  BY <1>5, <1>6, <1>7 DEF TablesGo
<1>9. /\ exec' \in [Schedulers -> [RunIds -> Phases]]
      /\ \A u \in Schedulers, r \in RunIds : ExecGoes(u, r)
  BY <1>1, <1>4, CancelsGo
<1>10. PICK rest \in Seq(Item) : /\ rest = Accepts(tk, list)
                                 /\ \A i \in 1..Len(rest) : rest[i].op = "accept"
  BY <1>6, AcceptsAreItems
<1>11. Drain(s, w, tk, rest)
  BY <1>3, <1>10
<1>12. /\ stray' \in [Schedulers -> SUBSET RunIds] /\ mode'[s] \in {"up", "stopping"}
       /\ \A u \in Schedulers : u # s => stray'[u] = stray[u] /\ mode'[u] = mode[u]
  BY <1>1, <1>4
<1> QED
  BY <1>1, <1>4, <1>8, <1>9, <1>10, <1>11, <1>12, DrainsAreSteps

LEMMA TicksAreSteps ==
    ASSUME SchedIInv, NEW s \in Schedulers, Start(s) \/ Tick(s)
    PROVE  Step
<1>1. mode \in [Schedulers -> Modes]
  BY DEF SchedIInv, SchedTypes
<1>2. Fire(s) /\ \/ mode' = [mode EXCEPT ![s] = "up"]
                 \/ mode' = mode /\ mode[s] = "up"
  BY DEF Start, Tick
<1>3. mode' \in [Schedulers -> Modes] /\ mode'[s] = "up"
      /\ \A u \in Schedulers : u # s => mode'[u] = mode[u]
  BY <1>1, <1>2 DEF Modes
<1> QED
  BY <1>2, <1>3, FireIsStep

(* finalize_scheduled_task_run and the summary of the task it commits.         *)
LEMMA SummariesGo ==
    ASSUME SchedIInv, NEW r \in Ids, rows[r].status = "running",
           NEW status \in {"succeeded", "failed", "cancelled"}, NEW entered \in BOOLEAN,
           NEW t, t = rows[r].task, NEW sum, sum = Summary(r, status, entered),
           NEW st, st = Stored(r, status, entered)
    PROVE  /\ sum \in TaskRow /\ st \in Outcomes
           /\ sum.once = task[t].once /\ sum.rev = task[t].rev
           /\ sum.next \in {task[t].next, 0, NextOf(t)}
           /\ sum.enabled => task[t].enabled
           /\ \/ sum.last = task[t].last
              \/ sum.last = r /\ r > task[t].last /\ sum.shown = st
<1>1. SchedTypes /\ t \in Tasks /\ r \in Nat /\ r \in 0..MaxRuns
  <2>1. SchedTypes
    BY DEF SchedIInv
  <2>2. rows[r] \in Row /\ r \in 1..Len(rows) /\ Len(rows) \in Nat /\ Len(rows) <= MaxRuns
    BY <2>1, RowsAreNumbered DEF SchedTypes
  <2> QED
    BY <2>1, <2>2, Bounds DEF Row
<1>2. /\ task[t] \in TaskRow /\ task[t].rev \in Nat /\ task[t].next \in Nat
      /\ task[t].failures \in Nat /\ task[t].last \in Nat /\ task[t].enabled \in BOOLEAN
  BY <1>1, TaskFields
<1>3. st = IF IsLatest(r) /\ sum.shown = "dead_letter" THEN "dead_letter" ELSE status
  BY DEF Stored
<1>4. st \in Outcomes
  BY <1>3 DEF Outcomes
<1>5. CASE ~IsLatest(r)
  <2>1. sum = task[t]
    BY <1>5 DEF Summary
  <2> QED
    BY <1>2, <1>4, <2>1
<1>6. CASE IsLatest(r) /\ ~entered
  <2>1. PICK n : n = IF (Manual(rows[r]) /\ task[t].next = 0) \/ task[t].enabled
                     THEN task[t].next ELSE 0
    OBVIOUS
  <2>2. sum = [task[t] EXCEPT !.shown = "cancelled", !.next = n]
    BY <1>6, <2>1, Zenon DEF Summary, Revoked
  <2>3. n \in {task[t].next, 0} /\ n \in Nat
    BY <1>2, <2>1
  <2>4. "cancelled" \in Statuses
    BY DEF Statuses
  <2> QED
    BY <1>2, <1>4, <2>2, <2>3, <2>4 DEF TaskRow
<1>7. CASE IsLatest(r) /\ entered
  <2>1. PICK failures : failures = CASE status = "succeeded" -> 0
                                     [] status = "failed"    -> task[t].failures + 1
                                     [] OTHER                -> task[t].failures
    OBVIOUS
  <2>2. failures \in Nat
    BY <1>2, <2>1
  <2>18. (failures >= MaxFailures) \in BOOLEAN
    OBVIOUS
  <2>3. PICK dead \in BOOLEAN : dead = (failures >= MaxFailures)
    BY <2>18, Zenon
  <2>4. PICK computed : computed = IF task[t].enabled /\ ~dead THEN NextOf(t) ELSE 0
    OBVIOUS
  <2>5. PICK stays \in BOOLEAN :
          stays = (task[t].enabled /\ ~dead /\ ~(computed = 0 /\ task[t].once))
    OBVIOUS
  <2>6. PICK edited \in BOOLEAN :
          edited = (task[t].rev # rows[r].rev /\ task[t].next # 0 /\ status # "failed")
    OBVIOUS
  <2>7. PICK kept \in BOOLEAN : kept = (~Manual(rows[r]) \/ task[t].next # 0)
    BY DEF Manual
  <2>8. PICK on : on = IF kept /\ edited THEN task[t].enabled ELSE stays
    OBVIOUS
  <2>9. PICK n, show : /\ n = (IF ~kept THEN computed ELSE IF on THEN task[t].next ELSE 0)
                       /\ show = (IF dead THEN "dead_letter" ELSE status)
    OBVIOUS
  <2>10. sum = [task[t] EXCEPT !.failures = failures, !.enabled = on, !.last = r,
                               !.next = n, !.shown = show]
    BY <1>7, <2>1, <2>3, <2>4, <2>5, <2>6, <2>7, <2>8, <2>9 DEF Summary, Completed
  <2>11. on \in BOOLEAN /\ (on => task[t].enabled)
    BY <1>2, <2>5, <2>8
  <2>12. n \in {task[t].next, 0, NextOf(t)} /\ n \in Nat
    <3>1. NextOf(t) \in Nat
      BY <1>1, Bounds DEF NextOf, SchedTypes
    <3> QED
      BY <1>2, <2>4, <2>9, <3>1
  <2>13. show \in Statuses /\ (dead => show = "dead_letter") /\ (~dead => show = status)
    BY <2>9 DEF Statuses
  <2>14. /\ sum \in TaskRow /\ sum.once = task[t].once /\ sum.rev = task[t].rev
         /\ sum.next = n /\ sum.enabled = on /\ sum.last = r /\ sum.shown = show
    BY <1>1, <1>2, <2>2, <2>10, <2>11, <2>12, <2>13 DEF TaskRow
  <2>15. show = st
    BY <1>3, <1>7, <2>13, <2>14
  <2>16. r >= task[t].last
    <3>1. OnTime(t)
      BY <1>1 DEF SchedIInv
    <3>2. task[t].last # 0 => /\ task[t].last \in Ids /\ rows[task[t].last].task = t
                              /\ rows[task[t].last].status \notin {"queued", "skipped"}
      BY <3>1 DEF OnTime
    <3>3. ~(task[t].last > r)
      BY <1>1, <1>2, <1>7, <3>2 DEF IsLatest
    <3> QED
      BY <1>1, <1>2, <3>3
  <2>17. r = task[t].last \/ r > task[t].last
    BY <1>1, <1>2, <2>16
  <2> QED
    BY <1>4, <2>11, <2>12, <2>14, <2>15, <2>17
<1> QED
  BY <1>5, <1>6, <1>7

(* The end of a coroutine settles its row if its service still holds it.       *)
LEMMA EndsAreSteps ==
    ASSUME SchedIInv, NEW s \in Schedulers, NEW r \in Ids, exec[s][r] \in Lives,
           NEW status \in {"succeeded", "failed", "cancelled"}, NEW entered \in BOOLEAN,
           Ends(s, r, status, entered), Awaits(s), mode' = mode, clock' = clock,
           stray' = stray \/ stray' = [stray EXCEPT ![s] = @ \cup {r}]
    PROVE  Step
<1>1. SchedTypes /\ task \in [Tasks -> TaskRow] /\ exec \in [Schedulers -> [RunIds -> Phases]]
      /\ stray \in [Schedulers -> SUBSET RunIds] /\ rows \in Seq(Row) /\ Len(rows) <= MaxRuns
      /\ mode \in [Schedulers -> Modes]
  BY DEF SchedIInv, SchedTypes
<1>2. r \in RunIds /\ rows[r] \in Row /\ \A q \in Ids : rows[q] \in Row
  BY <1>1, RowsAreNumbered
<1>3. Held(s, r) /\ rows[r].status \in {"running", "abandoned", "deleted"}
  BY <1>2 DEF SchedIInv, Held
<1>4. exec' = [exec EXCEPT ![s][r] = "over"]
  BY DEF Ends
<1>5. exec'[s][r] = "over"
      /\ \A u \in Schedulers, q \in RunIds : exec'[u][q] = IF u = s /\ q = r THEN "over" ELSE exec[u][q]
  BY <1>1, <1>2, <1>4
<1>6. exec' \in [Schedulers -> [RunIds -> Phases]]
  BY <1>1, <1>4 DEF Phases
<1>7. /\ stray' \in [Schedulers -> SUBSET RunIds]
      /\ \A u \in Schedulers, q \in RunIds : q \in stray'[u] => q \in stray[u] \/ (u = s /\ q = r)
      /\ \A u \in Schedulers : u # s => stray'[u] = stray[u] /\ mode'[u] = mode[u]
  BY <1>1, <1>2
<1>8. ASSUME NEW u \in Schedulers, NEW q \in RunIds  PROVE ExecGoes(u, q)
  BY <1>5, <1>7 DEF ExecGoes, Lives
<1>9. << >> \in Seq(Item) /\ Len(<< >>) = 0
  OBVIOUS
<1>10. PICK none \in Seq(Item) : none = << >> /\ Len(none) = 0
  BY <1>9, Zenon
<1>11. ASSUME NEW rw, NEW tk, Drain(s, rw, tk, none), TablesGo(rw, tk)  PROVE Step
  <2>1. mode' \in [Schedulers -> Modes] /\ mode'[s] \in {"up", "stopping"}
    BY <1>1 DEF Awaits
  <2>2. \A i \in 1..Len(none) : ItemGoes(s, none[i])
    BY <1>10
  <2> QED
    BY <1>1, <1>6, <1>7, <1>8, <1>11, <2>1, <2>2, DrainsAreSteps
<1>12. CASE ~Settleable(s, r)
  <2>1. Drain(s, rows, task, none)
    BY <1>10, <1>12 DEF Ends
  <2>2. TablesGo(rows, task)
    BY <1>1, RowsStay, TasksStay
  <2> QED
    BY <1>11, <2>1, <2>2
<1>13. CASE Settleable(s, r)
  <2>1. rows[r].status = "running"
    BY <1>3, <1>13 DEF Settleable
  <2>2. PICK t, sum, st : /\ t = rows[r].task /\ sum = Summary(r, status, entered)
                          /\ st = Stored(r, status, entered)
    OBVIOUS
  <2>3. PICK b : b = Settled(rows[r], st)
    OBVIOUS
  <2>4. PICK rw, tk : rw = [rows EXCEPT ![r] = b] /\ tk = [task EXCEPT ![t] = sum]
    OBVIOUS
  <2>5. Drain(s, rw, tk, none)
    BY <1>10, <1>13, <2>2, <2>3, <2>4 DEF Ends
  <2>6. /\ sum \in TaskRow /\ st \in Outcomes
        /\ sum.once = task[t].once /\ sum.rev = task[t].rev
        /\ sum.next \in {task[t].next, 0, NextOf(t)}
        /\ sum.enabled => task[t].enabled
        /\ \/ sum.last = task[t].last
           \/ sum.last = r /\ r > task[t].last /\ sum.shown = st
    BY <2>1, <2>2, SummariesGo
  <2>7. st \in Statuses
    BY <2>6 DEF Outcomes, Statuses
  <2>8. b \in Row /\ Same(rows[r], b) /\ b.status = st
    BY <1>2, <2>3, <2>7, SettledRows
  <2>9. /\ rw \in Seq(Row) /\ Len(rw) = Len(rows) /\ DOMAIN rw = DOMAIN rows
        /\ \A q \in Ids : rw[q] = IF q = r THEN b ELSE rows[q]
    <3>1. r \in 1..Len(rows)
      BY <1>1, RowsAreNumbered
    <3> QED
      BY <1>1, <2>4, <2>8, <3>1 DEF Ids
  <2>10. ASSUME NEW q \in Ids  PROVE q \in DOMAIN rw /\ Goes(q, rw[q])
    <3>1. CASE q = r
      BY <1>5, <2>1, <2>6, <2>8, <2>9, <3>1 DEF Goes, Ids
    <3>2. CASE q # r
      BY <2>9, <3>2 DEF Goes, Quiet, Same, Ids
    <3> QED
      BY <3>1, <3>2
  <2>11. t \in Tasks /\ tk[t] = sum /\ tk \in [Tasks -> TaskRow]
         /\ \A u \in Tasks : u # t => tk[u] = task[u]
    <3>1. t \in Tasks
      BY <1>2, <2>2 DEF Row
    <3> QED
      BY <1>1, <2>4, <2>6, <3>1
  <2>12. TaskGoes(t, rw, tk)
    <3>1. task[t].rev \in Nat
      BY <1>1, <2>11, TaskFields
    <3>2. sum.last = r /\ r > task[t].last /\ sum.shown = st =>
            /\ sum.last \in Ids /\ sum.last > task[t].last
            /\ rows[sum.last].task = t /\ rows[sum.last].status = "running"
            /\ rw[sum.last].status \in Outcomes /\ rw[sum.last].status = sum.shown
      BY <2>1, <2>2, <2>6, <2>8, <2>9
    <3> QED
      BY <2>6, <2>11, <3>1, <3>2 DEF TaskGoes
  <2>13. \A u \in Tasks : TaskGoes(u, rw, tk)
    BY <2>11, <2>12, TasksStay
  <2>14. TablesGo(rw, tk)
    BY <1>1, <2>9, <2>10, <2>11, <2>13 DEF TablesGo
  <2> QED
    BY <1>11, <2>5, <2>14
<1> QED
  BY <1>12, <1>13

LEMMA CoroutinesAreSteps ==
    ASSUME SchedIInv, NEW s \in Schedulers, NEW r \in Ids, Coroutine(s, r)
    PROVE  Step
<1>1. PICK yes \in BOOLEAN, no \in BOOLEAN : yes = TRUE /\ no = FALSE
  OBVIOUS
<1>2. CASE Enter(s, r)
  <2>1. /\ Awaits(s) /\ exec[s][r] = "ready" /\ UNCHANGED <<mode, stray, clock>>
        /\ \/ exec' = [exec EXCEPT ![s][r] = "running"] /\ UNCHANGED <<task, rows, agenda>>
           \/ Ends(s, r, "cancelled", TRUE)
    BY <1>2 DEF Enter
  <2>2. CASE Ends(s, r, "cancelled", TRUE)
    <3>1. Ends(s, r, "cancelled", yes) /\ exec[s][r] \in Lives
      BY <1>1, <2>1, <2>2 DEF Lives
    <3> QED
      BY <2>1, <3>1, EndsAreSteps
  <2>3. CASE exec' = [exec EXCEPT ![s][r] = "running"] /\ UNCHANGED <<task, rows, agenda>>
    <3>1. SchedTypes /\ exec \in [Schedulers -> [RunIds -> Phases]] /\ r \in RunIds
      BY RowsAreNumbered DEF SchedIInv, SchedTypes
    <3>2. exec' \in [Schedulers -> [RunIds -> Phases]]
      BY <2>3, <3>1 DEF Phases
    <3>3. ASSUME NEW u \in Schedulers, NEW q \in RunIds  PROVE ExecGoes(u, q)
      <4>1. exec'[u][q] = IF u = s /\ q = r THEN "running" ELSE exec[u][q]
        BY <2>3, <3>1
      <4> QED
        BY <2>1, <4>1 DEF ExecGoes, Lives
    <3>4. SchedTypes' /\ clock' >= clock
      BY <2>1, <2>3, <3>1, <3>2, Bounds DEF SchedTypes
    <3> QED
      BY <2>1, <2>3, <3>1, <3>3, <3>4, TablesStay, AgendasStay DEF Step
  <2> QED
    BY <2>1, <2>2, <2>3
<1>3. CASE Finish(s, r)
  <2>1. PICK status \in {"succeeded", "failed"} : Ends(s, r, status, TRUE)
    BY <1>3 DEF Finish
  <2>2. Ends(s, r, status, yes) /\ status \in {"succeeded", "failed", "cancelled"}
    BY <1>1, <2>1
  <2>3. Awaits(s) /\ exec[s][r] \in Lives /\ UNCHANGED <<mode, stray, clock>>
    BY <1>3 DEF Finish, Lives
  <2> QED
    BY <2>2, <2>3, EndsAreSteps
<1>4. CASE Unwind(s, r)
  <2>1. Ends(s, r, "cancelled", yes) /\ Awaits(s) /\ exec[s][r] \in Lives /\ UNCHANGED <<mode, clock>>
    BY <1>1, <1>4 DEF Unwind, Lives
  <2>2. stray' = stray \/ stray' = [stray EXCEPT ![s] = @ \cup {r}]
    BY <1>4 DEF Unwind
  <2> QED
    BY <2>1, <2>2, EndsAreSteps
<1>5. CASE Revoke(s, r)
  <2>1. Ends(s, r, "cancelled", no) /\ Awaits(s) /\ exec[s][r] \in Lives
        /\ UNCHANGED <<mode, stray, clock>>
    BY <1>1, <1>5 DEF Revoke, Lives
  <2> QED
    BY <2>1, EndsAreSteps
<1> QED
  BY <1>2, <1>3, <1>4, <1>5 DEF Coroutine

-----------------------------------------------------------------------------
(* The start of a queued row makes its coroutine.                              *)

Starting(s, r) ==
    /\ rows' = [rows EXCEPT ![r].status = "running", ![r].owner = s, ![r].lease = TRUE]
    /\ exec' = [exec EXCEPT ![s][r] = "ready"]
    /\ agenda' = [agenda EXCEPT ![s] = Tail(@)]
    /\ UNCHANGED <<task, mode, stray, clock>>

LEMMA StartKeeps ==
    ASSUME SchedIInv, NEW s \in Schedulers, NEW r \in Ids, NEW used \in Nat,
           Starting(s, r), MayStart(s, r, used), agenda[s] # <<>>,
           rows[r].task \notin Blocked(stray[s])
    PROVE  SchedIInv'
<1>1. SchedTypes /\ task \in [Tasks -> TaskRow] /\ exec \in [Schedulers -> [RunIds -> Phases]]
      /\ stray \in [Schedulers -> SUBSET RunIds] /\ rows \in Seq(Row) /\ Len(rows) <= MaxRuns
      /\ agenda \in [Schedulers -> Seq(Item)]
  BY DEF SchedIInv, SchedTypes
<1>2. r \in RunIds /\ Ids = 1..Len(rows) /\ Ids \subseteq RunIds /\ \A q \in Ids : rows[q] \in Row
  BY <1>1, RowsAreNumbered
<1>3. /\ rows[r].status = "queued" /\ Cardinality(With("running")) + used < MaxRunning
      /\ Of(rows[r].task, "running") = {}
  BY DEF MayStart
<1>4. UNCHANGED <<task, mode, stray, clock>> /\ agenda' = [agenda EXCEPT ![s] = Tail(@)]
      /\ exec' = [exec EXCEPT ![s][r] = "ready"]
  BY DEF Starting
<1>5. PICK b : b = [rows[r] EXCEPT !.status = "running", !.owner = s, !.lease = TRUE]
  OBVIOUS
<1>6. b \in Row /\ Same(rows[r], b) /\ b.status = "running" /\ b.owner = s
  BY <1>2, <1>5 DEF Row, Same, Statuses
<1>7. rows' = [rows EXCEPT ![r] = b]
  BY <1>1, <1>2, <1>5 DEF Starting
<1>8. /\ rows' \in Seq(Row) /\ Len(rows') = Len(rows) /\ Ids' = Ids
      /\ \A q \in Ids : rows'[q] = IF q = r THEN b ELSE rows[q]
  BY <1>1, <1>2, <1>6, <1>7 DEF Ids
<1>9. ASSUME NEW q \in Ids  PROVE Same(rows[q], rows'[q])
  BY <1>6, <1>8 DEF Same
<1>10. exec' \in [Schedulers -> [RunIds -> Phases]]
       /\ \A u \in Schedulers, q \in RunIds : exec'[u][q] = IF u = s /\ q = r THEN "ready" ELSE exec[u][q]
  BY <1>1, <1>2, <1>4 DEF Phases
<1>11. /\ agenda' \in [Schedulers -> Seq(Item)]
       /\ \A u \in Schedulers : \A i \in 1..Len(agenda'[u]) :
            \E j \in 1..Len(agenda[u]) : agenda'[u][i] = agenda[u][j]
       /\ \A u \in Schedulers : agenda[u] = <<>> => agenda'[u] = <<>>
  <2>1. agenda[s] \in Seq(Item)
    BY <1>1
  <2>5. PICK rest : rest = Tail(agenda[s])
    OBVIOUS
  <2>2. /\ rest \in Seq(Item) /\ Len(rest) = Len(agenda[s]) - 1
        /\ \A i \in 1..Len(rest) : i + 1 \in 1..Len(agenda[s]) /\ rest[i] = agenda[s][i + 1]
    BY <2>1, <2>5
  <2>3. agenda' = [agenda EXCEPT ![s] = rest]
    BY <1>4, <2>5
  <2>4. \A u \in Schedulers : agenda'[u] = IF u = s THEN rest ELSE agenda[u]
    BY <1>1, <2>3
  <2>6. agenda' \in [Schedulers -> Seq(Item)]
    BY <1>1, <2>2, <2>3
  <2>7. ASSUME NEW u \in Schedulers, NEW i \in 1..Len(agenda'[u])
        PROVE  \E j \in 1..Len(agenda[u]) : agenda'[u][i] = agenda[u][j]
    <3>1. CASE u = s
      <4>1. agenda'[u] = rest /\ i \in 1..Len(rest)
        BY <2>4, <2>7, <3>1
      <4>2. i + 1 \in 1..Len(agenda[u]) /\ agenda'[u][i] = agenda[u][i + 1]
        BY <2>2, <3>1, <4>1
      <4> QED
        BY <4>2
    <3>2. CASE u # s
      BY <2>4, <2>7, <3>2
    <3> QED
      BY <3>1, <3>2
  <2>8. \A u \in Schedulers : agenda[u] = <<>> => agenda'[u] = <<>>
    BY <2>4
  <2> QED
    BY <2>6, <2>7, <2>8
<1>12. SchedTypes'
  BY <1>1, <1>4, <1>8, <1>10, <1>11 DEF SchedTypes
<1>13. ASSUME NEW q \in Ids'  PROVE Behind(q)'
  <2>1. Behind(q) /\ Same(rows[q], rows'[q])
    BY <1>8, <1>9 DEF SchedIInv
  <2> QED
    BY <1>4, <2>1 DEF Behind, Same
<1>14. ASSUME NEW t \in Tasks  PROVE OnTime(t)'
  <2>1. OnTime(t)
    BY DEF SchedIInv
  <2> QED
    BY <1>3, <1>4, <1>8, <2>1 DEF OnTime
<1>15. \A u \in Schedulers : exec[u][r] = "none"
  BY <1>2, <1>3 DEF SchedIInv, Held
<1>16. ASSUME NEW u \in Schedulers, NEW q \in RunIds  PROVE Held(u, q)'
  <2>1. Held(u, q)
    BY DEF SchedIInv
  <2>2. CASE q = r
    <3>1. q \notin stray[u]
      BY <1>15, <2>1, <2>2 DEF Held
    <3> QED
      BY <1>4, <1>6, <1>8, <1>10, <1>15, <2>2, <3>1 DEF Held, Lives
  <2>3. CASE q # r
    <3>1. exec'[u][q] = exec[u][q] /\ (q \in Ids => rows'[q] = rows[q])
      BY <1>8, <1>10, <2>3
    <3>2. exec[u][q] \in Lives => exec[u][q] # "none"
      BY DEF Lives
    <3> QED
      BY <1>4, <1>8, <2>1, <3>1, <3>2 DEF Held
  <2> QED
    BY <2>2, <2>3
<1>17. ASSUME NEW u \in Schedulers, NEW q \in RunIds, NEW p \in RunIds  PROVE ReplacementWaits(u, q, p)'
  <2>1. SUFFICES ASSUME q \in stray'[u], exec'[u][p] \in Lives, q < p,
                        rows'[q].task = rows'[p].task,
                        rows'[q].status = "cancelled", rows'[p].status = "running"
                 PROVE  FALSE
    BY DEF ReplacementWaits
  <2>2. q \in stray[u] /\ exec[u][q] # "none"
    BY <1>4, <2>1 DEF SchedIInv, Held
  <2>3. q \in Ids /\ q # r
    BY <1>15, <2>2 DEF SchedIInv, Held
  <2>4. rows'[q] = rows[q]
    BY <1>8, <2>3
  <2>5. CASE p = r
    <3>1. u = s
      BY <1>10, <1>15, <2>1, <2>5 DEF Lives
    <3>2. rows[q].task = rows[r].task
      BY <1>6, <1>8, <2>1, <2>4, <2>5 DEF Same
    <3>3. rows[q].task \in Blocked(stray[s])
      BY <2>1, <2>2, <2>3, <2>4, <3>1 DEF Blocked, Stopping
    <3> QED
      BY <3>2, <3>3
  <2>6. CASE p # r
    <3>1. exec[u][p] \in Lives
      BY <1>10, <2>1, <2>6
    <3>2. p \in Ids
      BY <3>1 DEF SchedIInv, Held, Lives
    <3>3. rows'[p] = rows[p]
      BY <1>8, <2>6, <3>2
    <3>4. ReplacementWaits(u, q, p)
      BY DEF SchedIInv
    <3> QED
      BY <2>1, <2>2, <2>4, <3>1, <3>3, <3>4 DEF ReplacementWaits
  <2> QED
    BY <2>5, <2>6
<1>18. ASSUME NEW u \in Schedulers, NEW i \in 1..Len(agenda'[u])  PROVE Sound(u, agenda[u][i])'
  <2>1. PICK j \in 1..Len(agenda[u]) : agenda'[u][i] = agenda[u][j]
    BY <1>11
  <2>2. Sound(u, agenda[u][j])
    BY DEF SchedIInv
  <2>3. Blocked(stray[u])' \subseteq Blocked(stray[u])
    <3>1. SUFFICES ASSUME NEW q \in stray[u], q \in Ids, rows'[q].status # "deleted"
                   PROVE  rows[q].status # "deleted" /\ rows[q].task = rows'[q].task
      BY <1>4, <1>8 DEF Blocked, Stopping
    <3>2. rows'[q] = IF q = r THEN b ELSE rows[q]
      BY <1>8, <3>1
    <3> QED
      BY <1>3, <1>6, <3>1, <3>2 DEF Same
  <2>4. PICK item : item = agenda[u][j]
    OBVIOUS
  <2>5. ASSUME item.op = "start"
        PROVE  item.run \in Ids' /\ rows'[item.run].task \notin Blocked(stray[u])'
    <3>1. item.run \in Ids /\ rows[item.run].task \notin Blocked(stray[u])
      BY <2>2, <2>4, <2>5 DEF Sound
    <3>2. rows'[item.run].task = rows[item.run].task
      BY <1>9, <3>1 DEF Same
    <3> QED
      BY <1>8, <2>3, <3>1, <3>2
  <2>6. Sound(u, item)'
    BY <2>5 DEF Sound
  <2> QED
    BY <2>1, <2>4, <2>6
<1>19. AcceptedOnce'
  <2>1. SUFFICES ASSUME NEW p \in Ids, NEW q \in Ids, p # q  PROVE ~SameIntent(p, q)'
    BY <1>8 DEF AcceptedOnce
  <2>2. ~SameIntent(p, q) /\ Same(rows[p], rows'[p]) /\ Same(rows[q], rows'[q])
    BY <1>9, <2>1 DEF SchedIInv, AcceptedOnce
  <2> QED
    BY <2>2 DEF SameIntent, Same
<1>20. OneHand'
  <2>1. SUFFICES ASSUME NEW u \in Schedulers, NEW v \in Schedulers, NEW q \in RunIds,
                        exec'[u][q] # "none", exec'[v][q] # "none"
                 PROVE  u = v
    BY DEF OneHand
  <2>2. CASE q = r
    BY <1>10, <1>15, <2>1, <2>2
  <2>3. CASE q # r
    BY <1>10, <2>1, <2>3 DEF SchedIInv, OneHand
  <2> QED
    BY <2>2, <2>3
<1>21. ASSUME NEW q \in Ids, rows[q].status = "running"  PROVE rows[q].task # rows[r].task
  BY <1>3, <1>21 DEF Of, With
<1>22. OneRunning'
  <2>1. SUFFICES ASSUME NEW p \in Ids, NEW q \in Ids, rows'[p].task = rows'[q].task,
                        rows'[p].status = "running", rows'[q].status = "running"
                 PROVE  p = q
    BY <1>8 DEF OneRunning
  <2>2. rows'[r].task = rows[r].task /\ \A x \in Ids : x # r => rows'[x] = rows[x]
    BY <1>6, <1>8 DEF Same
  <2>3. CASE p # r /\ q # r
    BY <2>1, <2>2, <2>3 DEF SchedIInv, OneRunning
  <2>4. CASE p = r \/ q = r
    BY <1>21, <2>1, <2>2, <2>4
  <2> QED
    BY <2>3, <2>4
<1>23. SlotsHold'
  <2>1. With("running")' = With("running") \cup {r}
    <3>1. ASSUME NEW q \in Ids
          PROVE  rows'[q].status = "running" <=> q = r \/ rows[q].status = "running"
      BY <1>6, <1>8
    <3> QED
      BY <1>8, <3>1 DEF With
  <2>2. With("running") \subseteq RunIds /\ IsFiniteSet(RunIds)
    <3>1. With("running") \subseteq RunIds
      BY <1>2 DEF With
    <3>2. IsFiniteSet(RunIds)
      BY Bounds, FS_Interval DEF RunIds
    <3> QED
      BY <3>1, <3>2
  <2>3. IsFiniteSet(With("running")) /\ Cardinality(With("running")) \in Nat
    BY <2>2, FS_Subset, FS_CardinalityType
  <2>6. PICK runs, more : runs = With("running") /\ more = runs \cup {r}
    OBVIOUS
  <2>7. IsFiniteSet(runs) /\ Cardinality(runs) \in Nat
    BY <2>3, <2>6
  <2>8. IsFiniteSet(more) /\ Cardinality(more)
          = IF r \in runs THEN Cardinality(runs) ELSE Cardinality(runs) + 1
    BY <2>6, <2>7, FS_AddElement
  <2>9. Cardinality(more) <= Cardinality(runs) + 1 /\ Cardinality(more) \in Nat
    BY <2>7, <2>8
  <2>4. Cardinality(With("running")') <= Cardinality(With("running")) + 1
        /\ Cardinality(With("running")') \in Nat
    BY <2>1, <2>6, <2>9
  <2>5. Cardinality(With("running")') <= MaxRunning
    BY <1>3, <2>3, <2>4, Bounds
  <2> QED
    BY <2>5 DEF SlotsHold
<1> QED
  BY <1>12, <1>13, <1>14, <1>16, <1>17, <1>18, <1>19, <1>20, <1>22, <1>23 DEF SchedIInv

-----------------------------------------------------------------------------
(* The invariant is inductive.                                                 *)

LEMMA InitHolds == SchedInit => SchedIInv
<1>1. SUFFICES ASSUME SchedInit  PROVE SchedIInv
  OBVIOUS
<1>2. /\ clock = 0 /\ rows = <<>> /\ agenda = [s \in Schedulers |-> <<>>]
      /\ exec = [s \in Schedulers |-> [r \in RunIds |-> "none"]]
      /\ mode = [s \in Schedulers |-> "off"] /\ stray = [s \in Schedulers |-> {}]
  BY <1>1 DEF SchedInit
<1>3. Ids = {} /\ Len(rows) = 0 /\ rows \in Seq(Row)
  BY <1>2 DEF Ids
<1>4. PICK shape \in [Tasks -> Shapes] :
        task = [t \in Tasks |-> [exists |-> TRUE, enabled |-> TRUE, rev |-> 0, failures |-> 0,
                                 policy |-> shape[t].policy, once |-> shape[t].once,
                                 next |-> IF shape[t].once THEN RunAt ELSE 1,
                                 last |-> 0, shown |-> ""]]
  BY <1>1 DEF SchedInit
<1>5. ASSUME NEW t \in Tasks  PROVE task[t] \in TaskRow /\ OnTime(t)
  <2>1. shape[t] \in [policy : {"skip", "queue", "cancel_previous"}, once : BOOLEAN]
    BY ShapesAreTyped
  <2>2. PICK p, o, n : p = shape[t].policy /\ o = shape[t].once /\ n = IF o THEN RunAt ELSE 1
    OBVIOUS
  <2>3. p \in {"skip", "queue", "cancel_previous"} /\ o \in BOOLEAN /\ n \in Nat
    BY <2>1, <2>2, Bounds
  <2>8. PICK row : row = [exists |-> TRUE, enabled |-> TRUE, rev |-> 0, failures |-> 0, policy |-> p,
                          once |-> o, next |-> n, last |-> 0, shown |-> ""]
    OBVIOUS
  <2>4. task[t] = row
    BY <1>4, <2>2, <2>8
  <2>5. 0 \in 0..MaxEdits /\ 0 \in 0..MaxRuns
    BY Bounds
  <2>6. row \in TaskRow
    BY <2>3, <2>5, <2>8 DEF TaskRow
  <2>7. row.once = o /\ row.next = n /\ row.last = 0
    BY <2>8
  <2> QED
    BY <1>2, <2>2, <2>3, <2>4, <2>6, <2>7 DEF OnTime
<1>6. task \in [Tasks -> TaskRow]
  BY <1>4, <1>5
<1>7. SchedTypes
  <2>1. exec \in [Schedulers -> [RunIds -> Phases]]
    BY <1>2 DEF Phases
  <2>2. agenda \in [Schedulers -> Seq(Item)] /\ \A s \in Schedulers : agenda[s] = <<>>
    BY <1>2
  <2> QED
    BY <1>2, <1>3, <1>6, <2>1, <2>2, Bounds DEF SchedTypes, Modes
<1>8. ASSUME NEW s \in Schedulers
      PROVE  /\ Len(agenda[s]) = 0 /\ stray[s] = {}
             /\ \A r \in RunIds : exec[s][r] = "none"
  BY <1>2
<1>9. /\ \A s \in Schedulers, r \in RunIds : Held(s, r)
      /\ \A s \in Schedulers, q, r \in RunIds : ReplacementWaits(s, q, r)
      /\ \A s \in Schedulers : \A i \in 1..Len(agenda[s]) : Sound(s, agenda[s][i])
      /\ OneHand
  BY <1>8 DEF Held, ReplacementWaits, OneHand, Lives
<1>10. SlotsHold
  <2>1. With("running") = {}
    BY <1>3 DEF With
  <2> QED
    BY <2>1, Bounds, FS_EmptySet DEF SlotsHold
<1> QED
  BY <1>3, <1>5, <1>7, <1>9, <1>10 DEF SchedIInv, AcceptedOnce, OneRunning

(* What is at the head of an agenda as a start is a row nothing blocks.        *)
LEMMA StartQueuedIs ==
    ASSUME SchedIInv, NEW s \in Schedulers, StartQueued(s)
    PROVE  \/ Step
           \/ \E r \in Ids, used \in Nat :
                /\ Starting(s, r) /\ MayStart(s, r, used) /\ agenda[s] # <<>>
                /\ rows[r].task \notin Blocked(stray[s])
<1>1. SchedTypes /\ agenda \in [Schedulers -> Seq(Item)]
  BY DEF SchedIInv, SchedTypes
<1>2. agenda[s] # <<>> /\ Head(agenda[s]).op = "start"
  BY DEF StartQueued, Next1
<1>3. PICK item, rest, r, used : /\ item = Head(agenda[s]) /\ rest = Tail(agenda[s])
                                 /\ r = item.run /\ used = item.used
  OBVIOUS
<1>4. /\ item \in Item /\ item.op = "start" /\ 1 \in 1..Len(agenda[s]) /\ item = agenda[s][1]
      /\ rest \in Seq(Item) /\ Len(rest) = Len(agenda[s]) - 1
      /\ \A i \in 1..Len(rest) : i + 1 \in 1..Len(agenda[s]) /\ rest[i] = agenda[s][i + 1]
  <2>1. agenda[s] \in Seq(Item)
    BY <1>1
  <2> QED
    BY <1>2, <1>3, <2>1
<1>5. Sound(s, agenda[s][1])
  BY <1>4 DEF SchedIInv
<1>6. r \in Ids /\ used \in Nat /\ rows[r].task \notin Blocked(stray[s])
  BY <1>3, <1>4, <1>5 DEF Sound, Item
<1>7. agenda' = [agenda EXCEPT ![s] = rest] /\ UNCHANGED <<task, mode, stray, clock>>
  BY <1>3 DEF StartQueued
<1>8. CASE MayStart(s, r, used)
  <2>1. Starting(s, r)
    BY <1>3, <1>8 DEF StartQueued, Starting
  <2> QED
    BY <1>2, <1>6, <1>8, <2>1
<1>9. CASE ~MayStart(s, r, used)
  <2>1. UNCHANGED <<rows, exec>>
    BY <1>3, <1>9 DEF StartQueued
  <2>2. agenda' \in [Schedulers -> Seq(Item)] /\ agenda'[s] = rest
        /\ \A u \in Schedulers : u # s => agenda'[u] = agenda[u]
    BY <1>1, <1>4, <1>7
  <2>3. mode[s] \in {"up", "stopping"}
    BY <1>1, <1>2 DEF SchedTypes
  <2>4. SchedTypes' /\ clock' >= clock
    BY <1>1, <1>7, <2>1, <2>2, <2>3, Bounds DEF SchedTypes
  <2>5. ASSUME NEW u \in Schedulers, NEW i \in 1..Len(agenda'[u])  PROVE ItemGoes(u, agenda'[u][i])
    <3>1. CASE u = s
      BY <1>4, <1>7, <2>2, <2>5, <3>1 DEF ItemGoes
    <3>2. CASE u # s
      BY <1>7, <2>2, <2>5, <3>2, AgendasStay
    <3> QED
      BY <3>1, <3>2
  <2> QED
    BY <1>1, <1>7, <2>1, <2>4, <2>5, TablesStay, ExecStays DEF Step
<1> QED
  BY <1>8, <1>9

LEMMA UsersAreSteps ==
    ASSUME SchedIInv, NEW s \in Schedulers, User(s)
    PROVE  Step
  BY RunNowIsStep, EditIsStep, DeleteIsStep DEF User

LEMMA NextIsStep ==
    ASSUME SchedIInv, SchedNext
    PROVE  \/ Step
           \/ \E s \in Schedulers, r \in Ids, used \in Nat :
                /\ Starting(s, r) /\ MayStart(s, r, used) /\ agenda[s] # <<>>
                /\ rows[r].task \notin Blocked(stray[s])
<1>1. CASE Pass
  BY <1>1, PassIsStep
<1>2. CASE \E r \in Ids : Lapse(r)
  BY <1>2, LapseIsStep
<1>3. ASSUME NEW s \in Schedulers,
             \/ Start(s) \/ Tick(s) \/ AcceptDue(s) \/ User(s)
             \/ Stop(s) \/ StopCancel(s) \/ StopEnd(s) \/ Crash(s)
      PROVE  Step
  BY <1>3, TicksAreSteps, AcceptDueIsStep, UsersAreSteps, StopIsStep, StopCancelIsStep,
     StopEndIsStep, CrashIsStep
<1>4. ASSUME NEW s \in Schedulers, NEW r \in Ids, Coroutine(s, r) \/ LoseLease(s, r) \/ WorkerEnds(s, r)
      PROVE  Step
  BY <1>4, CoroutinesAreSteps, LoseLeaseIsStep, WorkerEndsIsStep
<1>5. ASSUME NEW s \in Schedulers, StartQueued(s)
      PROVE  \/ Step
             \/ \E r \in Ids, used \in Nat :
                  /\ Starting(s, r) /\ MayStart(s, r, used) /\ agenda[s] # <<>>
                  /\ rows[r].task \notin Blocked(stray[s])
  BY <1>5, StartQueuedIs
<1> QED
  BY <1>1, <1>2, <1>3, <1>4, <1>5, Zenon DEF SchedNext, Transaction

LEMMA NextKeeps == SchedIInv /\ [SchedNext]_vars => SchedIInv'
<1>1. ASSUME SchedIInv, SchedNext  PROVE SchedIInv'
  BY <1>1, NextIsStep, StepKeeps, StartKeeps
<1>2. ASSUME SchedIInv, UNCHANGED vars  PROVE SchedIInv'
  <2>1. UNCHANGED <<task, rows, exec, mode, agenda, stray, clock>>
    BY <1>2 DEF vars
  <2>2. Step
    <3>1. SchedTypes /\ SchedTypes' /\ clock' >= clock
      BY <1>2, <2>1, Bounds DEF SchedIInv, SchedTypes
    <3> QED
      BY <2>1, <3>1, TablesStay, ExecStays, AgendasStay DEF Step
  <2> QED
    BY <1>2, <2>2, StepKeeps
<1> QED
  BY <1>1, <1>2

LEMMA InvariantGives == SchedIInv => OccurrencesRunOnce
<1>1. SUFFICES ASSUME SchedIInv  PROVE OccurrencesRunOnce
  OBVIOUS
<1>2. SchedTypes
  BY <1>1 DEF SchedIInv
<1>3. Ids = 1..Len(rows) /\ Len(rows) \in Nat /\ Ids \subseteq RunIds /\ \A r \in Ids : rows[r] \in Row
  BY <1>2, RowsAreNumbered
<1>4. SchedTypeOK
  <2>1. Len(rows) \in 0..MaxRuns
    BY <1>2, <1>3, Bounds DEF SchedTypes
  <2>2. \A r \in Ids : rows[r] \in [task : Tasks, key : AllKeys, due : Nat, rev : 0..MaxEdits,
                                    cancel : BOOLEAN, status : Statuses,
                                    owner : Schedulers \cup {NoOwner}, lease : BOOLEAN]
    BY <1>3 DEF Row
  <2> QED
    BY <1>2, <2>1, <2>2 DEF SchedTypes, SchedTypeOK, TaskRow
<1>5. \A q, r \in Ids : q # r /\ rows[q].task = rows[r].task =>
        <<rows[q].key, rows[q].due, rows[q].rev>> # <<rows[r].key, rows[r].due, rows[r].rev>>
  BY <1>1 DEF SchedIInv, AcceptedOnce, SameIntent
<1>6. ASSUME NEW r \in RunIds  PROVE Cardinality({s \in Schedulers : exec[s][r] # "none"}) <= 1
  <2>1. PICK hands : hands = {s \in Schedulers : exec[s][r] # "none"}
    OBVIOUS
  <2>2. \A s, u \in hands : s = u
    BY <1>1, <2>1 DEF SchedIInv, OneHand
  <2>3. Cardinality(hands) <= 1
    BY <2>2, SmallSets
  <2> QED
    BY <2>1, <2>3
<1>7. ASSUME NEW t \in Tasks  PROVE Cardinality(Of(t, "running")) <= 1
  <2>1. PICK running : running = Of(t, "running")
    OBVIOUS
  <2>2. \A q, r \in running : q = r
    BY <1>1, <2>1 DEF SchedIInv, OneRunning, Of, With
  <2>3. Cardinality(running) <= 1
    BY <2>2, SmallSets
  <2> QED
    BY <2>1, <2>3
<1>8. ASSUME NEW s \in Schedulers, NEW r \in RunIds
      PROVE  /\ r \in Active(s) <=> exec[s][r] \in Lives
             /\ Held(s, r)
  <2>1. exec[s][r] \in Phases
    BY <1>2 DEF SchedTypes
  <2> QED
    BY <1>1, <2>1 DEF Active, Phases, Lives, SchedIInv
<1>9. \A s \in Schedulers, r \in RunIds : exec[s][r] # "none" =>
        r \in Ids /\ rows[r].status \notin {"queued", "skipped"}
  BY <1>8 DEF Held
<1>10. \A s \in Schedulers, r \in RunIds :
         r \in Active(s) /\ rows[r].status = "running" => rows[r].owner = s
  BY <1>8 DEF Held
<1>11. ASSUME NEW s \in Schedulers, NEW q \in stray[s], NEW r \in Active(s)
       PROVE  ~(/\ q < r /\ rows[q].task = rows[r].task
                /\ rows[q].status = "cancelled" /\ rows[r].status = "running")
  <2>1. q \in RunIds /\ r \in RunIds
    BY <1>2 DEF SchedTypes, Active
  <2> QED
    BY <1>1, <1>8, <2>1 DEF SchedIInv, ReplacementWaits
<1>12. Cardinality(With("running")) <= MaxRunning
  BY <1>1 DEF SchedIInv, SlotsHold
<1> QED
  BY <1>4, <1>5, <1>6, <1>7, <1>9, <1>10, <1>11, <1>12 DEF OccurrencesRunOnce

LEMMA StepsKeepOutcomes ==
    ASSUME SchedIInv, [SchedNext]_vars
    PROVE  [OutcomesStay]_vars
<1>1. SchedTypes
  BY DEF SchedIInv
<1>2. ASSUME Step  PROVE OutcomesStay
  <2>1. ASSUME NEW r \in Ids, rows[r].status \notin {"queued", "running"}
        PROVE  rows'[r].status \in {rows[r].status, "deleted"}
    <3>1. Goes(r, rows'[r])
      BY <1>1, <1>2, RowsGo
    <3> QED
      BY <2>1, <3>1 DEF Goes, Quiet
  <2>2. ASSUME NEW t \in Tasks
        PROVE  /\ task'[t].last # task[t].last =>
                    /\ task'[t].last > task[t].last
                    /\ rows[task'[t].last].status = "running"
                    /\ rows'[task'[t].last].status = task'[t].shown
               /\ task'[t].enabled /\ ~task[t].enabled => task'[t].rev # task[t].rev
               /\ task[t].next # 0 /\ task'[t].next # 0 => task'[t].next >= task[t].next
    <3>1. TaskGoes(t, rows', task') /\ OnTime(t) /\ task[t].next \in Nat /\ task'[t].next \in Nat
          /\ clock \in Nat
      BY <1>2, TasksGo
    <3>2. task[t].next # 0 /\ task'[t].next # 0 => task'[t].next >= task[t].next
      <4>1. task'[t].next \in {task[t].next, 0, NextOf(t)}
        BY <3>1 DEF TaskGoes
      <4>2. IF task[t].once THEN task[t].next \in {0, RunAt} ELSE task[t].next <= clock + 1
        BY <3>1 DEF OnTime
      <4>3. IF task[t].once THEN NextOf(t) \in {0, RunAt} ELSE NextOf(t) = clock + 1
        BY DEF NextOf
      <4> QED
        BY <3>1, <4>1, <4>2, <4>3, Bounds
    <3> QED
      BY <3>1, <3>2 DEF TaskGoes
  <2> QED
    BY <2>1, <2>2 DEF OutcomesStay
<1>3. ASSUME NEW s \in Schedulers, NEW r \in Ids, NEW used \in Nat,
             Starting(s, r), MayStart(s, r, used)
      PROVE  OutcomesStay
  <2>1. rows[r].status = "queued" /\ task' = task
    BY <1>3 DEF MayStart, Starting
  <2>2. \A q \in Ids : q # r => rows'[q] = rows[q]
    BY <1>1, <1>3 DEF Starting, SchedTypes, Ids
  <2>3. \A t \in Tasks : task[t].next \in Nat
    BY <1>1, TaskFields
  <2> QED
    BY <2>1, <2>2, <2>3 DEF OutcomesStay
<1> QED
  BY <1>2, <1>3, NextIsStep

-----------------------------------------------------------------------------

(* Whatever the services do to each other's rows, an occurrence is accepted    *)
(* once and started once, the slots are not overbooked, and a replacement      *)
(* waits for the worker of the run it cancelled: for any number of services,   *)
(* tasks, rows and slots.                                                      *)
THEOREM OccurrencesStaySingle == SchedSpec => []OccurrencesRunOnce
<1>1. SchedSpec => []SchedIInv
  BY InitHolds, NextKeeps, PTL DEF SchedSpec
<1> QED
  BY <1>1, InvariantGives, PTL

(* No late completion takes back an outcome, the summary of a later run, the   *)
(* switch the user turned off, or the due time of an accepted occurrence.      *)
THEOREM OutcomesAreKept == SchedSpec => CompletionsKeepTheirPlace
<1>1. SchedSpec => []SchedIInv
  BY InitHolds, NextKeeps, PTL DEF SchedSpec
<1>2. SchedIInv /\ [SchedNext]_vars => [OutcomesStay]_vars
  BY StepsKeepOutcomes
<1> QED
  BY <1>1, <1>2, PTL DEF SchedSpec, CompletionsKeepTheirPlace

=============================================================================
