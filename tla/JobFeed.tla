------------------------------- MODULE JobFeed -------------------------------
(* A detached job of job_manager.py: it appends its events to a bounded log   *)
(* and to the bounded queue of whoever follows it; a follower first replays   *)
(* the log after the last event it has, then reads its queue, and comes back  *)
(* with Last-Event-ID when its response ends.                                 *)
EXTENDS Naturals, Sequences, FiniteSets, FiniteSetsExt

CONSTANTS
    MaxLog,     \* MAX_LOG_EVENTS
    MaxQueue,   \* MAX_SUBSCRIBER_QUEUE_EVENTS
    MaxSteps    \* bound: events of the run before its end

ASSUME JobAssumption == MaxLog \in Nat \ {0} /\ MaxQueue \in Nat /\ MaxSteps \in Nat

VARIABLES
    job,    \* the task, its status, its log, the next sequence number, events dropped
    feed    \* the follower: its response, what it replays and what waits, what it has

jobVars == <<job, feed>>

Terminal == {"done", "cancelled", "error"}
Ends     == {"done", "paused_done", "error"}   \* paused_done is a done that is incomplete

JobInit ==
    /\ job  = [task |-> "none", status |-> "running", log |-> <<>>, seq |-> 0, dropped |-> 0]
    /\ feed = [pc |-> "off", replay |-> <<>>, queue |-> <<>>, got |-> 0, seen |-> {}]

\* JobState.transition: a final status is kept.
Transition(j, status) == IF j.status \in Terminal THEN j ELSE [j EXCEPT !.status = status]

StatusAfter(kind) == CASE kind = "done" -> "done" [] kind = "paused_done" -> "paused" [] kind = "error" -> "error"

-----------------------------------------------------------------------------
(* The job.  Its lock is never held across an await, so an append is atomic. *)

State == [job |-> job, feed |-> feed]

\* Faulty: a full queue loses its oldest event instead, and nothing is counted.
AppendedOver(s, kind) ==
    LET entry == [seq |-> s.job.seq + 1, kind |-> kind]
        log   == Append(s.job.log, entry)
        registered == s.feed.pc \in {"replaying", "live"}
        full  == registered /\ Len(s.feed.queue) >= MaxQueue
        j     == [s.job EXCEPT !.seq = @ + 1, !.log = IF Len(log) > MaxLog THEN Tail(log) ELSE log]
    IN  [job  |-> IF kind \in Ends THEN Transition(j, StatusAfter(kind)) ELSE j,
         feed |-> IF ~registered THEN s.feed
                  ELSE [s.feed EXCEPT !.queue = Append(IF full THEN Tail(@) ELSE @, entry)]]

\* append_event: the log keeps the newest entries, a full queue loses the event,
\* and a done or an error settles the job.
Appended(s, kind) ==
    LET entry == [seq |-> s.job.seq + 1, kind |-> kind]
        log   == Append(s.job.log, entry)
        registered == s.feed.pc \in {"replaying", "live"}
        full  == registered /\ Len(s.feed.queue) >= MaxQueue
        j     == [s.job EXCEPT !.seq = @ + 1, !.dropped = IF full THEN @ + 1 ELSE @,
                               !.log = IF Len(log) > MaxLog THEN Tail(log) ELSE log]
    IN  [job  |-> IF kind \in Ends THEN Transition(j, StatusAfter(kind)) ELSE j,
         feed |-> IF registered /\ ~full THEN [s.feed EXCEPT !.queue = Append(@, entry)] ELSE s.feed]

Become(s) == job' = s.job /\ feed' = s.feed

\* run_job creates the task; it runs from a later turn of the event loop.
RunJob ==
    /\ job.task = "none"
    /\ job' = [job EXCEPT !.task = "created"] /\ UNCHANGED feed

Drive ==
    /\ job.task = "created"
    /\ job' = [job EXCEPT !.task = "running"] /\ UNCHANGED feed

\* The run yields an event; after its done the job reads no further.
Emit(kind) ==
    /\ job.task = "running"
    /\ kind \notin {"done", "paused_done"} => job.seq < MaxSteps
    /\ LET s == Appended(State, kind)
       IN  Become([s EXCEPT !.job.task = IF kind \in {"done", "paused_done"} THEN "over" ELSE @])

\* A cancelled or failed run ends with an error and a done of its own.
EndWith(status) ==
    /\ job.task = "running"
    /\ LET s == Appended(Appended([State EXCEPT !.job = Transition(job, status)], "error"), "done")
       IN  Become([s EXCEPT !.job.task = "over"])

\* A task cancelled before it first ran never reaches its handlers.
CancelUnstarted ==
    /\ job.task = "created"
    /\ job' = [job EXCEPT !.task = "over"] /\ UNCHANGED feed

-----------------------------------------------------------------------------
(* The follower *)

\* The end of a log from its first entry with a higher number.
From(log, got) ==
    LET later == {i \in DOMAIN log : log[i].seq > got}
    IN  IF later = {} THEN <<>> ELSE SubSeq(log, Min(later), Len(log))

\* subscribe: what the log still has after Last-Event-ID, and from now on the queue.
Subscribe ==
    /\ feed.pc = "off"
    /\ feed' = [feed EXCEPT !.pc = "replaying", !.queue = <<>>, !.replay = From(job.log, feed.got)]
    /\ UNCHANGED job

Took(f, entry) == [f EXCEPT !.got = entry.seq, !.seen = @ \cup {entry.seq}]

ReplayNext ==
    /\ feed.pc = "replaying" /\ feed.replay # <<>>
    /\ feed' = [Took(feed, Head(feed.replay)) EXCEPT !.replay = Tail(@)]
    /\ UNCHANGED job

\* Faulty: after the replay the follower always waits for what comes.
ReplayEndsLive ==
    /\ feed.pc = "replaying" /\ feed.replay = <<>>
    /\ feed' = [feed EXCEPT !.pc = "live"]
    /\ UNCHANGED job

\* After the replay a job that no longer runs ends the response, whatever waits.
ReplayEnds ==
    /\ feed.pc = "replaying" /\ feed.replay = <<>>
    /\ feed' = IF job.status = "running" THEN [feed EXCEPT !.pc = "live"]
               ELSE [feed EXCEPT !.pc = "off", !.queue = <<>>]
    /\ UNCHANGED job

Live ==
    /\ feed.pc = "live" /\ feed.queue # <<>>
    /\ LET entry == Head(feed.queue)
           f     == [Took(feed, entry) EXCEPT !.queue = Tail(@)]
       IN  feed' = IF entry.kind \in Ends THEN [f EXCEPT !.pc = "off", !.queue = <<>>] ELSE f
    /\ UNCHANGED job

Disconnect ==
    /\ feed.pc \in {"replaying", "live"}
    /\ feed' = [feed EXCEPT !.pc = "off", !.replay = <<>>, !.queue = <<>>]
    /\ UNCHANGED job

JobNext ==
    \/ RunJob \/ Drive \/ CancelUnstarted
    \/ \E kind \in {"step"} \cup Ends : Emit(kind)
    \/ \E status \in {"cancelled", "error"} : EndWith(status)
    \/ Subscribe \/ ReplayNext \/ ReplayEnds \/ Live \/ Disconnect

\* The run ends; the follower comes back, and not every response breaks off before
\* it has brought anything.
JobFairness ==
    /\ WF_jobVars(RunJob) /\ WF_jobVars(Drive)
    /\ WF_jobVars(\E kind \in {"done", "paused_done"} : Emit(kind))
    /\ WF_jobVars(Subscribe) /\ SF_jobVars(ReplayNext \/ ReplayEnds \/ Live)

JobSpec == JobInit /\ [][JobNext]_jobVars /\ JobFairness

-----------------------------------------------------------------------------
(* Properties *)

\* A follower sees the job's events once and in order, and no more of those before
\* its Last-Event-ID escape it than the job counted as dropped or than the log has
\* let go of (JobState.append_event and subscribe).
MissesAreCounted ==
    LET ahead == feed.replay \o feed.queue IN
    /\ feed.got \in {0} \cup feed.seen /\ feed.seen \subseteq 1 .. job.seq
    /\ \A i \in DOMAIN job.log : job.log[i].seq = job.seq - Len(job.log) + i
    /\ Len(job.log) <= MaxLog /\ Len(feed.queue) <= MaxQueue
    /\ \A i, j \in DOMAIN ahead : i < j => ahead[i].seq < ahead[j].seq
    /\ \A i \in DOMAIN ahead : feed.got < ahead[i].seq
    /\ Cardinality((1 .. feed.got) \ feed.seen) <= job.dropped + (job.seq - Len(job.log))

\* A follower that keeps coming back gets, once the job has ended, its last event and the
\* end of its response: also one whose response ended right after its replay.  Two
\* endings escape it: an event dropped from its queue may be the done it waits for, and a
\* job cancelled before it started ends with neither an event nor a status.
FollowersCatchUp ==
    (job.task = "over") ~>
        \/ feed.pc = "off" /\ feed.got = job.seq /\ job.status # "running"
        \/ job.dropped > 0 \/ (job.seq = 0 /\ job.status = "running")
=============================================================================
