------------------------------ MODULE RunEvents ------------------------------
(***************************************************************************)
(* The durable events of runs and one viewer of a run: the event store and *)
(* its retention (event_store.py, journal.py), the pages and the event     *)
(* stream of the run routes (runs.py), and the client that replays, follows*)
(* and recovers (useRunEvents.ts).  A request and its answer are two steps: *)
(* the log moves, is pruned and is read by others in between.              *)
(***************************************************************************)
EXTENDS Naturals, Sequences, FiniteSets, FiniteSetsExt

CONSTANTS
    Runs,        \* runs of the database
    Watched,     \* the run the viewer follows
    PageSize,    \* events of a page
    MaxPerRun,   \* max_events_per_run of the retention
    MaxTotal,    \* max_total_events
    MaxSeq,      \* bound: events of a run
    MaxFaults    \* bound: requests and connections that are lost

ASSUME ViewerAssumption ==
    /\ Watched \in Runs /\ MaxSeq \in Nat
    /\ PageSize \in Nat \ {0} /\ MaxPerRun \in Nat \ {0} /\ MaxTotal \in Nat \ {0}

VARIABLES
    log,        \* the retained events of each run, by their seq
    lastSeq,    \* last_seq of each run
    finished,   \* the terminal runs, in the order they finished
    view,       \* cursor and bySequence of the viewer, and what a snapshot covers
    main,       \* its main loop and the stream handler, which it waits for
    sync,       \* pageSync, shared by the main loop, the handler and refresh
    conn,       \* the server's side of the stream, or the message it ended with
    wire,       \* the events it sent and the viewer has not read
    faults      \* requests and connections lost so far

store  == <<log, lastSeq, finished>>
server == <<conn, wire>>
vars   == <<store, view, main, sync, server, faults>>

Terminal(r) == \E i \in DOMAIN finished : finished[i] = r
Snapshot    == [last |-> lastSeq[Watched], terminal |-> Terminal(Watched)]

Unanswered  == [last |-> 0, terminal |-> FALSE]
SyncOff     == [pc |-> "off", from |-> 0, page |-> {}, run |-> Unanswered]
NoStream    == [pc |-> "closed", cursor |-> 0, run |-> Unanswered]

EventsInit ==
    /\ log = [r \in Runs |-> {}] /\ lastSeq = [r \in Runs |-> 0] /\ finished = <<>>
    /\ view = [cursor |-> 0, held |-> {}, base |-> 0]
    /\ main = [pc |-> "waiting", from |-> 0, pending |-> 0, run |-> Unanswered]
    /\ sync = SyncOff /\ conn = NoStream /\ wire = <<>> /\ faults = 0

------------------------------------------------------------------------------
(* The store.                                                                *)

(* A finished run still gets the events of its undos.                        *)
AppendEvent(r) ==
    /\ lastSeq[r] + 1 < MaxSeq \/ (Terminal(r) /\ lastSeq[r] < MaxSeq)
    /\ lastSeq' = [lastSeq EXCEPT ![r] = @ + 1]
    /\ log' = [log EXCEPT ![r] = @ \cup {lastSeq[r] + 1}]
    /\ UNCHANGED <<finished, view, main, sync, server, faults>>

(* The move to a terminal status is an event itself.                         *)
FinishRun(r) ==
    /\ ~Terminal(r) /\ lastSeq[r] < MaxSeq
    /\ lastSeq' = [lastSeq EXCEPT ![r] = @ + 1]
    /\ log' = [log EXCEPT ![r] = @ \cup {lastSeq[r] + 1}]
    /\ finished' = Append(finished, r)
    /\ UNCHANGED <<view, main, sync, server, faults>>

Newest(set, n) == {e \in set : Cardinality({f \in set : f > e}) < n}
Oldest(set, n) == {e \in set : Cardinality({f \in set : f < e}) < n}

(* The rows over the total are not taken from the front.                     *)
OverTotalByTime(kept) ==
    LET terminal == {r \in Runs : Terminal(r)}
        total    == Cardinality(UNION {{r} \X kept[r] : r \in terminal})
    IN  [r \in Runs |-> IF Terminal(r) /\ total > MaxTotal
                        THEN Newest(kept[r], total - MaxTotal) ELSE {}]

(* The total bound takes prefixes of the runs that finished first.           *)
OverTotal(kept) ==
    LET terminal == {r \in Runs : Terminal(r)}
        place(r) == CHOOSE i \in DOMAIN finished : finished[i] = r
        rows(S)  == Cardinality(UNION {{r} \X kept[r] : r \in S})
        older(r) == rows({q \in terminal : place(q) < place(r)})
    IN  [r \in Runs |-> IF Terminal(r) THEN Oldest(kept[r], rows(terminal) - MaxTotal - older(r)) ELSE {}]

(* enforce_terminal_event_retention, when the first n terminal runs are of   *)
(* age: all their events go, then those over the bounds.                     *)
EnforceRetention(n) ==
    LET aged == {finished[i] : i \in 1 .. n}
        kept == [r \in Runs |-> CASE ~Terminal(r) -> log[r]
                                  [] r \in aged   -> {}
                                  [] OTHER        -> Newest(log[r], MaxPerRun)]
    IN  /\ log' = [r \in Runs |-> kept[r] \ OverTotal(kept)[r]]
        /\ log' # log
        /\ UNCHANGED <<lastSeq, finished, view, main, sync, server, faults>>

(* read_events: a page, unless the cursor predates it or it has a hole.      *)
Page(after)    == Oldest({e \in log[Watched] : e > after}, PageSize)
Expired(after) ==
    /\ after < lastSeq[Watched]
    /\ Page(after) = {} \/ Page(after) # after + 1 .. after + Cardinality(Page(after))

------------------------------------------------------------------------------
(* The stream of the server: each turn of its loop reads the run, then a     *)
(* page.                                                                     *)

StreamReadsRun ==
    /\ conn.pc = "run"
    /\ conn' = [conn EXCEPT !.pc = "page", !.run = Snapshot]
    /\ UNCHANGED <<store, view, main, sync, wire, faults>>

LastMessages   == {"events_expired", "auth_expired", "end"}
Ending(message) == [NoStream EXCEPT !.pc = message]
InOrder(set) == [i \in 1 .. Cardinality(set) |-> CHOOSE e \in set : Cardinality({f \in set : f < e}) = i - 1]

(* A run whose last event was just sent is not over yet.                     *)
StreamReadsPageEndless ==
    LET page == Page(conn.cursor) IN
    /\ conn.pc = "page"
    /\ IF Expired(conn.cursor)
       THEN conn' = Ending("events_expired") /\ UNCHANGED wire
       ELSE IF page = {} /\ conn.run.terminal /\ conn.run.last < conn.cursor
       THEN conn' = Ending("end") /\ UNCHANGED wire
       ELSE /\ wire' = wire \o InOrder(page)
            /\ conn' = [conn EXCEPT !.pc = "run", !.cursor = @ + Cardinality(page)]
    /\ UNCHANGED <<store, view, main, sync, faults>>

StreamReadsPage ==
    LET page == Page(conn.cursor)
        sent == conn.cursor + Cardinality(page) IN
    /\ conn.pc = "page"
    /\ IF Expired(conn.cursor)
       THEN conn' = Ending("events_expired") /\ UNCHANGED wire
       ELSE IF page = {} /\ conn.run.terminal /\ conn.run.last <= conn.cursor
       THEN conn' = Ending("end") /\ UNCHANGED wire
       ELSE wire' = wire \o InOrder(page) /\ conn' = [conn EXCEPT !.pc = "run", !.cursor = sent]
    /\ UNCHANGED <<store, view, main, sync, faults>>

Fault == faults < MaxFaults /\ faults' = faults + 1

(* The control session expires, or the run may no longer be read.            *)
StreamGivesUp ==
    /\ Fault
    /\ conn.pc \in {"run", "page"}
    /\ \E message \in {"auth_expired", "end"} : conn' = Ending(message)
    /\ UNCHANGED <<store, view, main, sync, wire>>

------------------------------------------------------------------------------
(* The viewer.  Between two awaits it runs alone.                            *)

Published(w, e) ==
    IF e <= w.cursor THEN w ELSE [w EXCEPT !.cursor = e, !.held = @ \cup {e}]

PublishedPage(w, page) ==
    IF \A e \in page : e <= w.cursor THEN w
    ELSE [w EXCEPT !.cursor = Max(page), !.held = @ \cup {e \in page : e > w.cursor}]

(* recoverExpiredCursor, when the snapshot has come.                         *)
Recovered(run) == [cursor |-> run.last, held |-> {}, base |-> run.last]

MainAt(pc) == [main EXCEPT !.pc = pc, !.run = Unanswered, !.pending = 0]
Connecting(w) == [MainAt("connect") EXCEPT !.from = w.cursor]

(* syncPages ends with the view w: those who wait for it go on.              *)
SyncEnds(w) ==
    /\ sync' = SyncOff
    /\ \/ main.pc = "sync" /\ main' = Connecting(w) /\ view' = w
       \/ /\ main.pc = "gap" /\ main.pending > w.cursor + 1
          /\ main' = MainAt("gap recover") /\ view' = w
       \/ /\ main.pc = "gap" /\ main.pending <= w.cursor + 1
          /\ main' = MainAt("reading") /\ view' = Published(w, main.pending)
       \/ main.pc \notin {"sync", "gap"} /\ UNCHANGED main /\ view' = w

Asking == IF sync.pc = "off" THEN [SyncOff EXCEPT !.pc = "asked", !.from = view.cursor] ELSE sync

(* refresh.                                                                  *)
Refresh ==
    /\ main.pc # "done" /\ sync.pc = "off"
    /\ sync' = Asking
    /\ UNCHANGED <<store, view, main, server, faults>>

AnswerPage ==
    /\ sync.pc = "asked"
    /\ sync' = IF Expired(sync.from) THEN [SyncOff EXCEPT !.pc = "recover"]
               ELSE [SyncOff EXCEPT !.pc = "page", !.page = Page(sync.from)]
    /\ UNCHANGED <<store, view, main, server, faults>>

GotPage ==
    LET w == PublishedPage(view, sync.page) IN
    /\ sync.pc = "page"
    /\ IF \E e \in sync.page : e > view.cursor + 1 /\ e - 1 \notin sync.page
       THEN sync' = [SyncOff EXCEPT !.pc = "recover"] /\ UNCHANGED <<view, main>>
       ELSE IF Cardinality(sync.page) < PageSize THEN SyncEnds(w)
       ELSE /\ sync' = [SyncOff EXCEPT !.pc = "asked", !.from = w.cursor]
            /\ view' = w /\ UNCHANGED main
    /\ UNCHANGED <<store, server, faults>>

AnswerRunToSync ==
    /\ sync.pc = "recover"
    /\ sync' = [sync EXCEPT !.pc = "run", !.run = Snapshot]
    /\ UNCHANGED <<store, view, main, server, faults>>

GotRunForSync ==
    /\ sync.pc = "run"
    /\ SyncEnds(Recovered(sync.run))
    /\ UNCHANGED <<store, server, faults>>

(* Those who wait for pageSync fail with it.                                 *)
SyncFails ==
    /\ Fault
    /\ sync.pc # "off"
    /\ sync' = SyncOff
    /\ IF main.pc \in {"sync", "gap"}
       THEN main' = MainAt("waiting") /\ conn' = NoStream /\ wire' = <<>>
       ELSE UNCHANGED <<main, server>>
    /\ UNCHANGED <<store, view>>

(* The loop: pages first, then the stream from where they end.               *)
Reconnect ==
    /\ main.pc = "waiting"
    /\ main' = MainAt("sync") /\ sync' = Asking
    /\ UNCHANGED <<store, view, server, faults>>

(* The route of the stream looks at the cursor before it answers.            *)
Connect ==
    /\ main.pc = "connect"
    /\ IF Expired(main.from) THEN main' = MainAt("recover") /\ UNCHANGED conn
       ELSE main' = MainAt("reading") /\ conn' = [NoStream EXCEPT !.pc = "run", !.cursor = main.from]
    /\ UNCHANGED <<store, view, sync, wire, faults>>

(* The handler publishes without looking for a gap.                          *)
HandleStreamEventAnyway ==
    /\ main.pc = "reading" /\ wire # <<>>
    /\ wire' = Tail(wire)
    /\ view' = Published(view, Head(wire))
    /\ UNCHANGED <<store, main, sync, conn, faults>>

(* handleStreamEvent.                                                        *)
HandleStreamEvent ==
    /\ main.pc = "reading" /\ wire # <<>>
    /\ wire' = Tail(wire)
    /\ IF Head(wire) > view.cursor + 1
       THEN /\ main' = [MainAt("gap") EXCEPT !.pending = Head(wire)]
            /\ sync' = Asking /\ UNCHANGED view
       ELSE view' = Published(view, Head(wire)) /\ UNCHANGED <<main, sync>>
    /\ UNCHANGED <<store, conn, faults>>

StreamEnds ==
    /\ main.pc = "reading" /\ wire = <<>> /\ conn.pc \in LastMessages
    /\ main' = MainAt(CASE conn.pc = "events_expired" -> "recover"
                         [] conn.pc = "auth_expired"   -> "waiting"
                         [] conn.pc = "end"            -> "ended")
    /\ conn' = NoStream
    /\ UNCHANGED <<store, view, sync, wire, faults>>

AnswerRun ==
    /\ main.pc \in {"recover", "gap recover", "ended"}
    /\ main' = [main EXCEPT !.run = Snapshot,
                            !.pc = CASE main.pc = "ended"   -> "ended run"
                                     [] main.pc = "recover" -> "recover run"
                                     [] OTHER               -> "gap run"]
    /\ UNCHANGED <<store, view, sync, server, faults>>

(* The snapshot goes to onSnapshot; a terminal one ends the loop.            *)
GotRun ==
    /\ \/ main.pc = "ended run" /\ UNCHANGED view
          /\ main' = MainAt(IF main.run.terminal THEN "done" ELSE "waiting")
       \/ main.pc = "recover run" /\ main' = MainAt("waiting") /\ view' = Recovered(main.run)
       \/ main.pc = "gap run" /\ main' = MainAt("reading") /\ view' = Recovered(main.run)
    /\ UNCHANGED <<store, sync, server, faults>>

(* A request of the loop or its connection is lost.                          *)
MainFails ==
    /\ Fault
    /\ main.pc \notin {"waiting", "sync", "gap", "done"}
    /\ main' = MainAt("waiting") /\ conn' = NoStream /\ wire' = <<>>
    /\ UNCHANGED <<store, view, sync>>

Viewer ==
    \/ GotPage \/ GotRunForSync \/ Reconnect \/ HandleStreamEvent \/ StreamEnds \/ GotRun
Server == StreamReadsRun \/ StreamReadsPage
Answer == AnswerPage \/ AnswerRunToSync \/ Connect \/ AnswerRun

EventsNext ==
    \/ \E r \in Runs : AppendEvent(r) \/ FinishRun(r)
    \/ \E n \in 0 .. Len(finished) : EnforceRetention(n)
    \/ Viewer \/ Refresh \/ Server \/ Answer
    \/ StreamGivesUp \/ SyncFails \/ MainFails

(* The client's event loop runs, the server answers requests and turns the   *)
(* loop of an open stream.  Nothing makes a run go on or retention happen.   *)
EventsFairness ==
    /\ WF_vars(Reconnect) /\ WF_vars(HandleStreamEvent \/ StreamEnds \/ GotRun)
    /\ WF_vars(GotPage \/ GotRunForSync) /\ WF_vars(AnswerPage \/ AnswerRunToSync)
    /\ WF_vars(Connect \/ AnswerRun) /\ WF_vars(StreamReadsRun) /\ WF_vars(StreamReadsPage)

EventsSpec == EventsInit /\ [][EventsNext]_vars /\ EventsFairness

------------------------------------------------------------------------------
(* Properties.                                                               *)

(* The shape of the state, and that a cursor never passes the latest event.  *)
EventsTypeOK ==
    LET Seqs == 0 .. MaxSeq
        RunAnswers == [last : Seqs, terminal : BOOLEAN] IN
    /\ lastSeq \in [Runs -> Seqs]
    /\ \A r \in Runs : log[r] \subseteq 1 .. lastSeq[r]
    /\ \A i \in DOMAIN finished : finished[i] \in Runs
    /\ view.cursor \in 0 .. lastSeq[Watched] /\ view.held \subseteq Seqs /\ view.base \in Seqs
    /\ main \in [pc : {"waiting", "sync", "connect", "reading", "gap", "gap recover", "gap run",
                       "recover", "recover run", "ended", "ended run", "done"},
                 from : Seqs, pending : Seqs, run : RunAnswers]
    /\ sync \in [pc : {"off", "asked", "page", "recover", "run"}, from : Seqs,
                 page : SUBSET Seqs, run : RunAnswers]
    /\ conn \in [pc : {"closed", "run", "page"} \cup LastMessages, cursor : 0 .. lastSeq[Watched], run : RunAnswers]
    /\ \A i \in DOMAIN wire : wire[i] \in Seqs

(* Retention takes nothing from a run that is not over, and only from the    *)
(* front of one that is: a hole inside a history would not be noticed by a   *)
(* cursor in front of it.                                                    *)
HistoriesAreSuffixes ==
    \A r \in Runs :
        /\ ~Terminal(r) => log[r] = 1 .. lastSeq[r]
        /\ \A e \in log[r] : e .. lastSeq[r] \subseteq log[r]

(* Whatever is lost, pruned or read twice by refresh and the stream, the     *)
(* viewer is shown what RunFeed allows: no event skipped in silence.         *)
Feed == INSTANCE RunFeed WITH last <- lastSeq[Watched], ended <- Terminal(Watched),
            base <- view.base, held <- view.held, done <- main.pc = "done"
ShowsTheFeed == Feed!FeedSpec

(* A viewer of a run that is over stops following, with its last snapshot.   *)
ViewerLearnsTheEnd == Terminal(Watched) ~> main.pc = "done"
=============================================================================
