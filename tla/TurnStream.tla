------------------------------ MODULE TurnStream ------------------------------
(* One turn of a desktop chat as its window lives it: the turn puts events in *)
(* its outbox, run_turn publishes them to a RunStream, the window reads them  *)
(* through a subscription, and the user steers the running turn with messages *)
(* that it reads between two model calls or never.  The turn outlives the     *)
(* window's view of it: the view falls behind, loses its connection, times    *)
(* out, stops the turn, or leaves the chat and comes back.                    *)
EXTENDS Naturals, Sequences, FiniteSets, FiniteSetsExt

CONSTANTS
    Messages,    \* the steering messages the user writes
    MaxWork,     \* bound: tokens and tool steps the turn emits
    MaxReplay,   \* max_replay_bytes, an event counting one
    MaxBacklog,  \* max_backlog_bytes
    MaxReturns   \* bound: how often the user reopens the chat

ASSUME StreamAssumption ==
    /\ MaxReplay \in Nat \ {0} /\ MaxBacklog \in Nat /\ MaxReturns \in Nat /\ MaxWork \in Nat

VARIABLES
    turn,    \* the turn: where it is, what it has put and not published, what it saved
    inbox,   \* SteeringInbox: its messages in order, those applied, closed, registered
    stream,  \* RunStream: events published, the replay's entries, dropped, closed
    conn,    \* the window's response: still read, still subscribed, chunks waiting
    view,    \* useChat: its phase and refs, the queue, and what it has shown
    request  \* the steer request of each message, and the view that sent it

vars == <<turn, inbox, stream, conn, view, request>>

-----------------------------------------------------------------------------
(* Events and the replay *)

Event(kind, m)  == [kind |-> kind, msg |-> m]
Plain(kind)     == Event(kind, "none")
Mergeable       == {"token"}
EventKinds      == {"turn_started", "token", "step", "steering_applied", "error", "done"}

\* An entry of the replay, and a chunk on its way: the events numbered lo..hi.
Chunk(e, lo, hi) == [kind |-> e.kind, msg |-> e.msg, lo |-> lo, hi |-> hi]
Notice(kind)     == Chunk(Plain(kind), 1, 0)
Ranges(chunk)    == chunk.lo .. chunk.hi
TotalSize(chunks) ==
    LET all == Range(chunks)
    IN  Cardinality(UNION {Ranges(c) : c \in all}) + Cardinality({c \in all : c.kind \in {"progress", "lagging"}})

NoStream == [n |-> 0, entries |-> <<>>, dropped |-> FALSE, closed |-> FALSE]

\* RunStream._remember: turn_started is kept apart, a delta joins the one before
\* it, and the oldest entries go while the others are over the limit.
Joined(entries, e, n) ==
    LET last == entries[Len(entries)] IN
    IF e.kind \in Mergeable /\ entries # <<>> /\ last.kind = e.kind
    THEN [entries EXCEPT ![Len(entries)].hi = n]
    ELSE Append(entries, Chunk(e, n, n))

Trimmed(entries) ==
    LET last == Len(entries)
        fits == {i \in 1 .. last : entries[last].hi + 1 - entries[i].lo <= MaxReplay}
    IN  SubSeq(entries, Min(fits \cup {last}), last)

Remember(s, e) ==
    LET n      == s.n + 1
        joined == Joined(s.entries, e, n)
        kept   == Trimmed(joined)
    IN  IF e.kind = "turn_started"
        THEN [s EXCEPT !.n = n]
        ELSE [s EXCEPT !.n = n, !.entries = kept, !.dropped = @ \/ Len(kept) < Len(joined)]

\* RunStream.subscribe: the whole replay is waiting before the first new event.
Replay(s) ==
    (IF s.n > 0 THEN <<Chunk(Plain("turn_started"), 1, 1)>> ELSE <<>>)
    \o (IF s.dropped THEN <<Notice("progress")>> ELSE <<>>)
    \o s.entries

Subscribed(s) == [open |-> TRUE, subscribed |-> TRUE, queue |-> Replay(s)]
NoConn        == [open |-> FALSE, subscribed |-> FALSE, queue |-> <<>>]

\* Faulty: only the event that does not fit is dropped.
DeliveredDropping(c, chunk) ==
    IF c.subscribed /\ TotalSize(Append(c.queue, chunk)) <= MaxBacklog
    THEN [c EXCEPT !.queue = Append(@, chunk)] ELSE c

\* A subscriber over its backlog loses what waits and is told so.
Delivered(c, chunk) ==
    CASE ~c.subscribed -> c
      [] c.subscribed /\ TotalSize(Append(c.queue, chunk)) > MaxBacklog ->
            [c EXCEPT !.subscribed = FALSE, !.queue = <<Notice("lagging"), Notice("None")>>]
      [] OTHER -> [c EXCEPT !.queue = Append(@, chunk)]

-----------------------------------------------------------------------------
Unread == {m \in Range(inbox.messages) : m \notin inbox.applied}

NewTurn == [pc |-> "working", work |-> 0, outbox |-> <<Plain("turn_started")>>,
            stopping |-> FALSE, saved |-> {}, saveFailed |-> FALSE]
NewView == [pc |-> "streaming", target |-> 0, pending |-> {}, applied |-> {},
            queue |-> {}, elsewhere |-> {}, kept |-> {}, left |-> {}, stop |-> FALSE,
            returns |-> 0, seen |-> {}, notice |-> FALSE]

StreamInit ==
    /\ turn    = NewTurn
    /\ inbox   = [messages |-> <<>>, applied |-> {}, closed |-> FALSE, registered |-> TRUE]
    /\ stream  = NoStream
    /\ conn    = Subscribed(NoStream)
    /\ view    = NewView
    /\ request = [m \in Messages |-> [at |-> "unsent", view |-> 0]]

-----------------------------------------------------------------------------
(* The turn *)

Put(events) == IF turn.stopping THEN turn.outbox ELSE turn.outbox \o events

\* The model streams a token, or a tool reports.
Work(kind) ==
    /\ turn.pc = "working" /\ turn.work < MaxWork
    /\ turn' = [turn EXCEPT !.work = @ + 1, !.outbox = Put(<<Plain(kind)>>)]
    /\ UNCHANGED <<inbox, stream, conn, view, request>>

\* _apply_steering: what waits, the end of the messages, is read in order and announced.
ReadSteering ==
    /\ turn.pc = "working" /\ Unread # {}
    /\ LET first == Min({i \in DOMAIN inbox.messages : inbox.messages[i] \notin inbox.applied})
           fresh == SubSeq(inbox.messages, first, Len(inbox.messages))
       IN  turn' = [turn EXCEPT !.outbox = Put([i \in DOMAIN fresh |-> Event("steering_applied", fresh[i])])]
    /\ inbox' = [inbox EXCEPT !.applied = Range(inbox.messages)]
    /\ UNCHANGED <<stream, conn, view, request>>

\* The model's answer is accepted only when nothing waited to be read.
AcceptAnswer ==
    /\ turn.pc = "working" /\ Unread = {}
    /\ turn' = [turn EXCEPT !.pc = "closing"]
    /\ UNCHANGED <<inbox, stream, conn, view, request>>

\* A pause, a limit or an internal error ends it whatever waits.
GiveUp ==
    /\ turn.pc = "working"
    /\ turn' = [turn EXCEPT !.pc = "closing", !.outbox = Put(<<Plain("error")>>)]
    /\ UNCHANGED <<inbox, stream, conn, view, request>>

CloseInbox ==
    /\ turn.pc = "closing"
    /\ turn'  = [turn EXCEPT !.pc = "saving"]
    /\ inbox' = [inbox EXCEPT !.closed = TRUE]
    /\ UNCHANGED <<stream, conn, view, request>>

\* _persist_turn saves the messages that were read; then the turn says it is done.
Save ==
    /\ turn.pc = "saving"
    /\ turn' = [turn EXCEPT !.pc = "saved", !.saved = inbox.applied, !.outbox = Put(<<Plain("done")>>)]
    /\ UNCHANGED <<inbox, stream, conn, view, request>>

SaveFails ==
    /\ turn.pc = "saving"
    /\ turn' = [turn EXCEPT !.pc = "saved", !.saveFailed = TRUE, !.outbox = Put(<<Plain("error"), Plain("done")>>)]
    /\ UNCHANGED <<inbox, stream, conn, view, request>>

\* run_turn forwards the next event to the stream.
Publish ==
    /\ turn.outbox # <<>>
    /\ LET e == Head(turn.outbox) IN
       /\ turn'   = [turn EXCEPT !.outbox = Tail(@)]
       /\ stream' = Remember(stream, e)
       /\ conn'   = Delivered(conn, Chunk(e, stream.n + 1, stream.n + 1))
    /\ UNCHANGED <<inbox, view, request>>

\* Faulty: the stream is closed without telling its subscribers.
EndTurnSilently ==
    /\ turn.pc = "saved" /\ turn.outbox = <<>>
    /\ turn'   = [turn EXCEPT !.pc = "over"]
    /\ inbox'  = [inbox EXCEPT !.closed = TRUE, !.registered = FALSE]
    /\ stream' = [stream EXCEPT !.closed = TRUE]
    /\ conn'   = [conn EXCEPT !.subscribed = FALSE]
    /\ UNCHANGED <<view, request>>

\* run_turn's finally: the inbox leaves the registry and the stream is closed.
EndTurn ==
    /\ turn.pc = "saved" /\ turn.outbox = <<>>
    /\ turn'   = [turn EXCEPT !.pc = "over"]
    /\ inbox'  = [inbox EXCEPT !.closed = TRUE, !.registered = FALSE]
    /\ stream' = [stream EXCEPT !.closed = TRUE]
    /\ conn'   = IF conn.subscribed
                 THEN [conn EXCEPT !.subscribed = FALSE, !.queue = Append(@, Notice("None"))] ELSE conn
    /\ UNCHANGED <<view, request>>

\* POST /chat/stop cancels run_turn: nothing more is published, and the turn
\* saves what it has, once.
Stopped == IF turn.pc = "over" THEN turn
           ELSE [turn EXCEPT !.pc = IF @ = "working" THEN "closing" ELSE @,
                             !.stopping = TRUE, !.outbox = <<>>]

StopArrives ==
    /\ view.stop
    /\ view' = [view EXCEPT !.stop = FALSE]
    /\ turn' = Stopped
    /\ UNCHANGED <<inbox, stream, conn, request>>

\* Another window of the session stops the turn.
StopElsewhere ==
    /\ turn.pc # "over" /\ ~turn.stopping
    /\ turn' = Stopped
    /\ UNCHANGED <<inbox, stream, conn, view, request>>

StopIsLost ==
    /\ view.stop
    /\ view' = [view EXCEPT !.stop = FALSE]
    /\ UNCHANGED <<turn, inbox, stream, conn, request>>

TurnNext ==
    \/ \E kind \in {"token", "step"} : Work(kind)
    \/ ReadSteering \/ AcceptAnswer \/ GiveUp \/ CloseInbox \/ Save \/ SaveFails
    \/ Publish \/ EndTurn \/ StopArrives \/ StopElsewhere \/ StopIsLost

-----------------------------------------------------------------------------
(* The window *)

\* finalizeDone, onError, the idle timer and stopStreaming all put the messages
\* the turn is not known to have read at the front of the queue.
Ended(v) == [v EXCEPT !.pc = "ended", !.queue = @ \cup v.pending, !.pending = {}]

\* The window takes the next chunk and handles it.
Shown(chunk) ==
    LET v == [view EXCEPT !.seen = @ \cup Ranges(chunk)] IN
    CASE chunk.kind = "turn_started"     -> [v EXCEPT !.target = v.returns + 1]
      [] chunk.kind = "progress"         -> [v EXCEPT !.notice = TRUE]
      [] chunk.kind = "steering_applied" -> [v EXCEPT !.pending = @ \ {chunk.msg},
                                                      !.applied = @ \cup {chunk.msg}]
      [] chunk.kind \in {"token", "step"} -> v
      [] OTHER                            -> Ended(v)

Receive ==
    /\ view.pc = "streaming" /\ conn.open /\ conn.queue # <<>>
    /\ view' = Shown(Head(conn.queue))
    /\ conn' = IF view'.pc = "ended" THEN NoConn ELSE [conn EXCEPT !.queue = Tail(@)]
    /\ UNCHANGED <<turn, inbox, stream, request>>

Watching == view.pc \in {"opening", "streaming"}

\* The response breaks off: 'Stream error' or stream_interrupted.
LoseConnection ==
    /\ Watching
    /\ view' = [Ended(view) EXCEPT !.seen = {}] /\ conn' = NoConn
    /\ UNCHANGED <<turn, inbox, stream, request>>

\* Stop, or five silent minutes: the turn is told to end, the view ends at once.
StopStreaming ==
    /\ Watching
    /\ view' = [Ended(view) EXCEPT !.stop = TRUE, !.target = 0, !.seen = {}] /\ conn' = NoConn
    /\ UNCHANGED <<turn, inbox, stream, request>>

\* Another chat is opened: the view lets go of the turn and of what it sent it.
LeaveChat ==
    /\ Watching
    /\ view' = [view EXCEPT !.pc = "away", !.target = 0, !.left = @ \cup view.pending, !.pending = {},
                            !.applied = {}, !.seen = {}, !.notice = FALSE]
    /\ conn' = NoConn
    /\ UNCHANGED <<turn, inbox, stream, request>>

\* The chat is reopened: if the turn is listed as running the view follows it.
Reopen ==
    /\ view.pc = "away" /\ view.returns < MaxReturns
    /\ view' = [view EXCEPT !.pc = "returning", !.returns = @ + 1]
    /\ UNCHANGED <<turn, inbox, stream, conn, request>>

ListRuns ==
    /\ view.pc = "returning"
    /\ view' = IF inbox.registered
               THEN [view EXCEPT !.pc = "opening"] ELSE [view EXCEPT !.pc = "ended"]
    /\ UNCHANGED <<turn, inbox, stream, conn, request>>

Follow ==
    /\ view.pc = "opening"
    /\ view' = [view EXCEPT !.pc = IF inbox.registered THEN "streaming" ELSE "ended"]
    /\ conn' = IF inbox.registered THEN Subscribed(stream) ELSE conn
    /\ UNCHANGED <<turn, inbox, stream, request>>

\* A queued message is sent as the next turn of the chat.
NextTurn ==
    /\ view.pc = "ended" /\ view.queue # {}
    /\ view' = [view EXCEPT !.pc = "next", !.target = 0, !.pending = {}, !.applied = {}]
    /\ UNCHANGED <<turn, inbox, stream, conn, request>>

-----------------------------------------------------------------------------
(* Steering *)

\* queueMessage: for the chat of the turn, or else for the chat that is open.
Queued(v, m) == IF v.pc = "away" THEN [v EXCEPT !.elsewhere = @ \cup {m}]
                ELSE [v EXCEPT !.queue = @ \cup {m}]

Steer(m) ==
    /\ Watching /\ request[m].at = "unsent"
    /\ IF view.target # 0
       THEN request' = [request EXCEPT ![m] = [at |-> "sent", view |-> view.target]] /\ UNCHANGED view
       ELSE request' = [request EXCEPT ![m].at = "settled"] /\ view' = Queued(view, m)
    /\ UNCHANGED <<turn, inbox, stream, conn>>

\* POST /chat/steer: a closed inbox or an unregistered turn is a 409.
SteerArrives(m) ==
    /\ request[m].at = "sent"
    /\ LET open == inbox.registered /\ ~inbox.closed IN
       /\ request' = [request EXCEPT ![m].at = IF open THEN "queued" ELSE "refused"]
       /\ inbox'   = IF open THEN [inbox EXCEPT !.messages = Append(@, m)] ELSE inbox
    /\ UNCHANGED <<turn, stream, conn, view>>

\* The request or its reply is lost, or the inbox is full: the draft is kept.
SteerFails(m) ==
    /\ request[m].at \in {"sent", "queued", "refused"}
    /\ request' = [request EXCEPT ![m].at = "settled"]
    /\ view'    = [view EXCEPT !.kept = @ \cup {m}]
    /\ UNCHANGED <<turn, inbox, stream, conn>>

\* Faulty: the reply takes no notice of an announcement that came before it.
AnsweredForgetful(v, m) ==
    CASE request[m].at = "refused" \/ v.pc \notin {"opening", "streaming", "next"} -> Queued(v, m)
      [] request[m].at = "queued" /\ v.pc \in {"opening", "streaming", "next"} /\ v.target # request[m].view ->
            [v EXCEPT !.kept = @ \cup {m}]
      [] OTHER -> [v EXCEPT !.pending = @ \cup {m}]

\* Faulty: a reply that comes after the view ended waits for an announcement.
AnsweredLate(v, m) ==
    CASE request[m].at = "refused" -> Queued(v, m)
      [] request[m].at = "queued" /\ v.pc \in {"opening", "streaming", "next"} /\ v.target # request[m].view ->
            [v EXCEPT !.kept = @ \cup {m}]
      [] OTHER -> [v EXCEPT !.pending = @ \cup {m}]

\* The reply is handled by whatever the view has become: one that watches nothing
\* queues the message, one that watches another turn keeps the draft.
Answered(v, m) ==
    CASE request[m].at = "refused" \/ v.pc \notin {"opening", "streaming", "next"} -> Queued(v, m)
      [] request[m].at = "queued" /\ v.pc \in {"opening", "streaming", "next"} /\ v.target # request[m].view ->
            [v EXCEPT !.kept = @ \cup {m}]
      [] OTHER -> IF m \in v.applied THEN v ELSE [v EXCEPT !.pending = @ \cup {m}]

SteerAnswered(m) ==
    /\ request[m].at \in {"queued", "refused"}
    /\ request' = [request EXCEPT ![m].at = "settled"]
    /\ view'    = Answered(view, m)
    /\ UNCHANGED <<turn, inbox, stream, conn>>

WindowNext ==
    \/ Receive \/ LoseConnection \/ StopStreaming \/ LeaveChat \/ Reopen \/ ListRuns \/ Follow \/ NextTurn
    \/ \E m \in Messages : Steer(m) \/ SteerArrives(m) \/ SteerFails(m) \/ SteerAnswered(m)

StreamNext == TurnNext \/ WindowNext

\* The turn ends (the model and tools answer, or their timeouts do), its events
\* are published and read, and a request is answered or fails.
StreamFairness ==
    /\ WF_vars(AcceptAnswer \/ GiveUp) /\ WF_vars(CloseInbox) /\ WF_vars(Save \/ SaveFails)
    /\ WF_vars(Publish) /\ WF_vars(EndTurn) /\ WF_vars(Receive) /\ WF_vars(Follow) /\ WF_vars(ListRuns)
    /\ \A m \in Messages : WF_vars(SteerArrives(m)) /\ WF_vars(SteerAnswered(m))

StreamSpec == StreamInit /\ [][StreamNext]_vars /\ StreamFairness

-----------------------------------------------------------------------------
(* Properties *)

\* The types of the variables; in particular what is saved was read, and what was
\* read had been accepted.
StreamTypeOK ==
    /\ turn \in [pc: {"working", "closing", "saving", "saved", "over"}, work: 0 .. MaxWork,
                 outbox: Seq([kind: EventKinds, msg: Messages \cup {"none"}]),
                 stopping: BOOLEAN, saved: SUBSET inbox.applied, saveFailed: BOOLEAN]
    /\ inbox.messages \in Seq(Messages) /\ inbox.applied \subseteq Range(inbox.messages)
    /\ inbox.closed \in BOOLEAN /\ inbox.registered \in BOOLEAN
    /\ stream.n \in Nat /\ stream.dropped \in BOOLEAN /\ stream.closed \in BOOLEAN
    /\ TotalSize(stream.entries) <= MaxReplay \/ Len(stream.entries) = 1
    /\ conn.subscribed => conn.open /\ inbox.registered
    /\ view.pc \in {"streaming", "ended", "away", "returning", "opening", "next"}
    /\ view.target \in 0 .. MaxReturns + 1
    /\ view.pending \cup view.applied \cup view.queue \cup view.elsewhere \cup view.kept \cup view.left
         \subseteq Messages
    /\ view.seen \subseteq 1 .. stream.n
    /\ request \in [Messages -> [at: {"unsent", "sent", "queued", "refused", "settled"}, view: 0 .. MaxReturns + 1]]

\* A view sees the turn's events in their order and without a gap, those it was
\* given when it opened and those still waiting for it together: the only events it
\* may miss are the earliest after turn_started, and then it is told; and unless it
\* was cut off, the newest event is among them (RunStream.subscribe and publish).
ViewersSeeTheTurn ==
    LET chunks  == Range(conn.queue)
        waiting == UNION {Ranges(c) : c \in chunks}
        all     == view.seen \cup waiting
        shown(kind) == \E c \in chunks : c.kind = kind
    IN  conn.open =>
          /\ \A i, j \in DOMAIN conn.queue : i < j =>
                \A x \in Ranges(conn.queue[i]), y \in Ranges(conn.queue[j]) : x < y
          /\ \A x \in view.seen, y \in waiting : x < y
          /\ \A x, z \in all \ {1} : x .. z \subseteq all
          /\ all \ {1} # {} => 2 \in all \/ view.notice \/ shown("progress")
          /\ shown("lagging") \/ (1 .. stream.n) \cap {1, stream.n} \subseteq all

\* When the stream itself tells a view that the turn ended, the messages the view
\* then queues to run next are ones the turn did not read: every reading was
\* announced before, and a reply that came after its announcement did not undo it.
ReadIsNotSentAgain ==
    [][Receive /\ Head(conn.queue).kind \in {"error", "done"} =>
            (view'.queue \ view.queue) \cap inbox.applied = {}]_vars

\* A message sent to the running turn ends up in the history saved with the turn, in
\* the queue of what runs next, or back with the user as a draft; the exceptions the
\* code accepts are a turn whose history could not be saved and a chat the user left
\* while the message waited (useChat.ts, "its saved history shows which").
SteeringIsNotLost ==
    \A m \in Messages :
        request[m].at = "sent" ~>
            \/ m \in turn.saved \cup view.queue \cup view.elsewhere \cup view.kept \cup view.left
            \/ turn.saveFailed

\* A view that watches a turn learns of its end: by its done or error, by being cut
\* off, or by the end of the response.
ViewsEnd == Watching ~> ~Watching

\* useChat.ts: "Steering messages the agent never read run as the next turn
\* instead", so what runs next after a turn that was followed to its done event was
\* not read by the turn.
OnlyTheUnreadRunNext ==
    LET last == stream.entries[Len(stream.entries)] IN
    view.pc = "ended" /\ stream.entries # <<>> /\ last.kind = "done" /\ last.hi \in view.seen
        => view.queue \cap inbox.applied = {}
=============================================================================
