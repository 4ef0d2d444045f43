---------------------------- MODULE TelegramChats ----------------------------
(***************************************************************************)
(* The Telegram bot (integrations/telegram): the service that owns one     *)
(* application and restarts it when its settings change (service.py), the  *)
(* handlers of the updates of one chat (bridge.py), the conversation and   *)
(* the overrides the chat has chosen (session.py, agent_bridge.py), and    *)
(* the turns it starts.  The library hands an application's updates to its *)
(* handlers one after the other; stopping an application works off the     *)
(* updates it has fetched.                                                 *)
(***************************************************************************)
EXTENDS Naturals, Sequences, FiniteSets

CONSTANTS
    MaxBots,         \* applications built
    MaxUpdates,      \* updates sent by the chat
    MaxFailures,     \* saves of the Telegram settings, failures and crashes, in all
    ChatRateLimit    \* messages of a window (8 of a user and 12 of a chat)

ASSUME TelegramAssumption ==
    MaxBots \in Nat \ {0} /\ MaxUpdates \in Nat /\ MaxFailures \in Nat /\ ChatRateLimit \in Nat \ {0}

VARIABLES
    allowed,    \* settings: whether the chat is on the allowlist
    service,    \* the application the service owns, 0 for none
    saves,      \* the requests that save the settings
    bots,       \* the applications
    updates,     \* the updates nobody has fetched
    store,      \* the chat's conversation and the overrides of each
    asked,     \* the permission a turn asked for
    past        \* updates sent, troubles; history

telegramVars == <<allowed, service, saves, bots, updates, store, asked, past>>

Bots    == 1..MaxBots
Savers  == 1..2
Slots   == 1..2
Convs   == 1..(MaxUpdates + 1)      \* 1 is the chat's first conversation, /new makes the others
MessageKinds   == {"message", "new", "resume", "status", "models", "modeldefault", "effort", "compact"}
Models  == {"full", "narrow"}
Efforts == [m \in Models |-> {"low", "medium"} \cup (IF m = "full" THEN {"max"} ELSE {})]
NoChoice == [model |-> "none", effort |-> "none"]
IdleHandler    == [pc |-> "idle", kind |-> "none", upload |-> 0, conv |-> 0, model |-> "none", effort |-> "none"]
NoBot   == [phase |-> "unbuilt", allowed |-> FALSE, queue |-> <<>>, recent |-> 0,
            handlers |-> [i \in Slots |-> IdleHandler]]

TelegramInit ==
    /\ allowed = TRUE /\ service = 1
    /\ saves = [s \in Savers |-> [pc |-> "idle", bot |-> 0]]
    /\ bots = [b \in Bots |-> IF b = 1 THEN [NoBot EXCEPT !.phase = "running", !.allowed = TRUE] ELSE NoBot]
    /\ updates = <<>>
    /\ store = [current |-> 0, made |-> 1, choice |-> [c \in Convs |-> NoChoice]]
    /\ asked = "none"
    /\ past = [sent |-> 0, troubles |-> 0, failed |-> FALSE, apart |-> FALSE, pressed |-> "no"]

UpPhases      == {"polling", "running", "stopping", "left"}
Noted(bs)  == [past EXCEPT !.apart = @ \/ Cardinality({b \in Bots : bs[b].phase \in UpPhases}) > 1]
MayFail == past.troubles < MaxFailures
Failed   == [past EXCEPT !.troubles = @ + 1, !.failed = TRUE]
Current    == IF store.current = 0 THEN 1 ELSE store.current
Remembered == [store EXCEPT !.current = Current]     \* reading the current conversation stores it

\* The library's default: one update of an application at a time.
Sequential(b) == \A i \in Slots : bots[b].handlers[i].pc = "idle"

------------------------------------------------------------------------------
(* The service: a save restarts the bot, stop first, then start.             *)

\* What start does before it first waits: a bot that another save has started meanwhile is kept,
\* else one is built, with the allowlist of this moment.
Build(s, bs, allowlist) ==
    IF service # 0 /\ bs[service].phase = "running"
      THEN /\ saves' = [saves EXCEPT ![s] = [pc |-> "idle", bot |-> 0]]
           /\ bots' = bs
      ELSE \E b \in Bots :
           /\ bs[b].phase = "unbuilt" /\ \A c \in Bots : c < b => bs[c].phase # "unbuilt"
           /\ bots' = [bs EXCEPT ![b].phase = "built", ![b].allowed = allowlist]
           /\ saves' = [saves EXCEPT ![s] = [pc |-> "initialize", bot |-> b]]

\* A save that finds no bot owned has nothing to stop, and starts one at once.
UpdateSettings(s) ==
    /\ saves[s].pc = "idle" /\ MayFail
    /\ \E a \in BOOLEAN :
        /\ allowed' = a
        /\ IF service = 0
             THEN Build(s, bots, a)
             ELSE saves' = [saves EXCEPT ![s] = [pc |-> "stop", bot |-> service]] /\ UNCHANGED bots
    /\ service' = 0
    /\ past' = [past EXCEPT !.troubles = @ + 1]
    /\ UNCHANGED <<updates, store, asked>>

StopPolling(s) ==
    /\ saves[s].pc = "stop"
    /\ saves' = [saves EXCEPT ![s].pc = "drain"]
    /\ bots' = [bots EXCEPT ![saves[s].bot].phase = "stopping"]
    /\ UNCHANGED <<allowed, service, updates, store, asked, past>>

\* The failure is logged, the application left as it is, and another one started.
StopFails(s) ==
    /\ saves[s].pc = "stop" /\ MayFail
    /\ Build(s, [bots EXCEPT ![saves[s].bot].phase = "left"], allowed)
    /\ past' = Failed
    /\ UNCHANGED <<allowed, service, updates, store, asked>>

\* The application's stop returns when its updates are worked off.
Drained(s) ==
    /\ saves[s].pc = "drain"
    /\ LET b == saves[s].bot IN
        /\ bots[b].queue = <<>> /\ Sequential(b)
        /\ Build(s, [bots EXCEPT ![b].phase = "gone"], allowed)
    /\ UNCHANGED <<allowed, service, updates, store, asked, past>>

Startup(s) ==
    /\ saves[s].pc = "startup"
    /\ Build(s, bots, allowed)
    /\ UNCHANGED <<allowed, service, updates, store, asked, past>>

\* Polling begins with dropping what is pending.
StartPolling(s) ==
    /\ saves[s].pc = "initialize"
    /\ bots' = [bots EXCEPT ![saves[s].bot].phase = "polling"]
    /\ saves' = [saves EXCEPT ![s].pc = "polling"]
    /\ updates' = <<>>
    /\ past' = Noted(bots')
    /\ UNCHANGED <<allowed, service, store, asked>>

PollingStarted(s) ==
    /\ saves[s].pc = "polling"
    /\ bots' = [bots EXCEPT ![saves[s].bot].phase = "running"]
    /\ service' = saves[s].bot
    /\ saves' = [saves EXCEPT ![s] = [pc |-> "idle", bot |-> 0]]
    /\ UNCHANGED <<allowed, updates, store, asked, past>>

\* An application that polls cannot be shut down: it is left polling, with nobody to handle.
StartFails(s) ==
    /\ saves[s].pc \in {"initialize", "polling"} /\ MayFail
    /\ bots' = [bots EXCEPT ![saves[s].bot].phase = IF @ = "polling" THEN "polling" ELSE "gone"]
    /\ service' = 0
    /\ saves' = [saves EXCEPT ![s] = [pc |-> "idle", bot |-> 0]]
    /\ past' = Failed
    /\ UNCHANGED <<allowed, updates, store, asked>>

------------------------------------------------------------------------------
(* Updates: sent by the chat, fetched by whoever polls, handled in turn.      *)

Send(kind) ==
    /\ past.sent < MaxUpdates
    /\ kind = "press" => asked \notin {"none", "unseen"}
    /\ updates' = Append(updates, kind)
    /\ past' = [past EXCEPT !.sent = @ + 1]
    /\ UNCHANGED <<allowed, service, saves, bots, store, asked>>

Fetch(b) ==
    /\ bots[b].phase \in {"polling", "running", "left"} /\ updates # <<>>
    /\ bots' = [bots EXCEPT ![b].queue = Append(@, Head(updates))]
    /\ updates' = Tail(updates)
    /\ UNCHANGED <<allowed, service, saves, store, asked, past>>

FreeSlot(b) == CHOOSE i \in Slots : bots[b].handlers[i].pc = "idle"
Locked(b)   == \E i \in Slots : bots[b].handlers[i].kind = "message"

(* Faulty: updates are handled concurrently. *)
MayTakeConcurrently(b) == \E i \in Slots : bots[b].handlers[i].pc = "idle"

MayTake(b) == Sequential(b)

\* Refused at once: a chat that is not allowed, and a message beside another one.
Take(b) ==
    /\ bots[b].phase \in {"running", "stopping", "left"} /\ bots[b].queue # <<>> /\ MayTake(b)
    /\ LET kind == Head(bots[b].queue)
           heard == bots[b].allowed /\ ~(kind = "message" /\ Locked(b))
           first == IF kind = "compact" THEN "locate" ELSE kind
       IN  bots' = [bots EXCEPT ![b].queue = Tail(@),
                        ![b].handlers[FreeSlot(b)] =
                            IF heard THEN [IdleHandler EXCEPT !.kind = kind, !.pc = first] ELSE IdleHandler]
    /\ UNCHANGED <<allowed, service, saves, updates, store, asked, past>>

HandlerAt(b, i, pc) == bots[b].handlers[i].pc = pc
Step(b, i, h) == bots' = [bots EXCEPT ![b].handlers[i] = h]
OnlyStore    == UNCHANGED <<allowed, service, saves, updates, asked, past>>

\* /new, /resume, and the commands that show the chat.
NewSession(b, i) ==
    /\ HandlerAt(b, i, "new") /\ store.made + 1 \in Convs     \* there is one for each update
    /\ Step(b, i, IdleHandler)
    /\ store' = [store EXCEPT !.made = @ + 1, !.current = store.made + 1]
    /\ OnlyStore

ResumeSession(b, i) ==
    /\ HandlerAt(b, i, "resume")
    /\ Step(b, i, IdleHandler)
    /\ \E c \in 1..store.made : store' = [store EXCEPT !.current = c]
    /\ OnlyStore

ShowSession(b, i) ==
    /\ HandlerAt(b, i, "status")
    /\ Step(b, i, IdleHandler)
    /\ store' = Remembered
    /\ OnlyStore

------------------------------------------------------------------------------
(* Overrides belong to a conversation: it is read first, then they are written. *)

ModelOf(c) == IF store.choice[c].model = "none" THEN "full" ELSE store.choice[c].model

ReadForSelection(b, i) ==
    /\ \E pc \in {"models", "modeldefault", "effort"} : HandlerAt(b, i, pc)
    /\ LET h == bots[b].handlers[i] IN
        Step(b, i, [h EXCEPT !.pc = "select", !.conv = Current, !.model = ModelOf(Current)])
    /\ store' = Remembered
    /\ OnlyStore

SetModelSelection(b, i) ==
    /\ HandlerAt(b, i, "select")
    /\ LET h == bots[b].handlers[i] IN
        /\ h.kind \in {"models", "modeldefault"}
        /\ \E m \in IF h.kind = "models" THEN Models ELSE {"none"} :
             store' = [store EXCEPT !.choice[h.conv].model = m]
    /\ Step(b, i, IdleHandler)
    /\ OnlyStore

\* The efforts offered are those of the model read; the conversation is read once more.
SetEffortSelection(b, i) ==
    /\ HandlerAt(b, i, "select")
    /\ LET h == bots[b].handlers[i] IN
        /\ h.kind = "effort"
        /\ \E e \in Efforts[h.model] \cup {"none"} :
             store' = [Remembered EXCEPT !.choice[Current].effort = e]
    /\ Step(b, i, IdleHandler)
    /\ OnlyStore

------------------------------------------------------------------------------
(* A message becomes a turn; /compact is one without upload, notice or lock.  *)

HandleMessage(b, i) ==
    /\ HandlerAt(b, i, "message")
    /\ Step(b, i, [bots[b].handlers[i] EXCEPT !.pc = "prepare", !.upload = Current])
    /\ store' = Remembered
    /\ OnlyStore

\* Text only, an upload registered for the conversation read, or an upload that failed.
PrepareInput(b, i) ==
    /\ HandlerAt(b, i, "prepare")
    /\ LET h == bots[b].handlers[i] IN
        \/ Step(b, i, [h EXCEPT !.pc = "locate", !.upload = 0])
        \/ Step(b, i, [h EXCEPT !.pc = "locate"])
        \/ Step(b, i, IdleHandler)
    /\ UNCHANGED store
    /\ OnlyStore

\* The turn's conversation is the current one; too many messages are turned down.
RunChatMessage(b, i) ==
    /\ HandlerAt(b, i, "locate")
    /\ LET h == bots[b].handlers[i] IN
        bots' = IF bots[b].recent >= ChatRateLimit
                  THEN [bots EXCEPT ![b].handlers[i] = IdleHandler]
                  ELSE [bots EXCEPT ![b].recent = @ + 1,
                                    ![b].handlers[i] = [h EXCEPT !.pc = "settings", !.conv = Current]]
    /\ store' = Remembered
    /\ OnlyStore

OldestLeavesWindow(b) ==
    /\ bots[b].recent > 0 /\ bots[b].phase \in {"running", "left"}
    /\ bots' = [bots EXCEPT ![b].recent = @ - 1]
    /\ UNCHANGED store
    /\ OnlyStore

EffortForModel(effort, model) == IF effort \in Efforts[model] THEN effort ELSE "medium"

SettingsForConversation(b, i) ==
    /\ HandlerAt(b, i, "settings")
    /\ LET h      == bots[b].handlers[i]
           model  == ModelOf(h.conv)
           chosen == IF store.choice[h.conv].effort = "none" THEN "max" ELSE store.choice[h.conv].effort
       IN  Step(b, i, [h EXCEPT !.pc = "turn", !.model = model, !.effort = EffortForModel(chosen, model)])
    /\ UNCHANGED store
    /\ OnlyStore

\* The turn asks for a permission: the chat is shown buttons before the gate looks at the ticket.
AskPermission(b, i) ==
    /\ HandlerAt(b, i, "turn") /\ asked = "none"
    /\ Step(b, i, [bots[b].handlers[i] EXCEPT !.pc = "asked"])
    /\ asked' = IF bots[b].handlers[i].kind = "message" THEN "pending" ELSE "unseen"
    /\ UNCHANGED <<allowed, service, saves, updates, store, past>>

\* A turn that is not interactive denies its own request.
DenyAtGate(b, i) ==
    /\ HandlerAt(b, i, "asked")
    /\ Step(b, i, [bots[b].handlers[i] EXCEPT !.pc = "turn"])
    /\ asked' = IF asked = "pending" THEN "denied" ELSE asked
    /\ UNCHANGED <<allowed, service, saves, updates, store, past>>

\* The reply is sent, or its failure is.
Reply(b, i) ==
    /\ HandlerAt(b, i, "turn")
    /\ Step(b, i, IdleHandler)
    /\ UNCHANGED store
    /\ OnlyStore

PermissionCallback(b, i) ==
    /\ HandlerAt(b, i, "press")
    /\ Step(b, i, IdleHandler)
    /\ asked' = IF asked = "pending" THEN "approved" ELSE asked
    /\ past' = [past EXCEPT !.pressed = IF asked = "denied" THEN "late" ELSE "decided"]
    /\ UNCHANGED <<allowed, service, saves, updates, store>>

------------------------------------------------------------------------------
\* The process dies and starts again; a file it was writing is lost and reads as empty.
Writing(b, i) == \E pc \in {"new", "resume", "select"} : HandlerAt(b, i, pc)
TelegramCrash ==
    /\ MayFail /\ past' = Failed
    /\ service' = 0
    /\ \E s \in Savers : saves' = [t \in Savers |-> [pc |-> IF t = s THEN "startup" ELSE "idle", bot |-> 0]]
    /\ bots' = [b \in Bots |-> IF bots[b].phase = "unbuilt" THEN NoBot ELSE [NoBot EXCEPT !.phase = "gone"]]
    /\ store' \in {store} \cup (IF \E b \in Bots, i \in Slots : Writing(b, i)
                               THEN {[store EXCEPT !.current = 0],
                                     [store EXCEPT !.choice = [c \in Convs |-> NoChoice]]}
                               ELSE {})
    /\ asked' = IF asked = "pending" THEN "denied" ELSE asked
    /\ UNCHANGED <<allowed, updates>>

TelegramNext ==
    \/ \E s \in Savers : \/ UpdateSettings(s) \/ StopPolling(s) \/ StopFails(s)
                         \/ Drained(s) \/ Startup(s) \/ StartPolling(s) \/ PollingStarted(s) \/ StartFails(s)
    \/ \E kind \in MessageKinds \cup {"press"} : Send(kind)
    \/ \E b \in Bots : Fetch(b) \/ Take(b) \/ OldestLeavesWindow(b)
    \/ \E b \in Bots, i \in Slots :
          \/ NewSession(b, i) \/ ResumeSession(b, i) \/ ShowSession(b, i)
          \/ ReadForSelection(b, i) \/ SetModelSelection(b, i) \/ SetEffortSelection(b, i)
          \/ HandleMessage(b, i) \/ PrepareInput(b, i) \/ RunChatMessage(b, i)
          \/ SettingsForConversation(b, i) \/ AskPermission(b, i) \/ DenyAtGate(b, i)
          \/ Reply(b, i) \/ PermissionCallback(b, i)
    \/ TelegramCrash

TelegramSpec == TelegramInit /\ [][TelegramNext]_telegramVars

------------------------------------------------------------------------------
Handlers == UNION {{bots[b].handlers[i] : i \in Slots} : b \in Bots}
Turns    == {h \in Handlers : h.pc \in {"turn", "asked"}}

\* The conversation of a turn is read a second time after its uploads were registered: while
\* one bot lived, no /new or /resume came between, and the uploads are the turn's own.
TurnsStayTogether ==
    past.apart \/ \A h \in Turns : h.upload \in {0, h.conv}

\* Model and effort are chosen apart, for a conversation: a turn's effort is one of its model's.
EffortFitsTheModel == \A h \in Turns : h.effort \in Efforts[h.model]

\* Restarts that follow one another, none of which failed, leave one bot, with the allowlist
\* saved last once no save is under way.
OneBotAtATime ==
    (~past.apart /\ ~past.failed /\ \A s \in Savers : saves[s].pc = "idle") =>
        service # 0 /\ bots[service].phase = "running" /\ bots[service].allowed = allowed

ChatsAreServed == TurnsStayTogether /\ EffortFitsTheModel /\ OneBotAtATime

\* docs/telegram.md: a button of the chat resolves the request its turn waits for.
ButtonsDecide == past.pressed # "late"
=============================================================================
