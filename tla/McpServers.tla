------------------------------ MODULE McpServers ------------------------------
(***************************************************************************)
(* The bridge to one MCP server: skills/mcp_bridge/connection.py (the      *)
(* ServerManager, its thread and the map of active managers), registry.py  *)
(* (the reflected tools and the scope of a call) and tools.py.             *)
(*                                                                         *)
(* A manager serves one configuration.  Tool workers, routes and settings  *)
(* call its methods from threads of their own, and its server runs on a    *)
(* thread it starts; only the lifecycle lock orders them.                  *)
(***************************************************************************)
EXTENDS Naturals, FiniteSets

CONSTANTS
    Callers,       \* the threads that use the bridge
    MaxManagers,   \* managers created
    MaxStarts,     \* server threads started
    MaxJobs,       \* calls of the bridge
    MissLimit,     \* failed probes before a server is given up (3)
    MaxDisturbs    \* changes of the settings or of a tool, and deaths of a server

ASSUME McpAssumption ==
    /\ MaxManagers \in Nat \ {0} /\ MaxStarts \in Nat \ {0} /\ MissLimit \in Nat \ {0}
    /\ MaxJobs \in Nat /\ MaxDisturbs \in Nat

VARIABLES
    config,      \* the configuration in the settings
    tool,        \* the tool as the server offers it now
    manager,     \* the managers and their fields
    threads,      \* the server threads
    active,      \* the map of active managers, and the lock on it
    reflected,   \* the reflected tool, and the manager its executor uses
    caller,      \* each caller: what it does, how far it is, and its locals
    sent,        \* history: the calls that went out
    used       \* disturbances and jobs so far

mcpVars == <<config, tool, manager, threads, active, reflected, caller, sent, used>>

None     == 0
Managers == 1..MaxManagers
Threads  == 1..MaxStarts

Unhealthy == {"unhealthy", "failed"}
NewManager(cfg) ==
    [cfg |-> cfg, state |-> "stopped", connected |-> FALSE, thread |-> None, loop |-> None,
     session |-> None, ready |-> FALSE, tools |-> None, misses |-> 0, retired |-> FALSE, lock |-> None]
NewThread(m) == [of |-> m, phase |-> "new", stop |-> FALSE, dead |-> FALSE]
NoThread     == [of |-> None, phase |-> "none", stop |-> FALSE, dead |-> FALSE]
Unmapped     == [m |-> None, cfg |-> None, schema |-> None]
IdleCaller         == [job |-> "none", pc |-> "idle", m |-> None, cfg |-> None, scope |-> Unmapped,
                 then |-> "done", why |-> "none", on |-> None, listed |-> None]

(* The first refresh is over: the server is up and its tool is reflected.     *)
McpInit ==
    /\ config = 1 /\ tool = 1 /\ sent = {}
    /\ used = [disturbs |-> 0, jobs |-> 0]
    /\ manager = [m \in Managers |-> IF m # 1 THEN NewManager(None) ELSE
         [NewManager(1) EXCEPT !.state = "connected", !.connected = TRUE, !.thread = 1, !.loop = 1,
                               !.session = 1, !.ready = TRUE, !.tools = 1]]
    /\ threads = [t \in Threads |-> IF t # 1 THEN NoThread ELSE [NewThread(1) EXCEPT !.phase = "serving"]]
    /\ active = [m |-> 1, lock |-> None]
    /\ reflected = [entry |-> [m |-> 1, cfg |-> 1, schema |-> 1], executor |-> 1]
    /\ caller = [c \in Callers |-> IdleCaller]

ThreadAlive(t)    == t # None /\ threads[t].phase # "none"
M(c)        == manager[caller[c].m]
CallerAt(c, pc)   == caller[c].pc = pc
Go(c, pc)   == caller' = [caller EXCEPT ![c] = IF pc = "done" THEN IdleCaller ELSE [@ EXCEPT !.pc = pc, !.why = "none"]]
SetM(c, r)  == manager' = [manager EXCEPT ![caller[c].m] = r]
Free(c)     == M(c).lock = None
Cleared(r)  == [r EXCEPT !.connected = FALSE, !.thread = None, !.loop = None, !.session = None]
MarkUnhealthy(r) == [r EXCEPT !.connected = FALSE, !.state = "unhealthy"]

outside == <<config, tool, used>>
maps    == <<active, reflected>>

------------------------------------------------------------------------------
(* start, restart and close, with the job they return to.  Every join and    *)
(* every wait for the server has a timeout.                                  *)

Return(c, ok) == Go(c, IF ok THEN caller[c].then ELSE "refused")

StartCheck(c) ==
    /\ CallerAt(c, "start")
    /\ IF M(c).retired THEN Return(c, FALSE) ELSE Go(c, "register")
    /\ UNCHANGED <<outside, maps, manager, threads, sent>>

Register(c) ==
    /\ CallerAt(c, "register") /\ active.lock \in {None, c}
    /\ active' = [active EXCEPT !.m = caller[c].m]
    /\ Go(c, "lock")
    /\ UNCHANGED <<outside, reflected, manager, threads, sent>>

(* _stop_current_runtime_locked, with the lock in hand: a thread that has no *)
(* loop yet is not told to stop.                                             *)
StopRuntime(c, why) ==
    /\ Free(c)
    /\ SetM(c, [M(c) EXCEPT !.lock = c])
    /\ threads' = IF M(c).loop = None THEN threads ELSE [threads EXCEPT ![M(c).loop].stop = TRUE]
    /\ caller' = [caller EXCEPT ![c].pc = "join", ![c].why = why]

LockToStart(c) ==
    /\ CallerAt(c, "lock")
    /\ IF ThreadAlive(M(c).thread) /\ M(c).connected
         THEN Free(c) /\ Return(c, TRUE) /\ UNCHANGED <<manager, threads>>
         ELSE StopRuntime(c, "start")
    /\ UNCHANGED <<outside, maps, sent>>

LockToRestart(c)  == CallerAt(c, "restart") /\ StopRuntime(c, "restart") /\ UNCHANGED <<outside, maps, sent>>
LockToClose(c)    == CallerAt(c, "close") /\ StopRuntime(c, "close") /\ UNCHANGED <<outside, maps, sent>>
LockToTearDown(c) == CallerAt(c, "tear down") /\ StopRuntime(c, "give up") /\ UNCHANGED <<outside, maps, sent>>

JoinTimesOut(c) ==
    /\ CallerAt(c, "join") /\ ThreadAlive(M(c).thread)
    /\ SetM(c, [MarkUnhealthy(M(c)) EXCEPT !.lock = None])
    /\ Go(c, IF caller[c].why = "close" THEN caller[c].then ELSE "refused")
    /\ UNCHANGED <<outside, maps, threads, sent>>

Joined(c, why) == CallerAt(c, "join") /\ caller[c].why = why /\ ~ThreadAlive(M(c).thread)

(* _prepare_start_locked, unless the credentials cannot be resolved.         *)
Prepare(c) ==
    /\ Joined(c, "start")
    /\ \/ /\ SetM(c, [Cleared(M(c)) EXCEPT !.state = "credentials_unavailable", !.lock = None])
          /\ Go(c, "refused")
          /\ UNCHANGED threads
       \/ \E t \in Threads :
          /\ threads[t].of = None /\ \A u \in Threads : u < t => threads[u].of # None
          /\ threads' = [threads EXCEPT ![t] = NewThread(caller[c].m)]
          /\ SetM(c, [Cleared(M(c)) EXCEPT !.state = "starting", !.tools = None, !.thread = t,
                                           !.ready = FALSE, !.lock = None])
          /\ Go(c, "wait")
    /\ UNCHANGED <<outside, maps, sent>>

Restarted(c) ==
    /\ Joined(c, "restart")
    /\ SetM(c, [Cleared(M(c)) EXCEPT !.lock = None])
    /\ Go(c, "start")
    /\ UNCHANGED <<outside, maps, threads, sent>>

GivenUp(c) ==
    /\ Joined(c, "give up")
    /\ SetM(c, [Cleared(M(c)) EXCEPT !.lock = None])
    /\ Go(c, "refused")
    /\ UNCHANGED <<outside, maps, threads, sent>>

Closed(c) ==
    /\ Joined(c, "close")
    /\ SetM(c, [Cleared(M(c)) EXCEPT !.state = "stopped", !.lock = None])
    /\ Go(c, "unregister")
    /\ UNCHANGED <<outside, maps, threads, sent>>

Unregister(c) ==
    /\ CallerAt(c, "unregister") /\ active.lock \in {None, c}
    /\ active' = [active EXCEPT !.m = IF @ = caller[c].m THEN None ELSE @]
    /\ Go(c, caller[c].then)
    /\ UNCHANGED <<outside, reflected, manager, threads, sent>>

Ready(c) ==
    /\ CallerAt(c, "wait") /\ M(c).ready
    /\ Return(c, M(c).connected)
    /\ UNCHANGED <<outside, maps, manager, threads, sent>>

WaitTimesOut(c) ==
    /\ CallerAt(c, "wait") /\ ~M(c).ready
    /\ Go(c, "overdue")
    /\ UNCHANGED <<outside, maps, manager, threads, sent>>

(* The lock is taken after that, and the server told to stop even if it is   *)
(* ready by now, or another caller's.                                        *)
StartTimesOut(c) ==
    /\ CallerAt(c, "overdue") /\ Free(c)
    /\ SetM(c, [M(c) EXCEPT !.state = "failed", !.connected = FALSE, !.lock = c])
    /\ threads' = IF M(c).loop = None THEN threads ELSE [threads EXCEPT ![M(c).loop].stop = TRUE]
    /\ caller' = [caller EXCEPT ![c].pc = "join", ![c].why = "give up"]
    /\ UNCHANGED <<outside, maps, sent>>

------------------------------------------------------------------------------
(* ensure_mcp_manager holds the lock on the map while it closes a manager of *)
(* another configuration.                                                    *)

EnsureSame(c) ==
    /\ CallerAt(c, "ensure") /\ active.lock = None
    /\ active.m # None /\ manager[active.m].cfg = caller[c].cfg
    /\ caller' = [caller EXCEPT ![c].pc = "ensured", ![c].m = active.m]
    /\ UNCHANGED <<outside, maps, manager, threads, sent>>

EnsureRetire(c) ==
    /\ CallerAt(c, "ensure") /\ active.lock = None
    /\ active.m # None /\ manager[active.m].cfg # caller[c].cfg
    /\ active' = [active EXCEPT !.lock = c]
    /\ manager' = [manager EXCEPT ![active.m].retired = TRUE]
    /\ caller' = [caller EXCEPT ![c].pc = "close", ![c].m = active.m, ![c].then = "create"]
    /\ UNCHANGED <<outside, reflected, threads, sent>>

EnsureNew(c) ==
    /\ CallerAt(c, "create") \/ (CallerAt(c, "ensure") /\ active = [m |-> None, lock |-> None])
    /\ \E m \in Managers :
         /\ manager[m].cfg = None /\ \A n \in Managers : n < m => manager[n].cfg # None
         /\ manager' = [manager EXCEPT ![m] = NewManager(caller[c].cfg)]
         /\ active' = [m |-> m, lock |-> None]
         /\ caller' = [caller EXCEPT ![c].pc = "ensured", ![c].m = m]
    /\ UNCHANGED <<outside, reflected, threads, sent>>

------------------------------------------------------------------------------
(* The server thread.  Its last act gives the manager back its fields, and   *)
(* the calls that still wait on its loop are cancelled.                      *)

Own(t) == threads[t].of
Phase(t, p) == threads' = [threads EXCEPT ![t].phase = p]

Begin(t) ==
    /\ threads[t].phase = "new"
    /\ Phase(t, "opening")
    /\ manager' = [manager EXCEPT ![Own(t)].loop = t]
    /\ UNCHANGED <<outside, maps, caller, sent>>

Serve(t) ==
    /\ threads[t].phase = "opening" /\ ~threads[t].stop
    /\ Phase(t, "serving")
    /\ manager' = [manager EXCEPT ![Own(t)].session = t, ![Own(t)].tools = tool, ![Own(t)].connected = TRUE,
                                  ![Own(t)].state = "connected", ![Own(t)].ready = TRUE, ![Own(t)].misses = 0]
    /\ UNCHANGED <<outside, maps, caller, sent>>

(* The endpoint, the credentials, the transport or the session fails.        *)
OpenFails(t) ==
    /\ threads[t].phase = "opening" /\ ~threads[t].stop
    /\ Phase(t, "unwinding")
    /\ manager' = [manager EXCEPT ![Own(t)].state = "failed", ![Own(t)].ready = TRUE]
    /\ UNCHANGED <<outside, maps, caller, sent>>

ProbeAnswers(t) ==
    /\ threads[t].phase = "serving" /\ ~threads[t].stop /\ ~threads[t].dead /\ manager[Own(t)].connected
    /\ manager' = [manager EXCEPT ![Own(t)].misses = 0, ![Own(t)].tools = tool]
    /\ manager' # manager
    /\ UNCHANGED <<outside, maps, threads, caller, sent>>

ProbeMisses(t) ==
    /\ threads[t].phase = "serving" /\ ~threads[t].stop /\ threads[t].dead /\ manager[Own(t)].connected
    /\ LET m == Own(t) n == manager[m].misses + 1 IN
         IF n < MissLimit
           THEN manager' = [manager EXCEPT ![m].misses = n] /\ UNCHANGED threads
           ELSE /\ manager' = [manager EXCEPT ![m] = MarkUnhealthy([@ EXCEPT !.misses = n])]
                /\ threads' = [threads EXCEPT ![t].stop = TRUE]
    /\ UNCHANGED <<outside, maps, caller, sent>>

StopSeen(t) ==
    /\ threads[t].phase \in {"opening", "serving"} /\ threads[t].stop
    /\ Phase(t, "unwinding")
    /\ UNCHANGED <<outside, maps, manager, caller, sent>>

Unwind(t) ==
    /\ threads[t].phase = "unwinding"
    /\ Phase(t, "closing")
    /\ manager' = [manager EXCEPT ![Own(t)].connected = FALSE, ![Own(t)].session = None, ![Own(t)].loop = None,
                                  ![Own(t)].state = IF @ = "connected" THEN "stopped" ELSE @]
    /\ UNCHANGED <<outside, maps, caller, sent>>

OnLoop(t) == {c \in Callers : caller[c].on = t /\ caller[c].pc \in {"listing", "sending", "unanswered", "refreshing"}}
Exit(t) ==
    /\ threads[t].phase = "closing"
    /\ threads' = [threads EXCEPT ![t] = [NoThread EXCEPT !.of = Own(t)]]
    /\ caller' = [c \in Callers |-> IF c \in OnLoop(t) THEN [caller[c] EXCEPT !.pc = "call failed"] ELSE caller[c]]
    /\ UNCHANGED <<outside, maps, manager, sent>>

------------------------------------------------------------------------------
(* A call of the reflected tool, direct or replayed after its approval with  *)
(* the executor that was registered last.                                    *)

Up(r) == r.loop # None /\ r.session # None /\ r.connected

Begins(c) ==
    /\ CallerAt(c, "idle") /\ used.jobs < MaxJobs
    /\ used' = [used EXCEPT !.jobs = @ + 1]

BeginTool(c) ==
    /\ Begins(c) /\ reflected.entry # Unmapped
    /\ caller' = [caller EXCEPT ![c] = [IdleCaller EXCEPT !.job = "tool", !.pc = "check",
                                        !.m = reflected.entry.m, !.scope = reflected.entry]]
    /\ UNCHANGED <<config, tool, maps, manager, threads, sent>>

ScopeIsCurrent(c) ==
    /\ reflected.entry.m = caller[c].m
    /\ reflected.entry.cfg = caller[c].scope.cfg /\ M(c).cfg = reflected.entry.cfg
    /\ reflected.entry.schema = caller[c].scope.schema

CheckScope(c) ==
    /\ CallerAt(c, "check")
    /\ \/ ScopeIsCurrent(c) /\ Go(c, "call")
       \/ ScopeIsCurrent(c) /\ caller[c].job = "tool" /\ Go(c, "approval")
       \/ ~ScopeIsCurrent(c) /\ Go(c, "refused")
    /\ UNCHANGED <<outside, maps, manager, threads, sent>>

Approved(c) ==
    /\ CallerAt(c, "approval")
    /\ \/ caller' = [caller EXCEPT ![c].pc = "check", ![c].m = reflected.executor, ![c].job = "approved"]
       \/ Go(c, "refused")
    /\ UNCHANGED <<outside, maps, manager, threads, sent>>

(* call_tool_sync, and the same test in refresh_tools.  The configuration    *)
(* may forbid reconnecting an unhealthy server.                              *)
Recover(c) ==
    \/ caller' = [caller EXCEPT ![c].pc = "restart", ![c].then = "submit"]
    \/ caller[c].job # "refresh" /\ M(c).state \in Unhealthy /\ Go(c, "refused")

EnterCall(c) ==
    /\ CallerAt(c, "call")
    /\ IF M(c).retired THEN Go(c, "refused")
       ELSE IF Up(M(c)) THEN Go(c, "submit")
       ELSE Recover(c)
    /\ UNCHANGED <<outside, maps, manager, threads, sent>>

(* The loop and the session are read again; if one is gone by now, the       *)
(* method ends with an AssertionError.                                       *)
Submit(c) ==
    /\ CallerAt(c, "submit")
    /\ IF M(c).loop = None \/ M(c).session = None
         THEN Go(c, IF caller[c].job = "refresh" THEN "done" ELSE "refused")
         ELSE caller' = [caller EXCEPT ![c].pc = IF caller[c].job = "refresh" THEN "refreshing" ELSE "listing",
                                       ![c].on = M(c).loop]
    /\ UNCHANGED <<outside, maps, manager, threads, sent>>

Answers(c) == LET t == caller[c].on IN M(c).session = t /\ ~threads[t].dead

(* _call_tool lists the tools of its session and compares them with the      *)
(* scope before it sends the call.                                           *)
ListTools(c) ==
    /\ CallerAt(c, "listing") /\ Answers(c)
    /\ IF M(c).retired \/ M(c).cfg # caller[c].scope.cfg
         THEN Go(c, "call failed") /\ UNCHANGED manager
         ELSE /\ SetM(c, [M(c) EXCEPT !.tools = tool])
              /\ caller' = [caller EXCEPT ![c].pc = "sending", ![c].listed = tool]
    /\ UNCHANGED <<outside, maps, threads, sent>>

AsApprovedAnyway(c) == TRUE
AsApproved(c) == caller[c].listed = caller[c].scope.schema
SendCall(c) ==
    /\ CallerAt(c, "sending") /\ Answers(c)
    /\ IF AsApproved(c)
         THEN /\ sent' = sent \cup {[scope |-> caller[c].scope, listed |-> caller[c].listed,
                                     by |-> manager[Own(caller[c].on)].cfg]}
              /\ \/ Go(c, "done")
                 \/ Go(c, "unanswered")
         ELSE Go(c, "call failed") /\ UNCHANGED sent
    /\ UNCHANGED <<outside, maps, manager, threads>>

(* call_timeout_ms: the caller stops whatever server the manager has then.   *)
CallTimesOut(c) ==
    /\ caller[c].pc \in {"listing", "sending", "unanswered", "refreshing"}
    /\ SetM(c, MarkUnhealthy(M(c)))
    /\ caller' = [caller EXCEPT ![c].pc = "tear down", ![c].on = None]
    /\ UNCHANGED <<outside, maps, threads, sent>>

CallFails(c) ==
    /\ CallerAt(c, "call failed")
    /\ SetM(c, MarkUnhealthy(M(c)))
    /\ caller' = [caller EXCEPT ![c].pc = "refused", ![c].on = None]
    /\ UNCHANGED <<outside, maps, threads, sent>>

------------------------------------------------------------------------------
(* The control tools and the settings: each works with the configuration it  *)
(* read when it was authorised.                                              *)

BeginControl(c) ==
    /\ Begins(c)
    /\ \E job \in {"refresh", "reconnect", "enable"} :
         caller' = [caller EXCEPT ![c] = [IdleCaller EXCEPT !.job = job, !.pc = "ensure", !.cfg = config]]
    /\ UNCHANGED <<config, tool, maps, manager, threads, sent>>

Ensured(c) ==
    /\ CallerAt(c, "ensured")
    /\ caller' = [caller EXCEPT
         ![c].pc = CASE caller[c].job = "reconnect" -> "restart"
                     [] caller[c].job = "refresh" /\ M(c).connected -> "call"
                     [] OTHER -> "start",
         ![c].then = CASE caller[c].job = "reconnect" -> "forget"
                       [] caller[c].job = "refresh" -> "reflect"
                       [] OTHER -> "done"]
    /\ UNCHANGED <<outside, maps, manager, threads, sent>>

(* reconnect_mcp_server forgets the tools, and its caller refreshes them.    *)
Forget(c) ==
    /\ CallerAt(c, "forget") \/ (CallerAt(c, "refused") /\ caller[c].job = "reconnect")
    /\ reflected' = [reflected EXCEPT !.entry = Unmapped]
    /\ caller' = [caller EXCEPT ![c].pc = "ensure", ![c].job = "refresh"]
    /\ UNCHANGED <<outside, active, manager, threads, sent>>

(* refresh_tools takes the answer for a sign of life.                        *)
Refreshed(c) ==
    /\ CallerAt(c, "refreshing") /\ Answers(c)
    /\ SetM(c, [M(c) EXCEPT !.tools = tool, !.state = "connected", !.connected = TRUE])
    /\ caller' = [caller EXCEPT ![c].pc = "reflect", ![c].on = None]
    /\ UNCHANGED <<outside, maps, threads, sent>>

(* build_tool_entries replaces the tools of the server.                      *)
Reflect(c) ==
    /\ CallerAt(c, "reflect")
    /\ reflected' = IF M(c).tools = None THEN [reflected EXCEPT !.entry = Unmapped]
                    ELSE [entry |-> [m |-> caller[c].m, cfg |-> caller[c].cfg, schema |-> M(c).tools],
                          executor |-> caller[c].m]
    /\ Go(c, "done")
    /\ UNCHANGED <<outside, active, manager, threads, sent>>

RefuseCall(c) ==
    /\ CallerAt(c, "refused") /\ caller[c].job # "reconnect"
    /\ reflected' = IF caller[c].job = "refresh" THEN [reflected EXCEPT !.entry = Unmapped] ELSE reflected
    /\ Go(c, "done")
    /\ UNCHANGED <<outside, active, manager, threads, sent>>

(* reset_mcp_runtime retires the manager it finds in the map.                *)
BeginReset(c) ==
    /\ Begins(c) /\ active.lock = None
    /\ reflected' = [reflected EXCEPT !.entry = Unmapped]
    /\ IF active.m = None
         THEN UNCHANGED <<caller, manager>>
         ELSE /\ caller' = [caller EXCEPT ![c] = [IdleCaller EXCEPT !.job = "reset", !.pc = "close", !.m = active.m]]
              /\ manager' = [manager EXCEPT ![active.m].retired = TRUE]
    /\ UNCHANGED <<config, tool, active, threads, sent>>

------------------------------------------------------------------------------
McpDisturb == used.disturbs < MaxDisturbs /\ used' = [used EXCEPT !.disturbs = @ + 1] /\ UNCHANGED <<maps, manager, caller, sent>>
ConfigChanges == config' = config + 1 /\ McpDisturb /\ UNCHANGED <<tool, threads>>
ToolChanges    == tool' = tool + 1 /\ McpDisturb /\ UNCHANGED <<config, threads>>
ServerDies(t)  == threads[t].phase = "serving" /\ ~threads[t].dead
                  /\ threads' = [threads EXCEPT ![t].dead = TRUE] /\ McpDisturb /\ UNCHANGED <<config, tool>>

Lifecycle(c) == StartCheck(c) \/ Register(c) \/ LockToStart(c) \/ LockToRestart(c) \/ LockToClose(c)
                \/ LockToTearDown(c) \/ JoinTimesOut(c) \/ Prepare(c) \/ Restarted(c) \/ GivenUp(c)
                \/ Closed(c) \/ Unregister(c) \/ Ready(c) \/ WaitTimesOut(c) \/ StartTimesOut(c)
                \/ EnsureSame(c) \/ EnsureRetire(c) \/ EnsureNew(c)
Tool(c)      == BeginTool(c) \/ CheckScope(c) \/ Approved(c) \/ EnterCall(c) \/ Submit(c) \/ ListTools(c)
                \/ SendCall(c) \/ CallTimesOut(c) \/ CallFails(c)
Control(c)   == BeginControl(c) \/ Ensured(c) \/ Forget(c) \/ Refreshed(c) \/ Reflect(c) \/ RefuseCall(c) \/ BeginReset(c)
Thread(t)    == Begin(t) \/ Serve(t) \/ OpenFails(t) \/ ProbeAnswers(t) \/ ProbeMisses(t) \/ StopSeen(t)
                \/ Unwind(t) \/ Exit(t) \/ ServerDies(t)

Steps == (\E c \in Callers : Lifecycle(c) \/ Tool(c) \/ Control(c)) \/ (\E t \in Threads : Thread(t))
McpNext == Steps \/ ConfigChanges \/ ToolChanges
McpSpec == McpInit /\ [][McpNext]_mcpVars

------------------------------------------------------------------------------
(* Properties *)

(* A call goes out to a server of the configuration it was scoped to, and only  *)
(* if the tool is, at that server, still what the scope says: whatever was      *)
(* reconnected, refreshed, reset or edited between the scope and the call, and  *)
(* also when it is replayed after an approval (_call_tool, _validate_scope).    *)
CallsKeepTheirScope == \A s \in sent : s.by = s.scope.cfg /\ s.listed = s.scope.schema

(* A manager never has two server threads, however its starts, restarts, stops  *)
(* and timeouts meet (_prepare_start_locked, _stop_current_runtime_locked).     *)
OneServerEach == \A m \in Managers : Cardinality({t \in Threads : ThreadAlive(t) /\ Own(t) = m}) <= 1

McpCallsAreScoped == CallsKeepTheirScope /\ OneServerEach
=============================================================================
