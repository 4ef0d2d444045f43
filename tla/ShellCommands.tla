---------------------------- MODULE ShellCommands ----------------------------
(***************************************************************************)
(* Shell commands: exec, exec_start and exec_write_stdin with their replay *)
(* after an approval, the sandbox policy that chooses where a command runs *)
(* the recheck of the manager, the runners and the registry of sessions    *)
(* (app/skills/exec/tools.py, app/agent/sandbox).                          *)
(*                                                                         *)
(* A call classifies its command under the settings of the moment, asks    *)
(* for permission, which may take as long as the user likes, and is then   *)
(* carried out under settings, and with a Docker daemon, that may be other *)
(* ones.  A command is one of four kinds: plain, a host tool (or another   *)
(* shell than bash), and untrusted in the same two variants.  The wait for *)
(* the decision is ApprovalGate's and is one step here.                    *)
(***************************************************************************)
EXTENDS Naturals, Sequences, SequencesExt, FiniteSets

CONSTANTS
    Calls,             \* calls of the tools
    Commands,          \* bound: the kinds of command that are called for
    MaxEnvironments,   \* environments kept for approved commands (128)
    MaxShellChanges         \* bound: changes of the surroundings

VARIABLES
    settings,      \* [mode, permission]: where commands run and who is asked
    docker,        \* whether the Docker daemon answers
    probe,         \* the cached answer of the last probe, or "none"
    request,          \* what each call is and how far it got
    process,       \* the process, or the container, of each call
    sessions,      \* SandboxSessionRegistry._sessions
    old,           \* the sessions beyond their maximum age
    environments,  \* _REPLAY_ENVIRONMENTS, oldest first
    changes

shellVars == <<settings, docker, probe, request, process, sessions, old,
               environments, changes>>

CommandKinds == {"plain", "tool", "contained", "install"}
Untrusted == {"contained", "install"}
HostTools == {"tool", "install"}     \* what the image cannot run
Modes == {"auto", "docker", "host", "off"}
Permissions == {"default", "auto_review", "full_access"}

NoConsent == [backend |-> "none", mode |-> "none", ask |-> FALSE,
              only |-> FALSE, review |-> FALSE]
NoProcess == [at |-> "none", state |-> "none", mode |-> "none",
              env |-> FALSE, missed |-> FALSE, lost |-> FALSE]
NoCall == [tool |-> "none", kind |-> "plain", env |-> FALSE, given |-> FALSE,
           target |-> "none",
           stage |-> "idle", seen |-> NoConsent, bound |-> NoConsent,
           by |-> "none"]

ShellInit ==
    /\ settings \in [mode : {"auto"}, permission : Permissions]
    /\ docker \in BOOLEAN
    /\ probe = "none"
    /\ request = [c \in Calls |-> NoCall]
    /\ process = [c \in Calls |-> NoProcess]
    /\ sessions = {}
    /\ old = {}
    /\ environments = <<>>
    /\ changes = 0

-----------------------------------------------------------------------------
(* Where a command runs *)

\* probe_capabilities: an answer is used for 30 seconds
DockerSeen == IF probe = "none" THEN docker ELSE probe = "up"
Probe == probe' = IF DockerSeen THEN "up" ELSE "down"

\* Docker is preferred; strict modes refuse rather than change to the host
Backend(kind, up) ==
    CASE settings.mode = "off" -> "none"
      [] settings.mode = "host" -> "host"
      [] settings.mode = "docker" ->
            IF up /\ kind \notin HostTools THEN "docker" ELSE "none"
      [] OTHER -> IF up /\ kind \notin HostTools THEN "docker" ELSE "host"

\* _host_consent: what has to be asked whatever the permission mode
AlwaysAsk(kind, backend, up) ==
    /\ backend = "host"
    /\ kind \in Untrusted \/ (up /\ settings.mode # "host")

Decide(kind) ==
    LET backend == Backend(kind, DockerSeen)
    IN  [backend |-> backend, mode |-> settings.mode,
         ask |-> AlwaysAsk(kind, backend, DockerSeen),
         only |-> backend = "host" /\ kind \in Untrusted, review |-> TRUE]

\* Full Access takes the need to ask out of the environment
Consent(seen) ==
    IF settings.permission = "full_access"
    THEN [seen EXCEPT !.ask = FALSE, !.only = FALSE, !.review = FALSE]
    ELSE seen

-----------------------------------------------------------------------------
(* Classification and permission *)

\* a call without a process that has ended is nothing to anybody
NoMore == [NoCall EXCEPT !.stage = "over"]
Over(c) == [request EXCEPT ![c] = NoMore]

\* a session is not started in a container, nor while the mode asks for one
Refused(tool, seen) ==
    \/ seen.backend = "none"
    \/ tool = "exec_start" /\ "docker" \in {seen.backend, seen.mode}

Classify(c, tool, kind, env) ==
    LET seen == Decide(kind)
    IN  /\ request' = IF Refused(tool, seen) THEN Over(c)
                   ELSE [request EXCEPT ![c] =
                       [@ EXCEPT !.tool = tool, !.kind = kind, !.env = env,
                                 !.given = env, !.seen = seen, !.stage = "decided"]]
        /\ Probe
        /\ UNCHANGED <<settings, docker, process, sessions, old, environments, changes>>

Exec(c, kind, env) ==
    /\ request[c].stage = "idle"
    /\ Classify(c, "exec", kind, env)

ExecStart(c, kind, env) ==
    /\ request[c].stage = "idle"
    /\ Classify(c, "exec_start", kind, env)

\* text for a session is classified as a command; what is asked for is the
\* environment the session was started with
ClassifyInput(c, s, kind) ==
    LET known == s \in sessions \ old
        fits == Decide(kind).backend = process[s].at
    IN  /\ request' = IF known /\ fits
                   THEN [request EXCEPT ![c] =
                       [@ EXCEPT !.tool = "exec_write_stdin", !.kind = kind,
                                 !.target = s, !.seen = request[s].seen,
                                 !.stage = "decided"]]
                   ELSE Over(c)
        /\ IF known THEN Probe ELSE UNCHANGED probe
        /\ UNCHANGED <<settings, docker, process, sessions, old, environments, changes>>

ExecWriteStdin(c, s, kind) ==
    /\ request[c].stage = "idle"
    /\ s \in sessions
    /\ ClassifyInput(c, s, kind)

\* room is made for an environment before it is known whether it is needed
WithEnvironment(c) ==
    LET room == IF Len(environments) >= MaxEnvironments
                THEN Tail(environments) ELSE environments
    IN  Append(room, c)

\* A faulty variant: the approval is taken to hold for the command alone.
StillTheCommand(c) == request[c].bound # NoConsent

StillAsApproved(c) == Consent(request[c].seen) = request[c].bound

PermissionCheck(c) ==
    LET asks == settings.permission # "full_access"
        held == WithEnvironment(c)
    IN  /\ request[c].stage = "decided"
        /\ request[c].bound = NoConsent
        /\ request' = [request EXCEPT ![c] =
               IF asks THEN [@ EXCEPT !.stage = "waiting", !.bound = Consent(request[c].seen)]
               ELSE [@ EXCEPT !.stage = "allowed", !.by = "mode"]]
        /\ environments' = CASE ~request[c].env -> environments
                             [] asks -> held
                             [] OTHER -> Front(held)
        /\ UNCHANGED <<settings, docker, probe, process, sessions, old, changes>>

\* the same check when an approved call is replayed: the approval holds for
\* the environment it was given for
ReplayCheck(c) ==
    /\ request[c].stage = "decided"
    /\ request[c].bound # NoConsent
    /\ request' = IF StillAsApproved(c) THEN [request EXCEPT ![c].stage = "allowed"] ELSE Over(c)
    /\ UNCHANGED <<settings, docker, probe, process, sessions, old, environments, changes>>

-----------------------------------------------------------------------------
(* The decision, and the replay of the call *)

MayReview(c) == settings.permission = "auto_review" /\ ~request[c].bound.only

Approve(c, by) ==
    /\ request[c].stage = "waiting"
    /\ by = "auto" => MayReview(c)
    /\ request' = [request EXCEPT ![c].stage = "approved", ![c].by = by]
    /\ UNCHANGED <<settings, docker, probe, process, sessions, old, environments, changes>>

Deny(c) ==
    /\ request[c].stage = "waiting"
    /\ request' = Over(c)
    /\ UNCHANGED <<settings, docker, probe, process, sessions, old, environments, changes>>

\* _resume_exec, _resume_exec_start: the values of the environment are taken
\* from this process, once; then the tool runs from its start
Resume(c) ==
    /\ request[c].stage = "approved"
    /\ request[c].tool # "exec_write_stdin"
    /\ IF request[c].env /\ ~Contains(environments, c)
       THEN /\ request' = Over(c)
            /\ UNCHANGED <<probe, environments, process, sessions, old, settings,
                           docker, changes>>
       ELSE /\ environments' = SelectSeq(environments, LAMBDA e : e # c)
            /\ LET seen == Decide(request[c].kind)
               IN  request' = IF Refused(request[c].tool, seen) THEN Over(c)
                           ELSE [request EXCEPT ![c] =
                               [@ EXCEPT !.seen = seen, !.stage = "decided",
                                         !.given = request[c].given /\ Contains(environments, c)]]
            /\ Probe
            /\ UNCHANGED <<settings, docker, process, sessions, old, changes>>

ResumeWriteStdin(c) ==
    /\ request[c].stage = "approved"
    /\ request[c].tool = "exec_write_stdin"
    /\ ClassifyInput(c, request[c].target, request[c].kind)

-----------------------------------------------------------------------------
(* Carrying a command out *)

NewProcess(c, at) ==
    [NoProcess EXCEPT !.at = at, !.mode = settings.mode, !.env = request[c].given,
        !.state = CASE at = "host" -> "live"
                    [] docker -> "pending"      \* docker run asks the daemon
                    [] OTHER -> "dead"]

\* the manager decides again and refuses what is no longer what was decided
SameBackend(c) ==
    LET now == Decide(request[c].kind)
    IN  now.backend = request[c].seen.backend /\ now.backend # "none"

ManagerRun(c) ==
    /\ request[c].stage = "allowed"
    /\ request[c].tool = "exec"
    /\ IF SameBackend(c)
       THEN /\ request' = [request EXCEPT ![c].stage = "running"]
            /\ process' = [process EXCEPT ![c] = NewProcess(c, request[c].seen.backend)]
       ELSE request' = Over(c) /\ UNCHANGED process
    /\ Probe
    /\ UNCHANGED <<settings, docker, sessions, old, environments, changes>>

\* stale sessions are stopped before the new one is started
StartSession(c) ==
    /\ request[c].stage = "allowed"
    /\ request[c].tool = "exec_start"
    /\ process' = [s \in Calls |->
           IF s = c THEN NewProcess(c, request[c].seen.backend)
           ELSE IF s \in old THEN NoProcess ELSE process[s]]
    /\ sessions' = (sessions \ old) \union {c}
    /\ old' = {}
    /\ request' = [request EXCEPT ![c].stage = "over"]
    /\ UNCHANGED <<settings, docker, probe, environments, changes>>

\* the process of a session is killed and the session forgotten
Expire(s) ==
    /\ process' = [process EXCEPT ![s] = NoProcess]
    /\ sessions' = sessions \ {s}
    /\ old' = old \ {s}

WriteStdin(c) ==
    /\ request[c].stage = "allowed"
    /\ request[c].tool = "exec_write_stdin"
    /\ LET s == request[c].target
       IN  IF s \in old THEN Expire(s) ELSE UNCHANGED <<process, sessions, old>>
    /\ request' = Over(c)
    /\ UNCHANGED <<settings, docker, probe, environments, changes>>

ContainerStarts(c) ==
    /\ process[c].state = "pending"
    /\ process' = [process EXCEPT ![c].state = "live"]
    /\ UNCHANGED <<settings, docker, probe, request, sessions, old, environments, changes>>

\* one that nobody keeps is gone when it ends
Exits(c) ==
    /\ process[c].state = "live"
    /\ process' = [process EXCEPT ![c] =
           IF request[c].stage \in {"running", "killing"} \/ c \in sessions
           THEN [@ EXCEPT !.state = "dead"] ELSE NoProcess]
    /\ UNCHANGED <<settings, docker, probe, request, sessions, old, environments, changes>>

CommandEnds(c) ==
    /\ request[c].stage = "running"
    /\ process[c].state = "dead"
    /\ request' = Over(c)
    /\ process' = [process EXCEPT ![c] = NoProcess]
    /\ UNCHANGED <<settings, docker, probe, sessions, old, environments, changes>>

\* Stop or the time limit: the process group is killed, or the container is
\* removed if it exists by then and Docker does it; nobody looks at the answer
StopRun(c) ==
    /\ request[c].stage = "running"
    /\ process[c].state \in {"pending", "live"}
    /\ request' = [request EXCEPT ![c].stage = "killing"]
    /\ \/ /\ process[c].state = "live"
          /\ process' = [process EXCEPT ![c].state = "dead"]
       \/ /\ process[c].at = "docker"
          /\ process' = [process EXCEPT ![c].missed = TRUE]
    /\ UNCHANGED <<settings, docker, probe, sessions, old, environments, changes>>

\* three seconds later the client is killed too: what it has asked the daemon
\* for by then may still happen
ClientKilled(c) ==
    /\ request[c].stage = "killing"
    /\ request' = [request EXCEPT ![c].stage = "over"]
    /\ process' \in {[process EXCEPT ![c] = p] :
           p \in IF process[c].state = "dead" THEN {NoProcess}
                 ELSE {process[c]} \union
                      (IF process[c].state = "pending" THEN {NoProcess} ELSE {})}
    /\ UNCHANGED <<settings, docker, probe, sessions, old, environments, changes>>

-----------------------------------------------------------------------------
(* Sessions *)

\* poll: a session beyond its age is killed and forgotten when it is read
PollExpires(s) ==
    /\ s \in sessions \intersect old
    /\ Expire(s)
    /\ UNCHANGED <<settings, docker, probe, request, environments, changes>>

StopSession(s) ==
    /\ s \in sessions \ old
    /\ Expire(s)
    /\ UNCHANGED <<settings, docker, probe, request, environments, changes>>

-----------------------------------------------------------------------------
(* The surroundings *)

Change == changes < MaxShellChanges /\ changes' = changes + 1

ReachesAge(s) ==
    /\ s \in sessions \ old
    /\ Change
    /\ old' = old \union {s}
    /\ UNCHANGED <<settings, docker, probe, request, process, sessions, environments>>

\* settings are saved and a runtime is built with them; saving drops the cache
SettingsChange(mode, permission) ==
    /\ Change
    /\ (mode = settings.mode) # (permission = settings.permission)
    /\ settings' = [mode |-> mode, permission |-> permission]
    /\ probe' = "none"
    /\ UNCHANGED <<docker, request, process, sessions, old, environments>>

\* containers end with their daemon
DockerChanges ==
    /\ Change
    /\ docker' = ~docker
    /\ process' = [c \in Calls |->
           IF ~docker \/ process[c].at # "docker" THEN process[c]
           ELSE IF request[c].stage = "over" THEN NoProcess
           ELSE [process[c] EXCEPT !.state = "dead"]]
    /\ UNCHANGED <<settings, probe, request, sessions, old, environments>>

CacheExpires ==
    /\ probe # "none"
    /\ DockerSeen # docker
    /\ probe' = "none"
    /\ UNCHANGED <<settings, docker, request, process, sessions, old, environments, changes>>

\* tickets are in the database; environments and sessions are not
ShellCrash ==
    /\ Change
    /\ request' = [c \in Calls |->
           IF request[c].stage \in {"idle", "waiting", "approved"} THEN request[c]
           ELSE [request[c] EXCEPT !.stage = "over"]]
    /\ process' = [c \in Calls |->
           [process[c] EXCEPT !.lost = @ \/ process[c].state \in {"live", "pending"}]]
    /\ sessions' = {}
    /\ old' = {}
    /\ environments' = <<>>
    /\ probe' = "none"
    /\ UNCHANGED <<settings, docker>>

\* bound: only plain commands bring values for the environment
Values(kind) == {env \in BOOLEAN : env => kind = "plain"}

ShellNext ==
    \/ \E c \in Calls :
        \/ \E kind \in Commands : \E env \in Values(kind) : Exec(c, kind, env)
        \/ \E kind \in Commands : \E env \in Values(kind) : ExecStart(c, kind, env)
        \/ \E s \in Calls, kind \in Commands : ExecWriteStdin(c, s, kind)
        \/ PermissionCheck(c)
        \/ ReplayCheck(c)
        \/ \E by \in {"user", "auto"} : Approve(c, by)
        \/ Deny(c)
        \/ Resume(c)
        \/ ResumeWriteStdin(c)
        \/ ManagerRun(c)
        \/ StartSession(c)
        \/ WriteStdin(c)
        \/ ContainerStarts(c)
        \/ Exits(c)
        \/ CommandEnds(c)
        \/ StopRun(c)
        \/ ClientKilled(c)
        \/ PollExpires(c)
        \/ StopSession(c)
        \/ ReachesAge(c)
    \/ \E mode \in Modes, permission \in Permissions : SettingsChange(mode, permission)
    \/ DockerChanges
    \/ CacheExpires
    \/ ShellCrash

ShellSpec == ShellInit /\ [][ShellNext]_shellVars

-----------------------------------------------------------------------------
(* Properties *)

Ran(c) == process[c].state # "none"

\* What was reviewed runs where the review said it would run, with the
\* environment variables it was shown with.
RanAsReviewed ==
    \A c \in Calls : Ran(c) /\ request[c].by \in {"user", "auto"} =>
        /\ process[c].at = request[c].bound.backend
        /\ process[c].env = request[c].env

\* exec never runs on the host while the mode is docker, nor anywhere while
\* commands are switched off, whatever the settings were when it was allowed.
StrictModesAreStrict ==
    \A c \in Calls : Ran(c) /\ request[c].tool = "exec" =>
        /\ process[c].mode # "off"
        /\ process[c].mode = "docker" => process[c].at = "docker"

\* An untrusted command that was asked for and runs on the host was approved
\* by the user and not by the reviewer.
UserReviewsUntrusted ==
    \A c \in Calls :
        Ran(c) /\ process[c].at = "host" /\ request[c].kind \in Untrusted
            => request[c].by # "auto"

\* A process that runs belongs to a call or to a session, so that something
\* ends it, apart from a container that did not exist yet when its call was
\* stopped or that Docker failed to remove, and from what a crash has left.
ProcessesAreOwned ==
    \A c \in Calls : process[c].state = "live" =>
        \/ request[c].stage \in {"running", "killing"}
        \/ c \in sessions
        \/ process[c].missed
        \/ process[c].lost

\* Shell commands run as they were reviewed and under control: the four parts
\* above.  It takes a change of the settings or of Docker between the review
\* and the run, or an end of the call at an awkward moment, to break one.
CommandsAreControlled ==
    /\ RanAsReviewed
    /\ StrictModesAreStrict
    /\ UserReviewsUntrusted
    /\ ProcessesAreOwned

\* docs/sandboxing.md: "Two host cases ask regardless of permission mode,
\* including Full Access", one of them "An untrusted command [...] on the
\* host".  _permission_check asks nobody under Full Access.
UntrustedAsksTheUser ==
    \A c \in Calls :
        Ran(c) /\ process[c].at = "host" /\ request[c].kind \in Untrusted
            => request[c].by = "user"

=============================================================================
