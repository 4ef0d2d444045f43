------------------------- MODULE SurroundingsProofs -------------------------
(***************************************************************************)
(* The safety of the parts around a turn, each by an invariant of its own  *)
(* that every step keeps, for any number of calls, records and sessions.   *)
(*                                                                         *)
(* ShellIInv follows one call from its decision to its process: consent    *)
(* that is bound tells honestly who has to review it, and a process is     *)
(* that of a call past its last check.  RecordsIInv follows the ids: each  *)
(* line and row has one of its own, days grow with them, so that a prune   *)
(* by day never takes only a part of a run that is kept.  ChatIInv follows *)
(* the saves of the Telegram settings, the bots they build and stop, and   *)
(* the one handler of a bot that is at work.                               *)
(***************************************************************************)
EXTENDS ShellCommands, RunRecords, TelegramChats, FiniteSetTheorems, TLAPS

------------------------------------------------------------------------------
(* Shell commands.                                                           *)

Backends == {"none", "docker", "host"}
Consents == [backend : Backends, mode : {"none"} \cup Modes,
             ask : BOOLEAN, only : BOOLEAN, review : BOOLEAN]
ShellRequests ==
    [tool : {"none", "exec", "exec_start", "exec_write_stdin"},
     kind : {"plain"} \cup Commands, env : BOOLEAN, given : BOOLEAN,
     target : {"none"} \cup Calls,
     stage : {"idle", "decided", "waiting", "approved", "allowed", "running", "killing", "over"},
     seen : Consents, bound : Consents, by : {"none", "mode", "user", "auto"}]
Processes ==
    [at : Backends, state : {"none", "pending", "live", "dead"}, mode : {"none"} \cup Modes,
     env : BOOLEAN, missed : BOOLEAN, lost : BOOLEAN]

(* environments is left out: its order does not matter here.                 *)
ShellTypes ==
    /\ settings \in [mode : Modes, permission : Permissions]
    /\ docker \in BOOLEAN
    /\ probe \in {"none", "up", "down"}
    /\ request \in [Calls -> ShellRequests]
    /\ process \in [Calls -> Processes]
    /\ sessions \subseteq Calls
    /\ old \subseteq sessions

(* Only the user reviews an untrusted command on the host: that much is part *)
(* of what is bound, for a call that starts a command.                       *)
Honest(q, consent) ==
    q.tool # "exec_write_stdin" =>
        (consent.only <=> consent.backend = "host" /\ q.kind \in Untrusted)

(* A call on its way: from its decision through the review to the check      *)
(* before it runs.                                                           *)
ReviewIsKept(q) ==
    /\ q.stage = "idle" => q = NoCall
    /\ q.given = q.env
    /\ Honest(q, q.seen) /\ Honest(q, q.bound)
    /\ q.tool # "exec_write_stdin" =>
        /\ q.stage = "decided" => q.seen.mode # "none"
        /\ q.stage \in {"waiting", "approved"} => q.bound # NoConsent
        /\ q.by \in {"user", "auto"} => q.bound # NoConsent
        /\ q.by = "auto" => ~q.bound.only
    /\ q.stage = "allowed" /\ q.by \in {"user", "auto"} => q.seen.backend = q.bound.backend

(* A process is that of a call that starts commands and is past its check;   *)
(* a call that is being killed leaves it alone only if it was not there yet. *)
RunsAsAllowed(c) ==
    /\ Ran(c) =>
        /\ request[c].stage \in {"running", "killing", "over"}
        /\ request[c].tool # "exec_write_stdin"
        /\ request[c].by \in {"user", "auto"} =>
              process[c].at = request[c].bound.backend /\ process[c].env = request[c].env
        /\ request[c].tool = "exec" =>
              /\ process[c].mode # "off"
              /\ process[c].mode = "docker" => process[c].at = "docker"
    /\ process[c].state = "none" => process[c].at = "none"
    /\ process[c].state \in {"pending", "live"} =>
        \/ request[c].stage = "running"
        \/ c \in sessions \/ process[c].missed \/ process[c].lost

ShellCallIInv(c) == ReviewIsKept(request[c]) /\ RunsAsAllowed(c)
ShellIInv == ShellTypes /\ \A c \in Calls : ShellCallIInv(c)

(* What the sandbox policy decides.                                          *)
LEMMA DecideFacts ==
    ASSUME ShellTypes, NEW kind
    PROVE  /\ Decide(kind) \in Consents
           /\ Decide(kind).mode = settings.mode /\ settings.mode \in Modes
           /\ Decide(kind).only <=> Decide(kind).backend = "host" /\ kind \in Untrusted
           /\ settings.mode = "off" => Decide(kind).backend = "none"
           /\ settings.mode = "docker" => Decide(kind).backend \in {"none", "docker"}
<1> DEFINE b == Backend(kind, DockerSeen)
           a == AlwaysAsk(kind, b, DockerSeen)
<1>1. settings.mode \in Modes BY DEF ShellTypes
<1>2. /\ b \in Backends
      /\ settings.mode = "off" => b = "none"
      /\ settings.mode = "docker" => b \in {"none", "docker"}
  BY <1>1 DEF Backend, Backends, Modes
<1> DEFINE o == b = "host" /\ kind \in Untrusted
<1>3. a \in BOOLEAN /\ o \in BOOLEAN BY DEF AlwaysAsk
<1> HIDE DEF b, a, o
<1>4. Decide(kind) = [backend |-> b, mode |-> settings.mode, ask |-> a, only |-> o, review |-> TRUE]
  BY DEF Decide, b, a, o
<1>5. /\ Decide(kind).backend = b /\ Decide(kind).mode = settings.mode
      /\ Decide(kind).only = o
  BY <1>4
<1>6. Decide(kind) \in Consents BY <1>1, <1>2, <1>3, <1>4 DEF Consents
<1>7. o <=> Decide(kind).backend = "host" /\ kind \in Untrusted BY <1>5 DEF o
<1> QED BY <1>1, <1>2, <1>5, <1>6, <1>7

(* The consent keeps the backend, and what only the user may review unless   *)
(* nobody is asked.                                                          *)
LEMMA ConsentFacts ==
    ASSUME NEW seen \in Consents
    PROVE  /\ Consent(seen) \in Consents
           /\ Consent(seen).backend = seen.backend /\ Consent(seen).mode = seen.mode
           /\ settings.permission # "full_access" => Consent(seen) = seen
BY DEF Consent, Consents

(* A step of one call that has no process.                                   *)
LEMMA OneRequest ==
    ASSUME ShellIInv, NEW c \in Calls, NEW q \in ShellRequests,
           request' = [request EXCEPT ![c] = q], ~Ran(c), ReviewIsKept(q),
           UNCHANGED <<settings, docker, process, sessions, old>>,
           probe' \in {probe, "up", "down"}
    PROVE  ShellIInv'
<1>1. ShellTypes' BY DEF ShellIInv, ShellTypes
<1>2. ASSUME NEW d \in Calls PROVE ShellCallIInv(d)'
  <2>1. CASE d = c
    <3>1. request'[d] = q BY <2>1 DEF ShellIInv, ShellTypes
    <3>2. process'[d].state = "none" /\ process'[d].at = "none"
      BY <2>1 DEF Ran, ShellIInv, ShellCallIInv, RunsAsAllowed
    <3> QED BY <3>1, <3>2 DEF ShellCallIInv, RunsAsAllowed, Ran
  <2>2. CASE d # c
    <3>1. request'[d] = request[d] BY <2>2 DEF ShellIInv, ShellTypes
    <3> QED BY <3>1 DEF ShellIInv, ShellCallIInv, RunsAsAllowed, Ran
  <2> QED BY <2>1, <2>2
<1> QED BY <1>1, <1>2 DEF ShellIInv

(* A call that is over is sound.                                             *)
LEMMA NoMoreIsSound == NoMore \in ShellRequests /\ ReviewIsKept(NoMore)
BY DEF NoMore, NoCall, NoConsent, ShellRequests, Consents, Backends, ReviewIsKept, Honest

(* A call that ends without a process.                                       *)
LEMMA OneOver ==
    ASSUME ShellIInv, NEW c \in Calls, request' = Over(c), ~Ran(c),
           UNCHANGED <<settings, docker, process, sessions, old>>,
           probe' \in {probe, "up", "down"}
    PROVE  ShellIInv'
BY OneRequest, NoMoreIsSound DEF Over

(* A call without a process is one that has not run.                         *)
LEMMA NotRunning ==
    ASSUME ShellIInv, NEW c \in Calls, request[c].stage \notin {"running", "killing", "over"}
    PROVE  ~Ran(c)
BY DEF ShellIInv, ShellCallIInv, RunsAsAllowed

(* A command is classified and its consent decided.                          *)
LEMMA ClassifyStep ==
    ASSUME ShellIInv, NEW c \in Calls, request[c].stage = "idle",
           NEW tool \in {"exec", "exec_start"}, NEW kind \in Commands, NEW env \in BOOLEAN,
           Classify(c, tool, kind, env)
    PROVE  ShellIInv'
<1>1. ~Ran(c) BY NotRunning
<1>p. probe' \in {probe, "up", "down"} BY DEF Classify, Probe
<1> DEFINE seen == Decide(kind)
           q == [request[c] EXCEPT !.tool = tool, !.kind = kind, !.env = env,
                                   !.given = env, !.seen = seen, !.stage = "decided"]
<1>2. CASE request' = Over(c) BY <1>1, <1>2, <1>p, OneOver DEF Classify
<1>3. CASE request' = [request EXCEPT ![c] = q]
  <2>1. seen \in Consents /\ (seen.only <=> seen.backend = "host" /\ kind \in Untrusted) /\ seen.mode # "none"
    BY DecideFacts DEF ShellIInv, Modes
  <2>2. request[c] = NoCall /\ request[c] \in ShellRequests
    BY DEF ShellIInv, ShellTypes, ShellCallIInv, ReviewIsKept
  <2> HIDE DEF seen
  <2>3. request[c].bound = NoConsent /\ request[c].by = "none" BY <2>2 DEF NoCall
  <2>4. q \in ShellRequests BY <2>1, <2>2 DEF ShellRequests
  <2>5. /\ q.tool = tool /\ q.kind = kind /\ q.env = env /\ q.given = env /\ q.seen = seen
        /\ q.stage = "decided" /\ q.bound = NoConsent /\ q.by = "none"
    BY <2>2, <2>3 DEF ShellRequests
  <2>6. NoConsent.only = FALSE /\ NoConsent.backend = "none" BY DEF NoConsent
  <2> HIDE DEF q
  <2>7. ReviewIsKept(q) BY <2>1, <2>5, <2>6 DEF ReviewIsKept, Honest
  <2> QED BY <1>1, <1>3, <1>p, <2>4, <2>7, OneRequest DEF Classify
<1> QED BY <1>2, <1>3 DEF Classify

(* The same for the input of a session.                                      *)
LEMMA ClassifyInputStep ==
    ASSUME ShellIInv, NEW c \in Calls, request[c].stage \in {"idle", "approved"},
           NEW s, NEW kind \in {"plain"} \cup Commands, ClassifyInput(c, s, kind)
    PROVE  ShellIInv'
<1>1. ~Ran(c) BY NotRunning
<1>p. probe' \in {probe, "up", "down"} BY DEF ClassifyInput, Probe
<1> DEFINE q == [request[c] EXCEPT !.tool = "exec_write_stdin", !.kind = kind,
                                   !.target = s, !.seen = request[s].seen, !.stage = "decided"]
<1>2. CASE request' = Over(c) BY <1>1, <1>2, <1>p, OneOver DEF ClassifyInput
<1>3. CASE s \in sessions /\ request' = [request EXCEPT ![c] = q]
  <2>1. s \in Calls /\ request[s].seen \in Consents /\ request[c] \in ShellRequests
    BY <1>3 DEF ShellIInv, ShellTypes, ShellRequests
  <2>2. request[c].given = request[c].env BY DEF ShellIInv, ShellCallIInv, ReviewIsKept
  <2>3. q \in ShellRequests BY <2>1 DEF ShellRequests
  <2>4. q.tool = "exec_write_stdin" /\ q.stage = "decided" /\ q.given = q.env
    BY <2>1, <2>2 DEF ShellRequests
  <2>5. ReviewIsKept(q) BY <2>4 DEF ReviewIsKept, Honest
  <2> QED BY <1>1, <1>3, <1>p, <2>3, <2>5, OneRequest DEF ClassifyInput
<1> QED BY <1>2, <1>3 DEF ClassifyInput

(* The review of a call, from the check to its replay.                       *)
LEMMA ReviewStep ==
    ASSUME ShellIInv, NEW c \in Calls,
           \/ PermissionCheck(c) \/ ReplayCheck(c) \/ Deny(c) \/ Resume(c)
           \/ \E by \in {"user", "auto"} : Approve(c, by)
    PROVE  ShellIInv'
<1>1. request[c] \in ShellRequests /\ ReviewIsKept(request[c]) /\ request[c].seen \in Consents
  BY DEF ShellIInv, ShellTypes, ShellCallIInv, ShellRequests
<1>2. CASE PermissionCheck(c)
  <2>0. ~Ran(c) BY <1>2, NotRunning DEF PermissionCheck
  <2>1. CASE settings.permission # "full_access"
    <3> DEFINE q == [request[c] EXCEPT !.stage = "waiting", !.bound = Consent(request[c].seen)]
    <3>1. request' = [request EXCEPT ![c] = q] BY <1>2, <2>1 DEF PermissionCheck
    <3>2. Consent(request[c].seen) = request[c].seen BY <1>1, <2>1, ConsentFacts
    <3>3. q \in ShellRequests BY <1>1, <3>2 DEF ShellRequests
    <3>4. /\ q.stage = "waiting" /\ q.bound = request[c].seen /\ q.seen = request[c].seen
          /\ q.tool = request[c].tool /\ q.kind = request[c].kind /\ q.by = request[c].by
          /\ q.given = request[c].given /\ q.env = request[c].env
      BY <1>1, <3>2 DEF ShellRequests
    <3>5. request[c].bound = NoConsent /\ request[c].stage = "decided" BY <1>2 DEF PermissionCheck
    <3>6. NoConsent.mode = "none" BY DEF NoConsent
    <3> HIDE DEF q
    <3>7. ReviewIsKept(q) BY <1>1, <3>4, <3>5, <3>6 DEF ReviewIsKept, Honest
    <3> QED BY <1>2, <2>0, <3>1, <3>3, <3>7, OneRequest DEF PermissionCheck
  <2>2. CASE settings.permission = "full_access"
    <3> DEFINE q == [request[c] EXCEPT !.stage = "allowed", !.by = "mode"]
    <3>1. request' = [request EXCEPT ![c] = q] BY <1>2, <2>2 DEF PermissionCheck
    <3>3. q \in ShellRequests BY <1>1 DEF ShellRequests
    <3>4. /\ q.stage = "allowed" /\ q.bound = request[c].bound /\ q.seen = request[c].seen
          /\ q.tool = request[c].tool /\ q.kind = request[c].kind /\ q.by = "mode"
          /\ q.given = request[c].given /\ q.env = request[c].env
      BY <1>1 DEF ShellRequests
    <3> HIDE DEF q
    <3>7. ReviewIsKept(q) BY <1>1, <3>4 DEF ReviewIsKept, Honest
    <3> QED BY <1>2, <2>0, <3>1, <3>3, <3>7, OneRequest DEF PermissionCheck
  <2> QED BY <2>1, <2>2
<1>3. CASE ReplayCheck(c)
  <2>0. ~Ran(c) BY <1>3, NotRunning DEF ReplayCheck
  <2>1. CASE StillAsApproved(c)
    <3> DEFINE q == [request[c] EXCEPT !.stage = "allowed"]
    <3>1. request' = [request EXCEPT ![c] = q] BY <1>3, <2>1 DEF ReplayCheck
    <3>2. request[c].seen.backend = request[c].bound.backend
      BY <1>1, <2>1, ConsentFacts DEF StillAsApproved
    <3>3. q \in ShellRequests BY <1>1 DEF ShellRequests
    <3>4. /\ q.stage = "allowed" /\ q.bound = request[c].bound /\ q.seen = request[c].seen
          /\ q.tool = request[c].tool /\ q.kind = request[c].kind /\ q.by = request[c].by
          /\ q.given = request[c].given /\ q.env = request[c].env
      BY <1>1 DEF ShellRequests
    <3> HIDE DEF q
    <3>7. ReviewIsKept(q) BY <1>1, <3>2, <3>4 DEF ReviewIsKept, Honest
    <3> QED BY <1>3, <2>0, <3>1, <3>3, <3>7, OneRequest DEF ReplayCheck
  <2>2. CASE ~StillAsApproved(c) BY <1>3, <2>0, <2>2, OneOver DEF ReplayCheck
  <2> QED BY <2>1, <2>2
<1>4. CASE \E by \in {"user", "auto"} : Approve(c, by)
  <2>1. PICK by \in {"user", "auto"} : Approve(c, by) BY <1>4
  <2> DEFINE q == [request[c] EXCEPT !.stage = "approved", !.by = by]
  <2>2. request' = [request EXCEPT ![c] = q] BY <1>1, <2>1 DEF Approve
  <2>3. q \in ShellRequests BY <1>1 DEF ShellRequests
  <2>4. /\ q.stage = "approved" /\ q.bound = request[c].bound /\ q.seen = request[c].seen
        /\ q.tool = request[c].tool /\ q.kind = request[c].kind /\ q.by = by
        /\ q.given = request[c].given /\ q.env = request[c].env
    BY <1>1 DEF ShellRequests
  <2>5. request[c].stage = "waiting" /\ (by = "auto" => ~request[c].bound.only)
    BY <2>1 DEF Approve, MayReview
  <2> HIDE DEF q
  <2>6. ReviewIsKept(q) BY <1>1, <2>4, <2>5 DEF ReviewIsKept, Honest
  <2>7. ~Ran(c) BY <2>5, NotRunning
  <2> QED BY <2>1, <2>2, <2>3, <2>6, <2>7, OneRequest DEF Approve
<1>5. CASE Deny(c)
  <2>1. ~Ran(c) BY <1>5, NotRunning DEF Deny
  <2> QED BY <1>5, <2>1, OneOver DEF Deny
<1>6. CASE Resume(c)
  <2>0. ~Ran(c) BY <1>6, NotRunning DEF Resume
  <2>p. probe' \in {probe, "up", "down"} BY <1>6 DEF Resume, Probe
  <2>1. CASE request' = Over(c) BY <1>6, <2>0, <2>1, <2>p, OneOver DEF Resume
  <2>2. CASE request' # Over(c)
    <3> DEFINE seen == Decide(request[c].kind)
               kept == request[c].given /\ Contains(environments, c)
               q == [request[c] EXCEPT !.seen = seen, !.stage = "decided", !.given = kept]
    <3>1. request' = [request EXCEPT ![c] = q] /\ ~(request[c].env /\ ~Contains(environments, c))
      BY <1>6, <2>2 DEF Resume
    <3>2. /\ seen \in Consents /\ seen.mode # "none"
          /\ seen.only <=> seen.backend = "host" /\ request[c].kind \in Untrusted
      BY DecideFacts DEF ShellIInv, Modes
    <3>3. kept = request[c].env BY <1>1, <3>1 DEF ReviewIsKept, ShellRequests
    <3> HIDE DEF seen, kept
    <3>4. q \in ShellRequests BY <1>1, <3>2, <3>3 DEF ShellRequests
    <3>5. /\ q.stage = "decided" /\ q.bound = request[c].bound /\ q.seen = seen
          /\ q.tool = request[c].tool /\ q.kind = request[c].kind /\ q.by = request[c].by
          /\ q.given = kept /\ q.env = request[c].env
      BY <1>1 DEF ShellRequests
    <3>6. request[c].stage = "approved" BY <1>6 DEF Resume
    <3> HIDE DEF q
    <3>7. ReviewIsKept(q) BY <1>1, <3>2, <3>3, <3>5, <3>6 DEF ReviewIsKept, Honest
    <3>8. UNCHANGED <<settings, docker, process, sessions, old>> BY <1>6 DEF Resume
    <3> QED BY <2>0, <2>p, <3>1, <3>4, <3>7, <3>8, OneRequest
  <2> QED BY <2>1, <2>2
<1> QED BY <1>2, <1>3, <1>4, <1>5, <1>6

(* A call nothing happens to, or whose process ends and is forgotten.        *)
LEMMA Undisturbed ==
    ASSUME ShellIInv, NEW d \in Calls, request'[d] = request[d],
           \/ process'[d] = NoProcess
           \/ process'[d] = process[d] /\ (d \in sessions => d \in sessions')
    PROVE  ShellCallIInv(d)'
<1>1. CASE process'[d] = NoProcess
  BY <1>1 DEF ShellIInv, ShellCallIInv, RunsAsAllowed, Ran, NoProcess
<1>2. CASE process'[d] = process[d] /\ (d \in sessions => d \in sessions')
  BY <1>2 DEF ShellIInv, ShellCallIInv, RunsAsAllowed, Ran
<1> QED BY <1>1, <1>2

(* A process that is killed or ends leaves its call as it was.               *)
LEMMA StillSound ==
    ASSUME ShellIInv, NEW d \in Calls, NEW p \in Processes,
           process'[d] = p, process[d].state # "none", p.state # "none",
           p.at = process[d].at, p.mode = process[d].mode, p.env = process[d].env,
           \/ request'[d] = request[d]
           \/ /\ request[d].stage # "idle"
              /\ \E stage \in {"killing", "over"} : request'[d] = [request[d] EXCEPT !.stage = stage],
           p.state \in {"pending", "live"} =>
               request'[d].stage = "running" \/ d \in sessions' \/ p.missed \/ p.lost
    PROVE  ShellCallIInv(d)'
<1>1. request[d] \in ShellRequests /\ ReviewIsKept(request[d]) /\ RunsAsAllowed(d) /\ Ran(d)
  BY DEF ShellIInv, ShellTypes, ShellCallIInv, Ran
<1>2. /\ request'[d].stage = request[d].stage \/ request'[d].stage \in {"killing", "over"}
      /\ request'[d].tool = request[d].tool /\ request'[d].kind = request[d].kind
      /\ request'[d].env = request[d].env /\ request'[d].given = request[d].given
      /\ request'[d].seen = request[d].seen /\ request'[d].bound = request[d].bound
      /\ request'[d].by = request[d].by
  BY <1>1 DEF ShellRequests
<1>3. request[d].stage \in {"running", "killing", "over"} BY <1>1 DEF RunsAsAllowed
<1>4. ReviewIsKept(request'[d]) BY <1>1, <1>2, <1>3 DEF ReviewIsKept, Honest
<1>5. RunsAsAllowed(d)' BY <1>1, <1>2, <1>3 DEF RunsAsAllowed, Ran
<1> QED BY <1>4, <1>5 DEF ShellCallIInv

(* The types of a step of the surroundings, or of one call and its process.  *)
LEMMA TypesStep ==
    ASSUME ShellTypes, NEW c \in Calls,
           UNCHANGED settings, UNCHANGED docker, probe' \in {probe, "up", "down"},
           \/ UNCHANGED request
           \/ \E q \in ShellRequests : request' = [request EXCEPT ![c] = q],
           \/ UNCHANGED process
           \/ \E p \in Processes : process' = [process EXCEPT ![c] = p],
           sessions' \subseteq Calls, old' \subseteq sessions'
    PROVE  ShellTypes'
BY DEF ShellTypes

(* A call that only moves on stays a request.                                *)
LEMMA StageOf ==
    ASSUME ShellTypes, NEW c \in Calls, NEW stage \in {"running", "killing", "over"},
           request' = [request EXCEPT ![c].stage = stage]
    PROVE  /\ request'[c] = [request[c] EXCEPT !.stage = stage]
           /\ \E q \in ShellRequests : request' = [request EXCEPT ![c] = q]
           /\ \A d \in Calls : d # c => request'[d] = request[d]
<1> DEFINE q == [request[c] EXCEPT !.stage = stage]
<1>1. request[c] \in ShellRequests BY DEF ShellTypes
<1>2. q \in ShellRequests BY <1>1 DEF ShellRequests
<1>3. request' = [request EXCEPT ![c] = q] OBVIOUS
<1> QED BY <1>2, <1>3 DEF ShellTypes

(* What a new process is.                                                    *)
LEMMA NewProcessFacts ==
    ASSUME ShellTypes, NEW c \in Calls, NEW at \in Backends
    PROVE  /\ NewProcess(c, at) \in Processes
           /\ NewProcess(c, at).at = at /\ NewProcess(c, at).env = request[c].given
           /\ NewProcess(c, at).mode = settings.mode /\ NewProcess(c, at).state # "none"
<1> DEFINE state == CASE at = "host" -> "live" [] docker -> "pending" [] OTHER -> "dead"
<1>1. state \in {"pending", "live", "dead"} BY DEF ShellTypes
<1>2. settings.mode \in Modes /\ request[c].given \in BOOLEAN BY DEF ShellTypes, ShellRequests
<1>3. NoProcess \in Processes BY DEF NoProcess, Processes, Backends
<1>4. NewProcess(c, at) = [NoProcess EXCEPT !.at = at, !.mode = settings.mode,
                                            !.env = request[c].given, !.state = state]
  BY DEF NewProcess
<1> HIDE DEF state
<1> QED BY <1>1, <1>2, <1>3, <1>4 DEF Processes

(* A call that was allowed starts what was decided.                          *)
LEMMA StartedAsAllowed ==
    ASSUME ShellIInv, NEW c \in Calls, request[c].stage = "allowed",
           request[c].tool # "exec_write_stdin",
           process'[c] = NewProcess(c, request[c].seen.backend),
           \/ request'[c] = [request[c] EXCEPT !.stage = "running"] /\ SameBackend(c)
           \/ /\ request'[c] = [request[c] EXCEPT !.stage = "over"] /\ c \in sessions'
              /\ request[c].tool = "exec_start"
    PROVE  ShellCallIInv(c)'
<1>1. request[c] \in ShellRequests /\ request[c].seen.backend \in Backends /\ ReviewIsKept(request[c])
  BY DEF ShellIInv, ShellTypes, ShellCallIInv, ShellRequests, Consents
<1>2. /\ request'[c].stage \in {"running", "over"}
      /\ request'[c].tool = request[c].tool /\ request'[c].kind = request[c].kind
      /\ request'[c].env = request[c].env /\ request'[c].given = request[c].given
      /\ request'[c].seen = request[c].seen /\ request'[c].bound = request[c].bound
      /\ request'[c].by = request[c].by
  BY <1>1 DEF ShellRequests
<1>3. ReviewIsKept(request'[c]) BY <1>1, <1>2 DEF ReviewIsKept, Honest
<1>4. /\ process'[c].at = request[c].seen.backend /\ process'[c].env = request[c].env
      /\ process'[c].mode = settings.mode /\ process'[c].state # "none"
  BY <1>1, NewProcessFacts DEF ReviewIsKept, ShellIInv
<1>5. ASSUME request[c].tool = "exec"
      PROVE  /\ settings.mode # "off"
             /\ settings.mode = "docker" => request[c].seen.backend = "docker"
  BY <1>5, DecideFacts DEF SameBackend, ShellIInv
<1>6. request'[c].stage = "running" \/ c \in sessions' BY <1>1 DEF ShellRequests
<1>7. RunsAsAllowed(c)'
  BY <1>1, <1>2, <1>4, <1>5, <1>6 DEF RunsAsAllowed, Ran, ReviewIsKept
<1> QED BY <1>3, <1>7 DEF ShellCallIInv

(* The manager runs a call, or finds that its backend changed.               *)
LEMMA ManagerStep ==
    ASSUME ShellIInv, NEW c \in Calls, ManagerRun(c)
    PROVE  ShellIInv'
<1>p. probe' \in {probe, "up", "down"} BY DEF ManagerRun, Probe
<1>1. CASE ~SameBackend(c)
  <2>1. ~Ran(c) BY NotRunning DEF ManagerRun
  <2> QED BY <1>p, <1>1, <2>1, OneOver DEF ManagerRun
<1>2. CASE SameBackend(c)
  <2> DEFINE p == NewProcess(c, request[c].seen.backend)
  <2>0. ShellTypes BY DEF ShellIInv
  <2>1. request[c].seen.backend \in Backends BY <2>0 DEF ShellTypes, ShellRequests, Consents
  <2>2. p \in Processes BY <2>0, <2>1, NewProcessFacts
  <2>3. /\ request' = [request EXCEPT ![c].stage = "running"]
        /\ process' = [process EXCEPT ![c] = p]
        /\ request[c].stage = "allowed" /\ request[c].tool = "exec"
        /\ UNCHANGED <<settings, docker, sessions, old>>
    BY <1>2 DEF ManagerRun
  <2>4. process'[c] = p /\ \A d \in Calls : d # c => process'[d] = process[d]
    BY <2>0, <2>3 DEF ShellTypes
  <2> HIDE DEF p
  <2>5. ShellTypes'
    <3>1. \E q \in ShellRequests : request' = [request EXCEPT ![c] = q] BY <2>0, <2>3, StageOf
    <3>2. sessions' \subseteq Calls /\ old' \subseteq sessions' BY <2>0, <2>3 DEF ShellTypes
    <3> QED BY <1>p, <2>0, <2>2, <2>3, <3>1, <3>2, TypesStep
  <2>6. request'[c] = [request[c] EXCEPT !.stage = "running"] BY <2>0, <2>3, StageOf
  <2>7. ShellCallIInv(c)' BY <1>2, <2>3, <2>4, <2>6, StartedAsAllowed DEF p
  <2>8. ASSUME NEW d \in Calls, d # c PROVE ShellCallIInv(d)'
    <3>1. request'[d] = request[d] BY <2>0, <2>3, <2>8, StageOf
    <3> QED BY <2>3, <2>4, <2>8, <3>1, Undisturbed
  <2> QED BY <2>5, <2>7, <2>8 DEF ShellIInv
<1> QED BY <1>1, <1>2

(* A background session starts.                                              *)
LEMMA StartSessionStep ==
    ASSUME ShellIInv, NEW c \in Calls, StartSession(c)
    PROVE  ShellIInv'
<1> DEFINE p == NewProcess(c, request[c].seen.backend)
<1>0. ShellTypes BY DEF ShellIInv
<1>1. request[c].seen.backend \in Backends BY <1>0 DEF ShellTypes, ShellRequests, Consents
<1>2. p \in Processes BY <1>0, <1>1, NewProcessFacts
<1>3. /\ request' = [request EXCEPT ![c].stage = "over"]
      /\ process' = [s \in Calls |-> IF s = c THEN p ELSE IF s \in old THEN NoProcess ELSE process[s]]
      /\ sessions' = (sessions \ old) \union {c} /\ old' = {}
      /\ request[c].stage = "allowed" /\ request[c].tool = "exec_start"
      /\ UNCHANGED <<settings, docker, probe>>
  BY DEF StartSession
<1> HIDE DEF p
<1>4. NoProcess \in Processes BY DEF NoProcess, Processes, Backends
<1>5. process' \in [Calls -> Processes] BY <1>0, <1>2, <1>3, <1>4 DEF ShellTypes
<1>6. ShellTypes'
  <2>1. \E q \in ShellRequests : request' = [request EXCEPT ![c] = q] BY <1>0, <1>3, StageOf
  <2>2. request' \in [Calls -> ShellRequests] BY <1>0, <2>1 DEF ShellTypes
  <2> QED BY <1>0, <1>3, <1>5, <2>2 DEF ShellTypes
<1>7. request'[c] = [request[c] EXCEPT !.stage = "over"] BY <1>0, <1>3, StageOf
<1>8. process'[c] = p BY <1>3
<1>9. ShellCallIInv(c)' BY <1>3, <1>7, <1>8, StartedAsAllowed DEF p
<1>10. ASSUME NEW d \in Calls, d # c PROVE ShellCallIInv(d)'
  <2>1. request'[d] = request[d] BY <1>0, <1>3, <1>10, StageOf
  <2>2. \/ process'[d] = NoProcess
        \/ process'[d] = process[d] /\ (d \in sessions => d \in sessions')
    BY <1>3, <1>10
  <2> QED BY <2>1, <2>2, Undisturbed
<1> QED BY <1>6, <1>9, <1>10 DEF ShellIInv

(* A session ends and is forgotten.                                          *)
LEMMA ExpireStep ==
    ASSUME ShellIInv, NEW s \in sessions, Expire(s), NEW c \in Calls,
           UNCHANGED <<settings, docker, probe>>,
           \/ UNCHANGED request
           \/ request' = Over(c) /\ request[c].stage = "allowed"
    PROVE  ShellIInv'
<1>0. ShellTypes /\ s \in Calls BY DEF ShellIInv, ShellTypes
<1>1. NoProcess \in Processes BY DEF NoProcess, Processes, Backends
<1>2. /\ process' = [process EXCEPT ![s] = NoProcess]
      /\ sessions' = sessions \ {s} /\ old' = old \ {s}
  BY DEF Expire
<1>3. process' \in [Calls -> Processes] /\ process'[s] = NoProcess
      /\ \A d \in Calls : d # s => process'[d] = process[d]
  BY <1>0, <1>1, <1>2 DEF ShellTypes
<1>4. request' \in [Calls -> ShellRequests] BY <1>0, NoMoreIsSound DEF ShellTypes, Over
<1>5. ShellTypes' BY <1>0, <1>2, <1>3, <1>4 DEF ShellTypes
<1>6. ASSUME NEW d \in Calls PROVE ShellCallIInv(d)'
  <2>1. CASE request'[d] = request[d]
    <3>1. \/ process'[d] = NoProcess
          \/ process'[d] = process[d] /\ (d \in sessions => d \in sessions')
      BY <1>2, <1>3
    <3> QED BY <2>1, <3>1, Undisturbed
  <2>2. CASE request'[d] # request[d]
    <3>1. d = c /\ request' = Over(c) /\ request[c].stage = "allowed" BY <1>0, <2>2 DEF Over, ShellTypes
    <3>2. request'[d] = NoMore BY <1>0, <3>1 DEF Over, ShellTypes
    <3>3. ~Ran(d) BY <3>1, NotRunning
    <3>4. process'[d].state = "none" /\ process'[d].at = "none"
      BY <1>3, <3>3 DEF Ran, NoProcess, ShellIInv, ShellCallIInv, RunsAsAllowed
    <3> QED BY <3>2, <3>4, NoMoreIsSound DEF ShellCallIInv, RunsAsAllowed, Ran
  <2> QED BY <2>1, <2>2
<1> QED BY <1>5, <1>6 DEF ShellIInv

(* Sessions are written to, polled, stopped and grow old.                    *)
LEMMA SessionStep ==
    ASSUME ShellIInv, NEW c \in Calls,
           WriteStdin(c) \/ PollExpires(c) \/ StopSession(c) \/ ReachesAge(c)
    PROVE  ShellIInv'
<1>1. CASE WriteStdin(c)
  <2>1. CASE request[c].target \in old
    <3>1. request[c].target \in sessions BY <2>1 DEF ShellIInv, ShellTypes
    <3> QED BY <1>1, <2>1, <3>1, ExpireStep DEF WriteStdin
  <2>2. CASE request[c].target \notin old
    <3>1. ~Ran(c) BY <1>1, NotRunning DEF WriteStdin
    <3> QED BY <1>1, <2>2, <3>1, OneOver DEF WriteStdin
  <2> QED BY <2>1, <2>2
<1>2. CASE PollExpires(c) \/ StopSession(c)
  BY <1>2, ExpireStep DEF PollExpires, StopSession
<1>3. CASE ReachesAge(c)
  <2>1. ShellTypes' BY <1>3 DEF ReachesAge, ShellIInv, ShellTypes
  <2>2. ASSUME NEW d \in Calls PROVE ShellCallIInv(d)' BY <1>3, <2>2, Undisturbed DEF ReachesAge
  <2> QED BY <2>1, <2>2 DEF ShellIInv
<1> QED BY <1>1, <1>2, <1>3

(* One process moves, and its call with it.                                  *)
LEMMA OneProcess ==
    ASSUME ShellIInv, NEW c \in Calls, NEW p \in Processes,
           process' = [process EXCEPT ![c] = p],
           UNCHANGED <<settings, docker, probe, sessions, old>>,
           \/ UNCHANGED request
           \/ request' = Over(c)
           \/ \E stage \in {"killing", "over"} : request' = [request EXCEPT ![c].stage = stage],
           ShellCallIInv(c)'
    PROVE  ShellIInv'
<1>0. ShellTypes BY DEF ShellIInv
<1>1. /\ \A d \in Calls : d # c => request'[d] = request[d]
      /\ UNCHANGED request \/ \E q \in ShellRequests : request' = [request EXCEPT ![c] = q]
  <2>1. CASE UNCHANGED request BY <2>1
  <2>2. CASE request' = Over(c) BY <1>0, <2>2, NoMoreIsSound DEF Over, ShellTypes
  <2>3. CASE \E stage \in {"killing", "over"} : request' = [request EXCEPT ![c].stage = stage]
    BY <1>0, <2>3, StageOf
  <2> QED BY <2>1, <2>2, <2>3
<1>2. ShellTypes'
  <2>1. sessions' \subseteq Calls /\ old' \subseteq sessions' BY <1>0 DEF ShellTypes
  <2> QED BY <1>0, <1>1, <2>1, TypesStep
<1>3. ASSUME NEW d \in Calls, d # c PROVE ShellCallIInv(d)'
  <2>1. process'[d] = process[d] BY <1>0, <1>3 DEF ShellTypes
  <2> QED BY <1>1, <1>3, <2>1, Undisturbed
<1> QED BY <1>2, <1>3 DEF ShellIInv

(* Processes start and end.                                                  *)
LEMMA ProcessStep ==
    ASSUME ShellIInv, NEW c \in Calls,
           \/ ContainerStarts(c) \/ Exits(c) \/ CommandEnds(c) \/ StopRun(c) \/ ClientKilled(c)
    PROVE  ShellIInv'
<1>0. /\ ShellTypes /\ process[c] \in Processes /\ request[c] \in ShellRequests
      /\ RunsAsAllowed(c)
  BY DEF ShellIInv, ShellTypes, ShellCallIInv
<1>n. NoProcess \in Processes BY DEF NoProcess, Processes, Backends
<1>w. ASSUME NEW p, process' = [process EXCEPT ![c] = p] PROVE process'[c] = p
  BY <1>0, <1>w DEF ShellTypes
<1>1. CASE ContainerStarts(c)
  <2> DEFINE p == [process[c] EXCEPT !.state = "live"]
  <2>1. /\ process' = [process EXCEPT ![c] = p] /\ process[c].state = "pending"
        /\ UNCHANGED <<settings, docker, probe, sessions, old, request>>
    BY <1>1 DEF ContainerStarts
  <2>2. p \in Processes BY <1>0 DEF Processes
  <2>3. /\ p.state = "live" /\ p.at = process[c].at /\ p.mode = process[c].mode /\ p.env = process[c].env
        /\ p.missed = process[c].missed /\ p.lost = process[c].lost
    BY <1>0 DEF Processes
  <2> HIDE DEF p
  <2>4. process'[c] = p BY <1>w, <2>1
  <2>5. request'[c].stage = "running" \/ c \in sessions' \/ p.missed \/ p.lost
    BY <1>0, <2>1, <2>3 DEF RunsAsAllowed
  <2>6. ShellCallIInv(c)' BY <2>1, <2>2, <2>3, <2>4, <2>5, StillSound
  <2> QED BY <2>1, <2>2, <2>6, OneProcess
<1>2. CASE Exits(c)
  <2>1. CASE process' = [process EXCEPT ![c] = NoProcess]
    <3>1. process'[c] = NoProcess BY <1>w, <2>1
    <3>2. ShellCallIInv(c)' BY <1>2, <3>1, Undisturbed DEF Exits
    <3> QED BY <1>n, <1>2, <2>1, <3>2, OneProcess DEF Exits
  <2>2. CASE process' # [process EXCEPT ![c] = NoProcess]
    <3> DEFINE p == [process[c] EXCEPT !.state = "dead"]
    <3>1. /\ process' = [process EXCEPT ![c] = p] /\ process[c].state = "live"
          /\ UNCHANGED <<settings, docker, probe, sessions, old, request>>
      BY <1>2, <2>2 DEF Exits
    <3>2. p \in Processes BY <1>0 DEF Processes
    <3>3. /\ p.state = "dead" /\ p.at = process[c].at /\ p.mode = process[c].mode /\ p.env = process[c].env
      BY <1>0 DEF Processes
    <3> HIDE DEF p
    <3>4. process'[c] = p BY <1>w, <3>1
    <3>5. ShellCallIInv(c)' BY <3>1, <3>2, <3>3, <3>4, StillSound
    <3> QED BY <3>1, <3>2, <3>5, OneProcess
  <2> QED BY <2>1, <2>2
<1>3. CASE CommandEnds(c)
  <2>1. request'[c] = NoMore BY <1>0, <1>3 DEF CommandEnds, Over, ShellTypes
  <2>2. process'[c] = NoProcess BY <1>w, <1>3 DEF CommandEnds
  <2>3. ShellCallIInv(c)'
    BY <2>1, <2>2, NoMoreIsSound DEF ShellCallIInv, RunsAsAllowed, Ran, NoProcess
  <2> QED BY <1>n, <1>3, <2>3, OneProcess DEF CommandEnds
<1>4. CASE StopRun(c)
  <2>7. PICK p \in {[process[c] EXCEPT !.missed = TRUE], [process[c] EXCEPT !.state = "dead"]} :
            process' = [process EXCEPT ![c] = p]
    BY <1>4 DEF StopRun
  <2>1. /\ process' = [process EXCEPT ![c] = p] /\ process[c].state \in {"pending", "live"}
        /\ request' = [request EXCEPT ![c].stage = "killing"] /\ request[c].stage = "running"
        /\ UNCHANGED <<settings, docker, probe, sessions, old>>
    BY <1>4, <2>7 DEF StopRun
  <2>2. p \in Processes BY <1>0, <2>7 DEF Processes
  <2>3. /\ p.at = process[c].at /\ p.mode = process[c].mode /\ p.env = process[c].env
        /\ p.state \in {"pending", "live"} => p.missed
        /\ p.state # "none"
    BY <1>0, <2>1, <2>7 DEF Processes
  <2>4. process'[c] = p BY <1>w, <2>1
  <2>5. request'[c] = [request[c] EXCEPT !.stage = "killing"] BY <1>0, <2>1, StageOf
  <2>6. ShellCallIInv(c)' BY <2>1, <2>2, <2>3, <2>4, <2>5, StillSound
  <2> QED BY <2>1, <2>2, <2>6, OneProcess
<1>5. CASE ClientKilled(c)
  <2>1. PICK p \in {process[c], NoProcess} :
            /\ process' = [process EXCEPT ![c] = p]
            /\ process[c].state = "dead" => p = NoProcess
    BY <1>5 DEF ClientKilled
  <2>2. /\ request' = [request EXCEPT ![c].stage = "over"] /\ request[c].stage = "killing"
        /\ UNCHANGED <<settings, docker, probe, sessions, old>>
    BY <1>5 DEF ClientKilled
  <2>3. process'[c] = p BY <1>w, <2>1
  <2>4. request'[c] = [request[c] EXCEPT !.stage = "over"] BY <1>0, <2>2, StageOf
  <2>5. p \in Processes BY <1>0, <1>n, <2>1
  <2>6. ShellCallIInv(c)'
    <3>1. CASE p.state # "none"
      <4>1. p = process[c] BY <2>1, <3>1 DEF NoProcess
      <4>2. p.state \in {"pending", "live"} => c \in sessions' \/ p.missed \/ p.lost
        BY <1>0, <2>2, <4>1 DEF RunsAsAllowed
      <4> QED BY <2>2, <2>3, <2>4, <2>5, <3>1, <4>1, <4>2, StillSound
    <3>2. CASE p.state = "none"
      <4>1. ReviewIsKept(request[c]) BY DEF ShellIInv, ShellCallIInv
      <4>2. /\ request'[c].stage = "over"
            /\ request'[c].tool = request[c].tool /\ request'[c].kind = request[c].kind
            /\ request'[c].env = request[c].env /\ request'[c].given = request[c].given
            /\ request'[c].seen = request[c].seen /\ request'[c].bound = request[c].bound
            /\ request'[c].by = request[c].by
        BY <1>0, <2>4 DEF ShellRequests
      <4>3. ReviewIsKept(request'[c]) BY <4>1, <4>2 DEF ReviewIsKept, Honest
      <4>4. RunsAsAllowed(c)' BY <1>0, <2>1, <2>3, <3>2 DEF RunsAsAllowed, Ran, NoProcess
      <4> QED BY <4>3, <4>4 DEF ShellCallIInv
    <3> QED BY <3>1, <3>2
  <2> QED BY <2>1, <2>2, <2>5, <2>6, OneProcess
<1> QED BY <1>1, <1>2, <1>3, <1>4, <1>5

(* The settings and the cache change no call and no process.                 *)
LEMMA SurroundingStep ==
    ASSUME ShellIInv,
           \/ \E mode \in Modes, permission \in Permissions : SettingsChange(mode, permission)
           \/ CacheExpires \/ UNCHANGED shellVars
    PROVE  ShellIInv'
<1>1. ShellTypes'
  BY DEF SettingsChange, CacheExpires, shellVars, ShellIInv, ShellTypes
<1>2. UNCHANGED <<request, process, sessions>> BY DEF SettingsChange, CacheExpires, shellVars
<1>3. ASSUME NEW d \in Calls PROVE ShellCallIInv(d)' BY <1>2, <1>3, Undisturbed
<1> QED BY <1>1, <1>3 DEF ShellIInv

(* Containers end with their daemon, and everything in memory with Monaw.    *)
LEMMA FailureStep ==
    ASSUME ShellIInv, DockerChanges \/ ShellCrash
    PROVE  ShellIInv'
<1>n. NoProcess \in Processes BY DEF NoProcess, Processes, Backends
<1>1. CASE DockerChanges
  <2>0. UNCHANGED <<settings, probe, request, sessions, old>> /\ docker' \in BOOLEAN
    BY <1>1 DEF DockerChanges
  <2>1. ASSUME NEW d \in Calls PROVE process'[d] \in Processes /\ ShellCallIInv(d)'
    <3>0. process[d] \in Processes BY DEF ShellIInv, ShellTypes
    <3>1. CASE process'[d] \in {process[d], NoProcess}
      BY <1>n, <2>0, <2>1, <3>0, <3>1, Undisturbed
    <3>2. CASE process'[d] = [process[d] EXCEPT !.state = "dead"] /\ process'[d] # process[d]
      <4>1. /\ process'[d] \in Processes /\ process'[d].state = "dead"
            /\ process'[d].at = process[d].at /\ process'[d].mode = process[d].mode
            /\ process'[d].env = process[d].env
        BY <3>0, <3>2 DEF Processes
      <4>2. process[d].at = "docker" BY <1>1, <2>1, <3>1, <3>2 DEF DockerChanges
      <4>3. process[d].state # "none"
        BY <4>2 DEF ShellIInv, ShellCallIInv, RunsAsAllowed
      <4> QED BY <2>0, <2>1, <4>1, <4>3, StillSound
    <3> QED BY <1>1, <3>1, <3>2 DEF DockerChanges
  <2>2. process' \in [Calls -> Processes] BY <1>1, <2>1 DEF DockerChanges
  <2> QED BY <2>0, <2>1, <2>2 DEF ShellIInv, ShellTypes
<1>2. CASE ShellCrash
  <2>0. UNCHANGED <<settings, docker>> /\ probe' = "none" /\ sessions' = {} /\ old' = {}
    BY <1>2 DEF ShellCrash
  <2>1. ASSUME NEW d \in Calls
        PROVE  request'[d] \in ShellRequests /\ process'[d] \in Processes /\ ShellCallIInv(d)'
    <3> DEFINE lost == process[d].lost \/ process[d].state \in {"live", "pending"}
    <3>0. request[d] \in ShellRequests /\ process[d] \in Processes /\ ReviewIsKept(request[d]) /\ RunsAsAllowed(d)
      BY DEF ShellIInv, ShellTypes, ShellCallIInv
    <3>1. process'[d] = [process[d] EXCEPT !.lost = lost] BY <1>2 DEF ShellCrash
    <3>2. lost \in BOOLEAN BY <3>0 DEF Processes
    <3>3. /\ process'[d] \in Processes /\ process'[d].state = process[d].state
          /\ process'[d].at = process[d].at /\ process'[d].mode = process[d].mode
          /\ process'[d].env = process[d].env /\ process'[d].lost = lost
      BY <3>0, <3>1, <3>2 DEF Processes
    <3>4. CASE request[d].stage \in {"idle", "waiting", "approved"}
      <4>1. request'[d] = request[d] BY <1>2, <3>4 DEF ShellCrash
      <4>2. process[d].state = "none" BY <3>4, NotRunning DEF Ran
      <4> QED BY <3>0, <3>3, <4>1, <4>2 DEF ShellCallIInv, RunsAsAllowed, Ran
    <3>5. CASE request[d].stage \notin {"idle", "waiting", "approved"}
      <4>1. request'[d] = [request[d] EXCEPT !.stage = "over"] BY <1>2, <3>5 DEF ShellCrash
      <4>2. /\ request'[d] \in ShellRequests /\ request'[d].stage = "over"
            /\ request'[d].tool = request[d].tool /\ request'[d].kind = request[d].kind
            /\ request'[d].env = request[d].env /\ request'[d].given = request[d].given
            /\ request'[d].seen = request[d].seen /\ request'[d].bound = request[d].bound
            /\ request'[d].by = request[d].by
        BY <3>0, <4>1 DEF ShellRequests
      <4>3. ReviewIsKept(request'[d]) BY <3>0, <4>2 DEF ReviewIsKept, Honest
      <4>4. RunsAsAllowed(d)' BY <3>0, <3>3, <4>2 DEF RunsAsAllowed, Ran
      <4> QED BY <3>3, <4>2, <4>3, <4>4 DEF ShellCallIInv
    <3> QED BY <3>4, <3>5, <3>3, <3>0
  <2>2. process' \in [Calls -> Processes] /\ request' \in [Calls -> ShellRequests]
    BY <1>2, <2>1 DEF ShellCrash
  <2> QED BY <2>0, <2>1, <2>2 DEF ShellIInv, ShellTypes
<1> QED BY <1>1, <1>2

(* The inductive invariant of the shell commands.                            *)
LEMMA ShellInvariance == ShellSpec => []ShellIInv
<1>1. ShellInit => ShellIInv
  <2> SUFFICES ASSUME ShellInit PROVE ShellIInv OBVIOUS
  <2>1. /\ NoCall \in ShellRequests /\ NoCall.stage = "idle" /\ NoCall.given = NoCall.env
        /\ NoCall.by = "none" /\ NoCall.seen = NoConsent /\ NoCall.bound = NoConsent
    BY DEF NoCall, NoConsent, ShellRequests, Consents, Backends
  <2>2. NoProcess \in Processes /\ NoProcess.state = "none" /\ NoProcess.at = "none"
    BY DEF NoProcess, Processes, Backends
  <2>3. ReviewIsKept(NoCall) BY <2>1 DEF ReviewIsKept, Honest, NoConsent
  <2>4. settings \in [mode : Modes, permission : Permissions] BY DEF ShellInit, Modes
  <2>5. ShellTypes BY <2>1, <2>2, <2>4 DEF ShellInit, ShellTypes
  <2>6. ASSUME NEW c \in Calls PROVE ShellCallIInv(c)
    <3>1. request[c] = NoCall /\ process[c] = NoProcess BY DEF ShellInit
    <3> QED BY <2>2, <2>3, <3>1 DEF ShellCallIInv, RunsAsAllowed, Ran
  <2> QED BY <2>5, <2>6 DEF ShellIInv
<1>2. ShellIInv /\ [ShellNext]_shellVars => ShellIInv'
  <2> SUFFICES ASSUME ShellIInv, [ShellNext]_shellVars PROVE ShellIInv' OBVIOUS
  <2>1. CASE \E c \in Calls :
               \/ \E kind \in Commands : \E env \in Values(kind) : Exec(c, kind, env)
               \/ \E kind \in Commands : \E env \in Values(kind) : ExecStart(c, kind, env)
    BY <2>1, ClassifyStep DEF Exec, ExecStart, Values
  <2>2. CASE \E c \in Calls :
               \/ \E s \in Calls, kind \in Commands : ExecWriteStdin(c, s, kind)
               \/ ResumeWriteStdin(c)
    <3>1. \A c \in Calls : request[c].kind \in {"plain"} \cup Commands
      BY DEF ShellIInv, ShellTypes, ShellRequests
    <3> QED BY <2>2, <3>1, ClassifyInputStep DEF ExecWriteStdin, ResumeWriteStdin
  <2>3. CASE \E c \in Calls :
               \/ PermissionCheck(c) \/ ReplayCheck(c) \/ Deny(c) \/ Resume(c)
               \/ \E by \in {"user", "auto"} : Approve(c, by)
    BY <2>3, ReviewStep
  <2>4. CASE \E c \in Calls : ManagerRun(c) \/ StartSession(c)
    BY <2>4, ManagerStep, StartSessionStep
  <2>5. CASE \E c \in Calls : WriteStdin(c) \/ PollExpires(c) \/ StopSession(c) \/ ReachesAge(c)
    BY <2>5, SessionStep
  <2>6. CASE \E c \in Calls : \/ ContainerStarts(c) \/ Exits(c) \/ CommandEnds(c)
                              \/ StopRun(c) \/ ClientKilled(c)
    BY <2>6, ProcessStep
  <2> QED BY <2>1, <2>2, <2>3, <2>4, <2>5, <2>6, SurroundingStep, FailureStep DEF ShellNext
<1> QED BY <1>1, <1>2, PTL DEF ShellSpec

(* A command that runs is what was reviewed, where the mode allows, on the   *)
(* word of the user where it has to be his, and somebody can end it.         *)
THEOREM CommandsStayControlled == ShellSpec => []CommandsAreControlled
<1>1. ShellIInv => CommandsAreControlled
  <2> SUFFICES ASSUME ShellIInv, NEW c \in Calls
               PROVE  /\ Ran(c) /\ request[c].by \in {"user", "auto"} =>
                            /\ process[c].at = request[c].bound.backend
                            /\ process[c].env = request[c].env
                      /\ Ran(c) /\ request[c].tool = "exec" =>
                            /\ process[c].mode # "off"
                            /\ process[c].mode = "docker" => process[c].at = "docker"
                      /\ Ran(c) /\ process[c].at = "host" /\ request[c].kind \in Untrusted
                            => request[c].by # "auto"
                      /\ process[c].state = "live" =>
                            \/ request[c].stage \in {"running", "killing"} \/ c \in sessions
                            \/ process[c].missed \/ process[c].lost
    BY DEF CommandsAreControlled, RanAsReviewed, StrictModesAreStrict, UserReviewsUntrusted,
           ProcessesAreOwned
  <2>1. ReviewIsKept(request[c]) /\ RunsAsAllowed(c) BY DEF ShellIInv, ShellCallIInv
  <2> QED BY <2>1 DEF ReviewIsKept, RunsAsAllowed, Honest
<1> QED BY <1>1, ShellInvariance, PTL

------------------------------------------------------------------------------
(* Records of runs.                                                          *)

TurnKinds == {"turn_started", "llm_call_finished", "tool_call_finished", "turn_finished"}
RowKinds  == TurnKinds \cup {"error", "error_event", "replay"}
Ended     == {"complete", "paused", "error"}
Deleting  == {"event files", "error files", "bundles"}

RowsOfRuns == [kept : BOOLEAN, day : Nat, status : {"none", "running"} \cup Ended,
               events : Nat, tools : Nat, message : BOOLEAN]
RunRecs  == [pc : {"new", "starting", "running", "lost"} \cup Ended, calls : Nat, row : RowsOfRuns]
CallRecs == [pc : {"idle", "start", "line", "insert", "finish", "bundle"}, id : Nat, day : Nat,
             kind : RowKinds \cup {"none", "bundle"}, content : BOOLEAN]
CleanerRecs == [pc : {"idle", "retention", "old files", "cap"} \cup Deleting, cutoff : Nat,
                doomed : SUBSET Nat]
TallyRecs == [ids : Nat, troubles : Nat, mishaps : Nat, consented : SUBSET Nat, gone : SUBSET Nat,
              noted : BOOLEAN]

RecordTypes ==
    /\ support \in BOOLEAN /\ today \in Nat
    /\ run \in RunRecs /\ loop \in CallRecs /\ logger \in CallRecs
    /\ cleaner \in CleanerRecs /\ tally \in TallyRecs
    /\ IsFiniteSet(rows)
    /\ rows \subseteq [id : Nat, kind : RowKinds, day : Nat, content : BOOLEAN]
    /\ files \subseteq [id : Nat, kind : {"event", "error", "bundle"}, day : Nat, content : BOOLEAN]

(* Ids are given in order, and a call that has not stored its line or its    *)
(* row has one of its own.                                                   *)
InFlight(call) == call.pc \in {"line", "insert"}
IdsAreGiven ==
    /\ \A r \in rows \cup files : r.id \in 1 .. tally.ids
    /\ loop.id \in 0 .. tally.ids /\ logger.id \in 0 .. tally.ids
    /\ \A i \in tally.consented \cup tally.gone \cup cleaner.doomed : i \in 1 .. tally.ids
IdsAreOwn ==
    /\ InFlight(loop) => \A r \in rows : r.id # loop.id
    /\ InFlight(logger) => \A r \in rows : r.id # logger.id
    /\ loop.pc = "line" => \A f \in files : f.id # loop.id
    /\ logger.pc = "line" => \A f \in files : f.id # logger.id
    /\ loop.id = logger.id => loop.id = 0
    /\ InFlight(loop) => loop.id # 0 /\ loop.kind \in TurnKinds
    /\ InFlight(logger) => logger.id # 0 /\ logger.kind \in {"error", "error_event"}
    /\ loop.pc = "bundle" => loop.id # 0 /\ loop.kind = "bundle"

(* The events of the run come after its row, if it ever gets one.            *)
EventRows == {r \in rows : r.kind \notin {"error", "replay"}}
Tooling   == IF InFlight(loop) /\ loop.kind = "tool_call_finished" THEN 1 ELSE 0
RunFlows ==
    /\ run.pc = "new" => loop.pc = "idle"
    /\ loop.pc = "start" => run.pc = "starting"
    /\ loop.pc = "finish" => run.pc \in Ended
    /\ run.pc \in {"new", "starting"} => run.calls = 0
    /\ run.pc = "new" \/ loop.pc = "start" =>
          /\ ~run.row.kept
          /\ \A r \in rows : r.kind \in {"error", "replay"}
          /\ InFlight(logger) => logger.kind = "error"
    /\ run.row.message => run.row.kept
    /\ run.row.kept =>
          /\ run.row.status \in {"running", run.pc}
          /\ run.pc \in Ended /\ run.row.status = "running" => loop.pc = "finish" \/ tally.mishaps > 0

(* Nothing about the run is older than its row.                              *)
DaysFollow ==
    /\ loop.day <= today
    /\ run.row.kept =>
        /\ run.row.day <= today
        /\ \A r \in rows : r.kind \notin {"error", "replay"} => run.row.day <= r.day
        /\ InFlight(loop) => run.row.day <= loop.day
        /\ InFlight(logger) /\ logger.kind = "error_event" => run.row.day <= logger.day

CountsAddUp ==
    run.row.kept =>
        /\ run.row.events = Cardinality(EventRows)
        /\ tally.mishaps = 0 => Cardinality(ToolEvents) + Tooling = run.calls
        /\ tally.mishaps = 0 /\ run.row.status # "running" => run.row.tools = run.calls

ContentIsConsented ==
    /\ \A r \in rows \cup files : r.content => r.id \in tally.consented
    /\ loop.pc \in {"line", "insert", "bundle"} /\ loop.content => loop.id \in tally.consented
    /\ InFlight(logger) /\ logger.content => logger.id \in tally.consented
    /\ loop.pc = "start" /\ loop.content => tally.noted
    /\ run.row.message => tally.noted

DeletionHolds ==
    /\ \A r \in rows \cup files : r.id \notin tally.gone
    /\ loop.id \notin tally.gone \cup cleaner.doomed
    /\ logger.id \notin tally.gone \cup cleaner.doomed
    /\ \A r \in rows : r.id \notin cleaner.doomed
    /\ cleaner.pc \notin Deleting => cleaner.doomed = {}
    /\ cleaner.pc \in {"error files", "bundles"} =>
          \A f \in files : f.kind = "event" => f.id \notin cleaner.doomed
    /\ cleaner.pc = "bundles" => \A f \in files : f.kind = "error" => f.id \notin cleaner.doomed

RecordsIInv ==
    /\ RecordTypes /\ IdsAreGiven /\ IdsAreOwn /\ RunFlows /\ DaysFollow /\ CountsAddUp
    /\ ContentIsConsented /\ DeletionHolds

------------------------------------------------------------------------------
(* What the helpers of the steps make.                                       *)

Fields ==
    /\ RecordTypes /\ run.row \in RowsOfRuns /\ support \in BOOLEAN
    /\ run \in RunRecs /\ loop \in CallRecs /\ logger \in CallRecs /\ cleaner \in CleanerRecs
    /\ tally \in TallyRecs
    /\ today \in Nat /\ tally.ids \in Nat /\ tally.mishaps \in Nat
    /\ loop.id \in Nat /\ loop.day \in Nat /\ logger.id \in Nat /\ logger.day \in Nat
    /\ run.calls \in Nat /\ run.row.day \in Nat /\ run.row.events \in Nat /\ run.row.tools \in Nat
    /\ cleaner.cutoff \in Nat
    /\ \A r \in rows \cup files : r.id \in Nat /\ r.day \in Nat /\ r.id # tally.ids + 1 /\ r.id # 0
    /\ 0 \notin tally.gone \cup cleaner.doomed
    /\ tally.ids + 1 \notin tally.consented \cup tally.gone \cup cleaner.doomed
    /\ loop.id # tally.ids + 1 /\ logger.id # tally.ids + 1 /\ tally.ids + 1 # 0
    /\ IsFiniteSet(rows) /\ IsFiniteSet(EventRows) /\ IsFiniteSet(ToolEvents)
    /\ Cardinality(EventRows) \in Nat /\ Cardinality(ToolEvents) \in Nat

(* The fields of the state, and the ids that are free.                       *)
LEMMA FieldsHold ==
    ASSUME RecordTypes, IdsAreGiven
    PROVE  Fields
<1>1. /\ run.row \in RowsOfRuns /\ support \in BOOLEAN
      /\ run \in RunRecs /\ loop \in CallRecs /\ logger \in CallRecs /\ cleaner \in CleanerRecs
      /\ tally \in TallyRecs
      /\ today \in Nat /\ tally.ids \in Nat /\ tally.mishaps \in Nat
      /\ loop.id \in Nat /\ loop.day \in Nat /\ logger.id \in Nat /\ logger.day \in Nat
      /\ run.calls \in Nat /\ run.row.day \in Nat /\ run.row.events \in Nat /\ run.row.tools \in Nat
      /\ cleaner.cutoff \in Nat
      /\ \A r \in rows \cup files : r.id \in Nat /\ r.day \in Nat
  BY DEF RecordTypes, RunRecs, RowsOfRuns, CallRecs, CleanerRecs, TallyRecs
<1>2. 0 \notin 1 .. tally.ids /\ tally.ids + 1 \notin 0 .. tally.ids /\ tally.ids + 1 # 0 BY <1>1
<1>3. tally.ids + 1 \notin 1 .. tally.ids BY <1>1
<1>4. /\ \A r \in rows \cup files : r.id # tally.ids + 1 /\ r.id # 0
      /\ 0 \notin tally.gone \cup cleaner.doomed
      /\ tally.ids + 1 \notin tally.consented \cup tally.gone \cup cleaner.doomed
      /\ loop.id # tally.ids + 1 /\ logger.id # tally.ids + 1
  BY <1>2, <1>3 DEF IdsAreGiven
<1>5. /\ IsFiniteSet(rows) /\ IsFiniteSet(EventRows) /\ IsFiniteSet(ToolEvents)
  BY FS_Subset DEF RecordTypes, EventRows, ToolEvents
<1> QED BY <1>1, <1>2, <1>4, <1>5, FS_CardinalityType DEF Fields

(* The tally of a step that fails, or gives an id.                           *)
SameTally(t) ==
    /\ t \in TallyRecs /\ t.ids = tally.ids /\ t.consented = tally.consented
    /\ t.gone = tally.gone /\ t.noted = tally.noted
NewId(t) ==
    /\ t \in TallyRecs /\ t.ids = tally.ids + 1 /\ t.mishaps = tally.mishaps
    /\ t.gone = tally.gone /\ t.noted = tally.noted
    /\ tally.consented \subseteq t.consented
    /\ t.consented \subseteq tally.consented \cup {tally.ids + 1}
    /\ support => tally.ids + 1 \in t.consented
LEMMA Tallies ==
    ASSUME RecordTypes
    PROVE  /\ SameTally(tally)
           /\ SameTally(Troubled) /\ Troubled.mishaps = tally.mishaps
           /\ SameTally(Mishap) /\ Mishap.mishaps = tally.mishaps + 1
           /\ NewId(Numbered)
<1>1. tally \in TallyRecs /\ tally.ids \in Nat BY DEF RecordTypes, TallyRecs
<1>2. SameTally(Troubled) /\ Troubled.mishaps = tally.mishaps BY <1>1 DEF Troubled, TallyRecs, SameTally
<1>3. SameTally(Mishap) /\ Mishap.mishaps = tally.mishaps + 1
  BY <1>1, <1>2 DEF Mishap, TallyRecs, SameTally
<1> DEFINE agreed == IF support THEN tally.consented \cup {tally.ids + 1} ELSE tally.consented
<1>4. agreed \in SUBSET Nat BY <1>1 DEF TallyRecs
<1>5. Numbered = [tally EXCEPT !.ids = tally.ids + 1, !.consented = agreed] BY DEF Numbered
<1> HIDE DEF agreed
<1>6. /\ Numbered.ids = tally.ids + 1 /\ Numbered.consented = agreed
      /\ Numbered.mishaps = tally.mishaps /\ Numbered.gone = tally.gone /\ Numbered.noted = tally.noted
  BY <1>1, <1>5 DEF TallyRecs
<1>7. Numbered \in TallyRecs
  <2>1. tally.ids + 1 \in Nat BY <1>1
  <2> QED BY <1>1, <1>4, <1>5, <2>1 DEF TallyRecs
<1> QED BY <1>1, <1>2, <1>3, <1>6, <1>7 DEF agreed, SameTally, NewId

(* What log_event makes of a call.                                           *)
Logged(c, kind, wants) ==
    /\ c \in CallRecs /\ c.pc = "line" /\ c.id = tally.ids + 1 /\ c.day = today /\ c.kind = kind
    /\ c.content => wants /\ support
LEMMA LogEvents ==
    ASSUME RecordTypes, NEW call \in CallRecs, NEW kind \in RowKinds, NEW wants \in BOOLEAN
    PROVE  Logged(LogEvent(call, kind, wants), kind, wants)
<1> DEFINE agreed == wants /\ support
<1>1. agreed \in BOOLEAN /\ today \in Nat /\ tally.ids + 1 \in Nat BY DEF RecordTypes, TallyRecs
<1>2. LogEvent(call, kind, wants) =
        [call EXCEPT !.pc = "line", !.id = tally.ids + 1, !.day = today, !.kind = kind, !.content = agreed]
  BY DEF LogEvent
<1> HIDE DEF agreed
<1>3. LET c == LogEvent(call, kind, wants)
      IN  c \in CallRecs /\ c.pc = "line" /\ c.id = tally.ids + 1 /\ c.day = today /\ c.kind = kind
          /\ c.content = agreed
  BY <1>1, <1>2 DEF CallRecs
<1> QED BY <1>3 DEF Logged, agreed

(* The line of a call is about what the call is about.                       *)
LEMMA LineIs ==
    ASSUME NEW call \in CallRecs
    PROVE  /\ Line(call) \in [id : Nat, kind : {"event", "error"}, day : Nat, content : BOOLEAN]
           /\ Line(call).id = call.id /\ Line(call).content = call.content
<1>1. PICK kind \in {"event", "error"} : kind = IF Record(call).kind = "error" THEN "error" ELSE "event"
  OBVIOUS
<1>2. Line(call) = [Record(call) EXCEPT !.kind = kind] BY <1>1 DEF Line
<1>3. Line(call) = [id |-> call.id, kind |-> kind, day |-> call.day, content |-> call.content]
  BY <1>2 DEF Record
<1> QED BY <1>3 DEF CallRecs

(* A call that has ended, and a run without a row.                           *)
LEMMA QuietIs ==
    /\ Quiet \in CallRecs /\ Quiet.pc = "idle" /\ Quiet.id = 0 /\ Quiet.day = 0
    /\ Quiet.kind = "none" /\ ~Quiet.content
    /\ NoRow \in RowsOfRuns /\ ~NoRow.kept /\ ~NoRow.message /\ NoRow.day = 0
BY DEF Quiet, CallRecs, NoRow, RowsOfRuns

(* start_run: the row of the run is on its way.                              *)
LEMMA StartRunStep ==
    ASSUME RecordsIInv, StartRun
    PROVE  RecordsIInv'
<1> USE DEF RecordsIInv, InFlight, SameTally, NewId, Logged
<1>0. Fields BY FieldsHold
<1> USE DEF Fields
<1>a. /\ loop' = [Quiet EXCEPT !.pc = "start", !.day = today, !.content = support]
      /\ run' = [run EXCEPT !.pc = "starting"] /\ tally' = [tally EXCEPT !.noted = support]
      /\ run.pc = "new" /\ loop.pc = "idle"
      /\ UNCHANGED <<support, today, rows, files, logger, cleaner>> /\ support \in BOOLEAN
  BY <1>0 DEF StartRun, RecordTypes
<1>b. /\ loop' \in CallRecs /\ loop'.pc = "start" /\ loop'.id = 0 /\ loop'.day = today
      /\ loop'.content = support
  BY <1>0, <1>a, QuietIs DEF CallRecs
<1>c. /\ run'.pc = "starting" /\ run'.calls = run.calls /\ run'.row = run.row /\ run' \in RunRecs
  BY <1>0, <1>a DEF RunRecs
<1>d. /\ tally' \in TallyRecs /\ tally'.ids = tally.ids /\ tally'.mishaps = tally.mishaps
      /\ tally'.consented = tally.consented /\ tally'.gone = tally.gone /\ tally'.noted = support
  BY <1>0, <1>a DEF TallyRecs
<1>1. RecordTypes' BY <1>0, <1>a, <1>b, <1>c, <1>d DEF RecordTypes
<1>2. IdsAreGiven' BY <1>0, <1>a, <1>b, <1>c, <1>d DEF IdsAreGiven, IdsAreOwn
<1>3. IdsAreOwn' BY <1>0, <1>a, <1>b, <1>c, <1>d DEF IdsAreOwn, IdsAreGiven, TurnKinds
<1>4. RunFlows' BY <1>0, <1>a, <1>b, <1>c, <1>d DEF RunFlows, IdsAreOwn, Ended, TurnKinds
<1>5. DaysFollow' BY <1>0, <1>a, <1>b, <1>c, <1>d DEF DaysFollow, RunFlows
<1>6. CountsAddUp' BY <1>0, <1>a, <1>b, <1>c, <1>d DEF CountsAddUp, RunFlows, Tooling, EventRows, ToolEvents
<1>7. ContentIsConsented' BY <1>0, <1>a, <1>b, <1>c, <1>d DEF ContentIsConsented, RunFlows, IdsAreOwn
<1>8. DeletionHolds' BY <1>0, <1>a, <1>b, <1>c, <1>d DEF DeletionHolds, IdsAreGiven, Deleting
<1> QED BY <1>1, <1>2, <1>3, <1>4, <1>5, <1>6, <1>7, <1>8

(* Its row, and the first event.                                             *)
LEMMA InsertRunStep ==
    ASSUME RecordsIInv, InsertRun
    PROVE  RecordsIInv'
<1> USE DEF RecordsIInv, InFlight, SameTally, NewId, Logged
<1>0. Fields BY FieldsHold
<1> USE DEF Fields
<1>1. CASE loop' # Quiet
  <2>a. /\ run' = [run EXCEPT !.row = [NoRow EXCEPT !.kept = TRUE, !.day = loop.day, !.status = "running",
                                                  !.message = loop.content]]
        /\ loop' = LogEvent(loop, "turn_started", loop.content) /\ tally' = Numbered /\ loop.pc = "start"
        /\ UNCHANGED <<support, today, rows, files, logger, cleaner>> /\ loop.content \in BOOLEAN
    BY <1>1, <1>0 DEF InsertRun, CallRecs
  <2>b. /\ run' \in RunRecs /\ run'.pc = run.pc /\ run'.calls = run.calls /\ run'.row.kept
        /\ run'.row.day = loop.day /\ run'.row.status = "running" /\ run'.row.message = loop.content
        /\ run'.row.events = 0
    BY <1>0, <2>a DEF RunRecs, RowsOfRuns, NoRow
  <2>c. NewId(tally')
    BY <1>1, <1>0, <2>a, <2>b, Tallies
  <2>d. Logged(loop', "turn_started", loop.content)
    BY <1>0, <2>a, <2>b, <2>c, LogEvents DEF RowKinds, TurnKinds, CallRecs
  <2>e. EventRows' = {} /\ ToolEvents' = {}
    BY <2>a, <2>b, <2>c, <2>d DEF RunFlows, EventRows, ToolEvents
  <2>1. RecordTypes' BY <1>0, <1>1, <2>a, <2>b, <2>c, <2>d, <2>e DEF RecordTypes
  <2>2. IdsAreGiven' BY <1>0, <1>1, <2>a, <2>b, <2>c, <2>d, <2>e DEF IdsAreGiven, IdsAreOwn
  <2>3. IdsAreOwn' BY <1>0, <1>1, <2>a, <2>b, <2>c, <2>d, <2>e DEF IdsAreOwn, IdsAreGiven, TurnKinds
  <2>4. RunFlows' BY <1>0, <1>1, <2>a, <2>b, <2>c, <2>d, <2>e DEF RunFlows, IdsAreOwn, Ended, TurnKinds
  <2>5. DaysFollow' BY <1>0, <1>1, <2>a, <2>b, <2>c, <2>d, <2>e DEF DaysFollow, RunFlows
  <2>6. CountsAddUp'
    BY <1>0, <2>a, <2>b, <2>c, <2>d, <2>e, FS_EmptySet DEF CountsAddUp, RunFlows, Tooling
  <2>7. ContentIsConsented' BY <1>0, <1>1, <2>a, <2>b, <2>c, <2>d, <2>e DEF ContentIsConsented, RunFlows, IdsAreOwn
  <2>8. DeletionHolds' BY <1>0, <1>1, <2>a, <2>b, <2>c, <2>d, <2>e DEF DeletionHolds, IdsAreGiven, Deleting
  <2> QED BY <2>1, <2>2, <2>3, <2>4, <2>5, <2>6, <2>7, <2>8
<1>2. CASE loop' = Quiet
  <2>a. /\ loop.pc = "start" /\ tally' = Mishap /\ UNCHANGED <<support, today, run, rows, files, logger, cleaner>>
    BY <1>0, <1>2, LogEvents, QuietIs DEF InsertRun, CallRecs, RowKinds, TurnKinds
  <2>b. /\ loop' \in CallRecs /\ loop'.pc = "idle" /\ loop'.id = 0 /\ loop'.day = 0 /\ loop'.kind = "none"
    BY <1>2, <2>a, QuietIs
  <2>c. SameTally(tally') /\ tally'.mishaps = tally.mishaps + 1
    BY <1>2, <1>0, <2>a, <2>b, Tallies
  <2>1. RecordTypes' BY <1>0, <1>2, <2>a, <2>b, <2>c DEF RecordTypes
  <2>2. IdsAreGiven' BY <1>0, <1>2, <2>a, <2>b, <2>c DEF IdsAreGiven, IdsAreOwn
  <2>3. IdsAreOwn' BY <1>0, <1>2, <2>a, <2>b, <2>c DEF IdsAreOwn, IdsAreGiven, TurnKinds
  <2>4. RunFlows' BY <1>0, <1>2, <2>a, <2>b, <2>c DEF RunFlows, IdsAreOwn, Ended, TurnKinds
  <2>5. DaysFollow' BY <1>0, <1>2, <2>a, <2>b, <2>c DEF DaysFollow, RunFlows
  <2>6. CountsAddUp' BY <1>0, <1>2, <2>a, <2>b, <2>c DEF CountsAddUp, RunFlows, Tooling, EventRows, ToolEvents
  <2>7. ContentIsConsented' BY <1>0, <1>2, <2>a, <2>b, <2>c DEF ContentIsConsented, RunFlows, IdsAreOwn
  <2>8. DeletionHolds' BY <1>0, <1>2, <2>a, <2>b, <2>c DEF DeletionHolds, IdsAreGiven, Deleting
  <2> QED BY <2>1, <2>2, <2>3, <2>4, <2>5, <2>6, <2>7, <2>8
<1> QED BY <1>1, <1>2

(* finish_run: the end of the turn is on its way.                            *)
LEMMA FinishTurnStep ==
    ASSUME RecordsIInv, FinishTurn
    PROVE  RecordsIInv'
<1> USE DEF RecordsIInv, InFlight, SameTally, NewId, Logged
<1>0. Fields BY FieldsHold
<1> USE DEF Fields
<1>a. PICK status \in Ended : run' = [run EXCEPT !.pc = status]
  BY DEF FinishTurn, Ended
<1>b. /\ loop' = [Quiet EXCEPT !.pc = "finish", !.content = support] /\ Runs /\ support \in BOOLEAN
      /\ UNCHANGED <<support, today, rows, files, logger, cleaner, tally>>
  BY <1>0 DEF FinishTurn, RecordTypes
<1>c. /\ loop' \in CallRecs /\ loop'.pc = "finish" /\ loop'.id = 0 /\ loop'.day = 0
  BY <1>a, <1>b, QuietIs DEF CallRecs
<1>d. run'.pc = status /\ run'.calls = run.calls /\ run'.row = run.row /\ run' \in RunRecs
  BY <1>0, <1>a, <1>b, <1>c DEF RunRecs
<1>1. RecordTypes' BY <1>0, <1>a, <1>b, <1>c, <1>d DEF RecordTypes
<1>2. IdsAreGiven' BY <1>0, <1>a, <1>b, <1>c, <1>d DEF IdsAreGiven, IdsAreOwn
<1>3. IdsAreOwn' BY <1>0, <1>a, <1>b, <1>c, <1>d DEF IdsAreOwn, IdsAreGiven, TurnKinds
<1>4. RunFlows' BY <1>0, <1>a, <1>b, <1>c, <1>d DEF RunFlows, IdsAreOwn, Ended, TurnKinds, Runs, RowsOfRuns
<1>5. DaysFollow' BY <1>0, <1>a, <1>b, <1>c, <1>d DEF DaysFollow, RunFlows
<1>6. CountsAddUp' BY <1>0, <1>a, <1>b, <1>c, <1>d DEF CountsAddUp, RunFlows, Tooling, EventRows, ToolEvents, Runs
<1>7. ContentIsConsented' BY <1>0, <1>a, <1>b, <1>c, <1>d DEF ContentIsConsented, RunFlows, IdsAreOwn
<1>8. DeletionHolds' BY <1>0, <1>a, <1>b, <1>c, <1>d DEF DeletionHolds, IdsAreGiven, Deleting
<1> QED BY <1>1, <1>2, <1>3, <1>4, <1>5, <1>6, <1>7, <1>8

(* Its end, and the last event.                                              *)
LEMMA CloseRunStep ==
    ASSUME RecordsIInv, CloseRun
    PROVE  RecordsIInv'
<1> USE DEF RecordsIInv, InFlight, SameTally, NewId, Logged
<1>0. Fields BY FieldsHold
<1> USE DEF Fields
<1>1. CASE loop' # Quiet
  <2>t. PICK tools \in {run.calls, Cardinality(ToolEvents)} :
           \E row : /\ row = IF run.row.kept THEN [run.row EXCEPT !.status = run.pc, !.tools = tools] ELSE run.row
                    /\ run' = [run EXCEPT !.row = row]
    BY <1>1 DEF CloseRun
  <2>a. PICK row : /\ row = IF run.row.kept THEN [run.row EXCEPT !.status = run.pc, !.tools = tools] ELSE run.row
                   /\ run' = [run EXCEPT !.row = row]
    BY <2>t
  <2>b. /\ loop' = LogEvent(loop, "turn_finished", loop.content) /\ tally' = Numbered /\ loop.pc = "finish"
        /\ UNCHANGED <<support, today, rows, files, logger, cleaner>> /\ loop.content \in BOOLEAN
    BY <1>1, <1>0 DEF CloseRun, CallRecs
  <2>c. NewId(tally')
    BY <1>1, <1>0, <2>a, <2>b, Tallies
  <2>d. Logged(loop', "turn_finished", loop.content)
    BY <1>0, <2>a, <2>b, <2>c, LogEvents DEF RowKinds, TurnKinds, CallRecs
  <2>e. run.pc \in Ended /\ Cardinality(ToolEvents) \in Nat
    BY <1>0, <2>a, <2>b, <2>c, <2>d DEF RunFlows
  <2>f. /\ row \in RowsOfRuns /\ row.kept = run.row.kept /\ row.day = run.row.day
        /\ row.message = run.row.message /\ row.events = run.row.events
        /\ run.row.kept => row.status = run.pc /\ row.tools = tools
    BY <1>0, <2>a, <2>b, <2>c, <2>d, <2>e DEF RowsOfRuns
  <2>g. run'.row = row /\ run' \in RunRecs /\ run'.pc = run.pc /\ run'.calls = run.calls
    BY <1>0, <2>a, <2>b, <2>c, <2>d, <2>e, <2>f DEF RunRecs
  <2>h. EventRows' = EventRows /\ ToolEvents' = ToolEvents
    BY <2>a, <2>b, <2>c, <2>d, <2>e, <2>f, <2>g DEF EventRows, ToolEvents
  <2>1. RecordTypes' BY <1>0, <1>1, <2>a, <2>b, <2>c, <2>d, <2>e, <2>f, <2>g, <2>h DEF RecordTypes
  <2>2. IdsAreGiven' BY <1>0, <1>1, <2>a, <2>b, <2>c, <2>d, <2>e, <2>f, <2>g, <2>h DEF IdsAreGiven, IdsAreOwn
  <2>3. IdsAreOwn' BY <1>0, <1>1, <2>a, <2>b, <2>c, <2>d, <2>e, <2>f, <2>g, <2>h DEF IdsAreOwn, IdsAreGiven, TurnKinds
  <2>4. RunFlows' BY <1>0, <1>1, <2>a, <2>b, <2>c, <2>d, <2>e, <2>f, <2>g, <2>h DEF RunFlows, IdsAreOwn, Ended, TurnKinds
  <2>5. DaysFollow' BY <1>0, <1>1, <2>a, <2>b, <2>c, <2>d, <2>e, <2>f, <2>g, <2>h DEF DaysFollow, RunFlows
  <2>6. CountsAddUp'
    <3>1. Tooling = 0 /\ Tooling' = 0 BY <2>a, <2>b, <2>c, <2>d, <2>e, <2>f, <2>g, <2>h DEF Tooling
    <3>2. Cardinality(EventRows') = Cardinality(EventRows) /\ Cardinality(ToolEvents') = Cardinality(ToolEvents)
      BY <2>a, <2>b, <2>c, <2>d, <2>e, <2>f, <2>g, <2>h
    <3>3. tally'.mishaps = tally.mishaps BY <2>a, <2>b, <2>c, <2>d, <2>e, <2>f, <2>g, <2>h
    <3>4. ASSUME run'.row.kept PROVE run.row.kept /\ run'.row.events = run.row.events
      BY <2>a, <2>b, <2>c, <2>d, <2>e, <2>f, <2>g, <2>h, <3>4
    <3>5. ASSUME run'.row.kept, tally.mishaps = 0 PROVE Cardinality(ToolEvents) = run.calls
      BY <1>0, <3>1, <3>4, <3>5 DEF CountsAddUp
    <3>6. ASSUME run'.row.kept, tally.mishaps = 0 PROVE run'.row.tools = run.calls
      BY <3>5, <3>6, <2>a, <2>b, <2>c, <2>d, <2>e, <2>f, <2>g, <2>h
    <3>7. Cardinality(EventRows) = run.row.events \/ ~run.row.kept BY DEF CountsAddUp
    <3> QED BY <1>0, <2>g, <3>1, <3>2, <3>3, <3>4, <3>5, <3>6, <3>7 DEF CountsAddUp
  <2>7. ContentIsConsented' BY <1>0, <1>1, <2>a, <2>b, <2>c, <2>d, <2>e, <2>f, <2>g, <2>h DEF ContentIsConsented, RunFlows, IdsAreOwn
  <2>8. DeletionHolds' BY <1>0, <1>1, <2>a, <2>b, <2>c, <2>d, <2>e, <2>f, <2>g, <2>h DEF DeletionHolds, IdsAreGiven, Deleting
  <2> QED BY <2>1, <2>2, <2>3, <2>4, <2>5, <2>6, <2>7, <2>8
<1>2. CASE loop' = Quiet
  <2>a. /\ loop.pc = "finish" /\ tally' = Mishap /\ UNCHANGED <<support, today, run, rows, files, logger, cleaner>>
    BY <1>0, <1>2, LogEvents, QuietIs DEF CloseRun, CallRecs, RowKinds, TurnKinds
  <2>b. /\ loop' \in CallRecs /\ loop'.pc = "idle" /\ loop'.id = 0 /\ loop'.day = 0 /\ loop'.kind = "none"
    BY <1>2, <2>a, QuietIs
  <2>c. SameTally(tally') /\ tally'.mishaps = tally.mishaps + 1
    BY <1>2, <1>0, <2>a, <2>b, Tallies
  <2>1. RecordTypes' BY <1>0, <1>2, <2>a, <2>b, <2>c DEF RecordTypes
  <2>2. IdsAreGiven' BY <1>0, <1>2, <2>a, <2>b, <2>c DEF IdsAreGiven, IdsAreOwn
  <2>3. IdsAreOwn' BY <1>0, <1>2, <2>a, <2>b, <2>c DEF IdsAreOwn, IdsAreGiven, TurnKinds
  <2>4. RunFlows' BY <1>0, <1>2, <2>a, <2>b, <2>c DEF RunFlows, IdsAreOwn, Ended, TurnKinds
  <2>5. DaysFollow' BY <1>0, <1>2, <2>a, <2>b, <2>c DEF DaysFollow, RunFlows
  <2>6. CountsAddUp' BY <1>0, <1>2, <2>a, <2>b, <2>c DEF CountsAddUp, RunFlows, Tooling, EventRows, ToolEvents
  <2>7. ContentIsConsented' BY <1>0, <1>2, <2>a, <2>b, <2>c DEF ContentIsConsented, RunFlows, IdsAreOwn
  <2>8. DeletionHolds' BY <1>0, <1>2, <2>a, <2>b, <2>c DEF DeletionHolds, IdsAreGiven, Deleting
  <2> QED BY <2>1, <2>2, <2>3, <2>4, <2>5, <2>6, <2>7, <2>8
<1> QED BY <1>1, <1>2

(* A line of the daily file.                                                 *)
LEMMA LoopLineStep ==
    ASSUME RecordsIInv, LoopLine
    PROVE  RecordsIInv'
<1> USE DEF RecordsIInv, InFlight, SameTally, NewId, Logged
<1>0. Fields BY FieldsHold
<1> USE DEF Fields
<1>1. CASE files' # files
  <2>a. /\ loop' = [loop EXCEPT !.pc = "insert"] /\ loop.pc = "line"
        /\ files' = files \cup {Line(loop)}
        /\ UNCHANGED <<support, today, run, rows, logger, cleaner, tally>>
    BY <1>1 DEF LoopLine, AppendLine, Appended
  <2>b. PICK f \in [id : Nat, kind : {"event", "error"}, day : Nat, content : BOOLEAN] :
          files' = files \cup {f} /\ f.id = loop.id /\ f.content = loop.content
    BY <1>0, <2>a, LineIs
  <2>c. /\ loop' \in CallRecs /\ loop'.pc = "insert" /\ loop'.id = loop.id /\ loop'.day = loop.day
        /\ loop'.kind = loop.kind /\ loop'.content = loop.content
    BY <1>0, <2>a, <2>b DEF CallRecs
  <2>1. RecordTypes' BY <1>0, <1>1, <2>a, <2>b, <2>c DEF RecordTypes
  <2>2. IdsAreGiven' BY <1>0, <1>1, <2>a, <2>b, <2>c DEF IdsAreGiven, IdsAreOwn
  <2>3. IdsAreOwn' BY <1>0, <1>1, <2>a, <2>b, <2>c DEF IdsAreOwn, IdsAreGiven, TurnKinds
  <2>4. RunFlows' BY <1>0, <1>1, <2>a, <2>b, <2>c DEF RunFlows, IdsAreOwn, Ended, TurnKinds
  <2>5. DaysFollow' BY <1>0, <1>1, <2>a, <2>b, <2>c DEF DaysFollow, RunFlows
  <2>6. CountsAddUp' BY <1>0, <1>1, <2>a, <2>b, <2>c DEF CountsAddUp, RunFlows, Tooling, EventRows, ToolEvents
  <2>7. ContentIsConsented' BY <1>0, <1>1, <2>a, <2>b, <2>c DEF ContentIsConsented, RunFlows, IdsAreOwn
  <2>8. DeletionHolds' BY <1>0, <1>1, <2>a, <2>b, <2>c DEF DeletionHolds, IdsAreGiven, Deleting
  <2> QED BY <2>1, <2>2, <2>3, <2>4, <2>5, <2>6, <2>7, <2>8
<1>2. CASE files' = files /\ tally' = Mishap
  <2>a. /\ loop' = Quiet /\ loop.pc = "line" /\ UNCHANGED <<support, today, run, rows, logger, cleaner>>
    BY <1>2 DEF LoopLine, Appended
  <2>b. /\ loop' \in CallRecs /\ loop'.pc = "idle" /\ loop'.id = 0 /\ loop'.day = 0 /\ loop'.kind = "none"
    BY <1>2, <2>a, QuietIs
  <2>c. SameTally(tally') /\ tally'.mishaps = tally.mishaps + 1
    BY <1>2, <1>0, <2>a, <2>b, Tallies
  <2>1. RecordTypes' BY <1>0, <1>2, <2>a, <2>b, <2>c DEF RecordTypes
  <2>2. IdsAreGiven' BY <1>0, <1>2, <2>a, <2>b, <2>c DEF IdsAreGiven, IdsAreOwn
  <2>3. IdsAreOwn' BY <1>0, <1>2, <2>a, <2>b, <2>c DEF IdsAreOwn, IdsAreGiven, TurnKinds
  <2>4. RunFlows' BY <1>0, <1>2, <2>a, <2>b, <2>c DEF RunFlows, IdsAreOwn, Ended, TurnKinds
  <2>5. DaysFollow' BY <1>0, <1>2, <2>a, <2>b, <2>c DEF DaysFollow, RunFlows
  <2>6. CountsAddUp' BY <1>0, <1>2, <2>a, <2>b, <2>c DEF CountsAddUp, RunFlows, Tooling, EventRows, ToolEvents
  <2>7. ContentIsConsented' BY <1>0, <1>2, <2>a, <2>b, <2>c DEF ContentIsConsented, RunFlows, IdsAreOwn
  <2>8. DeletionHolds' BY <1>0, <1>2, <2>a, <2>b, <2>c DEF DeletionHolds, IdsAreGiven, Deleting
  <2> QED BY <2>1, <2>2, <2>3, <2>4, <2>5, <2>6, <2>7, <2>8
<1>3. CASE files' = files /\ tally' = tally
  <2>a. Mishap # tally
    BY <1>0, Tallies
  <2>b. loop.pc = "line" /\ Line(loop) \in files
    BY <1>3, <2>a DEF LoopLine, AppendLine
  <2>c. Line(loop).id = loop.id
    BY <1>0, LineIs
  <2>d. FALSE
    BY <2>a, <2>b, <2>c DEF IdsAreOwn
  <2> QED BY <2>d
<1> QED BY <1>1, <1>2, <1>3 DEF LoopLine, AppendLine

(* A line of the daily file.                                                 *)
LEMMA ErrorLineStep ==
    ASSUME RecordsIInv, ErrorLine
    PROVE  RecordsIInv'
<1> USE DEF RecordsIInv, InFlight, SameTally, NewId, Logged
<1>0. Fields BY FieldsHold
<1> USE DEF Fields
<1>1. CASE files' # files
  <2>a. /\ logger' = [logger EXCEPT !.pc = "insert"] /\ logger.pc = "line"
        /\ files' = files \cup {Line(logger)}
        /\ UNCHANGED <<support, today, run, rows, loop, cleaner, tally>>
    BY <1>1 DEF ErrorLine, AppendLine, Appended
  <2>b. PICK f \in [id : Nat, kind : {"event", "error"}, day : Nat, content : BOOLEAN] :
          files' = files \cup {f} /\ f.id = logger.id /\ f.content = logger.content
    BY <1>0, <2>a, LineIs
  <2>c. /\ logger' \in CallRecs /\ logger'.pc = "insert" /\ logger'.id = logger.id /\ logger'.day = logger.day
        /\ logger'.kind = logger.kind /\ logger'.content = logger.content
    BY <1>0, <2>a, <2>b DEF CallRecs
  <2>1. RecordTypes' BY <1>0, <1>1, <2>a, <2>b, <2>c DEF RecordTypes
  <2>2. IdsAreGiven' BY <1>0, <1>1, <2>a, <2>b, <2>c DEF IdsAreGiven, IdsAreOwn
  <2>3. IdsAreOwn' BY <1>0, <1>1, <2>a, <2>b, <2>c DEF IdsAreOwn, IdsAreGiven, TurnKinds
  <2>4. RunFlows' BY <1>0, <1>1, <2>a, <2>b, <2>c DEF RunFlows, IdsAreOwn, Ended, TurnKinds
  <2>5. DaysFollow' BY <1>0, <1>1, <2>a, <2>b, <2>c DEF DaysFollow, RunFlows
  <2>6. CountsAddUp' BY <1>0, <1>1, <2>a, <2>b, <2>c DEF CountsAddUp, RunFlows, Tooling, EventRows, ToolEvents
  <2>7. ContentIsConsented' BY <1>0, <1>1, <2>a, <2>b, <2>c DEF ContentIsConsented, RunFlows, IdsAreOwn
  <2>8. DeletionHolds' BY <1>0, <1>1, <2>a, <2>b, <2>c DEF DeletionHolds, IdsAreGiven, Deleting
  <2> QED BY <2>1, <2>2, <2>3, <2>4, <2>5, <2>6, <2>7, <2>8
<1>2. CASE files' = files /\ tally' = Mishap
  <2>a. /\ logger' = Quiet /\ logger.pc = "line" /\ UNCHANGED <<support, today, run, rows, loop, cleaner>>
    BY <1>2 DEF ErrorLine, Appended
  <2>b. /\ logger' \in CallRecs /\ logger'.pc = "idle" /\ logger'.id = 0 /\ logger'.day = 0 /\ logger'.kind = "none"
    BY <1>2, <2>a, QuietIs
  <2>c. SameTally(tally') /\ tally'.mishaps = tally.mishaps + 1
    BY <1>2, <1>0, <2>a, <2>b, Tallies
  <2>1. RecordTypes' BY <1>0, <1>2, <2>a, <2>b, <2>c DEF RecordTypes
  <2>2. IdsAreGiven' BY <1>0, <1>2, <2>a, <2>b, <2>c DEF IdsAreGiven, IdsAreOwn
  <2>3. IdsAreOwn' BY <1>0, <1>2, <2>a, <2>b, <2>c DEF IdsAreOwn, IdsAreGiven, TurnKinds
  <2>4. RunFlows' BY <1>0, <1>2, <2>a, <2>b, <2>c DEF RunFlows, IdsAreOwn, Ended, TurnKinds
  <2>5. DaysFollow' BY <1>0, <1>2, <2>a, <2>b, <2>c DEF DaysFollow, RunFlows
  <2>6. CountsAddUp' BY <1>0, <1>2, <2>a, <2>b, <2>c DEF CountsAddUp, RunFlows, Tooling, EventRows, ToolEvents
  <2>7. ContentIsConsented' BY <1>0, <1>2, <2>a, <2>b, <2>c DEF ContentIsConsented, RunFlows, IdsAreOwn
  <2>8. DeletionHolds' BY <1>0, <1>2, <2>a, <2>b, <2>c DEF DeletionHolds, IdsAreGiven, Deleting
  <2> QED BY <2>1, <2>2, <2>3, <2>4, <2>5, <2>6, <2>7, <2>8
<1>3. CASE files' = files /\ tally' = tally
  <2>a. Mishap # tally
    BY <1>0, Tallies
  <2>b. logger.pc = "line" /\ Line(logger) \in files
    BY <1>3, <2>a DEF ErrorLine, AppendLine
  <2>c. Line(logger).id = logger.id
    BY <1>0, LineIs
  <2>d. FALSE
    BY <2>a, <2>b, <2>c DEF IdsAreOwn
  <2> QED BY <2>d
<1> QED BY <1>1, <1>2, <1>3 DEF ErrorLine, AppendLine

(* The row of an event, which the row of the run counts.                     *)
LEMMA LoopInsertStep ==
    ASSUME RecordsIInv, LoopInsert
    PROVE  RecordsIInv'
<1> USE DEF RecordsIInv, InFlight, SameTally, NewId, Logged
<1>0. Fields BY FieldsHold
<1> USE DEF Fields
<1>1. CASE rows' # rows
  <2>a. /\ loop' = Quiet /\ loop.pc = "insert" /\ rows' = rows \cup {Record(loop)}
        /\ run' = [run EXCEPT !.row = Counted(run.row)]
        /\ UNCHANGED <<support, today, files, logger, cleaner, tally>>
    BY <1>1 DEF LoopInsert
  <2>b. /\ loop' \in CallRecs /\ loop'.pc = "idle" /\ loop'.id = 0 /\ loop'.day = 0 /\ loop'.kind = "none"
    BY <1>1, <2>a, QuietIs
  <2>c. /\ run' \in RunRecs /\ run'.pc = run.pc /\ run'.calls = run.calls /\ run'.row.kept = run.row.kept
        /\ run'.row.day = run.row.day /\ run'.row.message = run.row.message
        /\ run'.row.status = run.row.status /\ run'.row.tools = run.row.tools
        /\ run.row.kept => run'.row.events = run.row.events + 1
    BY <1>0, <2>a, <2>b DEF RunRecs, RowsOfRuns, Counted
  <2>d. /\ Record(loop).id = loop.id /\ Record(loop).kind = loop.kind /\ Record(loop).day = loop.day
        /\ Record(loop).content = loop.content /\ Record(loop) \notin rows /\ Record(loop).kind \in RowKinds
        /\ Record(loop) \in [id : Nat, kind : RowKinds, day : Nat, content : BOOLEAN]
    BY <1>0, <2>a, <2>b, <2>c DEF Record, CallRecs, IdsAreOwn, RowKinds, TurnKinds
  <2>e. IsFiniteSet(rows')
    BY <1>0, <2>a, <2>b, <2>c, <2>d, FS_AddElement DEF RecordTypes
  <2>1. RecordTypes' BY <1>0, <1>1, <2>a, <2>b, <2>c, <2>d, <2>e DEF RecordTypes
  <2>2. IdsAreGiven' BY <1>0, <1>1, <2>a, <2>b, <2>c, <2>d, <2>e DEF IdsAreGiven, IdsAreOwn
  <2>3. IdsAreOwn' BY <1>0, <1>1, <2>a, <2>b, <2>c, <2>d, <2>e DEF IdsAreOwn, IdsAreGiven, TurnKinds
  <2>4. RunFlows' BY <1>0, <1>1, <2>a, <2>b, <2>c, <2>d, <2>e DEF RunFlows, IdsAreOwn, Ended, TurnKinds
  <2>5. DaysFollow' BY <1>0, <1>1, <2>a, <2>b, <2>c, <2>d, <2>e DEF DaysFollow, RunFlows
  <2>6. CountsAddUp'
    <3>1. EventRows' = EventRows \cup {Record(loop)} /\ Record(loop) \notin EventRows
      BY <1>0, <2>a, <2>b, <2>c, <2>d, <2>e DEF EventRows, IdsAreOwn, TurnKinds
    <3>2. Cardinality(EventRows') = Cardinality(EventRows) + 1
      BY <1>0, <3>1, FS_AddElement
    <3>3. CASE loop.kind = "tool_call_finished"
      <4>1. ToolEvents' = ToolEvents \cup {Record(loop)} /\ Record(loop) \notin ToolEvents
        BY <3>3, <2>a, <2>b, <2>c, <2>d, <2>e DEF ToolEvents
      <4>2. Cardinality(ToolEvents') = Cardinality(ToolEvents) + 1
        BY <1>0, <4>1, FS_AddElement
      <4> QED BY <1>0, <2>a, <2>b, <2>c, <2>d, <2>e, <3>2, <3>3, <4>2 DEF CountsAddUp, Tooling
    <3>4. CASE loop.kind # "tool_call_finished"
      <4>1. ToolEvents' = ToolEvents BY <3>4, <2>a, <2>b, <2>c, <2>d, <2>e DEF ToolEvents
      <4> QED BY <1>0, <2>a, <2>b, <2>c, <2>d, <2>e, <3>2, <3>4, <4>1 DEF CountsAddUp, Tooling
    <3> QED BY <3>3, <3>4
  <2>7. ContentIsConsented' BY <1>0, <1>1, <2>a, <2>b, <2>c, <2>d, <2>e DEF ContentIsConsented, RunFlows, IdsAreOwn
  <2>8. DeletionHolds' BY <1>0, <1>1, <2>a, <2>b, <2>c, <2>d, <2>e DEF DeletionHolds, IdsAreGiven, Deleting
  <2> QED BY <2>1, <2>2, <2>3, <2>4, <2>5, <2>6, <2>7, <2>8
<1>2. CASE rows' = rows /\ tally' = Mishap
  <2>a. /\ loop' = Quiet /\ loop.pc = "insert" /\ UNCHANGED <<support, today, run, files, logger, cleaner>>
    BY <1>2, <1>0, Tallies DEF LoopInsert
  <2>b. /\ loop' \in CallRecs /\ loop'.pc = "idle" /\ loop'.id = 0 /\ loop'.day = 0 /\ loop'.kind = "none"
    BY <1>2, <2>a, QuietIs
  <2>c. SameTally(tally') /\ tally'.mishaps = tally.mishaps + 1
    BY <1>2, <1>0, <2>a, <2>b, Tallies
  <2>1. RecordTypes' BY <1>0, <1>2, <2>a, <2>b, <2>c DEF RecordTypes
  <2>2. IdsAreGiven' BY <1>0, <1>2, <2>a, <2>b, <2>c DEF IdsAreGiven, IdsAreOwn
  <2>3. IdsAreOwn' BY <1>0, <1>2, <2>a, <2>b, <2>c DEF IdsAreOwn, IdsAreGiven, TurnKinds
  <2>4. RunFlows' BY <1>0, <1>2, <2>a, <2>b, <2>c DEF RunFlows, IdsAreOwn, Ended, TurnKinds
  <2>5. DaysFollow' BY <1>0, <1>2, <2>a, <2>b, <2>c DEF DaysFollow, RunFlows
  <2>6. CountsAddUp' BY <1>0, <1>2, <2>a, <2>b, <2>c DEF CountsAddUp, RunFlows, Tooling, EventRows, ToolEvents
  <2>7. ContentIsConsented' BY <1>0, <1>2, <2>a, <2>b, <2>c DEF ContentIsConsented, RunFlows, IdsAreOwn
  <2>8. DeletionHolds' BY <1>0, <1>2, <2>a, <2>b, <2>c DEF DeletionHolds, IdsAreGiven, Deleting
  <2> QED BY <2>1, <2>2, <2>3, <2>4, <2>5, <2>6, <2>7, <2>8
<1>3. CASE rows' = rows /\ tally' = tally
  <2>a. Mishap # tally
    BY <1>0, Tallies
  <2>b. loop.pc = "insert" /\ Record(loop) \in rows
    BY <1>3, <2>a DEF LoopInsert
  <2>c. Record(loop).id = loop.id
    BY DEF Record
  <2>d. FALSE
    BY <2>a, <2>b, <2>c DEF IdsAreOwn
  <2> QED BY <2>d
<1> QED BY <1>1, <1>2, <1>3 DEF LoopInsert

(* The observer's events of the turn.                                        *)
LEMMA TurnEventStep ==
    ASSUME RecordsIInv, NEW kind \in {"llm_call_finished", "tool_call_finished"}, TurnEvent(kind)
    PROVE  RecordsIInv'
<1> USE DEF RecordsIInv, InFlight, SameTally, NewId, Logged
<1>0. Fields BY FieldsHold
<1> USE DEF Fields
<1>a. run' = [run EXCEPT !.pc = "running",
                    !.calls = IF kind = "tool_call_finished" THEN run.calls + 1 ELSE run.calls]
  BY DEF TurnEvent
<1>b. /\ loop' = LogEvent(loop, kind, TRUE) /\ tally' = Numbered
  BY DEF TurnEvent
<1>c. /\ loop.pc = "idle" /\ run.pc \in {"starting", "running"} /\ kind \in TurnKinds /\ kind \in RowKinds
      /\ UNCHANGED <<support, today, rows, files, logger, cleaner>>
  BY DEF TurnEvent, Runs, TurnKinds, RowKinds
<1>d. (IF kind = "tool_call_finished" THEN run.calls + 1 ELSE run.calls) \in Nat
  BY <1>0
<1>e. /\ run' \in RunRecs /\ run'.pc = "running" /\ run'.row = run.row
      /\ run'.calls = IF kind = "tool_call_finished" THEN run.calls + 1 ELSE run.calls
  BY <1>0, <1>a, <1>d DEF RunRecs
<1>f. NewId(tally')
  BY <1>0, <1>b, Tallies
<1>g. PICK content \in BOOLEAN :
        /\ content <=> support
        /\ loop' = [loop EXCEPT !.pc = "line", !.id = tally.ids + 1, !.day = today, !.kind = kind,
                               !.content = content]
  BY <1>0, <1>b DEF LogEvent
<1>h. tally.ids + 1 \in Nat /\ today \in Nat /\ loop \in CallRecs
  BY <1>0
<1>i. /\ loop' \in CallRecs /\ loop'.pc = "line" /\ loop'.id = tally.ids + 1 /\ loop'.day = today
      /\ loop'.kind = kind /\ loop'.content = content
  BY <1>c, <1>g, <1>h DEF CallRecs
<1>j. loop'.content => support
  BY <1>g, <1>i
<1>k. EventRows' = EventRows /\ ToolEvents' = ToolEvents
  BY <1>c DEF EventRows, ToolEvents
<1>l. /\ \A i \in 0 .. tally.ids : i \in 0 .. (tally.ids + 1)
      /\ \A i \in 1 .. tally.ids : i \in 1 .. (tally.ids + 1)
      /\ tally.ids + 1 \in 1 .. (tally.ids + 1) /\ tally.ids + 1 \in 0 .. (tally.ids + 1)
  BY <1>0
<1>1. RecordTypes' BY <1>0, <1>c, <1>e, <1>f, <1>i, <1>j, <1>k, <1>l DEF RecordTypes, RowKinds, TurnKinds
<1>2. IdsAreGiven' BY <1>0, <1>c, <1>e, <1>f, <1>i, <1>j, <1>k, <1>l DEF IdsAreGiven, IdsAreOwn
<1>3. IdsAreOwn' BY <1>0, <1>c, <1>e, <1>f, <1>i, <1>j, <1>k, <1>l DEF IdsAreOwn, IdsAreGiven, TurnKinds
<1>4. RunFlows' BY <1>0, <1>c, <1>e, <1>f, <1>i, <1>j, <1>k, <1>l DEF RunFlows, IdsAreOwn, Ended, TurnKinds, RowsOfRuns
<1>5. DaysFollow' BY <1>0, <1>c, <1>e, <1>f, <1>i, <1>j, <1>k, <1>l DEF DaysFollow, RunFlows
<1>6. CountsAddUp'
  <2>1. Tooling = 0 /\ Tooling' = IF kind = "tool_call_finished" THEN 1 ELSE 0 BY <1>c, <1>i DEF Tooling
  <2>2. Cardinality(EventRows') = Cardinality(EventRows) /\ Cardinality(ToolEvents') = Cardinality(ToolEvents)
    BY <1>k
  <2>3. run.row.kept => run.row.status = "running" BY <1>0, <1>c DEF RunFlows, RowsOfRuns, Ended
  <2> QED BY <1>0, <1>e, <1>f, <2>1, <2>2, <2>3 DEF CountsAddUp
<1>7. ContentIsConsented' BY <1>0, <1>c, <1>e, <1>f, <1>i, <1>j, <1>k, <1>l DEF ContentIsConsented, RunFlows, IdsAreOwn
<1>8. DeletionHolds' BY <1>0, <1>c, <1>e, <1>f, <1>i, <1>j, <1>k, <1>l DEF DeletionHolds, IdsAreGiven, Deleting
<1> QED BY <1>1, <1>2, <1>3, <1>4, <1>5, <1>6, <1>7, <1>8

(* An error gets its id.                                                     *)
LEMMA LogErrorStep ==
    ASSUME RecordsIInv, LogError
    PROVE  RecordsIInv'
<1> USE DEF RecordsIInv, InFlight, SameTally, NewId, Logged
<1>0. Fields BY FieldsHold
<1> USE DEF Fields
<1>a. /\ logger' = [Quiet EXCEPT !.pc = "line", !.id = tally.ids + 1, !.day = today, !.kind = "error"]
      /\ tally' = [tally EXCEPT !.ids = @ + 1] /\ logger.pc = "idle"
      /\ UNCHANGED <<support, today, run, rows, files, loop, cleaner>>
  BY DEF LogError
<1>b. tally.ids + 1 \in Nat
  BY <1>0
<1>c. /\ logger' \in CallRecs /\ logger'.pc = "line" /\ logger'.id = tally.ids + 1 /\ logger'.day = today
      /\ logger'.kind = "error" /\ ~logger'.content
  BY <1>0, <1>a, <1>b DEF CallRecs, Quiet, RowKinds
<1>d. /\ tally' \in TallyRecs /\ tally'.ids = tally.ids + 1 /\ tally'.mishaps = tally.mishaps
      /\ tally'.consented = tally.consented /\ tally'.gone = tally.gone /\ tally'.noted = tally.noted
  BY <1>0, <1>a, <1>b, <1>c DEF TallyRecs
<1>e. EventRows' = EventRows /\ ToolEvents' = ToolEvents
  BY <1>a, <1>b, <1>c, <1>d DEF EventRows, ToolEvents
<1>1. RecordTypes' BY <1>0, <1>a, <1>b, <1>c, <1>d, <1>e DEF RecordTypes
<1>2. IdsAreGiven' BY <1>0, <1>a, <1>b, <1>c, <1>d, <1>e DEF IdsAreGiven, IdsAreOwn
<1>3. IdsAreOwn' BY <1>0, <1>a, <1>b, <1>c, <1>d, <1>e DEF IdsAreOwn, IdsAreGiven, TurnKinds
<1>4. RunFlows' BY <1>0, <1>a, <1>b, <1>c, <1>d, <1>e DEF RunFlows, IdsAreOwn, Ended, TurnKinds
<1>5. DaysFollow' BY <1>0, <1>a, <1>b, <1>c, <1>d, <1>e DEF DaysFollow, RunFlows
<1>6. CountsAddUp' BY <1>0, <1>a, <1>b, <1>c, <1>d, <1>e DEF CountsAddUp, RunFlows, Tooling, EventRows, ToolEvents
<1>7. ContentIsConsented' BY <1>0, <1>a, <1>b, <1>c, <1>d, <1>e DEF ContentIsConsented, RunFlows, IdsAreOwn
<1>8. DeletionHolds' BY <1>0, <1>a, <1>b, <1>c, <1>d, <1>e DEF DeletionHolds, IdsAreGiven, Deleting
<1> QED BY <1>1, <1>2, <1>3, <1>4, <1>5, <1>6, <1>7, <1>8

(* The row of an error, and the event that follows it.                       *)
LEMMA ErrorInsertStep ==
    ASSUME RecordsIInv, ErrorInsert
    PROVE  RecordsIInv'
<1> USE DEF RecordsIInv, InFlight, SameTally, NewId, Logged
<1>0. Fields BY FieldsHold
<1> USE DEF Fields
<1>1. CASE rows' = rows \cup {Record(logger)} /\ logger.kind = "error" /\ logger' = Quiet /\ UNCHANGED <<run, tally>>
  <2>a. /\ logger.pc = "insert" /\ rows' = rows \cup {Record(logger)}
        /\ UNCHANGED <<support, today, files, loop, cleaner, run, tally>>
    BY <1>1 DEF ErrorInsert
  <2>b. /\ Record(logger).id = logger.id /\ Record(logger).kind = logger.kind /\ Record(logger).day = logger.day
        /\ Record(logger).content = logger.content /\ Record(logger) \notin rows /\ Record(logger).kind \in RowKinds
        /\ Record(logger) \in [id : Nat, kind : RowKinds, day : Nat, content : BOOLEAN]
    BY <1>0, <2>a DEF Record, CallRecs, IdsAreOwn, RowKinds, TurnKinds
  <2>c. IsFiniteSet(rows')
    BY <1>0, <2>a, <2>b, FS_AddElement DEF RecordTypes
  <2>d. EventRows' = EventRows /\ ToolEvents' = ToolEvents
    BY <1>1, <2>a, <2>b, <2>c DEF EventRows, ToolEvents
  <2>e. /\ logger' \in CallRecs /\ logger'.pc = "idle" /\ logger'.id = 0 /\ logger'.day = 0 /\ logger'.kind = "none"
    BY <1>1, <2>a, <2>b, <2>c, <2>d, QuietIs
  <2>1. RecordTypes' BY <1>0, <1>1, <2>a, <2>b, <2>c, <2>d, <2>e DEF RecordTypes
  <2>2. IdsAreGiven' BY <1>0, <1>1, <2>a, <2>b, <2>c, <2>d, <2>e DEF IdsAreGiven, IdsAreOwn
  <2>3. IdsAreOwn' BY <1>0, <1>1, <2>a, <2>b, <2>c, <2>d, <2>e DEF IdsAreOwn, IdsAreGiven, TurnKinds
  <2>4. RunFlows' BY <1>0, <1>1, <2>a, <2>b, <2>c, <2>d, <2>e DEF RunFlows, IdsAreOwn, Ended, TurnKinds
  <2>5. DaysFollow' BY <1>0, <1>1, <2>a, <2>b, <2>c, <2>d, <2>e DEF DaysFollow, RunFlows
  <2>6. CountsAddUp' BY <1>0, <1>1, <2>a, <2>b, <2>c, <2>d, <2>e DEF CountsAddUp, RunFlows, Tooling, EventRows, ToolEvents
  <2>7. ContentIsConsented' BY <1>0, <1>1, <2>a, <2>b, <2>c, <2>d, <2>e DEF ContentIsConsented, RunFlows, IdsAreOwn
  <2>8. DeletionHolds' BY <1>0, <1>1, <2>a, <2>b, <2>c, <2>d, <2>e DEF DeletionHolds, IdsAreGiven, Deleting
  <2> QED BY <2>1, <2>2, <2>3, <2>4, <2>5, <2>6, <2>7, <2>8
<1>2. CASE rows' = rows \cup {Record(logger)} /\ logger.kind # "error" /\ run' = [run EXCEPT !.row = Counted(@)] /\ logger' = Quiet /\ UNCHANGED tally
  <2>a. logger.kind = "error_event"
    BY <1>2 DEF ErrorInsert, IdsAreOwn
  <2>b. /\ logger.pc = "insert" /\ rows' = rows \cup {Record(logger)}
        /\ UNCHANGED <<support, today, files, loop, cleaner>>
        /\ logger' = Quiet /\ tally' = tally /\ run' = [run EXCEPT !.row = Counted(run.row)]
    BY <1>2 DEF ErrorInsert
  <2>c. /\ run' \in RunRecs /\ run'.pc = run.pc /\ run'.calls = run.calls /\ run'.row.kept = run.row.kept
        /\ run'.row.day = run.row.day /\ run'.row.message = run.row.message
        /\ run'.row.status = run.row.status /\ run'.row.tools = run.row.tools
        /\ run.row.kept => run'.row.events = run.row.events + 1
    BY <1>0, <2>a, <2>b DEF RunRecs, RowsOfRuns, Counted
  <2>d. /\ Record(logger).id = logger.id /\ Record(logger).kind = logger.kind /\ Record(logger).day = logger.day
        /\ Record(logger).content = logger.content /\ Record(logger) \notin rows /\ Record(logger).kind \in RowKinds
        /\ Record(logger) \in [id : Nat, kind : RowKinds, day : Nat, content : BOOLEAN]
    BY <1>0, <2>a, <2>b, <2>c DEF Record, CallRecs, IdsAreOwn, RowKinds, TurnKinds
  <2>e. IsFiniteSet(rows')
    BY <1>0, <2>a, <2>b, <2>c, <2>d, FS_AddElement DEF RecordTypes
  <2>f. /\ logger' \in CallRecs /\ logger'.pc = "idle" /\ logger'.id = 0 /\ logger'.day = 0 /\ logger'.kind = "none"
    BY <1>2, <2>a, <2>b, <2>c, <2>d, <2>e, QuietIs
  <2>1. RecordTypes' BY <1>0, <1>2, <2>a, <2>b, <2>c, <2>d, <2>e, <2>f DEF RecordTypes
  <2>2. IdsAreGiven' BY <1>0, <1>2, <2>a, <2>b, <2>c, <2>d, <2>e, <2>f DEF IdsAreGiven, IdsAreOwn
  <2>3. IdsAreOwn' BY <1>0, <1>2, <2>a, <2>b, <2>c, <2>d, <2>e, <2>f DEF IdsAreOwn, IdsAreGiven, TurnKinds
  <2>4. RunFlows' BY <1>0, <1>2, <2>a, <2>b, <2>c, <2>d, <2>e, <2>f DEF RunFlows, IdsAreOwn, Ended, TurnKinds
  <2>5. DaysFollow' BY <1>0, <1>2, <2>a, <2>b, <2>c, <2>d, <2>e, <2>f DEF DaysFollow, RunFlows
  <2>6. CountsAddUp'
    <3>1. EventRows' = EventRows \cup {Record(logger)} /\ Record(logger) \notin EventRows
      BY <2>a, <2>b, <2>c, <2>d, <2>e, <2>f DEF EventRows, IdsAreOwn
    <3>2. Cardinality(EventRows') = Cardinality(EventRows) + 1
      BY <1>0, <3>1, FS_AddElement
    <3>3. ToolEvents' = ToolEvents BY <2>a, <2>b, <2>c, <2>d, <2>e, <2>f DEF ToolEvents
    <3> QED BY <1>0, <2>a, <2>b, <2>c, <2>d, <2>e, <2>f, <3>2, <3>3 DEF CountsAddUp, Tooling
  <2>7. ContentIsConsented' BY <1>0, <1>2, <2>a, <2>b, <2>c, <2>d, <2>e, <2>f DEF ContentIsConsented, RunFlows, IdsAreOwn
  <2>8. DeletionHolds' BY <1>0, <1>2, <2>a, <2>b, <2>c, <2>d, <2>e, <2>f DEF DeletionHolds, IdsAreGiven, Deleting
  <2> QED BY <2>1, <2>2, <2>3, <2>4, <2>5, <2>6, <2>7, <2>8
<1>3. CASE rows' = rows \cup {Record(logger)} /\ logger.kind = "error" /\ RunStarted /\ run' = run /\ tally' = Numbered
            /\ logger' = LogEvent(logger, "error_event", FALSE)
  <2>a. /\ logger.pc = "insert" /\ rows' = rows \cup {Record(logger)}
        /\ UNCHANGED <<support, today, files, loop, cleaner, run>> /\ RunStarted /\ logger.kind = "error"
    BY <1>3 DEF ErrorInsert
  <2>b. /\ Record(logger).id = logger.id /\ Record(logger).kind = logger.kind /\ Record(logger).day = logger.day
        /\ Record(logger).content = logger.content /\ Record(logger) \notin rows /\ Record(logger).kind \in RowKinds
        /\ Record(logger) \in [id : Nat, kind : RowKinds, day : Nat, content : BOOLEAN]
    BY <1>0, <2>a DEF Record, CallRecs, IdsAreOwn, RowKinds, TurnKinds
  <2>c. IsFiniteSet(rows')
    BY <1>0, <2>a, <2>b, FS_AddElement DEF RecordTypes
  <2>d. EventRows' = EventRows /\ ToolEvents' = ToolEvents
    BY <1>3, <2>a, <2>b, <2>c DEF EventRows, ToolEvents
  <2>e. NewId(tally')
    BY <1>3, <1>0, <2>a, <2>b, <2>c, <2>d, Tallies
  <2>f. PICK content \in BOOLEAN :
          /\ ~content
          /\ logger' = [logger EXCEPT !.pc = "line", !.id = tally.ids + 1, !.day = today,
                                   !.kind = "error_event", !.content = content]
    BY <1>3 DEF LogEvent
  <2>g. tally.ids + 1 \in Nat /\ today \in Nat /\ logger \in CallRecs
    BY <1>0
  <2>h. /\ logger' \in CallRecs /\ logger'.pc = "line" /\ logger'.id = tally.ids + 1
        /\ logger'.day = today /\ logger'.kind = "error_event" /\ ~logger'.content
    BY <2>f, <2>g DEF CallRecs, RowKinds
  <2>i. /\ \A i \in 0 .. tally.ids : i \in 0 .. (tally.ids + 1)
        /\ \A i \in 1 .. tally.ids : i \in 1 .. (tally.ids + 1)
        /\ tally.ids + 1 \in 1 .. (tally.ids + 1) /\ tally.ids + 1 \in 0 .. (tally.ids + 1)
    BY <1>0
  <2>1. RecordTypes' BY <1>0, <1>3, <2>a, <2>b, <2>c, <2>d, <2>e, <2>h, <2>i DEF RecordTypes
  <2>2. IdsAreGiven'
    <3>1. \A r \in rows' \cup files : r \in rows \cup files \/ r = Record(logger) BY <2>a
    <3>2. logger.id \in 1 .. tally.ids BY <1>0, <2>a DEF IdsAreGiven, IdsAreOwn
    <3>3. \A r \in rows' \cup files : r.id \in 1 .. tally.ids BY <2>b, <3>1, <3>2 DEF IdsAreGiven
    <3> QED BY <1>0, <2>a, <2>e, <2>h, <2>i, <3>3 DEF IdsAreGiven
  <2>3. IdsAreOwn' BY <1>0, <1>3, <2>a, <2>b, <2>c, <2>d, <2>e, <2>h, <2>i, ZenonT(30) DEF IdsAreOwn, IdsAreGiven, TurnKinds
  <2>4. RunFlows' BY <1>0, <1>3, <2>a, <2>b, <2>c, <2>d, <2>e, <2>h, <2>i DEF RunFlows, IdsAreOwn, Ended, TurnKinds, RunStarted
  <2>5. DaysFollow' BY <1>0, <1>3, <2>a, <2>b, <2>c, <2>d, <2>e, <2>h, <2>i DEF DaysFollow, RunFlows, RunStarted
  <2>6. CountsAddUp' BY <1>0, <1>3, <2>a, <2>b, <2>c, <2>d, <2>e, <2>h, <2>i DEF CountsAddUp, RunFlows, Tooling, EventRows, ToolEvents
  <2>7. ContentIsConsented' BY <1>0, <1>3, <2>a, <2>b, <2>c, <2>d, <2>e, <2>h, <2>i DEF ContentIsConsented, RunFlows, IdsAreOwn
  <2>8. DeletionHolds' BY <1>0, <1>3, <2>a, <2>b, <2>c, <2>d, <2>e, <2>h, <2>i DEF DeletionHolds, IdsAreGiven, Deleting
  <2> QED BY <2>1, <2>2, <2>3, <2>4, <2>5, <2>6, <2>7, <2>8
<1>4. CASE tally' = Mishap /\ logger' = Quiet /\ UNCHANGED <<rows, run>>
  <2>a. /\ logger.pc = "insert" /\ UNCHANGED <<support, today, files, loop, cleaner>>
    BY <1>4 DEF ErrorInsert
  <2>b. /\ logger' \in CallRecs /\ logger'.pc = "idle" /\ logger'.id = 0 /\ logger'.day = 0 /\ logger'.kind = "none"
    BY <1>4, <2>a, QuietIs
  <2>c. SameTally(tally') /\ tally'.mishaps = tally.mishaps + 1
    BY <1>4, <1>0, <2>a, <2>b, Tallies
  <2>d. EventRows' = EventRows /\ ToolEvents' = ToolEvents
    BY <1>4, <2>a, <2>b, <2>c DEF EventRows, ToolEvents
  <2>1. RecordTypes' BY <1>0, <1>4, <2>a, <2>b, <2>c, <2>d DEF RecordTypes
  <2>2. IdsAreGiven' BY <1>0, <1>4, <2>a, <2>b, <2>c, <2>d DEF IdsAreGiven, IdsAreOwn
  <2>3. IdsAreOwn' BY <1>0, <1>4, <2>a, <2>b, <2>c, <2>d DEF IdsAreOwn, IdsAreGiven, TurnKinds
  <2>4. RunFlows' BY <1>0, <1>4, <2>a, <2>b, <2>c, <2>d DEF RunFlows, IdsAreOwn, Ended, TurnKinds
  <2>5. DaysFollow' BY <1>0, <1>4, <2>a, <2>b, <2>c, <2>d DEF DaysFollow, RunFlows
  <2>6. CountsAddUp' BY <1>0, <1>4, <2>a, <2>b, <2>c, <2>d DEF CountsAddUp, RunFlows, Tooling, EventRows, ToolEvents
  <2>7. ContentIsConsented' BY <1>0, <1>4, <2>a, <2>b, <2>c, <2>d DEF ContentIsConsented, RunFlows, IdsAreOwn
  <2>8. DeletionHolds' BY <1>0, <1>4, <2>a, <2>b, <2>c, <2>d DEF DeletionHolds, IdsAreGiven, Deleting
  <2> QED BY <2>1, <2>2, <2>3, <2>4, <2>5, <2>6, <2>7, <2>8
<1> QED BY <1>1, <1>2, <1>3, <1>4 DEF ErrorInsert

(* A bundle of what has been read.                                           *)
LEMMA ExportStep ==
    ASSUME RecordsIInv, ExportDebugBundle
    PROVE  RecordsIInv'
<1> USE DEF RecordsIInv, InFlight, SameTally, NewId, Logged
<1>0. Fields BY FieldsHold
<1> USE DEF Fields
<1>a. PICK content : /\ content = (run.row.message \/ \E r \in rows : r.content)
                     /\ loop' = [Quiet EXCEPT !.pc = "bundle", !.id = tally.ids + 1, !.day = today,
                                              !.kind = "bundle", !.content = content]
  BY DEF ExportDebugBundle
<1>b. content \in BOOLEAN
  BY <1>a
<1>c. /\ loop.pc = "idle" /\ support /\ run.row.kept /\ tally' = Numbered
      /\ UNCHANGED <<support, today, run, rows, files, logger, cleaner>>
  BY DEF ExportDebugBundle
<1>d. tally.ids + 1 \in Nat
  BY <1>0
<1>e. /\ loop' \in CallRecs /\ loop'.pc = "bundle" /\ loop'.id = tally.ids + 1 /\ loop'.day = today
      /\ loop'.kind = "bundle"
  BY <1>0, <1>a, <1>b, <1>c, <1>d DEF CallRecs, Quiet
<1>f. NewId(tally')
  BY <1>0, <1>a, <1>b, <1>c, <1>d, <1>e, Tallies
<1>g. EventRows' = EventRows /\ ToolEvents' = ToolEvents
  BY <1>a, <1>b, <1>c, <1>d, <1>e, <1>f DEF EventRows, ToolEvents
<1>1. RecordTypes' BY <1>0, <1>a, <1>b, <1>c, <1>d, <1>e, <1>f, <1>g DEF RecordTypes
<1>2. IdsAreGiven' BY <1>0, <1>a, <1>b, <1>c, <1>d, <1>e, <1>f, <1>g DEF IdsAreGiven, IdsAreOwn
<1>3. IdsAreOwn' BY <1>0, <1>a, <1>b, <1>c, <1>d, <1>e, <1>f, <1>g DEF IdsAreOwn, IdsAreGiven, TurnKinds
<1>4. RunFlows' BY <1>0, <1>a, <1>b, <1>c, <1>d, <1>e, <1>f, <1>g DEF RunFlows, IdsAreOwn, Ended, TurnKinds
<1>5. DaysFollow' BY <1>0, <1>a, <1>b, <1>c, <1>d, <1>e, <1>f, <1>g DEF DaysFollow, RunFlows
<1>6. CountsAddUp' BY <1>0, <1>a, <1>b, <1>c, <1>d, <1>e, <1>f, <1>g DEF CountsAddUp, RunFlows, Tooling, EventRows, ToolEvents
<1>7. ContentIsConsented' BY <1>0, <1>a, <1>b, <1>c, <1>d, <1>e, <1>f, <1>g DEF ContentIsConsented, RunFlows, IdsAreOwn
<1>8. DeletionHolds' BY <1>0, <1>a, <1>b, <1>c, <1>d, <1>e, <1>f, <1>g DEF DeletionHolds, IdsAreGiven, Deleting
<1> QED BY <1>1, <1>2, <1>3, <1>4, <1>5, <1>6, <1>7, <1>8

(* The bundle is written.                                                    *)
LEMMA WriteBundleStep ==
    ASSUME RecordsIInv, WriteBundle
    PROVE  RecordsIInv'
<1> USE DEF RecordsIInv, InFlight, SameTally, NewId, Logged
<1>0. Fields BY FieldsHold
<1> USE DEF Fields
<1>a. /\ loop.pc = "bundle" /\ loop' = Quiet /\ files' = files \cup {Record(loop)}
      /\ UNCHANGED <<support, today, run, rows, logger, cleaner, tally>>
  BY DEF WriteBundle
<1>b. /\ Record(loop).id = loop.id /\ Record(loop).kind = "bundle" /\ Record(loop).day = loop.day
      /\ Record(loop).content = loop.content
      /\ Record(loop) \in [id : Nat, kind : {"bundle"}, day : Nat, content : BOOLEAN]
  BY <1>0, <1>a DEF Record, CallRecs, IdsAreOwn
<1>c. /\ loop' \in CallRecs /\ loop'.pc = "idle" /\ loop'.id = 0 /\ loop'.day = 0 /\ loop'.kind = "none"
  BY <1>a, <1>b, QuietIs
<1>d. EventRows' = EventRows /\ ToolEvents' = ToolEvents
  BY <1>a, <1>b, <1>c DEF EventRows, ToolEvents
<1>1. RecordTypes' BY <1>0, <1>a, <1>b, <1>c, <1>d DEF RecordTypes
<1>2. IdsAreGiven' BY <1>0, <1>a, <1>b, <1>c, <1>d DEF IdsAreGiven, IdsAreOwn, IdsAreOwn
<1>3. IdsAreOwn' BY <1>0, <1>a, <1>b, <1>c, <1>d DEF IdsAreOwn, IdsAreGiven, TurnKinds
<1>4. RunFlows' BY <1>0, <1>a, <1>b, <1>c, <1>d DEF RunFlows, IdsAreOwn, Ended, TurnKinds
<1>5. DaysFollow' BY <1>0, <1>a, <1>b, <1>c, <1>d DEF DaysFollow, RunFlows
<1>6. CountsAddUp' BY <1>0, <1>a, <1>b, <1>c, <1>d DEF CountsAddUp, RunFlows, Tooling, EventRows, ToolEvents
<1>7. ContentIsConsented' BY <1>0, <1>a, <1>b, <1>c, <1>d DEF ContentIsConsented, RunFlows, IdsAreOwn
<1>8. DeletionHolds' BY <1>0, <1>a, <1>b, <1>c, <1>d DEF DeletionHolds, IdsAreGiven, Deleting
<1> QED BY <1>1, <1>2, <1>3, <1>4, <1>5, <1>6, <1>7, <1>8

(* A replay is recorded.                                                     *)
LEMMA ReplayStep ==
    ASSUME RecordsIInv, RecordReplay
    PROVE  RecordsIInv'
<1> USE DEF RecordsIInv, InFlight, SameTally, NewId, Logged
<1>0. Fields BY FieldsHold
<1> USE DEF Fields
<1>a. PICK r : /\ r = [id |-> tally.ids + 1, kind |-> "replay", day |-> today, content |-> FALSE]
               /\ rows' = rows \cup {r}
  BY DEF RecordReplay
<1>b. /\ loop.pc = "idle" /\ run.row.kept /\ tally' = [tally EXCEPT !.ids = @ + 1]
      /\ UNCHANGED <<support, today, run, files, loop, logger, cleaner>>
  BY DEF RecordReplay
<1>c. tally.ids + 1 \in Nat
  BY <1>0
<1>d. /\ r \in [id : Nat, kind : RowKinds, day : Nat, content : BOOLEAN] /\ r.id = tally.ids + 1
      /\ r.kind = "replay" /\ r.day = today /\ ~r.content
  BY <1>0, <1>a, <1>b, <1>c DEF RowKinds
<1>e. /\ tally' \in TallyRecs /\ tally'.ids = tally.ids + 1 /\ tally'.mishaps = tally.mishaps
      /\ tally'.consented = tally.consented /\ tally'.gone = tally.gone /\ tally'.noted = tally.noted
  BY <1>0, <1>a, <1>b, <1>c, <1>d DEF TallyRecs
<1>f. EventRows' = EventRows /\ ToolEvents' = ToolEvents
  BY <1>a, <1>b, <1>c, <1>d, <1>e DEF EventRows, ToolEvents
<1>g. IsFiniteSet(rows')
  BY <1>0, <1>a, <1>b, <1>c, <1>d, <1>e, <1>f, FS_AddElement
<1>1. RecordTypes' BY <1>0, <1>a, <1>b, <1>c, <1>d, <1>e, <1>f, <1>g DEF RecordTypes
<1>2. IdsAreGiven' BY <1>0, <1>a, <1>b, <1>c, <1>d, <1>e, <1>f, <1>g DEF IdsAreGiven, IdsAreOwn
<1>3. IdsAreOwn' BY <1>0, <1>a, <1>b, <1>c, <1>d, <1>e, <1>f, <1>g DEF IdsAreOwn, IdsAreGiven, TurnKinds
<1>4. RunFlows' BY <1>0, <1>a, <1>b, <1>c, <1>d, <1>e, <1>f, <1>g DEF RunFlows, IdsAreOwn, Ended, TurnKinds
<1>5. DaysFollow' BY <1>0, <1>a, <1>b, <1>c, <1>d, <1>e, <1>f, <1>g DEF DaysFollow, RunFlows
<1>6. CountsAddUp' BY <1>0, <1>a, <1>b, <1>c, <1>d, <1>e, <1>f, <1>g DEF CountsAddUp, RunFlows, Tooling, EventRows, ToolEvents
<1>7. ContentIsConsented' BY <1>0, <1>a, <1>b, <1>c, <1>d, <1>e, <1>f, <1>g DEF ContentIsConsented, RunFlows, IdsAreOwn
<1>8. DeletionHolds'
  <2>1. r.id \notin tally.gone \cup cleaner.doomed BY <1>0, <1>d
  <2>2. \A x \in rows' \cup files : x \in rows \cup files \/ x = r BY <1>a
  <2>3. \A x \in rows' : x \in rows \/ x = r BY <1>a
  <2> QED BY <1>b, <1>e, <2>1, <2>2, <2>3 DEF DeletionHolds
<1> QED BY <1>1, <1>2, <1>3, <1>4, <1>5, <1>6, <1>7, <1>8

(* Delete Data empties the tables, or fails to.                              *)
LEMMA DeleteAllStep ==
    ASSUME RecordsIInv, DeleteAll
    PROVE  RecordsIInv'
<1> USE DEF RecordsIInv, InFlight, SameTally, NewId, Logged
<1>0. Fields BY FieldsHold
<1> USE DEF Fields
<1>1. CASE tally' = Troubled /\ rows' = {}
  <2>a. /\ run' = [run EXCEPT !.row = NoRow] /\ cleaner.pc = "idle"
        /\ cleaner' = [cleaner EXCEPT !.pc = "event files", !.doomed = Settled]
        /\ UNCHANGED <<support, today, files, loop, logger>>
    BY <1>1, <1>0, Tallies DEF DeleteAll
  <2>b. /\ \A i \in Settled : i \in 1 .. tally.ids
        /\ Settled \in SUBSET Nat /\ loop.id \notin Settled /\ logger.id \notin Settled
    BY <1>0 DEF Settled, IdsAreGiven
  <2>c. /\ cleaner' \in CleanerRecs /\ cleaner'.pc = "event files" /\ cleaner'.doomed = Settled
    BY <1>0, <2>a, <2>b DEF CleanerRecs, Deleting
  <2>d. SameTally(tally') /\ tally'.mishaps = tally.mishaps
    BY <1>1, <1>0, Tallies
  <2>e. /\ run' \in RunRecs /\ run'.pc = run.pc /\ run'.calls = run.calls /\ run'.row = NoRow
    BY <1>0, <2>a, <2>b, <2>c, <2>d, QuietIs DEF RunRecs
  <2>f. ~run'.row.kept /\ ~run'.row.message /\ IsFiniteSet(rows')
    BY <1>1, <2>a, <2>b, <2>c, <2>d, <2>e, QuietIs, FS_EmptySet
  <2>1. RecordTypes' BY <1>0, <1>1, <2>a, <2>b, <2>c, <2>d, <2>e, <2>f DEF RecordTypes
  <2>2. IdsAreGiven' BY <1>0, <1>1, <2>a, <2>b, <2>c, <2>d, <2>e, <2>f DEF IdsAreGiven, IdsAreOwn
  <2>3. IdsAreOwn' BY <1>0, <1>1, <2>a, <2>b, <2>c, <2>d, <2>e, <2>f DEF IdsAreOwn, IdsAreGiven, TurnKinds
  <2>4. RunFlows' BY <1>0, <1>1, <2>a, <2>b, <2>c, <2>d, <2>e, <2>f DEF RunFlows, IdsAreOwn, Ended, TurnKinds
  <2>5. DaysFollow' BY <1>0, <1>1, <2>a, <2>b, <2>c, <2>d, <2>e, <2>f DEF DaysFollow, RunFlows
  <2>6. CountsAddUp' BY <1>0, <1>1, <2>a, <2>b, <2>c, <2>d, <2>e, <2>f DEF CountsAddUp, RunFlows, Tooling, EventRows, ToolEvents
  <2>7. ContentIsConsented' BY <1>0, <1>1, <2>a, <2>b, <2>c, <2>d, <2>e, <2>f DEF ContentIsConsented, RunFlows, IdsAreOwn
  <2>8. DeletionHolds' BY <1>0, <1>1, <2>a, <2>b, <2>c, <2>d, <2>e, <2>f DEF DeletionHolds, IdsAreGiven, Deleting
  <2> QED BY <2>1, <2>2, <2>3, <2>4, <2>5, <2>6, <2>7, <2>8
<1>2. CASE tally' = Mishap /\ UNCHANGED <<rows, run>>
  <2>a. /\ cleaner.pc = "idle" /\ UNCHANGED <<support, today, files, loop, logger>>
        /\ cleaner' = [cleaner EXCEPT !.pc = "event files", !.doomed = {}]
    BY <1>2, <1>0, Tallies DEF DeleteAll
  <2>b. /\ cleaner' \in CleanerRecs /\ cleaner'.pc = "event files" /\ cleaner'.doomed = {}
    BY <1>0, <2>a DEF CleanerRecs, Deleting
  <2>c. SameTally(tally') /\ tally'.mishaps = tally.mishaps + 1
    BY <1>2, <1>0, <2>a, <2>b, Tallies
  <2>d. EventRows' = EventRows /\ ToolEvents' = ToolEvents
    BY <1>2, <2>a, <2>b, <2>c DEF EventRows, ToolEvents
  <2>1. RecordTypes' BY <1>0, <1>2, <2>a, <2>b, <2>c, <2>d DEF RecordTypes
  <2>2. IdsAreGiven' BY <1>0, <1>2, <2>a, <2>b, <2>c, <2>d DEF IdsAreGiven, IdsAreOwn
  <2>3. IdsAreOwn' BY <1>0, <1>2, <2>a, <2>b, <2>c, <2>d DEF IdsAreOwn, IdsAreGiven, TurnKinds
  <2>4. RunFlows' BY <1>0, <1>2, <2>a, <2>b, <2>c, <2>d DEF RunFlows, IdsAreOwn, Ended, TurnKinds
  <2>5. DaysFollow' BY <1>0, <1>2, <2>a, <2>b, <2>c, <2>d DEF DaysFollow, RunFlows
  <2>6. CountsAddUp' BY <1>0, <1>2, <2>a, <2>b, <2>c, <2>d DEF CountsAddUp, RunFlows, Tooling, EventRows, ToolEvents
  <2>7. ContentIsConsented' BY <1>0, <1>2, <2>a, <2>b, <2>c, <2>d DEF ContentIsConsented, RunFlows, IdsAreOwn
  <2>8. DeletionHolds' BY <1>0, <1>2, <2>a, <2>b, <2>c, <2>d DEF DeletionHolds, IdsAreGiven, Deleting
  <2> QED BY <2>1, <2>2, <2>3, <2>4, <2>5, <2>6, <2>7, <2>8
<1> QED BY <1>1, <1>2 DEF DeleteAll

(* One kind of file goes.                                                    *)
LEMMA UnlinkStep ==
    ASSUME RecordsIInv, NEW pc \in Deleting, NEW kind, NEW next, Unlink(pc, kind, next),
           <<pc, kind, next>> \in {<<"event files", "event", "error files">>,
                                  <<"error files", "error", "bundles">>, <<"bundles", "bundle", "idle">>}
    PROVE  RecordsIInv'
<1> USE DEF RecordsIInv, InFlight, SameTally, NewId, Logged
<1>0. Fields BY FieldsHold
<1> USE DEF Fields
<1>a. /\ cleaner.pc = pc /\ files' = {f \in files : f.kind # kind}
      /\ UNCHANGED <<support, today, run, rows, loop, logger>>
  BY DEF Unlink
<1>b. PICK doomed : /\ doomed = IF next = "idle" THEN {} ELSE cleaner.doomed
                    /\ cleaner' = [cleaner EXCEPT !.pc = next, !.doomed = doomed]
  BY DEF Unlink
<1>c. PICK gone : /\ gone = IF next = "idle" THEN tally.gone \cup cleaner.doomed ELSE tally.gone
                  /\ tally' = [tally EXCEPT !.gone = gone]
  BY DEF Unlink
<1>d. doomed \in SUBSET Nat /\ gone \in SUBSET Nat
  BY <1>0, <1>a, <1>b, <1>c DEF CleanerRecs, TallyRecs
<1>e. /\ cleaner' \in CleanerRecs /\ cleaner'.pc = next /\ cleaner'.doomed = doomed
  BY <1>0, <1>a, <1>b, <1>c, <1>d DEF CleanerRecs, Deleting
<1>f. /\ tally' \in TallyRecs /\ tally'.ids = tally.ids /\ tally'.mishaps = tally.mishaps
      /\ tally'.consented = tally.consented /\ tally'.gone = gone /\ tally'.noted = tally.noted
  BY <1>0, <1>a, <1>b, <1>c, <1>d, <1>e DEF TallyRecs
<1>g. EventRows' = EventRows /\ ToolEvents' = ToolEvents
  BY <1>a, <1>b, <1>c, <1>d, <1>e, <1>f DEF EventRows, ToolEvents
<1>1. RecordTypes' BY <1>0, <1>a, <1>b, <1>c, <1>d, <1>e, <1>f, <1>g DEF RecordTypes
<1>2. IdsAreGiven'
  <2>1. \A i \in doomed \cup gone : i \in tally.gone \cup cleaner.doomed BY <1>b, <1>c
  <2> QED BY <1>0, <1>a, <1>e, <1>f, <2>1 DEF IdsAreGiven
<1>3. IdsAreOwn' BY <1>0, <1>a, <1>b, <1>c, <1>d, <1>e, <1>f, <1>g DEF IdsAreOwn, IdsAreGiven, TurnKinds
<1>4. RunFlows' BY <1>0, <1>a, <1>b, <1>c, <1>d, <1>e, <1>f, <1>g DEF RunFlows, IdsAreOwn, Ended, TurnKinds
<1>5. DaysFollow' BY <1>0, <1>a, <1>b, <1>c, <1>d, <1>e, <1>f, <1>g DEF DaysFollow, RunFlows
<1>6. CountsAddUp' BY <1>0, <1>a, <1>b, <1>c, <1>d, <1>e, <1>f, <1>g DEF CountsAddUp, RunFlows, Tooling, EventRows, ToolEvents
<1>7. ContentIsConsented' BY <1>0, <1>a, <1>b, <1>c, <1>d, <1>e, <1>f, <1>g DEF ContentIsConsented, RunFlows, IdsAreOwn
<1>8. DeletionHolds'
  <2>1. files' \subseteq files /\ rows' = rows BY <1>a
  <2>2. CASE next # "idle"
    <3>1. doomed = cleaner.doomed /\ gone = tally.gone BY <1>b, <1>c, <2>2
    <3>2. cleaner.pc # "idle" /\ cleaner.pc \in Deleting /\ next \in Deleting BY <1>a, <2>2 DEF Deleting
    <3>3. next = "error files" => kind = "event" OBVIOUS
    <3>4. next = "bundles" => kind = "error" /\ cleaner.pc = "error files" BY <1>a
    <3>5. next \in {"error files", "bundles"} BY <2>2
    <3> QED BY <1>a, <1>e, <1>f, <2>1, <3>1, <3>2, <3>3, <3>4, <3>5 DEF DeletionHolds
  <2>3. CASE next = "idle"
    <3>1. doomed = {} /\ gone = tally.gone \cup cleaner.doomed BY <1>b, <1>c, <2>3
    <3>2. cleaner.pc = "bundles" /\ kind = "bundle" BY <1>a, <2>3
    <3>3. \A f \in files' : f.kind \in {"event", "error"} BY <1>0, <1>a, <3>2 DEF RecordTypes
    <3>4. \A f \in files' : f.id \notin cleaner.doomed BY <2>1, <3>2, <3>3 DEF DeletionHolds
    <3> QED BY <1>a, <1>e, <1>f, <2>1, <2>3, <3>1, <3>4 DEF DeletionHolds, Deleting
  <2> QED BY <2>2, <2>3
<1> QED BY <1>1, <1>2, <1>3, <1>4, <1>5, <1>6, <1>7, <1>8

(* The cleaning begins.                                                      *)
LEMMA RetentionStep ==
    ASSUME RecordsIInv, CleanupRetention
    PROVE  RecordsIInv'
<1> USE DEF RecordsIInv, InFlight, SameTally, NewId, Logged
<1>0. Fields BY FieldsHold
<1> USE DEF Fields
<1>a. /\ cleaner.pc = "idle" /\ tally' = Troubled
      /\ UNCHANGED <<support, today, run, rows, files, loop, logger>>
  BY DEF CleanupRetention
<1>b. (IF today > KeepDays THEN today - KeepDays ELSE 0) \in Nat
  BY <1>0, RecordsAssumption
<1>c. PICK cutoff \in Nat : cleaner' = [cleaner EXCEPT !.pc = "retention", !.cutoff = cutoff]
  BY <1>a, <1>b DEF CleanupRetention
<1>d. /\ cleaner' \in CleanerRecs /\ cleaner'.pc = "retention" /\ cleaner'.doomed = cleaner.doomed
  BY <1>0, <1>a, <1>b, <1>c DEF CleanerRecs, Deleting
<1>e. SameTally(tally') /\ tally'.mishaps = tally.mishaps
  BY <1>0, <1>a, <1>b, <1>c, <1>d, Tallies
<1>f. EventRows' = EventRows /\ ToolEvents' = ToolEvents
  BY <1>a, <1>b, <1>c, <1>d, <1>e DEF EventRows, ToolEvents
<1>1. RecordTypes' BY <1>0, <1>a, <1>b, <1>c, <1>d, <1>e, <1>f DEF RecordTypes
<1>2. IdsAreGiven' BY <1>0, <1>a, <1>b, <1>c, <1>d, <1>e, <1>f DEF IdsAreGiven, IdsAreOwn
<1>3. IdsAreOwn' BY <1>0, <1>a, <1>b, <1>c, <1>d, <1>e, <1>f DEF IdsAreOwn, IdsAreGiven, TurnKinds
<1>4. RunFlows' BY <1>0, <1>a, <1>b, <1>c, <1>d, <1>e, <1>f DEF RunFlows, IdsAreOwn, Ended, TurnKinds
<1>5. DaysFollow' BY <1>0, <1>a, <1>b, <1>c, <1>d, <1>e, <1>f DEF DaysFollow, RunFlows
<1>6. CountsAddUp' BY <1>0, <1>a, <1>b, <1>c, <1>d, <1>e, <1>f DEF CountsAddUp, RunFlows, Tooling, EventRows, ToolEvents
<1>7. ContentIsConsented' BY <1>0, <1>a, <1>b, <1>c, <1>d, <1>e, <1>f DEF ContentIsConsented, RunFlows, IdsAreOwn
<1>8. DeletionHolds' BY <1>0, <1>a, <1>b, <1>c, <1>d, <1>e, <1>f DEF DeletionHolds, IdsAreGiven, Deleting
<1> QED BY <1>1, <1>2, <1>3, <1>4, <1>5, <1>6, <1>7, <1>8

(* The tables lose what is too old.                                          *)
LEMMA TablesStep ==
    ASSUME RecordsIInv, CleanupTables
    PROVE  RecordsIInv'
<1> USE DEF RecordsIInv, InFlight, SameTally, NewId, Logged
<1>0. Fields BY FieldsHold
<1> USE DEF Fields
<1>1. CASE rows' = {r \in rows : Young(r)} /\ Young(run.row) /\ UNCHANGED <<tally, run>>
            /\ cleaner' = [cleaner EXCEPT !.pc = "old files"]
  <2>a. /\ cleaner.pc = "retention" /\ cleaner' = [cleaner EXCEPT !.pc = "old files"]
        /\ UNCHANGED <<support, today, files, loop, logger>>
    BY <1>1 DEF CleanupTables
  <2>b. /\ cleaner' \in CleanerRecs /\ cleaner'.pc = "old files" /\ cleaner'.doomed = cleaner.doomed
    BY <1>0, <2>a DEF CleanerRecs
  <2>c. rows' \subseteq rows /\ IsFiniteSet(rows')
    BY <1>1, <1>0, FS_Subset
  <2>d. run.row.day >= cleaner.cutoff
    BY <1>1 DEF Young
  <2>e. run.row.kept => \A r \in rows : r.kind \notin {"error", "replay"} => run.row.day <= r.day
    BY DEF DaysFollow
  <2>f. run.row.kept => \A r \in rows : r.kind \notin {"error", "replay"} => r.day >= cleaner.cutoff
    BY <2>d, <2>e, <1>0
  <2>g. run.row.kept => \A r \in rows : r.kind \notin {"error", "replay"} => r \in rows'
    BY <1>1, <2>a, <2>b, <2>c, <2>d, <2>e, <2>f DEF Young
  <2>h. run.row.kept => EventRows' = EventRows /\ ToolEvents' = ToolEvents
    BY <2>a, <2>b, <2>c, <2>d, <2>e, <2>f, <2>g DEF EventRows, ToolEvents
  <2>1. RecordTypes' BY <1>0, <1>1, <2>a, <2>b, <2>c, <2>d, <2>e, <2>f, <2>g, <2>h DEF RecordTypes
  <2>2. IdsAreGiven' BY <1>0, <1>1, <2>a, <2>b, <2>c, <2>d, <2>e, <2>f, <2>g, <2>h DEF IdsAreGiven, IdsAreOwn
  <2>3. IdsAreOwn' BY <1>0, <1>1, <2>a, <2>b, <2>c, <2>d, <2>e, <2>f, <2>g, <2>h DEF IdsAreOwn, IdsAreGiven, TurnKinds
  <2>4. RunFlows' BY <1>0, <1>1, <2>a, <2>b, <2>c, <2>d, <2>e, <2>f, <2>g, <2>h DEF RunFlows, IdsAreOwn, Ended, TurnKinds
  <2>5. DaysFollow' BY <1>0, <1>1, <2>a, <2>b, <2>c, <2>d, <2>e, <2>f, <2>g, <2>h DEF DaysFollow, RunFlows
  <2>6. CountsAddUp' BY <1>0, <1>1, <2>a, <2>b, <2>c, <2>d, <2>e, <2>f, <2>g, <2>h DEF CountsAddUp, RunFlows, Tooling, EventRows, ToolEvents
  <2>7. ContentIsConsented' BY <1>0, <1>1, <2>a, <2>b, <2>c, <2>d, <2>e, <2>f, <2>g, <2>h DEF ContentIsConsented, RunFlows, IdsAreOwn
  <2>8. DeletionHolds' BY <1>0, <1>1, <2>a, <2>b, <2>c, <2>d, <2>e, <2>f, <2>g, <2>h DEF DeletionHolds, IdsAreGiven, Deleting
  <2> QED BY <2>1, <2>2, <2>3, <2>4, <2>5, <2>6, <2>7, <2>8
<1>2. CASE rows' = {r \in rows : Young(r)} /\ run' = [run EXCEPT !.row = NoRow] /\ UNCHANGED tally
            /\ cleaner' = [cleaner EXCEPT !.pc = "old files"]
  <2>a. /\ cleaner.pc = "retention" /\ cleaner' = [cleaner EXCEPT !.pc = "old files"]
        /\ UNCHANGED <<support, today, files, loop, logger>>
    BY <1>2 DEF CleanupTables
  <2>b. /\ cleaner' \in CleanerRecs /\ cleaner'.pc = "old files" /\ cleaner'.doomed = cleaner.doomed
    BY <1>0, <2>a DEF CleanerRecs
  <2>c. rows' \subseteq rows /\ IsFiniteSet(rows')
    BY <1>2, <1>0, FS_Subset
  <2>d. /\ run' \in RunRecs /\ run'.pc = run.pc /\ run'.calls = run.calls /\ run'.row = NoRow
    BY <1>2, <1>0, <2>a, <2>b, <2>c, QuietIs DEF RunRecs
  <2>e. ~run'.row.kept /\ ~run'.row.message
    BY <1>2, <2>a, <2>b, <2>c, <2>d, QuietIs
  <2>1. RecordTypes' BY <1>0, <1>2, <2>a, <2>b, <2>c, <2>d, <2>e DEF RecordTypes
  <2>2. IdsAreGiven' BY <1>0, <1>2, <2>a, <2>b, <2>c, <2>d, <2>e DEF IdsAreGiven, IdsAreOwn
  <2>3. IdsAreOwn' BY <1>0, <1>2, <2>a, <2>b, <2>c, <2>d, <2>e DEF IdsAreOwn, IdsAreGiven, TurnKinds
  <2>4. RunFlows' BY <1>0, <1>2, <2>a, <2>b, <2>c, <2>d, <2>e DEF RunFlows, IdsAreOwn, Ended, TurnKinds
  <2>5. DaysFollow' BY <1>0, <1>2, <2>a, <2>b, <2>c, <2>d, <2>e DEF DaysFollow, RunFlows
  <2>6. CountsAddUp' BY <1>0, <1>2, <2>a, <2>b, <2>c, <2>d, <2>e DEF CountsAddUp, RunFlows, Tooling, EventRows, ToolEvents
  <2>7. ContentIsConsented' BY <1>0, <1>2, <2>a, <2>b, <2>c, <2>d, <2>e DEF ContentIsConsented, RunFlows, IdsAreOwn
  <2>8. DeletionHolds' BY <1>0, <1>2, <2>a, <2>b, <2>c, <2>d, <2>e DEF DeletionHolds, IdsAreGiven, Deleting
  <2> QED BY <2>1, <2>2, <2>3, <2>4, <2>5, <2>6, <2>7, <2>8
<1>3. CASE tally' = Mishap /\ UNCHANGED <<rows, run>> /\ cleaner' = [cleaner EXCEPT !.pc = "idle"]
  <2>a. /\ cleaner.pc = "retention" /\ cleaner' = [cleaner EXCEPT !.pc = "idle"]
        /\ UNCHANGED <<support, today, files, loop, logger>>
    BY <1>3 DEF CleanupTables
  <2>b. /\ cleaner' \in CleanerRecs /\ cleaner'.pc = "idle" /\ cleaner'.doomed = cleaner.doomed
    BY <1>0, <2>a DEF CleanerRecs
  <2>c. SameTally(tally') /\ tally'.mishaps = tally.mishaps + 1
    BY <1>3, <1>0, <2>a, <2>b, Tallies
  <2>d. EventRows' = EventRows /\ ToolEvents' = ToolEvents
    BY <1>3, <2>a, <2>b, <2>c DEF EventRows, ToolEvents
  <2>1. RecordTypes' BY <1>0, <1>3, <2>a, <2>b, <2>c, <2>d DEF RecordTypes
  <2>2. IdsAreGiven' BY <1>0, <1>3, <2>a, <2>b, <2>c, <2>d DEF IdsAreGiven, IdsAreOwn
  <2>3. IdsAreOwn' BY <1>0, <1>3, <2>a, <2>b, <2>c, <2>d DEF IdsAreOwn, IdsAreGiven, TurnKinds
  <2>4. RunFlows' BY <1>0, <1>3, <2>a, <2>b, <2>c, <2>d DEF RunFlows, IdsAreOwn, Ended, TurnKinds
  <2>5. DaysFollow' BY <1>0, <1>3, <2>a, <2>b, <2>c, <2>d DEF DaysFollow, RunFlows
  <2>6. CountsAddUp' BY <1>0, <1>3, <2>a, <2>b, <2>c, <2>d DEF CountsAddUp, RunFlows, Tooling, EventRows, ToolEvents
  <2>7. ContentIsConsented' BY <1>0, <1>3, <2>a, <2>b, <2>c, <2>d DEF ContentIsConsented, RunFlows, IdsAreOwn
  <2>8. DeletionHolds' BY <1>0, <1>3, <2>a, <2>b, <2>c, <2>d DEF DeletionHolds, IdsAreGiven, Deleting
  <2> QED BY <2>1, <2>2, <2>3, <2>4, <2>5, <2>6, <2>7, <2>8
<1> QED BY <1>1, <1>2, <1>3 DEF CleanupTables

(* Files go that are too old.                                                *)
LEMMA OldFilesStep ==
    ASSUME RecordsIInv, CleanupFiles
    PROVE  RecordsIInv'
<1> USE DEF RecordsIInv, InFlight, SameTally, NewId, Logged
<1>0. Fields BY FieldsHold
<1> USE DEF Fields
<1>a. /\ cleaner.pc = "old files" /\ cleaner' = [cleaner EXCEPT !.pc = "cap"] /\ files' \subseteq files
      /\ UNCHANGED <<support, today, run, rows, loop, logger, tally>>
  BY DEF CleanupFiles
<1>b. /\ cleaner' \in CleanerRecs /\ cleaner'.pc = "cap" /\ cleaner'.doomed = cleaner.doomed
  BY <1>0, <1>a DEF CleanerRecs
<1>c. EventRows' = EventRows /\ ToolEvents' = ToolEvents
  BY <1>a, <1>b DEF EventRows, ToolEvents
<1>1. RecordTypes' BY <1>0, <1>a, <1>b, <1>c DEF RecordTypes
<1>2. IdsAreGiven' BY <1>0, <1>a, <1>b, <1>c DEF IdsAreGiven, IdsAreOwn
<1>3. IdsAreOwn' BY <1>0, <1>a, <1>b, <1>c DEF IdsAreOwn, IdsAreGiven, TurnKinds
<1>4. RunFlows' BY <1>0, <1>a, <1>b, <1>c DEF RunFlows, IdsAreOwn, Ended, TurnKinds
<1>5. DaysFollow' BY <1>0, <1>a, <1>b, <1>c DEF DaysFollow, RunFlows
<1>6. CountsAddUp' BY <1>0, <1>a, <1>b, <1>c DEF CountsAddUp, RunFlows, Tooling, EventRows, ToolEvents
<1>7. ContentIsConsented' BY <1>0, <1>a, <1>b, <1>c DEF ContentIsConsented, RunFlows, IdsAreOwn
<1>8. DeletionHolds' BY <1>0, <1>a, <1>b, <1>c DEF DeletionHolds, IdsAreGiven, Deleting
<1> QED BY <1>1, <1>2, <1>3, <1>4, <1>5, <1>6, <1>7, <1>8

(* Files go that are too many.                                               *)
LEMMA StorageCapStep ==
    ASSUME RecordsIInv, EnforceStorageCap
    PROVE  RecordsIInv'
<1> USE DEF RecordsIInv, InFlight, SameTally, NewId, Logged
<1>0. Fields BY FieldsHold
<1> USE DEF Fields
<1>a. /\ cleaner.pc = "cap" /\ cleaner' = [cleaner EXCEPT !.pc = "idle", !.cutoff = 0] /\ files' \subseteq files
      /\ UNCHANGED <<support, today, run, rows, loop, logger, tally>>
  BY DEF EnforceStorageCap
<1>b. /\ cleaner' \in CleanerRecs /\ cleaner'.pc = "idle" /\ cleaner'.doomed = cleaner.doomed
  BY <1>0, <1>a DEF CleanerRecs
<1>c. EventRows' = EventRows /\ ToolEvents' = ToolEvents
  BY <1>a, <1>b DEF EventRows, ToolEvents
<1>1. RecordTypes' BY <1>0, <1>a, <1>b, <1>c DEF RecordTypes
<1>2. IdsAreGiven' BY <1>0, <1>a, <1>b, <1>c DEF IdsAreGiven, IdsAreOwn
<1>3. IdsAreOwn' BY <1>0, <1>a, <1>b, <1>c DEF IdsAreOwn, IdsAreGiven, TurnKinds
<1>4. RunFlows' BY <1>0, <1>a, <1>b, <1>c DEF RunFlows, IdsAreOwn, Ended, TurnKinds
<1>5. DaysFollow' BY <1>0, <1>a, <1>b, <1>c DEF DaysFollow, RunFlows
<1>6. CountsAddUp' BY <1>0, <1>a, <1>b, <1>c DEF CountsAddUp, RunFlows, Tooling, EventRows, ToolEvents
<1>7. ContentIsConsented' BY <1>0, <1>a, <1>b, <1>c DEF ContentIsConsented, RunFlows, IdsAreOwn
<1>8. DeletionHolds' BY <1>0, <1>a, <1>b, <1>c DEF DeletionHolds, IdsAreGiven, Deleting
<1> QED BY <1>1, <1>2, <1>3, <1>4, <1>5, <1>6, <1>7, <1>8

(* Support mode is switched.                                                 *)
LEMMA SupportStep ==
    ASSUME RecordsIInv, ToggleSupport
    PROVE  RecordsIInv'
<1> USE DEF RecordsIInv, InFlight, SameTally, NewId, Logged
<1>0. Fields BY FieldsHold
<1> USE DEF Fields
<1>a. support' \in BOOLEAN /\ tally' = Troubled /\ UNCHANGED <<today, run, rows, files, loop, logger, cleaner>>
  BY <1>0 DEF ToggleSupport
<1>b. SameTally(tally') /\ tally'.mishaps = tally.mishaps
  BY <1>0, <1>a, Tallies
<1>c. EventRows' = EventRows /\ ToolEvents' = ToolEvents
  BY <1>a, <1>b DEF EventRows, ToolEvents
<1>1. RecordTypes' BY <1>0, <1>a, <1>b, <1>c DEF RecordTypes
<1>2. IdsAreGiven' BY <1>0, <1>a, <1>b, <1>c DEF IdsAreGiven, IdsAreOwn
<1>3. IdsAreOwn' BY <1>0, <1>a, <1>b, <1>c DEF IdsAreOwn, IdsAreGiven, TurnKinds
<1>4. RunFlows' BY <1>0, <1>a, <1>b, <1>c DEF RunFlows, IdsAreOwn, Ended, TurnKinds
<1>5. DaysFollow' BY <1>0, <1>a, <1>b, <1>c DEF DaysFollow, RunFlows
<1>6. CountsAddUp' BY <1>0, <1>a, <1>b, <1>c DEF CountsAddUp, RunFlows, Tooling, EventRows, ToolEvents
<1>7. ContentIsConsented' BY <1>0, <1>a, <1>b, <1>c DEF ContentIsConsented, RunFlows, IdsAreOwn
<1>8. DeletionHolds' BY <1>0, <1>a, <1>b, <1>c DEF DeletionHolds, IdsAreGiven, Deleting
<1> QED BY <1>1, <1>2, <1>3, <1>4, <1>5, <1>6, <1>7, <1>8

(* A day goes by.                                                            *)
LEMMA NextDayStep ==
    ASSUME RecordsIInv, NextDay
    PROVE  RecordsIInv'
<1> USE DEF RecordsIInv, InFlight, SameTally, NewId, Logged
<1>0. Fields BY FieldsHold
<1> USE DEF Fields
<1>a. /\ today' = today + 1 /\ today' \in Nat /\ tally' = Troubled
      /\ UNCHANGED <<support, run, rows, files, loop, logger, cleaner>>
  BY <1>0 DEF NextDay
<1>b. SameTally(tally') /\ tally'.mishaps = tally.mishaps
  BY <1>0, <1>a, Tallies
<1>c. EventRows' = EventRows /\ ToolEvents' = ToolEvents
  BY <1>a, <1>b DEF EventRows, ToolEvents
<1>1. RecordTypes' BY <1>0, <1>a, <1>b, <1>c DEF RecordTypes
<1>2. IdsAreGiven' BY <1>0, <1>a, <1>b, <1>c DEF IdsAreGiven, IdsAreOwn
<1>3. IdsAreOwn' BY <1>0, <1>a, <1>b, <1>c DEF IdsAreOwn, IdsAreGiven, TurnKinds
<1>4. RunFlows' BY <1>0, <1>a, <1>b, <1>c DEF RunFlows, IdsAreOwn, Ended, TurnKinds
<1>5. DaysFollow' BY <1>0, <1>a, <1>b, <1>c DEF DaysFollow, RunFlows
<1>6. CountsAddUp' BY <1>0, <1>a, <1>b, <1>c DEF CountsAddUp, RunFlows, Tooling, EventRows, ToolEvents
<1>7. ContentIsConsented' BY <1>0, <1>a, <1>b, <1>c DEF ContentIsConsented, RunFlows, IdsAreOwn
<1>8. DeletionHolds' BY <1>0, <1>a, <1>b, <1>c DEF DeletionHolds, IdsAreGiven, Deleting
<1> QED BY <1>1, <1>2, <1>3, <1>4, <1>5, <1>6, <1>7, <1>8

(* The process dies.                                                         *)
LEMMA RecordsCrashStep ==
    ASSUME RecordsIInv, RecordsCrash
    PROVE  RecordsIInv'
<1> USE DEF RecordsIInv, InFlight, SameTally, NewId, Logged
<1>0. Fields BY FieldsHold
<1> USE DEF Fields
<1>a. PICK pc : /\ pc = IF run.pc \in {"starting", "running"} THEN "lost" ELSE run.pc
                /\ run' = [run EXCEPT !.pc = pc]
  BY DEF RecordsCrash
<1>b. /\ loop' = Quiet /\ logger' = Quiet /\ support' = FALSE /\ tally' = Mishap
      /\ cleaner' = [pc |-> "idle", cutoff |-> 0, doomed |-> {}] /\ UNCHANGED <<today, rows, files>>
  BY DEF RecordsCrash
<1>c. /\ run' \in RunRecs /\ run'.pc = pc /\ run'.calls = run.calls /\ run'.row = run.row
  BY <1>0, <1>a, <1>b DEF RunRecs, Ended
<1>d. /\ loop' \in CallRecs /\ loop'.pc = "idle" /\ loop'.id = 0 /\ loop'.day = 0 /\ loop'.kind = "none"
  BY <1>a, <1>b, <1>c, QuietIs
<1>e. /\ logger' \in CallRecs /\ logger'.pc = "idle" /\ logger'.id = 0 /\ logger'.day = 0 /\ logger'.kind = "none"
  BY <1>a, <1>b, <1>c, <1>d, QuietIs
<1>f. /\ cleaner' \in CleanerRecs /\ cleaner'.pc = "idle" /\ cleaner'.doomed = {}
  BY <1>a, <1>b, <1>c, <1>d, <1>e DEF CleanerRecs
<1>g. SameTally(tally') /\ tally'.mishaps = tally.mishaps + 1
  BY <1>0, <1>a, <1>b, <1>c, <1>d, <1>e, <1>f, Tallies
<1>h. EventRows' = EventRows /\ ToolEvents' = ToolEvents
  BY <1>a, <1>b, <1>c, <1>d, <1>e, <1>f, <1>g DEF EventRows, ToolEvents
<1>1. RecordTypes' BY <1>0, <1>a, <1>b, <1>c, <1>d, <1>e, <1>f, <1>g, <1>h DEF RecordTypes
<1>2. IdsAreGiven' BY <1>0, <1>a, <1>b, <1>c, <1>d, <1>e, <1>f, <1>g, <1>h DEF IdsAreGiven, IdsAreOwn
<1>3. IdsAreOwn' BY <1>0, <1>a, <1>b, <1>c, <1>d, <1>e, <1>f, <1>g, <1>h DEF IdsAreOwn, IdsAreGiven, TurnKinds
<1>4. RunFlows' BY <1>0, <1>a, <1>b, <1>c, <1>d, <1>e, <1>f, <1>g, <1>h DEF RunFlows, IdsAreOwn, Ended, TurnKinds, RowsOfRuns
<1>5. DaysFollow' BY <1>0, <1>a, <1>b, <1>c, <1>d, <1>e, <1>f, <1>g, <1>h DEF DaysFollow, RunFlows
<1>6. CountsAddUp' BY <1>0, <1>a, <1>b, <1>c, <1>d, <1>e, <1>f, <1>g, <1>h DEF CountsAddUp, RunFlows, Tooling, EventRows, ToolEvents
<1>7. ContentIsConsented' BY <1>0, <1>a, <1>b, <1>c, <1>d, <1>e, <1>f, <1>g, <1>h DEF ContentIsConsented, RunFlows, IdsAreOwn
<1>8. DeletionHolds' BY <1>0, <1>a, <1>b, <1>c, <1>d, <1>e, <1>f, <1>g, <1>h DEF DeletionHolds, IdsAreGiven, Deleting
<1> QED BY <1>1, <1>2, <1>3, <1>4, <1>5, <1>6, <1>7, <1>8

------------------------------------------------------------------------------
(* The theorem.                                                              *)

(* The invariant holds at first.                                             *)
LEMMA RecordsBegin == RecordsInit => RecordsIInv
<1> SUFFICES ASSUME RecordsInit PROVE RecordsIInv OBVIOUS
<1>1. RecordTypes
  BY FS_EmptySet DEF RecordsInit, RecordTypes, RunRecs, RowsOfRuns, NoRow, CallRecs, Quiet, CleanerRecs, TallyRecs
<1>2. /\ run.pc = "new" /\ run.calls = 0 /\ ~run.row.kept /\ ~run.row.message /\ rows = {} /\ files = {}
      /\ loop.pc = "idle" /\ logger.pc = "idle" /\ loop.id = 0 /\ logger.id = 0 /\ loop.day = 0 /\ today = 1
      /\ cleaner.pc = "idle" /\ cleaner.doomed = {} /\ tally.consented = {} /\ tally.gone = {}
      /\ tally.ids = 0
  BY DEF RecordsInit, NoRow, Quiet
<1>3. IdsAreGiven /\ IdsAreOwn BY <1>2 DEF IdsAreGiven, IdsAreOwn, InFlight
<1>4. RunFlows /\ DaysFollow /\ CountsAddUp BY <1>2 DEF RunFlows, DaysFollow, CountsAddUp, InFlight, Ended
<1>5. ContentIsConsented /\ DeletionHolds BY <1>2 DEF ContentIsConsented, DeletionHolds, InFlight, Deleting
<1> QED BY <1>1, <1>3, <1>4, <1>5 DEF RecordsIInv

(* Every step keeps it.                                                      *)
LEMMA RecordsInvariance == RecordsIInv /\ [RecordsNext]_recordVars => RecordsIInv'
<1> SUFFICES ASSUME RecordsIInv, [RecordsNext]_recordVars PROVE RecordsIInv' OBVIOUS
<1>1. CASE StartRun BY <1>1, StartRunStep
<1>2. CASE InsertRun BY <1>2, InsertRunStep
<1>3. CASE FinishTurn BY <1>3, FinishTurnStep
<1>4. CASE CloseRun BY <1>4, CloseRunStep
<1>5. CASE LoopLine BY <1>5, LoopLineStep
<1>6. CASE LoopInsert BY <1>6, LoopInsertStep
<1>7. CASE \E kind \in {"llm_call_finished", "tool_call_finished"} : TurnEvent(kind) BY <1>7, TurnEventStep
<1>8. CASE LogError BY <1>8, LogErrorStep
<1>9. CASE ErrorLine BY <1>9, ErrorLineStep
<1>10. CASE ErrorInsert BY <1>10, ErrorInsertStep
<1>11. CASE ExportDebugBundle BY <1>11, ExportStep
<1>12. CASE WriteBundle BY <1>12, WriteBundleStep
<1>13. CASE RecordReplay BY <1>13, ReplayStep
<1>14. CASE DeleteAll BY <1>14, DeleteAllStep
<1>15. CASE DeleteFiles BY <1>15, UnlinkStep DEF DeleteFiles, Deleting
<1>16. CASE CleanupRetention BY <1>16, RetentionStep
<1>17. CASE CleanupTables BY <1>17, TablesStep
<1>18. CASE CleanupFiles BY <1>18, OldFilesStep
<1>19. CASE EnforceStorageCap BY <1>19, StorageCapStep
<1>20. CASE ToggleSupport BY <1>20, SupportStep
<1>21. CASE NextDay BY <1>21, NextDayStep
<1>22. CASE RecordsCrash BY <1>22, RecordsCrashStep
<1>23. CASE UNCHANGED recordVars
  <2>1. RecordTypes' BY <1>23 DEF recordVars, RecordsIInv, RecordTypes, InFlight
  <2>2. IdsAreGiven' BY <1>23 DEF recordVars, RecordsIInv, IdsAreGiven, InFlight
  <2>3. IdsAreOwn' BY <1>23 DEF recordVars, RecordsIInv, IdsAreOwn, InFlight
  <2>4. RunFlows' BY <1>23 DEF recordVars, RecordsIInv, RunFlows, InFlight
  <2>5. DaysFollow' BY <1>23 DEF recordVars, RecordsIInv, DaysFollow, InFlight
  <2>6. CountsAddUp' BY <1>23 DEF recordVars, RecordsIInv, CountsAddUp, InFlight, EventRows, ToolEvents, Tooling
  <2>7. ContentIsConsented' BY <1>23 DEF recordVars, RecordsIInv, ContentIsConsented, InFlight
  <2>8. DeletionHolds' BY <1>23 DEF recordVars, RecordsIInv, DeletionHolds, InFlight
  <2> QED BY <2>1, <2>2, <2>3, <2>4, <2>5, <2>6, <2>7, <2>8 DEF RecordsIInv
<1> QED BY <1>1, <1>2, <1>3, <1>4, <1>5, <1>6, <1>7, <1>8, <1>9, <1>10, <1>11, <1>12, <1>13, <1>14, <1>15, <1>16, <1>17, <1>18, <1>19, <1>20, <1>21, <1>22, <1>23 DEF RecordsNext

(* What is shown of a run is what was recorded of it, nothing that was said  *)
(* is stored unasked, and nothing that was deleted is left.                  *)
THEOREM RecordsStayTrue == RecordsSpec => []RecordsAreTrue
<1>1. RecordsIInv => RecordsAreTrue
  <2> SUFFICES ASSUME RecordsIInv PROVE RecordsAreTrue OBVIOUS
  <2>1. ContentWasAskedFor /\ DeletedIsGone
    BY DEF RecordsIInv, ContentIsConsented, DeletionHolds, ContentWasAskedFor, DeletedIsGone
  <2>2. tally.mishaps = 0 \/ tally.mishaps > 0 BY DEF RecordsIInv, RecordTypes, TallyRecs
  <2>3. RunsAddUp BY <2>2 DEF RecordsIInv, RunFlows, CountsAddUp, EventRows, Ended, RunsAddUp
  <2> QED BY <2>1, <2>3 DEF RecordsAreTrue
<1> QED BY <1>1, RecordsBegin, RecordsInvariance, PTL DEF RecordsSpec

------------------------------------------------------------------------------
(* The Telegram bot.                                                         *)

Levels      == {"low", "medium", "max"}
UpdateKinds == MessageKinds \cup {"press"}
HandlerPcs  == UpdateKinds \cup {"idle", "select", "prepare", "locate", "settings", "turn", "asked"}
HandlerRows ==
    [pc : HandlerPcs, kind : UpdateKinds \cup {"none"}, upload : Convs \cup {0}, conv : Convs \cup {0},
     model : Models \cup {"none"}, effort : Levels \cup {"none"}]
BotPhases == {"unbuilt", "built", "polling", "running", "stopping", "left", "gone"}
BotRows ==
    [phase : BotPhases, allowed : BOOLEAN, queue : Seq(UpdateKinds), recent : Nat, handlers : [Slots -> HandlerRows]]
SaveRows == [pc : {"idle", "stop", "drain", "startup", "initialize", "polling"}, bot : Bots \cup {0}]
PastRows == [sent : Nat, troubles : Nat, failed : BOOLEAN, apart : BOOLEAN, pressed : {"no", "late", "decided"}]
Overrides  == [model : Models \cup {"none"}, effort : Levels \cup {"none"}]

ServiceTypes ==
    /\ allowed \in BOOLEAN /\ service \in Bots \cup {0}
    /\ saves \in [Savers -> SaveRows] /\ bots \in [Bots -> BotRows] /\ past \in PastRows
ChatTypes ==
    /\ updates \in Seq(UpdateKinds)
    /\ store \in [current : Convs \cup {0}, made : Convs, choice : [Convs -> Overrides]]

(* A save works on a bot of its own, in the phase its last step left it in;  *)
(* the bot the service owns is nobody's.                                     *)
PhaseAt(pc) ==
    CASE pc = "stop"       -> "running"
      [] pc = "drain"      -> "stopping"
      [] pc = "initialize" -> "built"
      [] pc = "polling"    -> "polling"
      [] OTHER             -> "none"
Works(s) == saves[s].pc \in {"stop", "drain", "initialize", "polling"}
SavesOwnBots ==
    /\ \A s \in Savers : Works(s) =>
          saves[s].bot \in Bots /\ bots[saves[s].bot].phase = PhaseAt(saves[s].pc) /\ saves[s].bot # service
    /\ \A s, t \in Savers : Works(s) /\ Works(t) /\ saves[s].bot = saves[t].bot => s = t
    /\ service # 0 => bots[service].phase = "running"

IsUp(b) == bots[b].phase \in UpPhases
OneIsUp == ~past.apart => \A b, c \in Bots : IsUp(b) /\ IsUp(c) => b = c

(* The settings saved last reach a bot: one that a save will build or has    *)
(* built since, or the one the service owns.                                 *)
Fresh(b) == bots[b].allowed = allowed
SettingsArrive ==
    \/ \E s \in Savers : saves[s].pc \in {"stop", "drain"}
    \/ \E s \in Savers : saves[s].pc \in {"initialize", "polling"} /\ Fresh(saves[s].bot)
    \/ service # 0 /\ Fresh(service)
SettingsKept ==
    ~past.failed =>
        /\ \A s \in Savers : saves[s].pc # "startup"
        /\ ~past.apart => SettingsArrive

(* One handler of a bot is at work, of a bot that is up.                     *)
HandlerOK(h) ==
    /\ h \in HandlerRows
    /\ h.pc = "select" => h.model \in Models /\ h.conv \in Convs
    /\ h.pc = "settings" => h.conv \in Convs
    /\ h.pc \in {"turn", "asked"} => h.model \in Models /\ h.effort \in Efforts[h.model]
Busy(b, i) == bots[b].handlers[i].pc # "idle"
HandlersOK ==
    /\ \A b \in Bots, i \in Slots :
          HandlerOK(bots[b].handlers[i]) /\ (Busy(b, i) => bots[b].phase \in {"running", "stopping", "left"})
    /\ \A b \in Bots, i, j \in Slots : Busy(b, i) /\ Busy(b, j) => i = j

(* While one bot is up, nobody moves the chat between an upload and its turn. *)
UploadOK(h, current) ==
    /\ h.pc \in {"prepare", "locate"} => h.upload \in {0, current}
    /\ h.pc \in {"settings", "turn", "asked"} => h.upload \in {0, h.conv}
UploadsOK == ~past.apart => \A b \in Bots, i \in Slots : UploadOK(bots[b].handlers[i], Current)

ChatIInv ==
    /\ ServiceTypes /\ ChatTypes /\ SavesOwnBots /\ OneIsUp /\ SettingsKept /\ HandlersOK /\ UploadsOK

LEMMA ChatNumbers ==
    /\ 1 \in Bots /\ 0 \notin Bots /\ 1 \in Convs /\ 0 \notin Convs /\ 1 \in Slots
    /\ Bots \subseteq Nat /\ Convs \subseteq Nat /\ Savers \subseteq Nat /\ Slots = {1, 2}
BY TelegramAssumption DEF Bots, Convs, Slots, Savers

LEMMA EffortsFit ==
    ASSUME NEW m \in Models
    PROVE  "medium" \in Efforts[m] /\ Efforts[m] \subseteq Levels
BY DEF Efforts, Models, Levels

LEMMA IdleIsOK ==
    ASSUME NEW current
    PROVE  HandlerOK(IdleHandler) /\ UploadOK(IdleHandler, current) /\ IdleHandler.pc = "idle"
BY DEF HandlerOK, IdleHandler, HandlerRows, HandlerPcs, UploadOK

LEMMA NoBotOK ==
    /\ NoBot \in BotRows /\ NoBot.phase = "unbuilt" /\ \A i \in Slots : NoBot.handlers[i] = IdleHandler
    /\ [NoBot EXCEPT !.phase = "gone"] \in BotRows /\ [NoBot EXCEPT !.phase = "gone"].phase = "gone"
    /\ \A i \in Slots : [NoBot EXCEPT !.phase = "gone"].handlers[i] = IdleHandler
<1>1. IdleHandler \in HandlerRows BY IdleIsOK DEF HandlerOK
<1>2. [i \in Slots |-> IdleHandler] \in [Slots -> HandlerRows] BY <1>1
<1>3. <<>> \in Seq(UpdateKinds) /\ 0 \in Nat /\ FALSE \in BOOLEAN OBVIOUS
<1>4. NoBot \in BotRows BY <1>2, <1>3 DEF NoBot, BotRows, BotPhases
<1>5. NoBot.phase = "unbuilt" /\ NoBot.handlers = [i \in Slots |-> IdleHandler] BY DEF NoBot
<1>6. /\ [NoBot EXCEPT !.phase = "gone"] \in BotRows /\ [NoBot EXCEPT !.phase = "gone"].phase = "gone"
      /\ [NoBot EXCEPT !.phase = "gone"].handlers = NoBot.handlers
  BY <1>4 DEF BotRows, BotPhases
<1> QED BY <1>4, <1>5, <1>6

(* What every invariant is for.                                              *)
LEMMA ChatsFollow == ChatIInv => ChatsAreServed
<1> SUFFICES ASSUME ChatIInv PROVE ChatsAreServed OBVIOUS
<1>1. TurnsStayTogether
  <2>1. CASE past.apart BY <2>1 DEF TurnsStayTogether
  <2>2. CASE ~past.apart
    <3>1. ASSUME NEW h \in Turns PROVE h.upload \in {0, h.conv}
      <4>1. PICK b \in Bots, i \in Slots : h = bots[b].handlers[i] BY DEF Turns, Handlers
      <4>2. h.pc \in {"turn", "asked"} BY DEF Turns
      <4> QED BY <2>2, <4>1, <4>2 DEF ChatIInv, UploadsOK, UploadOK
    <3> QED BY <3>1 DEF TurnsStayTogether
  <2> QED BY <2>1, <2>2
<1>2. EffortFitsTheModel
  <2>1. ASSUME NEW h \in Turns PROVE h.effort \in Efforts[h.model]
    <3>1. PICK b \in Bots, i \in Slots : h = bots[b].handlers[i] BY DEF Turns, Handlers
    <3>2. h.pc \in {"turn", "asked"} BY DEF Turns
    <3> QED BY <3>1, <3>2 DEF ChatIInv, HandlersOK, HandlerOK
  <2> QED BY <2>1 DEF EffortFitsTheModel
<1>3. OneBotAtATime
  <2>1. SUFFICES ASSUME ~past.apart, ~past.failed, \A s \in Savers : saves[s].pc = "idle"
                 PROVE  service # 0 /\ bots[service].phase = "running" /\ bots[service].allowed = allowed
    BY DEF OneBotAtATime
  <2>2. service # 0 /\ Fresh(service) BY <2>1 DEF ChatIInv, SettingsKept, SettingsArrive
  <2> QED BY <2>2 DEF ChatIInv, SavesOwnBots, Fresh
<1> QED BY <1>1, <1>2, <1>3 DEF ChatsAreServed

(* Steps of one bot: its queue, its window and its handlers.                 *)
PastGoesOn ==
    /\ past' \in PastRows /\ past'.apart = past.apart /\ past'.failed = past.failed
Rests(b) == \A i \in Slots : ~Busy(b, i)

LEMMA BusyIsAlone ==
    ASSUME ChatIInv, ~past.apart, NEW b \in Bots, NEW i \in Slots, Busy(b, i), NEW c \in Bots, NEW j \in Slots, Busy(c, j)
    PROVE  c = b /\ j = i
<1>1. IsUp(b) /\ IsUp(c) BY DEF ChatIInv, HandlersOK, IsUp, UpPhases
<1>2. b = c BY <1>1 DEF ChatIInv, OneIsUp
<1> QED BY <1>2 DEF ChatIInv, HandlersOK

LEMMA BotMoves ==
    ASSUME ChatIInv, NEW b \in Bots, NEW r \in BotRows, bots' = [bots EXCEPT ![b] = r],
           r.phase = bots[b].phase, r.allowed = bots[b].allowed,
           UNCHANGED <<allowed, service, saves>>, PastGoesOn, ChatTypes',
           \A i \in Slots : HandlerOK(r.handlers[i])
                         /\ (r.handlers[i].pc # "idle" => r.phase \in {"running", "stopping", "left"}),
           \A i, j \in Slots : r.handlers[i].pc # "idle" /\ r.handlers[j].pc # "idle" => i = j,
           ~past.apart => \A i \in Slots : UploadOK(r.handlers[i], Current'),
           Current' = Current \/ \E i \in Slots : Busy(b, i)
    PROVE  ChatIInv'
<1>1. /\ ServiceTypes /\ SavesOwnBots /\ OneIsUp /\ SettingsKept /\ HandlersOK /\ UploadsOK
  BY DEF ChatIInv
<1>2. \A c \in Bots : bots'[c] = IF c = b THEN r ELSE bots[c] BY <1>1 DEF ServiceTypes
<1>3. ServiceTypes' BY <1>1 DEF ServiceTypes, PastGoesOn
<1>4. \A c \in Bots : bots'[c].phase = bots[c].phase /\ bots'[c].allowed = bots[c].allowed BY <1>2
<1>5. SavesOwnBots' BY <1>1, <1>4 DEF SavesOwnBots, Works, ServiceTypes
<1>6. OneIsUp' BY <1>1, <1>4 DEF OneIsUp, IsUp, PastGoesOn
<1>7. SettingsKept'
  <2>1. service \in Bots \cup {0} /\ \A s \in Savers : saves[s].pc \in {"initialize", "polling"} => saves[s].bot \in Bots
    BY <1>1 DEF ServiceTypes, SavesOwnBots, Works
  <2>2. SettingsArrive => SettingsArrive' BY <1>4, <2>1 DEF SettingsArrive, Fresh
  <2> QED BY <1>1, <2>2 DEF SettingsKept, PastGoesOn
<1>8. HandlersOK' BY <1>1, <1>2 DEF HandlersOK, Busy
<1>9. UploadsOK'
  <2>1. SUFFICES ASSUME ~past.apart, NEW c \in Bots, NEW i \in Slots
                 PROVE  UploadOK(bots'[c].handlers[i], Current')
    BY DEF UploadsOK, PastGoesOn
  <2>2. CASE c = b BY <1>2, <2>1, <2>2
  <2>3. CASE c # b /\ Current' = Current BY <1>1, <1>2, <2>1, <2>3 DEF UploadsOK
  <2>4. CASE c # b /\ \E j \in Slots : Busy(b, j)
    <3>1. ~Busy(c, i) BY <2>1, <2>4, BusyIsAlone
    <3> QED BY <1>2, <2>4, <3>1 DEF Busy, UploadOK
  <2> QED BY <2>2, <2>3, <2>4
<1> QED BY <1>3, <1>5, <1>6, <1>7, <1>8, <1>9 DEF ChatIInv

(* A step of one handler.                                                    *)
LEMMA HandlerMoves ==
    ASSUME ChatIInv, NEW b \in Bots, NEW i \in Slots, Busy(b, i), NEW h, HandlerOK(h), NEW n \in Nat,
           bots' = [bots EXCEPT ![b] = [bots[b] EXCEPT !.recent = n, !.handlers = [bots[b].handlers EXCEPT ![i] = h]]],
           UNCHANGED <<allowed, service, saves>>, PastGoesOn, ChatTypes',
           ~past.apart => UploadOK(h, Current')
    PROVE  ChatIInv'
<1> DEFINE r == [bots[b] EXCEPT !.recent = n, !.handlers = [bots[b].handlers EXCEPT ![i] = h]]
<1>1. bots[b] \in BotRows /\ h \in HandlerRows BY DEF ChatIInv, ServiceTypes, HandlerOK
<1>2. /\ r \in BotRows /\ r.phase = bots[b].phase /\ r.allowed = bots[b].allowed
      /\ r.handlers = [bots[b].handlers EXCEPT ![i] = h] /\ bots[b].handlers \in [Slots -> HandlerRows]
  BY <1>1 DEF BotRows
<1>3. bots' = [bots EXCEPT ![b] = r] OBVIOUS
<1> HIDE DEF r
<1>4. \A j \in Slots : r.handlers[j] = IF j = i THEN h ELSE bots[b].handlers[j] BY <1>2
<1>5. HandlersOK /\ UploadsOK BY DEF ChatIInv
<1>6. bots[b].phase \in {"running", "stopping", "left"} /\ \A j \in Slots : j # i => bots[b].handlers[j].pc = "idle"
  BY <1>5 DEF HandlersOK, Busy
<1>7. \A j \in Slots : HandlerOK(r.handlers[j]) BY <1>4, <1>5 DEF HandlersOK
<1>8. \A j \in Slots : r.handlers[j].pc # "idle" => j = i BY <1>4, <1>6
<1>9. ASSUME ~past.apart, NEW j \in Slots PROVE UploadOK(r.handlers[j], Current')
  <2>1. CASE j = i BY <1>4, <1>9, <2>1
  <2>2. CASE j # i BY <1>4, <1>6, <2>2 DEF UploadOK
  <2> QED BY <2>1, <2>2
<1>10. \A j, k \in Slots : r.handlers[j].pc # "idle" /\ r.handlers[k].pc # "idle" => j = k BY <1>8
<1>11. \A j \in Slots : HandlerOK(r.handlers[j])
                       /\ (r.handlers[j].pc # "idle" => r.phase \in {"running", "stopping", "left"})
  BY <1>2, <1>6, <1>7
<1>12. ~past.apart => \A j \in Slots : UploadOK(r.handlers[j], Current') BY <1>9
<1>13. \E j \in Slots : Busy(b, j) OBVIOUS
<1> QED BY <1>2, <1>3, <1>10, <1>11, <1>12, <1>13, BotMoves

LEMMA StepMoves ==
    ASSUME ChatIInv, NEW b \in Bots, NEW i \in Slots, Busy(b, i), NEW h, HandlerOK(h), Step(b, i, h),
           UNCHANGED <<allowed, service, saves>>, PastGoesOn, ChatTypes',
           ~past.apart => UploadOK(h, Current')
    PROVE  ChatIInv'
<1>1. bots \in [Bots -> BotRows] BY DEF ChatIInv, ServiceTypes
<1>2. bots[b] \in BotRows BY <1>1
<1>3. bots[b].recent \in Nat BY <1>2 DEF BotRows
<1>4. [bots[b] EXCEPT !.handlers[i] = h]
        = [bots[b] EXCEPT !.recent = bots[b].recent, !.handlers = [bots[b].handlers EXCEPT ![i] = h]]
  BY <1>2 DEF BotRows
<1>5. bots' = [bots EXCEPT ![b] = [bots[b] EXCEPT !.handlers[i] = h]] BY <1>1 DEF Step
<1> QED BY <1>3, <1>4, <1>5, HandlerMoves

(* What stays: the chat's store and the rest.                                *)
LEMMA ChatStands ==
    ASSUME ChatIInv
    PROVE  /\ OnlyStore => UNCHANGED <<allowed, service, saves, updates>> /\ PastGoesOn
           /\ UNCHANGED <<updates, store>> => ChatTypes' /\ Current' = Current
           /\ UNCHANGED past => PastGoesOn
           /\ Current \in Convs /\ Remembered \in [current : Convs, made : Convs, choice : [Convs -> Overrides]]
           /\ Remembered.current = Current /\ Remembered.choice = store.choice
           /\ UNCHANGED updates /\ store' = Remembered => ChatTypes' /\ Current' = Current
           /\ \A c \in Convs : ModelOf(c) \in Models
<1>1. store \in [current : Convs \cup {0}, made : Convs, choice : [Convs -> Overrides]] /\ past \in PastRows
      /\ updates \in Seq(UpdateKinds)
  BY DEF ChatIInv, ChatTypes, ServiceTypes
<1>2. 1 \in Convs /\ 0 \notin Convs BY ChatNumbers
<1>3. Current \in Convs BY <1>1, <1>2 DEF Current
<1>4. /\ Remembered \in [current : Convs, made : Convs, choice : [Convs -> Overrides]]
      /\ Remembered.current = Current /\ Remembered.choice = store.choice
  BY <1>1, <1>3 DEF Remembered
<1>5. UNCHANGED <<updates, store>> => ChatTypes' /\ Current' = Current BY <1>1 DEF ChatTypes, Current
<1>6. UNCHANGED updates /\ store' = Remembered => ChatTypes' /\ Current' = Current
  <2>1. SUFFICES ASSUME UNCHANGED updates, store' = Remembered PROVE ChatTypes' /\ Current' = Current OBVIOUS
  <2>2. Current' = Current BY <1>2, <1>3, <1>4, <2>1 DEF Current
  <2>3. store' \in [current : Convs \cup {0}, made : Convs, choice : [Convs -> Overrides]] BY <1>4, <2>1
  <2> QED BY <1>1, <2>1, <2>2, <2>3 DEF ChatTypes
<1>7. UNCHANGED past => PastGoesOn BY <1>1 DEF PastGoesOn
<1>8. ASSUME NEW c \in Convs PROVE ModelOf(c) \in Models
  <2>1. store.choice[c] \in Overrides BY <1>1
  <2> QED BY <2>1 DEF ModelOf, Overrides, Models
<1> QED BY <1>3, <1>4, <1>5, <1>6, <1>7, <1>8 DEF OnlyStore

(* The commands that move the chat, or only show it.                         *)
LEMMA SessionMoves ==
    ASSUME ChatIInv, NEW b \in Bots, NEW i \in Slots,
           NewSession(b, i) \/ ResumeSession(b, i) \/ ShowSession(b, i)
    PROVE  ChatIInv'
<1>1. Busy(b, i) BY DEF NewSession, ResumeSession, ShowSession, HandlerAt, Busy
<1>2. Step(b, i, IdleHandler) /\ UNCHANGED <<allowed, service, saves, updates>> /\ PastGoesOn
  BY ChatStands DEF NewSession, ResumeSession, ShowSession
<1>3. updates \in Seq(UpdateKinds)
      /\ store \in [current : Convs \cup {0}, made : Convs, choice : [Convs -> Overrides]]
  BY DEF ChatIInv, ChatTypes
<1>4. ChatTypes'
  <2>1. CASE NewSession(b, i)
    <3>1. store' = [store EXCEPT !.made = @ + 1, !.current = store.made + 1] /\ store.made + 1 \in Convs
      BY <2>1 DEF NewSession
    <3>2. store' \in [current : Convs \cup {0}, made : Convs, choice : [Convs -> Overrides]] BY <1>3, <3>1
    <3> QED BY <1>2, <1>3, <3>2 DEF ChatTypes
  <2>2. CASE ResumeSession(b, i)
    <3>1. PICK c \in 1 .. store.made : store' = [store EXCEPT !.current = c] BY <2>2 DEF ResumeSession
    <3>2. store.made \in Convs BY <1>3
    <3>3. c \in Convs BY <3>1, <3>2, TelegramAssumption DEF Convs
    <3>4. store' \in [current : Convs \cup {0}, made : Convs, choice : [Convs -> Overrides]] BY <1>3, <3>1, <3>3
    <3> QED BY <1>2, <1>3, <3>4 DEF ChatTypes
  <2>3. CASE ShowSession(b, i) BY <1>2, <2>3, ChatStands DEF ShowSession
  <2> QED BY <2>1, <2>2, <2>3
<1>5. HandlerOK(IdleHandler) /\ UploadOK(IdleHandler, Current') BY IdleIsOK
<1> QED BY <1>1, <1>2, <1>4, <1>5, StepMoves

(* The overrides of a conversation: read, then written.                      *)
LEMMA SelectionMoves ==
    ASSUME ChatIInv, NEW b \in Bots, NEW i \in Slots,
           ReadForSelection(b, i) \/ SetModelSelection(b, i) \/ SetEffortSelection(b, i)
    PROVE  ChatIInv'
<1> DEFINE h == bots[b].handlers[i]
<1>1. Busy(b, i) BY DEF ReadForSelection, SetModelSelection, SetEffortSelection, HandlerAt, Busy
<1>2. UNCHANGED <<allowed, service, saves, updates>> /\ PastGoesOn
  BY ChatStands DEF ReadForSelection, SetModelSelection, SetEffortSelection
<1>3. updates \in Seq(UpdateKinds)
      /\ store \in [current : Convs \cup {0}, made : Convs, choice : [Convs -> Overrides]]
  BY DEF ChatIInv, ChatTypes
<1>4. HandlerOK(h) /\ h \in HandlerRows BY DEF ChatIInv, HandlersOK, HandlerOK
<1>5. HandlerOK(IdleHandler) /\ UploadOK(IdleHandler, Current') BY IdleIsOK
<1>6. CASE ReadForSelection(b, i)
  <2> DEFINE g == [h EXCEPT !.pc = "select", !.conv = Current, !.model = ModelOf(Current)]
  <2>1. Step(b, i, g) /\ store' = Remembered BY <1>6 DEF ReadForSelection
  <2>2. ChatTypes' /\ Current \in Convs /\ ModelOf(Current) \in Models BY <1>2, <2>1, ChatStands
  <2>3. g \in HandlerRows /\ g.pc = "select" /\ g.conv = Current /\ g.model = ModelOf(Current)
    BY <1>4, <2>2 DEF HandlerRows, HandlerPcs
  <2> HIDE DEF g
  <2>4. HandlerOK(g) /\ UploadOK(g, Current') BY <2>2, <2>3 DEF HandlerOK, UploadOK
  <2> QED BY <1>1, <1>2, <2>1, <2>2, <2>4, StepMoves
<1>7. CASE SetModelSelection(b, i)
  <2>1. /\ Step(b, i, IdleHandler) /\ h.pc = "select"
        /\ \E m \in Models \cup {"none"} : store' = [store EXCEPT !.choice[h.conv].model = m]
    BY <1>7 DEF SetModelSelection, HandlerAt
  <2>2. h.conv \in Convs BY <1>4, <2>1 DEF HandlerOK
  <2>3. PICK m \in Models \cup {"none"} : store' = [store EXCEPT !.choice[h.conv].model = m] BY <2>1
  <2>4. [store.choice[h.conv] EXCEPT !.model = m] \in Overrides BY <1>3, <2>2 DEF Overrides
  <2>5. store' = [store EXCEPT !.choice = [store.choice EXCEPT ![h.conv] = [store.choice[h.conv] EXCEPT !.model = m]]]
    BY <1>3, <2>2, <2>3
  <2>6. store' \in [current : Convs \cup {0}, made : Convs, choice : [Convs -> Overrides]]
    BY <1>3, <2>2, <2>4, <2>5
  <2>7. ChatTypes' BY <1>2, <1>3, <2>6 DEF ChatTypes
  <2> QED BY <1>1, <1>2, <1>5, <2>1, <2>7, StepMoves
<1>8. CASE SetEffortSelection(b, i)
  <2>1. /\ Step(b, i, IdleHandler) /\ h.pc = "select"
        /\ \E e \in Efforts[h.model] \cup {"none"} : store' = [Remembered EXCEPT !.choice[Current].effort = e]
    BY <1>8 DEF SetEffortSelection, HandlerAt
  <2>2. h.model \in Models BY <1>4, <2>1 DEF HandlerOK
  <2>3. PICK e \in Efforts[h.model] \cup {"none"} : store' = [Remembered EXCEPT !.choice[Current].effort = e]
    BY <2>1
  <2>4. e \in Levels \cup {"none"} BY <2>2, EffortsFit
  <2>5. Current \in Convs /\ Remembered \in [current : Convs, made : Convs, choice : [Convs -> Overrides]]
    BY ChatStands
  <2>6. [Remembered.choice[Current] EXCEPT !.effort = e] \in Overrides BY <2>4, <2>5 DEF Overrides
  <2>7. store' = [Remembered EXCEPT !.choice =
                    [Remembered.choice EXCEPT ![Current] = [Remembered.choice[Current] EXCEPT !.effort = e]]]
    BY <2>3, <2>5
  <2>8. store' \in [current : Convs, made : Convs, choice : [Convs -> Overrides]] BY <2>5, <2>6, <2>7
  <2>9. store' \in [current : Convs \cup {0}, made : Convs, choice : [Convs -> Overrides]] BY <2>8
  <2>10. ChatTypes' BY <1>2, <1>3, <2>9 DEF ChatTypes
  <2> QED BY <1>1, <1>2, <1>5, <2>1, <2>10, StepMoves
<1> QED BY <1>6, <1>7, <1>8

(* A message: its upload, its conversation, its model and effort.            *)
LEMMA MessageMoves ==
    ASSUME ChatIInv, NEW b \in Bots, NEW i \in Slots,
           HandleMessage(b, i) \/ PrepareInput(b, i) \/ RunChatMessage(b, i) \/ SettingsForConversation(b, i)
    PROVE  ChatIInv'
<1> DEFINE h == bots[b].handlers[i]
<1>1. Busy(b, i)
  BY DEF HandleMessage, PrepareInput, RunChatMessage, SettingsForConversation, HandlerAt, Busy
<1>2. UNCHANGED <<allowed, service, saves, updates>> /\ PastGoesOn
  BY ChatStands DEF HandleMessage, PrepareInput, RunChatMessage, SettingsForConversation
<1>3. updates \in Seq(UpdateKinds)
      /\ store \in [current : Convs \cup {0}, made : Convs, choice : [Convs -> Overrides]]
  BY DEF ChatIInv, ChatTypes
<1>4. HandlerOK(h) /\ h \in HandlerRows BY DEF ChatIInv, HandlersOK, HandlerOK
<1>5. ~past.apart => UploadOK(h, Current) BY DEF ChatIInv, UploadsOK
<1>6. HandlerOK(IdleHandler) /\ UploadOK(IdleHandler, Current') BY IdleIsOK
<1>7. Current \in Convs BY ChatStands
<1>8. CASE HandleMessage(b, i)
  <2> DEFINE g == [h EXCEPT !.pc = "prepare", !.upload = Current]
  <2>1. Step(b, i, g) /\ store' = Remembered BY <1>8 DEF HandleMessage
  <2>2. ChatTypes' /\ Current' = Current BY <1>2, <2>1, ChatStands
  <2>3. g \in HandlerRows /\ g.pc = "prepare" /\ g.upload = Current BY <1>4, <1>7 DEF HandlerRows, HandlerPcs
  <2> HIDE DEF g
  <2>4. HandlerOK(g) /\ UploadOK(g, Current') BY <2>2, <2>3 DEF HandlerOK, UploadOK
  <2> QED BY <1>1, <1>2, <2>1, <2>2, <2>4, StepMoves
<1>9. CASE PrepareInput(b, i)
  <2> DEFINE Text == [h EXCEPT !.pc = "locate", !.upload = 0]
             Uploaded == [h EXCEPT !.pc = "locate"]
  <2>1. UNCHANGED store /\ h.pc = "prepare"
        /\ (Step(b, i, Text) \/ Step(b, i, Uploaded) \/ Step(b, i, IdleHandler))
    BY <1>9 DEF PrepareInput, HandlerAt
  <2>2. ChatTypes' /\ Current' = Current BY <1>2, <2>1, ChatStands
  <2>3. Text \in HandlerRows /\ Text.pc = "locate" /\ Text.upload = 0 BY <1>4 DEF HandlerRows, HandlerPcs
  <2>4. Uploaded \in HandlerRows /\ Uploaded.pc = "locate" /\ Uploaded.upload = h.upload
    BY <1>4 DEF HandlerRows, HandlerPcs
  <2> HIDE DEF Text, Uploaded
  <2>5. HandlerOK(Text) /\ UploadOK(Text, Current') BY <2>3 DEF HandlerOK, UploadOK
  <2>6. HandlerOK(Uploaded) BY <2>4 DEF HandlerOK
  <2>7. ~past.apart => UploadOK(Uploaded, Current') BY <1>5, <2>1, <2>2, <2>4 DEF UploadOK
  <2>8. CASE Step(b, i, Text) BY <1>1, <1>2, <2>2, <2>5, <2>8, StepMoves
  <2>9. CASE Step(b, i, Uploaded) BY <1>1, <1>2, <2>2, <2>6, <2>7, <2>9, StepMoves
  <2>10. CASE Step(b, i, IdleHandler) BY <1>1, <1>2, <1>6, <2>2, <2>10, StepMoves
  <2> QED BY <2>1, <2>8, <2>9, <2>10
<1>10. CASE RunChatMessage(b, i)
  <2> DEFINE g == [h EXCEPT !.pc = "settings", !.conv = Current]
  <2>1. /\ store' = Remembered /\ h.pc = "locate"
        /\ \/ bots' = [bots EXCEPT ![b].handlers[i] = IdleHandler]
           \/ bots' = [bots EXCEPT ![b].recent = @ + 1, ![b].handlers[i] = g]
    BY <1>10 DEF RunChatMessage, HandlerAt
  <2>2. ChatTypes' /\ Current' = Current BY <1>2, <2>1, ChatStands
  <2>3. g \in HandlerRows /\ g.pc = "settings" /\ g.conv = Current /\ g.upload = h.upload
    BY <1>4, <1>7 DEF HandlerRows, HandlerPcs
  <2> HIDE DEF g
  <2>4. HandlerOK(g) BY <1>7, <2>3 DEF HandlerOK
  <2>5. ~past.apart => UploadOK(g, Current') BY <1>5, <2>1, <2>3 DEF UploadOK
  <2>6. CASE bots' = [bots EXCEPT ![b].handlers[i] = IdleHandler]
    <3>1. Step(b, i, IdleHandler) BY <2>6 DEF Step
    <3> QED BY <1>1, <1>2, <1>6, <2>2, <3>1, StepMoves
  <2>7. CASE bots' = [bots EXCEPT ![b].recent = @ + 1, ![b].handlers[i] = g]
    <3>1. bots \in [Bots -> BotRows] /\ bots[b] \in BotRows BY DEF ChatIInv, ServiceTypes
    <3>2. bots[b].recent \in Nat BY <3>1 DEF BotRows
    <3>3. bots' = [bots EXCEPT ![b] = [bots[b] EXCEPT !.recent = bots[b].recent + 1,
                                                      !.handlers = [bots[b].handlers EXCEPT ![i] = g]]]
      BY <2>7, <3>1 DEF BotRows
    <3>4. bots[b].recent + 1 \in Nat BY <3>2
    <3> QED BY <1>1, <1>2, <2>2, <2>4, <2>5, <3>3, <3>4, HandlerMoves
  <2> QED BY <2>1, <2>6, <2>7
<1>11. CASE SettingsForConversation(b, i)
  <2> DEFINE model  == ModelOf(h.conv)
             chosen == IF store.choice[h.conv].effort = "none" THEN "max" ELSE store.choice[h.conv].effort
             effort == EffortForModel(chosen, model)
             g == [h EXCEPT !.pc = "turn", !.model = model, !.effort = effort]
  <2>1. Step(b, i, g) /\ UNCHANGED store /\ h.pc = "settings"
    BY <1>11 DEF SettingsForConversation, HandlerAt
  <2>2. ChatTypes' /\ Current' = Current BY <1>2, <2>1, ChatStands
  <2>3. h.conv \in Convs BY <1>4, <2>1 DEF HandlerOK
  <2>4. model \in Models BY <2>3, ChatStands
  <2> HIDE DEF model, chosen
  <2>5. effort \in Efforts[model] BY <2>4, EffortsFit DEF EffortForModel
  <2>6. effort \in Levels BY <2>4, <2>5, EffortsFit
  <2> HIDE DEF effort
  <2>7. g \in HandlerRows /\ g.pc = "turn" /\ g.model = model /\ g.effort = effort
        /\ g.upload = h.upload /\ g.conv = h.conv
    BY <1>4, <2>4, <2>6 DEF HandlerRows, HandlerPcs
  <2> HIDE DEF g
  <2>8. HandlerOK(g) BY <2>4, <2>5, <2>7 DEF HandlerOK
  <2>9. ~past.apart => UploadOK(g, Current') BY <1>5, <2>1, <2>7 DEF UploadOK
  <2> QED BY <1>1, <1>2, <2>1, <2>2, <2>8, <2>9, StepMoves
<1> QED BY <1>8, <1>9, <1>10, <1>11

(* The turn, the permission it asks for, the reply and the button.           *)
LEMMA TurnMoves ==
    ASSUME ChatIInv, NEW b \in Bots, NEW i \in Slots,
           AskPermission(b, i) \/ DenyAtGate(b, i) \/ Reply(b, i) \/ PermissionCallback(b, i)
    PROVE  ChatIInv'
<1> DEFINE h == bots[b].handlers[i]
<1>1. Busy(b, i) BY DEF AskPermission, DenyAtGate, Reply, PermissionCallback, HandlerAt, Busy
<1>2. UNCHANGED <<allowed, service, saves, updates, store>>
  BY DEF AskPermission, DenyAtGate, Reply, PermissionCallback, OnlyStore
<1>3. PastGoesOn
  <2>1. past \in PastRows BY DEF ChatIInv, ServiceTypes
  <2>2. CASE UNCHANGED past BY <2>2, ChatStands
  <2>3. CASE PermissionCallback(b, i)
    <3>1. \E x \in {"late", "decided"} : past' = [past EXCEPT !.pressed = x] BY <2>3 DEF PermissionCallback
    <3> QED BY <2>1, <3>1 DEF PastGoesOn, PastRows
  <2> QED BY <2>2, <2>3 DEF AskPermission, DenyAtGate, Reply, OnlyStore
<1>4. ChatTypes' /\ Current' = Current BY <1>2, ChatStands
<1>5. HandlerOK(h) /\ h \in HandlerRows BY DEF ChatIInv, HandlersOK, HandlerOK
<1>6. ~past.apart => UploadOK(h, Current) BY DEF ChatIInv, UploadsOK
<1>7. CASE Step(b, i, IdleHandler)
  <2>1. HandlerOK(IdleHandler) /\ UploadOK(IdleHandler, Current') BY IdleIsOK
  <2> QED BY <1>1, <1>2, <1>3, <1>4, <1>7, <2>1, StepMoves
<1>8. ASSUME NEW pc \in {"asked", "turn"}, Step(b, i, [h EXCEPT !.pc = pc]), h.pc \in {"turn", "asked"}
      PROVE  ChatIInv'
  <2> DEFINE g == [h EXCEPT !.pc = pc]
  <2>1. g \in HandlerRows /\ g.pc = pc /\ g.model = h.model /\ g.effort = h.effort
        /\ g.upload = h.upload /\ g.conv = h.conv
    BY <1>5 DEF HandlerRows, HandlerPcs
  <2>2. Step(b, i, g) BY <1>8
  <2> HIDE DEF g
  <2>3. HandlerOK(g) BY <1>5, <1>8, <2>1 DEF HandlerOK
  <2>4. ~past.apart => UploadOK(g, Current') BY <1>6, <1>8, <2>1 DEF UploadOK
  <2> QED BY <1>1, <1>2, <1>3, <1>4, <2>2, <2>3, <2>4, StepMoves
<1> QED BY <1>7, <1>8 DEF AskPermission, DenyAtGate, Reply, PermissionCallback, HandlerAt

(* Updates are sent, fetched and taken, one by one.                          *)
LEMMA UpdateMoves ==
    ASSUME ChatIInv, NEW b \in Bots, Fetch(b) \/ Take(b) \/ OldestLeavesWindow(b)
    PROVE  ChatIInv'
<1>1. bots[b] \in BotRows /\ bots \in [Bots -> BotRows] BY DEF ChatIInv, ServiceTypes
<1>2. /\ bots[b].queue \in Seq(UpdateKinds) /\ bots[b].recent \in Nat /\ bots[b].handlers \in [Slots -> HandlerRows]
      /\ bots[b].allowed \in BOOLEAN
  BY <1>1 DEF BotRows
<1>3. UNCHANGED <<allowed, service, saves, store>> /\ PastGoesOn /\ Current' = Current
  BY ChatStands DEF Fetch, Take, OldestLeavesWindow, OnlyStore, Current
<1>4. updates \in Seq(UpdateKinds)
      /\ store \in [current : Convs \cup {0}, made : Convs, choice : [Convs -> Overrides]]
  BY DEF ChatIInv, ChatTypes
<1>5. HandlersOK /\ UploadsOK BY DEF ChatIInv
<1>6. ASSUME NEW r \in BotRows, bots' = [bots EXCEPT ![b] = r], r.phase = bots[b].phase,
             r.allowed = bots[b].allowed, r.handlers = bots[b].handlers, updates' \in Seq(UpdateKinds)
      PROVE  ChatIInv'
  <2>1. ChatTypes' BY <1>3, <1>4, <1>6 DEF ChatTypes
  <2>2. \A i \in Slots : HandlerOK(r.handlers[i])
                      /\ (r.handlers[i].pc # "idle" => r.phase \in {"running", "stopping", "left"})
    BY <1>5, <1>6 DEF HandlersOK, Busy
  <2>3. \A i, j \in Slots : r.handlers[i].pc # "idle" /\ r.handlers[j].pc # "idle" => i = j
    BY <1>5, <1>6 DEF HandlersOK, Busy
  <2>4. ~past.apart => \A i \in Slots : UploadOK(r.handlers[i], Current') BY <1>3, <1>5, <1>6 DEF UploadsOK
  <2> QED BY <1>3, <1>6, <2>1, <2>2, <2>3, <2>4, BotMoves
<1>7. CASE Fetch(b)
  <2> DEFINE r == [bots[b] EXCEPT !.queue = Append(bots[b].queue, Head(updates))]
  <2>1. bots' = [bots EXCEPT ![b] = r] /\ updates # <<>> /\ updates' = Tail(updates) BY <1>1, <1>7 DEF Fetch
  <2>2. Head(updates) \in UpdateKinds /\ Tail(updates) \in Seq(UpdateKinds) BY <1>4, <2>1
  <2>3. Append(bots[b].queue, Head(updates)) \in Seq(UpdateKinds) BY <1>2, <2>2
  <2>4. r \in BotRows /\ r.phase = bots[b].phase /\ r.allowed = bots[b].allowed /\ r.handlers = bots[b].handlers
    BY <1>1, <2>3 DEF BotRows
  <2> QED BY <1>6, <2>1, <2>2, <2>4
<1>8. CASE OldestLeavesWindow(b)
  <2> DEFINE r == [bots[b] EXCEPT !.recent = bots[b].recent - 1]
  <2>1. bots' = [bots EXCEPT ![b] = r] /\ bots[b].recent > 0 /\ UNCHANGED updates
    BY <1>1, <1>8 DEF OldestLeavesWindow, OnlyStore
  <2>2. bots[b].recent - 1 \in Nat BY <1>2, <2>1
  <2>3. r \in BotRows /\ r.phase = bots[b].phase /\ r.allowed = bots[b].allowed /\ r.handlers = bots[b].handlers
    BY <1>1, <2>2 DEF BotRows
  <2> QED BY <1>4, <1>6, <2>1, <2>3
<1>9. CASE Take(b)
  <2> DEFINE kind  == Head(bots[b].queue)
             heard == bots[b].allowed /\ ~(kind = "message" /\ Locked(b))
             first == IF kind = "compact" THEN "locate" ELSE kind
             h     == IF heard THEN [IdleHandler EXCEPT !.kind = kind, !.pc = first] ELSE IdleHandler
             i     == FreeSlot(b)
             r     == [bots[b] EXCEPT !.queue = Tail(bots[b].queue),
                                      !.handlers = [bots[b].handlers EXCEPT ![i] = h]]
  <2>1. /\ bots[b].phase \in {"running", "stopping", "left"} /\ bots[b].queue # <<>> /\ Sequential(b)
        /\ bots' = [bots EXCEPT ![b].queue = Tail(@), ![b].handlers[i] = h] /\ UNCHANGED updates
    BY <1>9 DEF Take, MayTake
  <2>2. kind \in UpdateKinds /\ Tail(bots[b].queue) \in Seq(UpdateKinds) BY <1>2, <2>1
  <2>3. first \in HandlerPcs BY <2>2 DEF HandlerPcs
  <2>4. i \in Slots BY <2>1, ChatNumbers DEF FreeSlot, Sequential
  <2> HIDE DEF kind, heard, first, i
  <2>5. HandlerOK(h) /\ UploadOK(h, Current')
    <3>1. CASE h = IdleHandler BY <3>1, IdleIsOK
    <3>2. CASE h = [IdleHandler EXCEPT !.kind = kind, !.pc = first]
      <4>1. IdleHandler \in HandlerRows BY IdleIsOK DEF HandlerOK
      <4>2. h \in HandlerRows BY <2>2, <2>3, <3>2, <4>1 DEF HandlerRows
      <4>3. h.pc = first /\ h.upload = 0 BY <3>2 DEF IdleHandler
      <4>4. first \in UpdateKinds \cup {"locate"} BY <2>2 DEF first
      <4>5. first \notin {"select", "prepare", "settings", "turn", "asked"}
        BY <4>4 DEF UpdateKinds, MessageKinds
      <4> QED BY <4>2, <4>3, <4>5 DEF HandlerOK, UploadOK
    <3> QED BY <3>1, <3>2
  <2>6. h \in HandlerRows BY <2>5 DEF HandlerOK
  <2> HIDE DEF h
  <2>7. bots' = [bots EXCEPT ![b] = r] BY <1>1, <2>1 DEF BotRows
  <2>8. [bots[b].handlers EXCEPT ![i] = h] \in [Slots -> HandlerRows] BY <1>2, <2>4, <2>6
  <2>9. /\ r \in BotRows /\ r.phase = bots[b].phase /\ r.allowed = bots[b].allowed
        /\ r.handlers = [bots[b].handlers EXCEPT ![i] = h]
    BY <1>1, <2>2, <2>8 DEF BotRows
  <2> HIDE DEF r
  <2>10. \A j \in Slots : r.handlers[j] = IF j = i THEN h ELSE bots[b].handlers[j] BY <1>2, <2>9
  <2>11. \A j \in Slots : bots[b].handlers[j].pc = "idle" BY <2>1 DEF Sequential
  <2>12. \A j \in Slots : HandlerOK(r.handlers[j])
                       /\ (r.handlers[j].pc # "idle" => r.phase \in {"running", "stopping", "left"})
    BY <1>5, <2>1, <2>5, <2>9, <2>10 DEF HandlersOK
  <2>13. \A j, k \in Slots : r.handlers[j].pc # "idle" /\ r.handlers[k].pc # "idle" => j = k
    BY <2>10, <2>11
  <2>14. \A j \in Slots : UploadOK(r.handlers[j], Current')
    <3>1. ASSUME NEW j \in Slots PROVE UploadOK(r.handlers[j], Current')
      <4>1. CASE j = i BY <2>5, <2>10, <4>1
      <4>2. CASE j # i BY <2>10, <2>11, <4>2 DEF UploadOK
      <4> QED BY <4>1, <4>2
    <3> QED BY <3>1
  <2>15. ChatTypes' BY <1>3, <1>4, <2>1 DEF ChatTypes
  <2> QED BY <1>3, <2>7, <2>9, <2>12, <2>13, <2>14, <2>15, BotMoves
<1> QED BY <1>7, <1>8, <1>9

LEMMA SendMoves ==
    ASSUME ChatIInv, NEW kind \in UpdateKinds, Send(kind)
    PROVE  ChatIInv'
<1>1. /\ updates' = Append(updates, kind) /\ past' = [past EXCEPT !.sent = @ + 1]
      /\ UNCHANGED <<allowed, service, saves, bots, store>>
  BY DEF Send
<1>2. past \in PastRows /\ updates \in Seq(UpdateKinds) BY DEF ChatIInv, ServiceTypes, ChatTypes
<1>3. PastGoesOn BY <1>1, <1>2 DEF PastGoesOn, PastRows
<1>4. updates' \in Seq(UpdateKinds) BY <1>1, <1>2
<1>5. ServiceTypes' /\ ChatTypes' BY <1>1, <1>3, <1>4 DEF ChatIInv, ServiceTypes, ChatTypes, PastGoesOn
<1>6. SavesOwnBots' BY <1>1 DEF ChatIInv, SavesOwnBots, Works
<1>7. OneIsUp' BY <1>1, <1>3 DEF ChatIInv, OneIsUp, IsUp, PastGoesOn
<1>8. SettingsKept' BY <1>1, <1>3 DEF ChatIInv, SettingsKept, SettingsArrive, Fresh, PastGoesOn
<1>9. HandlersOK' BY <1>1 DEF ChatIInv, HandlersOK, Busy
<1>10. UploadsOK' BY <1>1, <1>3 DEF ChatIInv, UploadsOK, Current, PastGoesOn
<1> QED BY <1>5, <1>6, <1>7, <1>8, <1>9, <1>10 DEF ChatIInv

(* Steps of the service leave the chat and the handlers alone; a bot with a  *)
(* handler at work stays up.                                                 *)
LEMMA ServiceMoves ==
    ASSUME ChatIInv, ServiceTypes', UNCHANGED store, updates' \in Seq(UpdateKinds),
           \A b \in Bots : bots'[b].handlers = bots[b].handlers,
           \A b \in Bots : \/ Rests(b)
                           \/ bots[b].phase \in {"running", "stopping", "left"} =>
                                 bots'[b].phase \in {"running", "stopping", "left"},
           past.apart => past'.apart,
           SavesOwnBots', OneIsUp', SettingsKept'
    PROVE  ChatIInv'
<1>1. ChatTypes' BY DEF ChatIInv, ChatTypes
<1>2. HandlersOK /\ UploadsOK BY DEF ChatIInv
<1>3. HandlersOK' BY <1>2 DEF HandlersOK, Busy, Rests
<1>4. UploadsOK' BY <1>2 DEF UploadsOK, Current
<1> QED BY <1>1, <1>3, <1>4 DEF ChatIInv

WithPhase(b, phase) == [bots EXCEPT ![b].phase = phase]

LEMMA PhaseOf ==
    ASSUME ServiceTypes, NEW b \in Bots, NEW phase \in BotPhases
    PROVE  /\ WithPhase(b, phase) \in [Bots -> BotRows] /\ WithPhase(b, phase)[b].phase = phase
           /\ \A c \in Bots : /\ WithPhase(b, phase)[c].handlers = bots[c].handlers
                             /\ WithPhase(b, phase)[c].allowed = bots[c].allowed
           /\ \A c \in Bots : c # b => WithPhase(b, phase)[c] = bots[c]
<1>1. bots \in [Bots -> BotRows] /\ bots[b] \in BotRows BY DEF ServiceTypes
<1>2. WithPhase(b, phase) = [bots EXCEPT ![b] = [bots[b] EXCEPT !.phase = phase]] BY <1>1 DEF WithPhase
<1>3. /\ [bots[b] EXCEPT !.phase = phase] \in BotRows /\ [bots[b] EXCEPT !.phase = phase].phase = phase
      /\ [bots[b] EXCEPT !.phase = phase].handlers = bots[b].handlers
      /\ [bots[b] EXCEPT !.phase = phase].allowed = bots[b].allowed
  BY <1>1 DEF BotRows
<1> QED BY <1>1, <1>2, <1>3

(* What is known of the saves and of the bots.                               *)
LEMMA ServiceFacts ==
    ASSUME ChatIInv
    PROVE  /\ ServiceTypes /\ SavesOwnBots /\ OneIsUp /\ SettingsKept /\ updates \in Seq(UpdateKinds)
           /\ bots \in [Bots -> BotRows] /\ saves \in [Savers -> SaveRows] /\ past \in PastRows
           /\ allowed \in BOOLEAN /\ service \in Bots \cup {0} /\ 0 \notin Bots
           /\ \A b \in Bots : bots[b].phase \notin {"running", "stopping", "left"} => Rests(b)
<1>1. \A b \in Bots : bots[b].phase \notin {"running", "stopping", "left"} => Rests(b)
  BY DEF ChatIInv, HandlersOK, Rests
<1> QED BY <1>1, ChatNumbers DEF ChatIInv, ServiceTypes, ChatTypes

LEMMA SaveMoves ==
    ASSUME ServiceTypes, NEW s \in Savers, NEW row \in SaveRows, saves' = [saves EXCEPT ![s] = row]
    PROVE  saves' \in [Savers -> SaveRows] /\ saves'[s] = row /\ \A t \in Savers : t # s => saves'[t] = saves[t]
BY DEF ServiceTypes

(* The save keeps the bot another one has started, or builds its own.        *)
LEMMA BuildMoves ==
    ASSUME ChatIInv, NEW s \in Savers, NEW bs \in [Bots -> BotRows], NEW a \in BOOLEAN, Build(s, bs, a),
           allowed' = a, service' = service, service # 0 => a = allowed, UNCHANGED <<updates, store>>,
           saves[s].pc \in {"idle", "stop", "drain", "startup"}, saves[s].pc = "idle" => service = 0,
           \A b \in Bots : bs[b].handlers = bots[b].handlers /\ bs[b].allowed = bots[b].allowed,
           \A b \in Bots : \/ bs[b].phase = bots[b].phase
                           \/ /\ Works(s) /\ b = saves[s].bot
                              /\ \/ bs[b].phase = "left" /\ bots[b].phase = "running"
                                 \/ bs[b].phase = "gone" /\ Rests(b),
           past' \in PastRows, past'.apart = past.apart, past.failed => past'.failed,
           saves[s].pc = "stop" => past'.failed
    PROVE  ChatIInv'
<1>1. /\ ServiceTypes /\ SavesOwnBots /\ OneIsUp /\ SettingsKept /\ updates \in Seq(UpdateKinds)
      /\ bots \in [Bots -> BotRows] /\ saves \in [Savers -> SaveRows]
      /\ service \in Bots \cup {0} /\ 0 \notin Bots
  BY ServiceFacts
<1>2. CASE service # 0 /\ bs[service].phase = "running"
  <2>1. saves' = [saves EXCEPT ![s] = [pc |-> "idle", bot |-> 0]] /\ bots' = bs BY <1>2 DEF Build
  <2>2. [pc |-> "idle", bot |-> 0] \in SaveRows BY DEF SaveRows
  <2>3. /\ saves' \in [Savers -> SaveRows] /\ saves'[s].pc = "idle"
        /\ \A t \in Savers : t # s => saves'[t] = saves[t]
    BY <1>1, <2>1, <2>2, SaveMoves
  <2>4. ServiceTypes' BY <1>1, <2>1, <2>3 DEF ServiceTypes
  <2>5. \A b \in Bots : bots'[b].phase = bots[b].phase \/ (Works(s) /\ b = saves[s].bot) BY <2>1
  <2>6. SavesOwnBots'
    <3>1. ASSUME NEW t \in Savers, Works(t)'
          PROVE  /\ t # s /\ Works(t) /\ saves'[t] = saves[t] /\ saves[t].bot \in Bots
                 /\ bots'[saves[t].bot].phase = PhaseAt(saves[t].pc) /\ saves[t].bot # service
      <4>1. t # s BY <2>3, <3>1 DEF Works
      <4>2. saves'[t] = saves[t] /\ Works(t) BY <2>3, <3>1, <4>1 DEF Works
      <4>3. saves[t].bot \in Bots /\ bots[saves[t].bot].phase = PhaseAt(saves[t].pc) /\ saves[t].bot # service
        BY <1>1, <4>2 DEF SavesOwnBots
      <4>4. Works(s) => saves[t].bot # saves[s].bot BY <1>1, <4>1, <4>2 DEF SavesOwnBots
      <4> QED BY <2>5, <4>1, <4>2, <4>3, <4>4
    <3>2. bots'[service].phase = "running" BY <1>2, <2>1
    <3> QED BY <1>1, <3>1, <3>2 DEF SavesOwnBots
  <2>7. \A b \in Bots : IsUp(b)' => IsUp(b) BY <2>1 DEF IsUp, UpPhases
  <2>8. OneIsUp' BY <1>1, <2>7 DEF OneIsUp
  <2>9. SettingsKept'
    <3>1. SUFFICES ASSUME ~past'.failed
                   PROVE  /\ \A t \in Savers : saves'[t].pc # "startup"
                          /\ ~past.apart => SettingsArrive'
      BY DEF SettingsKept
    <3>2. ~past.failed /\ saves[s].pc # "stop" BY <3>1
    <3>3. /\ \A t \in Savers : saves[t].pc # "startup"
          /\ ~past.apart => SettingsArrive
      BY <1>1, <3>2 DEF SettingsKept
    <3>4. \A t \in Savers : saves'[t].pc # "startup" BY <2>3, <3>3
    <3>5. ASSUME ~past.apart PROVE SettingsArrive'
      <4>1. saves[s].pc # "drain"
        <5>1. SUFFICES ASSUME saves[s].pc = "drain" PROVE FALSE OBVIOUS
        <5>2. Works(s) /\ saves[s].bot \in Bots /\ bots[saves[s].bot].phase = "stopping" /\ saves[s].bot # service
          BY <1>1, <5>1 DEF SavesOwnBots, Works, PhaseAt
        <5>3. IsUp(saves[s].bot) BY <5>2 DEF IsUp, UpPhases
        <5>4. bots[service].phase = "running" BY <1>1, <1>2 DEF SavesOwnBots
        <5>5. IsUp(service) BY <5>4 DEF IsUp, UpPhases
        <5> QED BY <1>1, <1>2, <3>5, <5>2, <5>3, <5>5 DEF OneIsUp
      <4> QED BY <1>2, <3>2, <3>3, <4>1
    <3> QED BY <3>4, <3>5
  <2>10. \A b \in Bots : bots'[b].handlers = bots[b].handlers BY <2>1
  <2>11. \A b \in Bots : \/ Rests(b)
                         \/ bots[b].phase \in {"running", "stopping", "left"} =>
                               bots'[b].phase \in {"running", "stopping", "left"}
    BY <2>1
  <2> QED BY <1>1, <2>4, <2>6, <2>8, <2>9, <2>10, <2>11, ServiceMoves
<1>3. CASE ~(service # 0 /\ bs[service].phase = "running")
  <2>1. PICK b \in Bots :
           /\ bs[b].phase = "unbuilt"
           /\ bots' = [bs EXCEPT ![b].phase = "built", ![b].allowed = a]
           /\ saves' = [saves EXCEPT ![s] = [pc |-> "initialize", bot |-> b]]
    BY <1>3 DEF Build
  <2>2. [pc |-> "initialize", bot |-> b] \in SaveRows BY DEF SaveRows
  <2>3. /\ saves' \in [Savers -> SaveRows] /\ saves'[s].pc = "initialize" /\ saves'[s].bot = b
        /\ \A t \in Savers : t # s => saves'[t] = saves[t]
    BY <1>1, <2>1, <2>2, SaveMoves
  <2>4. bots[b].phase = "unbuilt" BY <2>1
  <2>5. bs[b] \in BotRows OBVIOUS
  <2>6. /\ [bs[b] EXCEPT !.phase = "built", !.allowed = a] \in BotRows
        /\ [bs[b] EXCEPT !.phase = "built", !.allowed = a].phase = "built"
        /\ [bs[b] EXCEPT !.phase = "built", !.allowed = a].allowed = a
        /\ [bs[b] EXCEPT !.phase = "built", !.allowed = a].handlers = bs[b].handlers
    BY <2>5 DEF BotRows, BotPhases
  <2>7. bots' = [bs EXCEPT ![b] = [bs[b] EXCEPT !.phase = "built", !.allowed = a]] BY <2>1, <2>5
  <2>8. /\ bots' \in [Bots -> BotRows] /\ bots'[b].phase = "built" /\ bots'[b].allowed = a
        /\ bots'[b].handlers = bs[b].handlers /\ \A c \in Bots : c # b => bots'[c] = bs[c]
    BY <2>6, <2>7
  <2>9. ServiceTypes' BY <1>1, <2>3, <2>8 DEF ServiceTypes
  <2>10. \A c \in Bots : c # b => bots'[c].phase = bots[c].phase \/ (Works(s) /\ c = saves[s].bot) BY <2>8
  <2>11. SavesOwnBots'
    <3>1. ASSUME NEW t \in Savers, t # s, Works(t)'
          PROVE  /\ Works(t) /\ saves'[t] = saves[t] /\ saves[t].bot \in Bots /\ saves[t].bot # b
                 /\ bots'[saves[t].bot].phase = PhaseAt(saves[t].pc) /\ saves[t].bot # service
      <4>2. saves'[t] = saves[t] /\ Works(t) BY <2>3, <3>1 DEF Works
      <4>3. saves[t].bot \in Bots /\ bots[saves[t].bot].phase = PhaseAt(saves[t].pc) /\ saves[t].bot # service
        BY <1>1, <4>2 DEF SavesOwnBots
      <4>4. Works(s) => saves[t].bot # saves[s].bot BY <1>1, <3>1, <4>2 DEF SavesOwnBots
      <4>5. PhaseAt(saves[t].pc) # "unbuilt" BY <4>2 DEF PhaseAt, Works
      <4>6. saves[t].bot # b BY <2>4, <4>3, <4>5
      <4> QED BY <2>10, <4>2, <4>3, <4>4, <4>6
    <3>2. service # 0 => service # b /\ bots'[service].phase = "running"
      <4>1. SUFFICES ASSUME service # 0 PROVE service # b /\ bots'[service].phase = "running" OBVIOUS
      <4>2. bots[service].phase = "running" /\ (Works(s) => service # saves[s].bot)
        BY <1>1, <4>1 DEF SavesOwnBots
      <4> QED BY <1>1, <2>4, <2>10, <4>1, <4>2
    <3>3. bots'[b].phase = PhaseAt(saves'[s].pc) BY <2>3, <2>8 DEF PhaseAt
    <3>4. service # b BY <1>1, <3>2
    <3>5. ASSUME NEW t \in Savers, Works(t)'
          PROVE  saves'[t].bot \in Bots /\ bots'[saves'[t].bot].phase = PhaseAt(saves'[t].pc) /\ saves'[t].bot # service
      <4>1. CASE t = s BY <2>3, <3>3, <3>4, <4>1
      <4>2. CASE t # s BY <3>1, <3>5, <4>2
      <4> QED BY <4>1, <4>2
    <3>6. ASSUME NEW t \in Savers, NEW u \in Savers, Works(t)', Works(u)', saves'[t].bot = saves'[u].bot PROVE t = u
      <4>1. CASE t = s /\ u # s BY <2>3, <3>1, <3>6, <4>1
      <4>2. CASE u = s /\ t # s BY <2>3, <3>1, <3>6, <4>2
      <4>3. CASE t # s /\ u # s
        <5>1. Works(t) /\ Works(u) /\ saves[t].bot = saves[u].bot BY <3>1, <3>6, <4>3
        <5> QED BY <1>1, <5>1 DEF SavesOwnBots
      <4> QED BY <4>1, <4>2, <4>3
    <3> QED BY <3>2, <3>5, <3>6 DEF SavesOwnBots
  <2>12. \A c \in Bots : IsUp(c)' => IsUp(c) BY <2>8 DEF IsUp, UpPhases
  <2>13. OneIsUp' BY <1>1, <2>12 DEF OneIsUp
  <2>14. SettingsKept'
    <3>1. SettingsArrive' BY <2>3, <2>8 DEF SettingsArrive, Fresh
    <3>2. ~past'.failed => \A t \in Savers : saves'[t].pc # "startup" BY <1>1, <2>3 DEF SettingsKept
    <3> QED BY <3>1, <3>2 DEF SettingsKept
  <2>15. \A c \in Bots : bots'[c].handlers = bots[c].handlers BY <2>8
  <2>16. \A c \in Bots : \/ Rests(c)
                         \/ bots[c].phase \in {"running", "stopping", "left"} =>
                               bots'[c].phase \in {"running", "stopping", "left"}
    BY <2>4, <2>8
  <2> QED BY <1>1, <2>9, <2>11, <2>13, <2>14, <2>15, <2>16, ServiceMoves
<1> QED BY <1>2, <1>3

(* A save begins, and stops the bot it found.                                *)
LEMMA UpdateSettingsMoves ==
    ASSUME ChatIInv, NEW s \in Savers, UpdateSettings(s)
    PROVE  ChatIInv'
<1>1. /\ ServiceTypes /\ SavesOwnBots /\ OneIsUp /\ SettingsKept /\ updates \in Seq(UpdateKinds)
      /\ bots \in [Bots -> BotRows] /\ saves \in [Savers -> SaveRows] /\ past \in PastRows
      /\ service \in Bots \cup {0} /\ 0 \notin Bots
  BY ServiceFacts
<1>2. PICK a \in BOOLEAN :
         /\ allowed' = a
         /\ IF service = 0
              THEN Build(s, bots, a)
              ELSE saves' = [saves EXCEPT ![s] = [pc |-> "stop", bot |-> service]] /\ UNCHANGED bots
  BY DEF UpdateSettings
<1>3. saves[s].pc = "idle" /\ service' = 0 /\ past' = [past EXCEPT !.troubles = @ + 1] /\ UNCHANGED <<updates, store>>
  BY DEF UpdateSettings
<1>4. past' \in PastRows /\ past'.apart = past.apart /\ past'.failed = past.failed BY <1>1, <1>3 DEF PastRows
<1>5. CASE service = 0
  <2>1. Build(s, bots, a) /\ service' = service /\ (service # 0 => a = allowed) BY <1>2, <1>3, <1>5
  <2> QED BY <1>1, <1>2, <1>3, <1>4, <1>5, <2>1, BuildMoves
<1>6. CASE service # 0
  <2>1. saves' = [saves EXCEPT ![s] = [pc |-> "stop", bot |-> service]] /\ UNCHANGED bots BY <1>2, <1>6
  <2>2. [pc |-> "stop", bot |-> service] \in SaveRows BY <1>1 DEF SaveRows
  <2>3. /\ saves' \in [Savers -> SaveRows] /\ saves'[s].pc = "stop" /\ saves'[s].bot = service
        /\ \A t \in Savers : t # s => saves'[t] = saves[t]
    BY <1>1, <2>1, <2>2, SaveMoves
  <2>4. ServiceTypes' BY <1>1, <1>2, <1>3, <1>4, <2>1, <2>3 DEF ServiceTypes
  <2>5. SavesOwnBots'
    <3>1. \A t \in Savers : t # s /\ Works(t)' => Works(t) /\ saves'[t] = saves[t] /\ saves[t].bot # service
      BY <1>1, <2>3 DEF Works, SavesOwnBots
    <3>2. service \in Bots /\ bots'[service].phase = PhaseAt("stop") /\ service # 0
      BY <1>1, <1>6, <2>1 DEF SavesOwnBots, PhaseAt
    <3>3. ASSUME NEW t \in Savers, Works(t)'
          PROVE  saves'[t].bot \in Bots /\ bots'[saves'[t].bot].phase = PhaseAt(saves'[t].pc) /\ saves'[t].bot # service'
      <4>1. CASE t = s BY <1>3, <2>3, <3>2, <4>1
      <4>2. CASE t # s BY <1>1, <1>3, <2>1, <3>1, <3>3, <4>2 DEF SavesOwnBots
      <4> QED BY <4>1, <4>2
    <3>4. ASSUME NEW t \in Savers, NEW u \in Savers, Works(t)', Works(u)', saves'[t].bot = saves'[u].bot PROVE t = u
      <4>1. CASE t = s \/ u = s BY <2>3, <3>1, <3>4, <4>1
      <4>2. CASE t # s /\ u # s BY <1>1, <3>1, <3>4, <4>2 DEF SavesOwnBots
      <4> QED BY <4>1, <4>2
    <3> QED BY <1>3, <3>3, <3>4 DEF SavesOwnBots
  <2>6. OneIsUp' BY <1>1, <1>4, <2>1 DEF OneIsUp, IsUp
  <2>7. SettingsKept'
    <3>1. SettingsArrive' BY <2>3 DEF SettingsArrive
    <3>2. ~past'.failed => \A t \in Savers : saves'[t].pc # "startup" BY <1>1, <1>4, <2>3 DEF SettingsKept
    <3> QED BY <3>1, <3>2 DEF SettingsKept
  <2> QED BY <1>1, <1>3, <1>4, <2>1, <2>4, <2>5, <2>6, <2>7, ServiceMoves
<1> QED BY <1>5, <1>6

(* The bot of a save moves on with it.                                       *)
LEMMA OwnBotMoves ==
    ASSUME ChatIInv, NEW s \in Savers, Works(s), NEW phase \in BotPhases, NEW row \in SaveRows,
           bots' = [bots EXCEPT ![saves[s].bot].phase = phase], saves' = [saves EXCEPT ![s] = row],
           row.pc \in {"drain", "polling"} => row.bot = saves[s].bot /\ phase = PhaseAt(row.pc),
           row.pc \in {"idle", "drain", "polling"},
           \/ service' \in {service, 0} /\ (row.pc \in {"drain", "polling"} => service' = service)
           \/ service' = saves[s].bot /\ row.pc = "idle" /\ phase = "running"
    PROVE  /\ SavesOwnBots' /\ saves[s].bot \in Bots /\ bots' \in [Bots -> BotRows] /\ saves' \in [Savers -> SaveRows]
           /\ \A b \in Bots : bots'[b].handlers = bots[b].handlers /\ bots'[b].allowed = bots[b].allowed
           /\ \A b \in Bots : b # saves[s].bot => bots'[b] = bots[b]
           /\ bots'[saves[s].bot].phase = phase
           /\ saves'[s] = row /\ \A t \in Savers : t # s => saves'[t] = saves[t]
<1> DEFINE own == saves[s].bot
<1>1. ServiceTypes /\ SavesOwnBots /\ service \in Bots \cup {0} /\ 0 \notin Bots BY ServiceFacts
<1>2. own \in Bots /\ own # service BY <1>1 DEF SavesOwnBots
<1>3. /\ bots' \in [Bots -> BotRows] /\ bots'[own].phase = phase
      /\ \A c \in Bots : bots'[c].handlers = bots[c].handlers /\ bots'[c].allowed = bots[c].allowed
      /\ \A c \in Bots : c # own => bots'[c] = bots[c]
  <2>1. bots' = WithPhase(own, phase) BY DEF WithPhase
  <2> HIDE DEF own
  <2>2. /\ WithPhase(own, phase) \in [Bots -> BotRows] /\ WithPhase(own, phase)[own].phase = phase
        /\ \A c \in Bots : /\ WithPhase(own, phase)[c].handlers = bots[c].handlers
                          /\ WithPhase(own, phase)[c].allowed = bots[c].allowed
        /\ \A c \in Bots : c # own => WithPhase(own, phase)[c] = bots[c]
    BY <1>1, <1>2, PhaseOf
  <2> QED BY <2>1, <2>2
<1>4. saves' \in [Savers -> SaveRows] /\ saves'[s] = row /\ \A t \in Savers : t # s => saves'[t] = saves[t]
  BY <1>1, SaveMoves
<1> HIDE DEF own
<1>5. ASSUME NEW t \in Savers, t # s, Works(t)'
      PROVE  /\ Works(t) /\ saves'[t] = saves[t] /\ saves[t].bot \in Bots /\ saves[t].bot # own
             /\ bots'[saves[t].bot].phase = PhaseAt(saves[t].pc) /\ saves[t].bot # service
  <2>1. saves'[t] = saves[t] /\ Works(t) BY <1>4, <1>5 DEF Works
  <2>2. saves[t].bot # own BY <1>1, <1>5, <2>1 DEF SavesOwnBots, own
  <2> QED BY <1>1, <1>3, <2>1, <2>2 DEF SavesOwnBots
<1>6. service' \in {service, 0, own} BY DEF own
<1>7. service' # 0 => bots'[service'].phase = "running"
  <2>1. CASE service' = own /\ phase = "running" BY <1>3, <2>1
  <2>2. CASE service' = service /\ service # 0 BY <1>1, <1>2, <1>3, <2>2 DEF SavesOwnBots
  <2> QED BY <2>1, <2>2 DEF own
<1>8. ASSUME NEW t \in Savers, Works(t)'
      PROVE  saves'[t].bot \in Bots /\ bots'[saves'[t].bot].phase = PhaseAt(saves'[t].pc) /\ saves'[t].bot # service'
  <2>1. CASE t # s
    <3>1. saves[t].bot # 0 BY <1>1, <1>5, <2>1, <1>8
    <3> QED BY <1>5, <1>6, <1>8, <2>1, <3>1
  <2>2. CASE t = s
    <3>1. row.pc \in {"drain", "polling"} BY <1>4, <1>8, <2>2 DEF Works
    <3>2. service' = service /\ row.bot = own /\ phase = PhaseAt(row.pc) BY <3>1 DEF own
    <3> QED BY <1>2, <1>3, <1>4, <2>2, <3>2
  <2> QED BY <2>1, <2>2
<1>9. ASSUME NEW t \in Savers, NEW u \in Savers, Works(t)', Works(u)', saves'[t].bot = saves'[u].bot PROVE t = u
  <2>1. Works(s)' => saves'[s].bot = own BY <1>4 DEF Works, own
  <2>2. CASE t = s /\ u # s BY <1>5, <1>9, <2>1, <2>2
  <2>3. CASE u = s /\ t # s BY <1>5, <1>9, <2>1, <2>3
  <2>4. CASE t # s /\ u # s
    <3>1. Works(t) /\ Works(u) /\ saves[t].bot = saves[u].bot BY <1>5, <1>9, <2>4
    <3> QED BY <1>1, <3>1 DEF SavesOwnBots
  <2> QED BY <2>2, <2>3, <2>4
<1>10. SavesOwnBots' BY <1>7, <1>8, <1>9 DEF SavesOwnBots
<1> QED BY <1>2, <1>3, <1>4, <1>10 DEF own

LEMMA TwoAreMany ==
    ASSUME NEW S, IsFiniteSet(S), NEW x \in S, NEW y \in S, x # y
    PROVE  Cardinality(S) > 1
<1>1. Cardinality(S) \in Nat BY FS_CardinalityType
<1>2. Cardinality(S) # 0 BY FS_EmptySet
<1>3. Cardinality(S) # 1 BY FS_Singleton
<1> QED BY <1>1, <1>2, <1>3

LEMMA SteppingRow ==
    ASSUME ServiceTypes, NEW s \in Savers, NEW pc \in {"drain", "polling"}, saves' = [saves EXCEPT ![s].pc = pc]
    PROVE  \E row \in SaveRows : saves' = [saves EXCEPT ![s] = row] /\ row.pc = pc /\ row.bot = saves[s].bot
<1>1. saves \in [Savers -> SaveRows] /\ saves[s] \in SaveRows BY DEF ServiceTypes
<1>2. /\ [saves[s] EXCEPT !.pc = pc] \in SaveRows /\ [saves[s] EXCEPT !.pc = pc].pc = pc
      /\ [saves[s] EXCEPT !.pc = pc].bot = saves[s].bot
  BY <1>1 DEF SaveRows
<1>3. saves' = [saves EXCEPT ![s] = [saves[s] EXCEPT !.pc = pc]] BY <1>1
<1> QED BY <1>2, <1>3

LEMMA FailureIsKept ==
    ASSUME past \in PastRows
    PROVE  Failed \in PastRows /\ Failed.apart = past.apart /\ Failed.failed
<1>1. past.troubles + 1 \in Nat /\ past.apart \in BOOLEAN BY DEF PastRows
<1>2. Failed \in PastRows BY <1>1 DEF Failed, PastRows
<1>3. Failed.apart = past.apart BY DEF Failed, PastRows
<1>4. Failed.failed = TRUE BY DEF Failed, PastRows
<1> QED BY <1>2, <1>3, <1>4

LEMMA StopPollingMoves ==
    ASSUME ChatIInv, NEW s \in Savers, StopPolling(s)
    PROVE  ChatIInv'
<1> DEFINE own == saves[s].bot
<1>1. /\ ServiceTypes /\ SavesOwnBots /\ OneIsUp /\ SettingsKept /\ updates \in Seq(UpdateKinds)
      /\ service \in Bots \cup {0} /\ 0 \notin Bots
  BY ServiceFacts
<1>2. /\ saves[s].pc = "stop" /\ saves' = [saves EXCEPT ![s].pc = "drain"]
      /\ bots' = [bots EXCEPT ![own].phase = "stopping"]
      /\ UNCHANGED <<allowed, service, updates, store, past>>
  BY DEF StopPolling
<1>3. PICK row \in SaveRows : saves' = [saves EXCEPT ![s] = row] /\ row.pc = "drain" /\ row.bot = own
  BY <1>1, <1>2, SteppingRow
<1>4. /\ Works(s) /\ "stopping" \in BotPhases /\ service' \in {service, 0}
      /\ row.pc \in {"drain", "polling"} => row.bot = saves[s].bot /\ "stopping" = PhaseAt(row.pc)
      /\ row.pc \in {"idle", "drain", "polling"} /\ service' = service
  BY <1>2, <1>3 DEF Works, BotPhases, PhaseAt
<1>5. /\ SavesOwnBots' /\ own \in Bots /\ bots' \in [Bots -> BotRows] /\ saves' \in [Savers -> SaveRows]
      /\ \A b \in Bots : bots'[b].handlers = bots[b].handlers /\ bots'[b].allowed = bots[b].allowed
      /\ \A b \in Bots : b # own => bots'[b] = bots[b]
      /\ bots'[own].phase = "stopping"
      /\ saves'[s] = row /\ \A t \in Savers : t # s => saves'[t] = saves[t]
  <2> DEFINE phase == "stopping"
  <2>1. /\ phase \in BotPhases /\ bots' = [bots EXCEPT ![saves[s].bot].phase = phase]
        /\ row.pc \in {"drain", "polling"} => row.bot = saves[s].bot /\ phase = PhaseAt(row.pc)
    BY <1>2, <1>4
  <2> HIDE DEF phase
  <2>2. /\ SavesOwnBots' /\ own \in Bots /\ bots' \in [Bots -> BotRows] /\ saves' \in [Savers -> SaveRows]
        /\ \A b \in Bots : bots'[b].handlers = bots[b].handlers /\ bots'[b].allowed = bots[b].allowed
        /\ \A b \in Bots : b # own => bots'[b] = bots[b]
        /\ bots'[own].phase = phase
        /\ saves'[s] = row /\ \A t \in Savers : t # s => saves'[t] = saves[t]
    BY <1>3, <1>4, <2>1, OwnBotMoves DEF own
  <2> QED BY <2>2 DEF phase
<1>6. bots[own].phase = "running" BY <1>1, <1>2, <1>4 DEF SavesOwnBots, PhaseAt
<1> HIDE DEF own
<1>7. ServiceTypes' BY <1>1, <1>2, <1>5 DEF ServiceTypes
<1>8. \A b \in Bots : IsUp(b)' => IsUp(b) BY <1>5, <1>6 DEF IsUp, UpPhases
<1>9. OneIsUp' BY <1>1, <1>2, <1>8 DEF OneIsUp
<1>10. SettingsArrive' BY <1>3, <1>5 DEF SettingsArrive
<1>11. SettingsKept' BY <1>1, <1>2, <1>3, <1>5, <1>10 DEF SettingsKept
<1>12. \A b \in Bots : bots[b].phase \in {"running", "stopping", "left"} =>
                          bots'[b].phase \in {"running", "stopping", "left"}
  BY <1>5
<1> QED BY <1>1, <1>2, <1>5, <1>7, <1>9, <1>11, <1>12, ServiceMoves

(* A second bot that polls is noted: the restarts did not follow one another. *)
LEMMA StartPollingMoves ==
    ASSUME ChatIInv, NEW s \in Savers, StartPolling(s)
    PROVE  ChatIInv'
<1> DEFINE own == saves[s].bot
           Ups == {b \in Bots : bots'[b].phase \in UpPhases}
<1>1. /\ ServiceTypes /\ SavesOwnBots /\ OneIsUp /\ SettingsKept /\ past \in PastRows
      /\ service \in Bots \cup {0} /\ 0 \notin Bots
  BY ServiceFacts
<1>2. /\ saves[s].pc = "initialize" /\ saves' = [saves EXCEPT ![s].pc = "polling"]
      /\ bots' = [bots EXCEPT ![own].phase = "polling"] /\ updates' = <<>>
      /\ past' = [past EXCEPT !.apart = past.apart \/ Cardinality(Ups) > 1]
      /\ UNCHANGED <<allowed, service, store>>
  BY DEF StartPolling, Noted
<1>3. PICK row \in SaveRows : saves' = [saves EXCEPT ![s] = row] /\ row.pc = "polling" /\ row.bot = own
  BY <1>1, <1>2, SteppingRow
<1>4. /\ Works(s) /\ "polling" \in BotPhases /\ service' \in {service, 0}
      /\ row.pc \in {"drain", "polling"} => row.bot = saves[s].bot /\ "polling" = PhaseAt(row.pc)
      /\ row.pc \in {"idle", "drain", "polling"} /\ service' = service
  BY <1>2, <1>3 DEF Works, BotPhases, PhaseAt
<1>5. /\ SavesOwnBots' /\ own \in Bots /\ bots' \in [Bots -> BotRows] /\ saves' \in [Savers -> SaveRows]
      /\ \A b \in Bots : bots'[b].handlers = bots[b].handlers /\ bots'[b].allowed = bots[b].allowed
      /\ \A b \in Bots : b # own => bots'[b] = bots[b]
      /\ bots'[own].phase = "polling"
      /\ saves'[s] = row /\ \A t \in Savers : t # s => saves'[t] = saves[t]
  <2> DEFINE phase == "polling"
  <2>1. /\ phase \in BotPhases /\ bots' = [bots EXCEPT ![saves[s].bot].phase = phase]
        /\ row.pc \in {"drain", "polling"} => row.bot = saves[s].bot /\ phase = PhaseAt(row.pc)
    BY <1>2, <1>4
  <2> HIDE DEF phase
  <2>2. /\ SavesOwnBots' /\ own \in Bots /\ bots' \in [Bots -> BotRows] /\ saves' \in [Savers -> SaveRows]
        /\ \A b \in Bots : bots'[b].handlers = bots[b].handlers /\ bots'[b].allowed = bots[b].allowed
        /\ \A b \in Bots : b # own => bots'[b] = bots[b]
        /\ bots'[own].phase = phase
        /\ saves'[s] = row /\ \A t \in Savers : t # s => saves'[t] = saves[t]
    BY <1>3, <1>4, <2>1, OwnBotMoves DEF own
  <2> QED BY <2>2 DEF phase
<1>6. bots[own].phase = "built" BY <1>1, <1>2, <1>4 DEF SavesOwnBots, PhaseAt
<1>7. past' \in PastRows /\ past'.failed = past.failed /\ (past'.apart = (past.apart \/ Cardinality(Ups) > 1))
  BY <1>1, <1>2 DEF PastRows
<1>8. IsFiniteSet(Ups)
  <2>1. IsFiniteSet(Bots) BY FS_Interval, TelegramAssumption DEF Bots
  <2> QED BY <2>1, FS_Subset
<1>9. ASSUME NEW b \in Bots, NEW c \in Bots, IsUp(b)', IsUp(c)', ~past'.apart PROVE b = c
  <2>1. b \in Ups /\ c \in Ups BY <1>9 DEF IsUp
  <2>2. ~(Cardinality(Ups) > 1) BY <1>7, <1>9
  <2> HIDE DEF Ups
  <2> QED BY <1>8, <2>1, <2>2, TwoAreMany
<1>10. OneIsUp' BY <1>9 DEF OneIsUp
<1> HIDE DEF own, Ups
<1>11. ServiceTypes' BY <1>1, <1>2, <1>5, <1>7 DEF ServiceTypes
<1>12. SettingsArrive => SettingsArrive'
  <2>1. CASE \E t \in Savers : saves[t].pc \in {"stop", "drain"}
    <3>1. PICK t \in Savers : saves[t].pc \in {"stop", "drain"} BY <2>1
    <3>2. saves'[t] = saves[t] BY <1>2, <1>5, <3>1
    <3> QED BY <3>1, <3>2 DEF SettingsArrive
  <2>2. CASE \E t \in Savers : saves[t].pc \in {"initialize", "polling"} /\ Fresh(saves[t].bot)
    <3>1. PICK t \in Savers : saves[t].pc \in {"initialize", "polling"} /\ Fresh(saves[t].bot) BY <2>2
    <3>2. saves[t].bot \in Bots BY <1>1, <3>1 DEF SavesOwnBots, Works
    <3>3. saves'[t].bot = saves[t].bot /\ saves'[t].pc \in {"initialize", "polling"} BY <1>3, <1>5, <3>1 DEF own
    <3>4. bots'[saves'[t].bot].allowed = allowed' BY <1>2, <1>5, <3>1, <3>2, <3>3 DEF Fresh
    <3> QED BY <3>3, <3>4 DEF SettingsArrive, Fresh
  <2>3. CASE service # 0 /\ Fresh(service) BY <1>1, <1>2, <1>5, <2>3 DEF SettingsArrive, Fresh
  <2> QED BY <2>1, <2>2, <2>3 DEF SettingsArrive
<1>13. SettingsKept' BY <1>1, <1>3, <1>5, <1>7, <1>12 DEF SettingsKept
<1>14. \A b \in Bots : bots[b].phase \in {"running", "stopping", "left"} =>
                          bots'[b].phase \in {"running", "stopping", "left"}
  BY <1>5, <1>6
<1>15. past.apart => past'.apart BY <1>7
<1>16. updates' \in Seq(UpdateKinds) /\ UNCHANGED store BY <1>2
<1>17. \A b \in Bots : bots'[b].handlers = bots[b].handlers BY <1>5
<1> QED BY <1>5, <1>10, <1>11, <1>13, <1>14, <1>15, <1>16, <1>17, ServiceMoves

LEMMA PollingStartedMoves ==
    ASSUME ChatIInv, NEW s \in Savers, PollingStarted(s)
    PROVE  ChatIInv'
<1> DEFINE own == saves[s].bot
           row == [pc |-> "idle", bot |-> 0]
<1>1. /\ ServiceTypes /\ SavesOwnBots /\ OneIsUp /\ SettingsKept /\ updates \in Seq(UpdateKinds)
      /\ service \in Bots \cup {0} /\ 0 \notin Bots
  BY ServiceFacts
<1>2. /\ saves[s].pc = "polling" /\ saves' = [saves EXCEPT ![s] = row]
      /\ bots' = [bots EXCEPT ![own].phase = "running"] /\ service' = own
      /\ UNCHANGED <<allowed, updates, store, past>>
  BY DEF PollingStarted
<1>3. row \in SaveRows /\ row.pc = "idle" BY DEF SaveRows
<1> HIDE DEF row
<1>4. Works(s) /\ "running" \in BotPhases BY <1>2 DEF Works, BotPhases
<1>5. /\ SavesOwnBots' /\ own \in Bots /\ bots' \in [Bots -> BotRows] /\ saves' \in [Savers -> SaveRows]
      /\ \A b \in Bots : bots'[b].handlers = bots[b].handlers /\ bots'[b].allowed = bots[b].allowed
      /\ \A b \in Bots : b # own => bots'[b] = bots[b]
      /\ bots'[own].phase = "running"
      /\ saves'[s] = row /\ \A t \in Savers : t # s => saves'[t] = saves[t]
  BY <1>2, <1>3, <1>4, OwnBotMoves
<1>6. bots[own].phase = "polling" /\ own # service BY <1>1, <1>2, <1>4 DEF SavesOwnBots, PhaseAt
<1>7. ServiceTypes' BY <1>1, <1>2, <1>5 DEF ServiceTypes
<1>8. \A b \in Bots : IsUp(b)' => IsUp(b) BY <1>5, <1>6 DEF IsUp, UpPhases
<1>9. OneIsUp' BY <1>1, <1>2, <1>8 DEF OneIsUp
<1>10. ~past.apart /\ SettingsArrive => SettingsArrive'
  <2>1. SUFFICES ASSUME ~past.apart, SettingsArrive PROVE SettingsArrive' OBVIOUS
  <2>2. CASE \E t \in Savers : saves[t].pc \in {"stop", "drain"}
    <3>1. PICK t \in Savers : saves[t].pc \in {"stop", "drain"} BY <2>2
    <3>2. saves'[t] = saves[t] BY <1>2, <1>5, <3>1
    <3> QED BY <3>1, <3>2 DEF SettingsArrive
  <2>3. CASE \E t \in Savers : saves[t].pc \in {"initialize", "polling"} /\ Fresh(saves[t].bot)
    <3>1. PICK t \in Savers : saves[t].pc \in {"initialize", "polling"} /\ Fresh(saves[t].bot) BY <2>3
    <3>2. saves[t].bot \in Bots BY <1>1, <3>1 DEF SavesOwnBots, Works
    <3>4. CASE t # s
      <4>1. saves'[t] = saves[t] BY <1>5, <3>4
      <4>2. bots'[saves[t].bot].allowed = allowed' BY <1>2, <1>5, <3>1, <3>2 DEF Fresh
      <4> QED BY <3>1, <4>1, <4>2 DEF SettingsArrive, Fresh
    <3>5. CASE t = s
      <4>1. service' # 0 /\ bots'[service'].allowed = allowed' BY <1>1, <1>2, <1>5, <3>1, <3>2, <3>5 DEF Fresh
      <4> QED BY <4>1 DEF SettingsArrive, Fresh
    <3> QED BY <3>4, <3>5
  <2>4. CASE service # 0 /\ Fresh(service)
    <3>1. bots[service].phase = "running" /\ service \in Bots BY <1>1, <2>4 DEF SavesOwnBots
    <3>2. IsUp(service) /\ IsUp(own) BY <1>6, <3>1 DEF IsUp, UpPhases
    <3> QED BY <1>1, <1>5, <1>6, <2>1, <3>1, <3>2 DEF OneIsUp
  <2> QED BY <2>1, <2>2, <2>3, <2>4 DEF SettingsArrive
<1> HIDE DEF own
<1>11. SettingsKept' BY <1>1, <1>2, <1>3, <1>5, <1>10 DEF SettingsKept
<1>12. \A b \in Bots : bots[b].phase \in {"running", "stopping", "left"} =>
                          bots'[b].phase \in {"running", "stopping", "left"}
  BY <1>5
<1> QED BY <1>1, <1>2, <1>5, <1>7, <1>9, <1>11, <1>12, ServiceMoves

LEMMA StartFailsMoves ==
    ASSUME ChatIInv, NEW s \in Savers, StartFails(s)
    PROVE  ChatIInv'
<1> DEFINE own   == saves[s].bot
           row   == [pc |-> "idle", bot |-> 0]
           phase == IF bots[own].phase = "polling" THEN "polling" ELSE "gone"
<1>1. /\ ServiceTypes /\ SavesOwnBots /\ OneIsUp /\ updates \in Seq(UpdateKinds) /\ past \in PastRows
      /\ service \in Bots \cup {0} /\ 0 \notin Bots /\ bots \in [Bots -> BotRows]
      /\ \A b \in Bots : bots[b].phase \notin {"running", "stopping", "left"} => Rests(b)
  BY ServiceFacts
<1>2. /\ saves[s].pc \in {"initialize", "polling"} /\ saves' = [saves EXCEPT ![s] = row]
      /\ bots' = [bots EXCEPT ![own].phase = IF @ = "polling" THEN "polling" ELSE "gone"] /\ service' = 0
      /\ past' = Failed /\ UNCHANGED <<allowed, updates, store>>
  BY DEF StartFails
<1>3. row \in SaveRows /\ row.pc = "idle" BY DEF SaveRows
<1> HIDE DEF row
<1>4. Works(s) /\ phase \in BotPhases BY <1>2 DEF Works, BotPhases
<1>5. own \in Bots /\ bots[own].phase \in {"built", "polling"} BY <1>1, <1>2, <1>4 DEF SavesOwnBots, PhaseAt
<1>6. bots' = [bots EXCEPT ![own].phase = phase] BY <1>1, <1>2, <1>5 DEF BotRows
<1> HIDE DEF phase
<1>7. /\ SavesOwnBots' /\ bots' \in [Bots -> BotRows] /\ saves' \in [Savers -> SaveRows]
      /\ \A b \in Bots : bots'[b].handlers = bots[b].handlers /\ bots'[b].allowed = bots[b].allowed
      /\ \A b \in Bots : b # own => bots'[b] = bots[b]
      /\ bots'[own].phase = phase
  <2>1. /\ row.pc \in {"drain", "polling"} => row.bot = saves[s].bot /\ phase = PhaseAt(row.pc)
        /\ row.pc \in {"idle", "drain", "polling"} /\ ~(row.pc \in {"drain", "polling"})
        /\ service' \in {service, 0}
    BY <1>2, <1>3
  <2> QED BY <1>2, <1>3, <1>4, <1>6, <2>1, OwnBotMoves DEF own
<1>8. past' \in PastRows /\ past'.apart = past.apart /\ past'.failed BY <1>1, <1>2, FailureIsKept
<1>9. \A b \in Bots : IsUp(b)' => IsUp(b) BY <1>7 DEF IsUp, UpPhases, phase
<1>10. Rests(own) BY <1>1, <1>5
<1> HIDE DEF own
<1>11. ServiceTypes' BY <1>1, <1>2, <1>7, <1>8 DEF ServiceTypes
<1>12. OneIsUp' BY <1>1, <1>8, <1>9 DEF OneIsUp
<1>13. SettingsKept' BY <1>8 DEF SettingsKept
<1>14. \A b \in Bots : \/ Rests(b)
                       \/ bots[b].phase \in {"running", "stopping", "left"} =>
                             bots'[b].phase \in {"running", "stopping", "left"}
  BY <1>7, <1>10
<1> QED BY <1>1, <1>2, <1>7, <1>8, <1>11, <1>12, <1>13, <1>14, ServiceMoves

(* The steps of a save that end in a start.                                  *)
LEMMA RestartMoves ==
    ASSUME ChatIInv, NEW s \in Savers, StopFails(s) \/ Drained(s) \/ Startup(s)
    PROVE  ChatIInv'
<1> DEFINE own == saves[s].bot
<1>1. /\ ServiceTypes /\ SavesOwnBots /\ past \in PastRows /\ allowed \in BOOLEAN /\ bots \in [Bots -> BotRows]
  BY ServiceFacts
<1>2. UNCHANGED <<allowed, service, updates, store>> BY DEF StopFails, Drained, Startup
<1>3. CASE Startup(s)
  <2>1. saves[s].pc = "startup" /\ Build(s, bots, allowed) /\ UNCHANGED past BY <1>3 DEF Startup
  <2> QED BY <1>1, <1>2, <2>1, BuildMoves
<1>4. CASE StopFails(s)
  <2> DEFINE bs == WithPhase(own, "left")
  <2>1. saves[s].pc = "stop" /\ Build(s, bs, allowed) /\ past' = Failed BY <1>4 DEF StopFails, WithPhase
  <2>2. Works(s) /\ own \in Bots /\ bots[own].phase = "running" BY <1>1, <2>1 DEF SavesOwnBots, Works, PhaseAt
  <2>3. /\ bs \in [Bots -> BotRows] /\ bs[own].phase = "left"
        /\ \A c \in Bots : bs[c].handlers = bots[c].handlers /\ bs[c].allowed = bots[c].allowed
        /\ \A c \in Bots : c # own => bs[c] = bots[c]
    <3>1. "left" \in BotPhases /\ "gone" \in BotPhases BY DEF BotPhases
    <3> QED BY <1>1, <2>2, <3>1, PhaseOf
  <2>4. past' \in PastRows /\ past'.apart = past.apart /\ past'.failed BY <1>1, <2>1, FailureIsKept
  <2> HIDE DEF bs
  <2>5. \A b \in Bots : \/ bs[b].phase = bots[b].phase
                        \/ /\ Works(s) /\ b = saves[s].bot
                           /\ \/ bs[b].phase = "left" /\ bots[b].phase = "running"
                              \/ bs[b].phase = "gone" /\ Rests(b)
    BY <2>2, <2>3
  <2> QED BY <1>1, <1>2, <2>1, <2>3, <2>4, <2>5, BuildMoves
<1>5. CASE Drained(s)
  <2> DEFINE bs == WithPhase(own, "gone")
  <2>1. saves[s].pc = "drain" /\ Sequential(own) /\ Build(s, bs, allowed) /\ UNCHANGED past BY <1>5 DEF Drained, WithPhase
  <2>2. Works(s) /\ own \in Bots BY <1>1, <2>1 DEF SavesOwnBots, Works
  <2>3. /\ bs \in [Bots -> BotRows] /\ bs[own].phase = "gone"
        /\ \A c \in Bots : bs[c].handlers = bots[c].handlers /\ bs[c].allowed = bots[c].allowed
        /\ \A c \in Bots : c # own => bs[c] = bots[c]
    <3>1. "left" \in BotPhases /\ "gone" \in BotPhases BY DEF BotPhases
    <3> QED BY <1>1, <2>2, <3>1, PhaseOf
  <2>4. Rests(own) BY <2>1 DEF Sequential, Rests, Busy
  <2> HIDE DEF bs
  <2>5. \A b \in Bots : \/ bs[b].phase = bots[b].phase
                        \/ /\ Works(s) /\ b = saves[s].bot
                           /\ \/ bs[b].phase = "left" /\ bots[b].phase = "running"
                              \/ bs[b].phase = "gone" /\ Rests(b)
    BY <2>2, <2>3, <2>4
  <2> QED BY <1>1, <1>2, <2>1, <2>3, <2>5, BuildMoves
<1> QED BY <1>3, <1>4, <1>5

(* The process dies: no bot is left, no handler and no save but a new start. *)
LEMMA CrashMoves ==
    ASSUME ChatIInv, TelegramCrash
    PROVE  ChatIInv'
<1>1. /\ updates \in Seq(UpdateKinds) /\ bots \in [Bots -> BotRows] /\ past \in PastRows
      /\ allowed \in BOOLEAN /\ 0 \notin Bots
  BY ServiceFacts
<1>2. /\ past' = Failed /\ service' = 0 /\ UNCHANGED <<allowed, updates>>
      /\ bots' = [b \in Bots |-> IF bots[b].phase = "unbuilt" THEN NoBot ELSE [NoBot EXCEPT !.phase = "gone"]]
  BY DEF TelegramCrash
<1>3. PICK s \in Savers : saves' = [t \in Savers |-> [pc |-> IF t = s THEN "startup" ELSE "idle", bot |-> 0]]
  BY DEF TelegramCrash
<1>4. past' \in PastRows /\ past'.failed BY <1>1, <1>2, FailureIsKept
<1>5. /\ bots' \in [Bots -> BotRows] /\ \A b \in Bots : bots'[b].phase \in {"unbuilt", "gone"}
      /\ \A b \in Bots, i \in Slots : bots'[b].handlers[i] = IdleHandler
  BY <1>2, NoBotOK
<1>6. saves' \in [Savers -> SaveRows] /\ \A t \in Savers : saves'[t].pc \in {"startup", "idle"}
  BY <1>3 DEF SaveRows
<1>7. ServiceTypes' BY <1>1, <1>2, <1>4, <1>5, <1>6 DEF ServiceTypes
<1>8. store' \in [current : Convs \cup {0}, made : Convs, choice : [Convs -> Overrides]]
  <2>1. store \in [current : Convs \cup {0}, made : Convs, choice : [Convs -> Overrides]] BY DEF ChatIInv, ChatTypes
  <2>2. NoChoice \in Overrides BY DEF NoChoice, Overrides
  <2>3. store' \in {store, [store EXCEPT !.current = 0], [store EXCEPT !.choice = [c \in Convs |-> NoChoice]]}
    BY DEF TelegramCrash
  <2> QED BY <2>1, <2>2, <2>3
<1>9. ChatTypes' BY <1>1, <1>2, <1>8 DEF ChatTypes
<1>10. SavesOwnBots' BY <1>2, <1>6 DEF SavesOwnBots, Works
<1>11. OneIsUp' BY <1>5 DEF OneIsUp, IsUp, UpPhases
<1>12. SettingsKept' BY <1>4 DEF SettingsKept
<1>13. HandlersOK' BY <1>5, IdleIsOK DEF HandlersOK, Busy
<1>14. UploadsOK' BY <1>5, IdleIsOK DEF UploadsOK
<1> QED BY <1>7, <1>9, <1>10, <1>11, <1>12, <1>13, <1>14 DEF ChatIInv

LEMMA ChatInit == TelegramInit => ChatIInv
<1> SUFFICES ASSUME TelegramInit PROVE ChatIInv OBVIOUS
<1> DEFINE First == [NoBot EXCEPT !.phase = "running", !.allowed = TRUE]
<1>1. 1 \in Bots /\ 0 \notin Bots /\ 1 \in Convs BY ChatNumbers
<1>2. /\ allowed = TRUE /\ service = 1 /\ saves = [s \in Savers |-> [pc |-> "idle", bot |-> 0]]
      /\ bots = [b \in Bots |-> IF b = 1 THEN First ELSE NoBot] /\ updates = <<>>
      /\ store = [current |-> 0, made |-> 1, choice |-> [c \in Convs |-> NoChoice]]
      /\ past = [sent |-> 0, troubles |-> 0, failed |-> FALSE, apart |-> FALSE, pressed |-> "no"]
  BY DEF TelegramInit
<1>3. /\ First \in BotRows /\ First.phase = "running" /\ First.allowed = TRUE /\ First.handlers = NoBot.handlers
  BY NoBotOK DEF BotRows, BotPhases
<1> HIDE DEF First
<1>4. /\ bots \in [Bots -> BotRows] /\ bots[1].phase = "running" /\ bots[1].allowed = TRUE
      /\ \A b \in Bots : b # 1 => bots[b].phase = "unbuilt"
      /\ \A b \in Bots, i \in Slots : bots[b].handlers[i] = IdleHandler
  BY <1>1, <1>2, <1>3, NoBotOK
<1>5. saves \in [Savers -> SaveRows] /\ \A s \in Savers : saves[s].pc = "idle" BY <1>2 DEF SaveRows
<1>6. past \in PastRows BY <1>2 DEF PastRows
<1>7. ServiceTypes BY <1>1, <1>2, <1>4, <1>5, <1>6 DEF ServiceTypes
<1>8. NoChoice \in Overrides BY DEF NoChoice, Overrides
<1>9. store \in [current : Convs \cup {0}, made : Convs, choice : [Convs -> Overrides]] BY <1>1, <1>2, <1>8
<1>10. ChatTypes BY <1>2, <1>9 DEF ChatTypes
<1>11. SavesOwnBots BY <1>2, <1>4, <1>5 DEF SavesOwnBots, Works
<1>12. OneIsUp BY <1>4 DEF OneIsUp, IsUp, UpPhases
<1>13. SettingsArrive
  <2>1. Fresh(1) BY <1>2, <1>4 DEF Fresh
  <2> QED BY <1>2, <2>1 DEF SettingsArrive
<1>14. SettingsKept BY <1>5, <1>13 DEF SettingsKept
<1>15. HandlersOK BY <1>4, IdleIsOK DEF HandlersOK, Busy
<1>16. UploadsOK BY <1>4, IdleIsOK DEF UploadsOK
<1> QED BY <1>7, <1>10, <1>11, <1>12, <1>14, <1>15, <1>16 DEF ChatIInv

LEMMA ChatStep == ChatIInv /\ [TelegramNext]_telegramVars => ChatIInv'
<1> SUFFICES ASSUME ChatIInv, [TelegramNext]_telegramVars PROVE ChatIInv' OBVIOUS
<1>1. CASE UNCHANGED telegramVars
  BY <1>1 DEF telegramVars, ChatIInv, ServiceTypes, ChatTypes, SavesOwnBots, Works, OneIsUp, IsUp, SettingsKept,
              SettingsArrive, Fresh, HandlersOK, Busy, UploadsOK, Current
<1>2. ASSUME NEW s \in Savers, UpdateSettings(s) PROVE ChatIInv' BY <1>2, UpdateSettingsMoves
<1>3. ASSUME NEW s \in Savers, StopPolling(s) PROVE ChatIInv' BY <1>3, StopPollingMoves
<1>4. ASSUME NEW s \in Savers, StopFails(s) \/ Drained(s) \/ Startup(s) PROVE ChatIInv' BY <1>4, RestartMoves
<1>5. ASSUME NEW s \in Savers, StartPolling(s) PROVE ChatIInv' BY <1>5, StartPollingMoves
<1>6. ASSUME NEW s \in Savers, PollingStarted(s) PROVE ChatIInv' BY <1>6, PollingStartedMoves
<1>7. ASSUME NEW s \in Savers, StartFails(s) PROVE ChatIInv' BY <1>7, StartFailsMoves
<1>8. ASSUME NEW kind \in MessageKinds \cup {"press"}, Send(kind) PROVE ChatIInv'
  BY <1>8, SendMoves DEF UpdateKinds
<1>9. ASSUME NEW b \in Bots, Fetch(b) \/ Take(b) \/ OldestLeavesWindow(b) PROVE ChatIInv' BY <1>9, UpdateMoves
<1>10. ASSUME NEW b \in Bots, NEW i \in Slots, NewSession(b, i) \/ ResumeSession(b, i) \/ ShowSession(b, i)
       PROVE  ChatIInv'
  BY <1>10, SessionMoves
<1>11. ASSUME NEW b \in Bots, NEW i \in Slots,
              ReadForSelection(b, i) \/ SetModelSelection(b, i) \/ SetEffortSelection(b, i)
       PROVE  ChatIInv'
  BY <1>11, SelectionMoves
<1>12. ASSUME NEW b \in Bots, NEW i \in Slots,
              HandleMessage(b, i) \/ PrepareInput(b, i) \/ RunChatMessage(b, i) \/ SettingsForConversation(b, i)
       PROVE  ChatIInv'
  BY <1>12, MessageMoves
<1>13. ASSUME NEW b \in Bots, NEW i \in Slots,
              AskPermission(b, i) \/ DenyAtGate(b, i) \/ Reply(b, i) \/ PermissionCallback(b, i)
       PROVE  ChatIInv'
  BY <1>13, TurnMoves
<1>14. CASE TelegramCrash BY <1>14, CrashMoves
<1> QED BY <1>1, <1>2, <1>3, <1>4, <1>5, <1>6, <1>7, <1>8, <1>9, <1>10, <1>11, <1>12, <1>13, <1>14
        DEF TelegramNext

(* integrations/telegram: however saves, failures, crashes, updates and      *)
(* handlers interleave, a turn's uploads are its conversation's and its      *)
(* effort one of its model's; and restarts that followed one another leave   *)
(* one bot, with the settings saved last.                                    *)
THEOREM ChatsStayServed == TelegramSpec => []ChatsAreServed
<1>1. TelegramInit => ChatIInv BY ChatInit
<1>2. ChatIInv /\ [TelegramNext]_telegramVars => ChatIInv' BY ChatStep
<1>3. ChatIInv => ChatsAreServed BY ChatsFollow
<1> QED BY <1>1, <1>2, <1>3, PTL DEF TelegramSpec

=============================================================================
