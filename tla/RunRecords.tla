------------------------------ MODULE RunRecords ------------------------------
(***************************************************************************)
(* The recorder of agent/observability/recorder.py: rows about runs,       *)
(* their events, errors and replays in a database of its own, the same     *)
(* events and errors as lines of daily files, and exported bundles.  The   *)
(* calls of the event loop, of a thread that logs an error and of the      *)
(* thread that cleans up meet at its lock, which the files are not under.  *)
(***************************************************************************)
EXTENDS Naturals, FiniteSets

CONSTANTS
    MaxDay,       \* the last day of the model
    KeepDays,     \* RETENTION_DAYS (30)
    MaxRecords,   \* events and errors recorded
    MaxTroubles   \* failing writes, crashes, cleanings, changes of support mode and of the day, in all

ASSUME RecordsAssumption == KeepDays \in Nat

VARIABLES
    support,    \* whether support mode is on for the session
    today,
    run,        \* the observed turn, and its row
    rows,       \* the rows of its events and of errors
    files,      \* the lines of the daily files, the bundles and the replays
    loop,       \* the recorder's call on the event loop
    logger,     \* the call of a thread that logged an error
    cleaner,    \* the thread that cleans up
    tally       \* ids given, mishaps; history: what was asked for and what was deleted

recordVars == <<support, today, run, rows, files, loop, logger, cleaner, tally>>

Quiet    == [pc |-> "idle", id |-> 0, day |-> 0, kind |-> "none", content |-> FALSE]
NoRow    == [kept |-> FALSE, day |-> 0, status |-> "none", events |-> 0, tools |-> 0, message |-> FALSE]

RecordsInit ==
    /\ support \in BOOLEAN /\ today = 1
    /\ run = [pc |-> "new", calls |-> 0, row |-> NoRow]
    /\ rows = {} /\ files = {}
    /\ loop = Quiet /\ logger = Quiet
    /\ cleaner = [pc |-> "idle", cutoff |-> 0, doomed |-> {}]
    /\ tally = [ids |-> 0, troubles |-> 0, mishaps |-> 0, consented |-> {}, gone |-> {}, noted |-> FALSE]

Unlocked == cleaner.pc \notin {"event files", "error files", "bundles"}
MayTrouble == tally.troubles < MaxTroubles
Troubled   == [tally EXCEPT !.troubles = @ + 1]
Mishap     == [Troubled EXCEPT !.mishaps = @ + 1]   \* counted as dropped_events
Counted(r) == IF r.kept THEN [r EXCEPT !.events = @ + 1] ELSE r

------------------------------------------------------------------------------
(* log_event is where most calls end: a line, then a row and the run's count. *)

(* Faulty: what a caller passes is stored.                                    *)
LogEventAsPassed(call, kind, wants) ==
    [call EXCEPT !.pc = "line", !.id = tally.ids + 1, !.day = today, !.kind = kind, !.content = wants]

LogEvent(call, kind, wants) ==
    [call EXCEPT !.pc = "line", !.id = tally.ids + 1, !.day = today, !.kind = kind,
                 !.content = wants /\ support]
Numbered == [tally EXCEPT !.ids = @ + 1, !.consented = IF support THEN @ \cup {tally.ids + 1} ELSE @]
Room     == tally.ids < MaxRecords

Record(call) == [id |-> call.id, kind |-> call.kind, day |-> call.day, content |-> call.content]

Line(call) == [Record(call) EXCEPT !.kind = IF @ = "error" THEN "error" ELSE "event"]
AppendLine(call) ==
    \/ /\ files' = files \cup {Line(call)}
       /\ UNCHANGED tally
    \/ MayTrouble /\ tally' = Mishap /\ UNCHANGED files
Appended == files' # files

LoopLine ==
    /\ loop.pc = "line"
    /\ AppendLine(loop)
    /\ loop' = IF Appended THEN [loop EXCEPT !.pc = "insert"] ELSE Quiet
    /\ UNCHANGED <<support, today, run, rows, logger, cleaner>>

LoopInsert ==
    /\ loop.pc = "insert" /\ Unlocked
    /\ loop' = Quiet
    /\ \/ /\ rows' = rows \cup {Record(loop)}
          /\ run' = [run EXCEPT !.row = Counted(@)]
          /\ UNCHANGED tally
       \/ MayTrouble /\ tally' = Mishap /\ UNCHANGED <<rows, run>>
    /\ UNCHANGED <<support, today, files, logger, cleaner>>

------------------------------------------------------------------------------
(* The turn, on the event loop.                                               *)

StartRun ==
    /\ run.pc = "new" /\ loop.pc = "idle"
    /\ loop' = [Quiet EXCEPT !.pc = "start", !.day = today, !.content = support]
    /\ run' = [run EXCEPT !.pc = "starting"]
    /\ tally' = [tally EXCEPT !.noted = support]
    /\ UNCHANGED <<support, today, rows, files, logger, cleaner>>

(* Without its row a run has no first event either.                           *)
InsertRun ==
    /\ loop.pc = "start" /\ Unlocked
    /\ \/ /\ Room
          /\ run' = [run EXCEPT !.row = [NoRow EXCEPT !.kept = TRUE, !.day = loop.day, !.status = "running",
                                                      !.message = loop.content]]
          /\ loop' = LogEvent(loop, "turn_started", loop.content)
          /\ tally' = Numbered
       \/ MayTrouble /\ tally' = Mishap /\ loop' = Quiet /\ UNCHANGED run
    /\ UNCHANGED <<support, today, rows, files, logger, cleaner>>

(* Threads of the turn know the run as soon as start_run has returned.       *)
RunStarted == run.pc \notin {"new", "lost"} /\ (run.pc = "starting" => loop.pc = "idle")
Runs    == run.pc \in {"starting", "running"} /\ loop.pc = "idle"

(* The observer passes the input and the output of every call.                *)
TurnEvent(kind) ==
    /\ Runs /\ Room
    /\ loop' = LogEvent(loop, kind, TRUE)
    /\ tally' = Numbered
    /\ run' = [run EXCEPT !.pc = "running", !.calls = IF kind = "tool_call_finished" THEN @ + 1 ELSE @]
    /\ UNCHANGED <<support, today, rows, files, logger, cleaner>>

FinishTurn ==
    /\ Runs
    /\ \E status \in {"complete", "paused", "error"} : run' = [run EXCEPT !.pc = status]
    /\ loop' = [Quiet EXCEPT !.pc = "finish", !.content = support]
    /\ UNCHANGED <<support, today, rows, files, logger, cleaner, tally>>

(* finish_run counts the tool calls itself if the turn does not know them.    *)
ToolEvents == {r \in rows : r.kind = "tool_call_finished"}
CloseRun ==
    /\ loop.pc = "finish" /\ Unlocked
    /\ \/ /\ Room
          /\ \E tools \in {run.calls, Cardinality(ToolEvents)} :
               run' = [run EXCEPT !.row = IF @.kept THEN [@ EXCEPT !.status = run.pc, !.tools = tools] ELSE @]
          /\ loop' = LogEvent(loop, "turn_finished", loop.content)
          /\ tally' = Numbered
       \/ MayTrouble /\ tally' = Mishap /\ loop' = Quiet /\ UNCHANGED run
    /\ UNCHANGED <<support, today, rows, files, logger, cleaner>>

------------------------------------------------------------------------------
(* log_error, from any thread: a line, a row, and an event of the run.        *)

LogError ==
    /\ logger.pc = "idle" /\ Room
    /\ logger' = [Quiet EXCEPT !.pc = "line", !.id = tally.ids + 1, !.day = today, !.kind = "error"]
    /\ tally' = [tally EXCEPT !.ids = @ + 1]
    /\ UNCHANGED <<support, today, run, rows, files, loop, cleaner>>

ErrorLine ==
    /\ logger.pc = "line"
    /\ AppendLine(logger)
    /\ logger' = IF Appended THEN [logger EXCEPT !.pc = "insert"] ELSE Quiet
    /\ UNCHANGED <<support, today, run, rows, loop, cleaner>>

ErrorInsert ==
    /\ logger.pc = "insert" /\ Unlocked
    /\ \/ /\ rows' = rows \cup {Record(logger)}
          /\ run' = IF logger.kind = "error" THEN run ELSE [run EXCEPT !.row = Counted(@)]
          /\ \/ logger' = Quiet /\ UNCHANGED tally
             \/ /\ logger.kind = "error" /\ RunStarted /\ Room
                /\ logger' = LogEvent(logger, "error_event", FALSE) /\ tally' = Numbered
       \/ MayTrouble /\ tally' = Mishap /\ logger' = Quiet /\ UNCHANGED <<rows, run>>
    /\ UNCHANGED <<support, today, files, loop, cleaner>>

------------------------------------------------------------------------------
(* The dashboard: a bundle holds what get_run read, and is written without    *)
(* the lock; a replay leaves a row next to the run it repeated.               *)

ExportDebugBundle ==
    /\ loop.pc = "idle" /\ run.row.kept /\ Unlocked /\ Room /\ support
    /\ loop' = [Quiet EXCEPT !.pc = "bundle", !.id = tally.ids + 1, !.day = today, !.kind = "bundle",
                             !.content = run.row.message \/ \E r \in rows : r.content]
    /\ tally' = Numbered
    /\ UNCHANGED <<support, today, run, rows, files, logger, cleaner>>

WriteBundle ==
    /\ loop.pc = "bundle"
    /\ files' = files \cup {Record(loop)}
    /\ loop' = Quiet
    /\ UNCHANGED <<support, today, run, rows, logger, cleaner, tally>>

RecordReplay ==
    /\ loop.pc = "idle" /\ run.row.kept /\ run.row.message /\ Unlocked /\ Room
    /\ rows' = rows \cup {[id |-> tally.ids + 1, kind |-> "replay", day |-> today, content |-> FALSE]}
    /\ tally' = [tally EXCEPT !.ids = @ + 1]
    /\ UNCHANGED <<support, today, run, files, loop, logger, cleaner>>

------------------------------------------------------------------------------
(* The cleaner: Delete Data keeps the lock from the tables to the last file;  *)
(* retention takes it for the tables only.                                    *)

Settled == {r.id : r \in rows \cup files} \ {loop.id, logger.id}

DeleteAll ==
    /\ cleaner.pc = "idle" /\ MayTrouble
    /\ \/ /\ rows' = {} /\ run' = [run EXCEPT !.row = NoRow]
          /\ cleaner' = [cleaner EXCEPT !.pc = "event files", !.doomed = Settled]
          /\ tally' = Troubled
       \/ /\ MayTrouble /\ tally' = Mishap
          /\ cleaner' = [cleaner EXCEPT !.pc = "event files", !.doomed = {}]
          /\ UNCHANGED <<rows, run>>
    /\ UNCHANGED <<support, today, files, loop, logger>>

Unlink(pc, kind, next) ==
    /\ cleaner.pc = pc
    /\ files' = {f \in files : f.kind # kind}
    /\ cleaner' = [cleaner EXCEPT !.pc = next, !.doomed = IF next = "idle" THEN {} ELSE @]
    /\ tally' = [tally EXCEPT !.gone = IF next = "idle" THEN @ \cup cleaner.doomed ELSE @]
    /\ UNCHANGED <<support, today, run, rows, loop, logger>>
DeleteFiles ==
    \/ Unlink("event files", "event", "error files")
    \/ Unlink("error files", "error", "bundles")
    \/ Unlink("bundles", "bundle", "idle")

Young(r) == r.day >= cleaner.cutoff

CleanupRetention ==
    /\ cleaner.pc = "idle"
    /\ cleaner' = [cleaner EXCEPT !.pc = "retention", !.cutoff = IF today > KeepDays THEN today - KeepDays ELSE 0]
    /\ MayTrouble /\ tally' = Troubled
    /\ UNCHANGED <<support, today, run, rows, files, loop, logger>>

(* A failure ends the whole pass.                                             *)
CleanupTables ==
    /\ cleaner.pc = "retention" /\ Unlocked
    /\ \/ /\ rows' = {r \in rows : Young(r)}
          /\ run' = IF Young(run.row) THEN run ELSE [run EXCEPT !.row = NoRow]
          /\ cleaner' = [cleaner EXCEPT !.pc = "old files"]
          /\ UNCHANGED tally
       \/ MayTrouble /\ tally' = Mishap /\ cleaner' = [cleaner EXCEPT !.pc = "idle"] /\ UNCHANGED <<rows, run>>
    /\ UNCHANGED <<support, today, files, loop, logger>>

CleanupFiles ==
    /\ cleaner.pc = "old files"
    /\ files' = {f \in files : Young(f)}
    /\ cleaner' = [cleaner EXCEPT !.pc = "cap"]
    /\ UNCHANGED <<support, today, run, rows, loop, logger, tally>>

(* Over the cap the oldest files go, but not those of the day.                *)
EnforceStorageCap ==
    /\ cleaner.pc = "cap"
    /\ \E oldest \in 0 .. today :
         files' = {f \in files : f.day > oldest \/ (f.kind # "bundle" /\ f.day = today)}
    /\ cleaner' = [cleaner EXCEPT !.pc = "idle", !.cutoff = 0]
    /\ UNCHANGED <<support, today, run, rows, loop, logger, tally>>

------------------------------------------------------------------------------
(* The user switches support mode, or its time is up.                         *)
ToggleSupport ==
    /\ MayTrouble /\ tally' = Troubled
    /\ support' = ~support
    /\ UNCHANGED <<today, run, rows, files, loop, logger, cleaner>>

NextDay ==
    /\ today < MaxDay /\ today' = today + 1
    /\ MayTrouble /\ tally' = Troubled
    /\ UNCHANGED <<support, run, rows, files, loop, logger, cleaner>>

(* The process dies; the next one starts with support mode off.               *)
RecordsCrash ==
    /\ MayTrouble
    /\ run' = [run EXCEPT !.pc = IF @ \in {"starting", "running"} THEN "lost" ELSE @]
    /\ loop' = Quiet /\ logger' = Quiet /\ support' = FALSE
    /\ cleaner' = [pc |-> "idle", cutoff |-> 0, doomed |-> {}]
    /\ tally' = Mishap
    /\ UNCHANGED <<today, rows, files>>

RecordsNext ==
    \/ StartRun \/ InsertRun \/ FinishTurn \/ CloseRun \/ LoopLine \/ LoopInsert
    \/ \E kind \in {"llm_call_finished", "tool_call_finished"} : TurnEvent(kind)
    \/ LogError \/ ErrorLine \/ ErrorInsert
    \/ ExportDebugBundle \/ WriteBundle \/ RecordReplay
    \/ DeleteAll \/ DeleteFiles \/ CleanupRetention \/ CleanupTables \/ CleanupFiles \/ EnforceStorageCap
    \/ ToggleSupport \/ NextDay \/ RecordsCrash

RecordsSpec == RecordsInit /\ [][RecordsNext]_recordVars

------------------------------------------------------------------------------
(* Properties *)

(* summary and get_run: a run's count of events is the number of its events,  *)
(* and what has ended is shown as it ended, whatever was deleted, pruned or   *)
(* lost in between, unless its last write failed or its process died.         *)
RunsAddUp ==
    run.row.kept =>
        /\ run.row.events = Cardinality({r \in rows : r.kind \notin {"error", "replay"}})
        /\ run.row.status \in {"running", run.pc}
        /\ run.pc \in {"complete", "paused", "error"} /\ loop.pc = "idle" /\ run.row.status = "running" =>
               tally.mishaps > 0
        /\ run.row.status # "running" /\ tally.mishaps = 0 /\ tally.gone = {} => run.row.tools = run.calls

(* What was said or returned is stored only by a call made in support mode,   *)
(* also when the mode ends while the call is under way or the turn goes on    *)
(* (_capture_sensitive_content).                                              *)
ContentWasAskedFor ==
    /\ \A r \in rows \cup files : r.content => r.id \in tally.consented
    /\ run.row.message => tally.noted

(* Nothing that was on record when Delete Data began is there once it has     *)
(* ended; a call under way may still add what it is about (delete_all).       *)
DeletedIsGone == \A r \in rows \cup files : r.id \notin tally.gone

RecordsAreTrue == RunsAddUp /\ ContentWasAskedFor /\ DeletedIsGone
=============================================================================
