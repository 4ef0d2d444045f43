---------------------------- MODULE MCSurroundings ----------------------------
(* Small instances of the modules around a turn that share no state: in a     *)
(* behaviour one of them runs and the others stand still.                     *)
EXTENDS McpServers, RunRecords, TelegramChats, ShellCommands, FileEffects

CONSTANTS c1, c2, s1, s2

VARIABLE scene

Symmetry == Permutations({c1, c2})

(* One initial state for each module that stands still.                      *)
Still ==
    /\ scene # "records" => support
    /\ scene # "shell" => settings.permission = "default" /\ docker
    /\ scene # "files" =>
          /\ op = [kind |-> "write", by |-> "turn", overwrite |-> TRUE, platform |-> "posix"]
          /\ \A p \in Paths : disk[p] = Absent
          /\ policy.change = "allowed"

Init ==
    /\ scene \in {"mcp", "records", "telegram", "shell", "files"}
    /\ McpInit /\ RecordsInit /\ TelegramInit /\ ShellInit /\ FilesInit
    /\ Still

(* The bounds.  Of two jobs of the bridge at a time, one is a call of the tool *)
(* and the other changes the connection; Telegram's application is rebuilt    *)
(* twice only around a single update; one of two shell calls is trusted; one  *)
(* thing changes around a file.                                               *)
BusyWith(jobs) == {c \in Callers : caller[c].job \in jobs}
OneOfEach ==
    /\ Cardinality(BusyWith({"tool", "approved"})) <= 1
    /\ Cardinality(BusyWith({"refresh", "reconnect", "enable", "reset"})) <= 1
OneIfRebuiltTwice == past.sent <= 1 \/ bots[MaxBots].phase = "unbuilt"
OneTrusted == request[s1].kind = "plain"
OneChange == counts.edits + counts.changes <= 1

Mcp      == scene = "mcp"      /\ McpNext /\ OneOfEach'
Records  == scene = "records"  /\ RecordsNext
Telegram == scene = "telegram" /\ TelegramNext /\ OneIfRebuiltTwice'
Shell    == scene = "shell"    /\ ShellNext /\ OneTrusted'
Files    == scene = "files"    /\ FilesNext /\ OneChange'

Next ==
    /\ UNCHANGED scene
    /\ \/ Mcp      /\ UNCHANGED <<recordVars, telegramVars, shellVars, filesVars>>
       \/ Records  /\ UNCHANGED <<mcpVars, telegramVars, shellVars, filesVars>>
       \/ Telegram /\ UNCHANGED <<mcpVars, recordVars, shellVars, filesVars>>
       \/ Shell    /\ UNCHANGED <<mcpVars, recordVars, telegramVars, filesVars>>
       \/ Files    /\ UNCHANGED <<mcpVars, recordVars, telegramVars, shellVars>>

Spec == Init /\ [][Next]_<<scene, mcpVars, recordVars, telegramVars, shellVars, filesVars>>
=============================================================================
