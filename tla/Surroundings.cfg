CONSTANTS
    c1 = c1  c2 = c2  s1 = s1  s2 = s2
    Callers = {c1, c2}
    MaxManagers = 2
    MaxStarts = 2
    MaxJobs = 2
    MissLimit = 2
    MaxDisturbs = 1
    MaxDay = 2
    KeepDays = 0
    MaxRecords = 2
    MaxTroubles = 2
    MaxBots = 3
    MaxUpdates = 2
    MaxFailures = 2
    ChatRateLimit = 1
    Calls = {s1, s2}
    Commands = {"plain", "contained", "install"}
    MaxEnvironments = 1
    MaxShellChanges = 1
    MaxEdits = 1
    MaxChanges = 1
SPECIFICATION Spec
SYMMETRY Symmetry
CHECK_DEADLOCK FALSE
INVARIANTS
    FileChangesAreSafe
    McpCallsAreScoped
    RecordsAreTrue
    ChatsAreServed
    CommandsAreControlled
