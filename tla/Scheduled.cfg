SPECIFICATION MCSpec
CONSTANTS
    s1 = s1
    s2 = s2
    t1 = t1
    k1 = "k1"
    Schedulers = {s1, s2}
    Tasks = {t1}
    Shapes <- MCShapes
    Requests <- MCRequests
    RunAt = 1
    MaxRunning = 1
    MaxQueued = 1
    MaxFailures = 1
    MaxRuns = 3
    MaxTime = 2
    MaxEdits = 1
CHECK_DEADLOCK FALSE
INVARIANTS
    OccurrencesRunOnce
PROPERTIES
    CompletionsKeepTheirPlace
    IntentIsServed
