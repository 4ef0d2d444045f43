CONSTANTS
    r1 = r1  r2 = r2
    Runs = {r1, r2}
    Watched = r1
    PageSize = 2
    MaxPerRun = 2
    MaxTotal = 2
    MaxSeq = 4
    MaxFaults = 1
SPECIFICATION MCEventsSpec
CHECK_DEADLOCK FALSE
INVARIANTS
    HistoriesAreSuffixes
PROPERTIES
    ShowsTheFeed
    ViewerLearnsTheEnd
