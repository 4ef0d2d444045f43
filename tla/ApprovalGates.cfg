CONSTANTS
    c1 = c1
    c2 = c2
    Calls <- TwoCalls
    Unattended <- OneUnattended
    MaxTickets = 3
    MaxHops = 2
SPECIFICATION BoundedSpec
CHECK_DEADLOCK FALSE
INVARIANTS
    ConsentBeforeEffect
    ToldTheTruth
    DecisionsWakeTheGate
