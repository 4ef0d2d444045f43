CONSTANTS
    m1 = m1  m2 = m2
    Messages = {m1, m2}
    MaxWork = 2
    MaxReplay = 2
    MaxBacklog = 2
    MaxReturns = 1
    MaxLog = 3
    MaxQueue = 2
    MaxSteps = 5
SPECIFICATION Spec
CHECK_DEADLOCK FALSE
INVARIANTS
    ViewersSeeTheTurn
    MissesAreCounted
PROPERTIES
    ReadIsNotSentAgain
    SteeringIsNotLost
    ViewsEnd
    FollowersCatchUp
