CONSTANTS
    s1 = s1  k1 = k1  k2 = k2
    Sources = {s1}
    Keys = {k1, k2}
    MaxOwners = 3
SPECIFICATION MCUndoSpec
CHECK_DEADLOCK FALSE
INVARIANTS
    OneHandPerUndo
PROPERTIES
    EditsSurvive
    KeepsPromise
    AbandonedUndosAreSettled
