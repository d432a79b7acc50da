SPECIFICATION Spec
CONSTANTS
    Proc = {1, 2, 3}
    Gone = {2}
    Legacy = 9
    Left <- Inherited
    Spans = {1, 2}
    Session = {s}
    Missing = Missing
    MaxTs = 1
    FollowupMax = 1
    MaxCrashes = 1
    MergeMayFail = FALSE
    EarlyNotes = TRUE
CHECK_DEADLOCK FALSE
INVARIANTS
    TypeOK
PROPERTIES
    MarksKept
