SPECIFICATION Spec
CONSTANTS
    Proc = {1}
    Gone = {}
    Legacy = 9
    Left <- Fresh
    Spans = {}
    Session = {s}
    Missing = Missing
    MaxTs = 1
    FollowupMax = 1
    MaxCrashes = 1
    MergeMayFail = FALSE
    EarlyNotes = FALSE
CHECK_DEADLOCK FALSE
PROPERTIES
    NotesSurviveLoads
