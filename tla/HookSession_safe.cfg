SPECIFICATION FairSpec
CONSTANTS
    Turns = 3
    Replies = {2}
    MaxPeriod = 2
    MaxCrashes = 1
    MaxExtra = 1
    AnswersMix = FALSE
INVARIANTS
    OutagesCovered
    OneReplyInFlight
PROPERTIES
    TurnsArrive
