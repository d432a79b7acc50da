SPECIFICATION Spec
CONSTANTS
    Turns = 2
    Replies = {2}
    MaxPeriod = 2
    MaxCrashes = 1
    MaxExtra = 0
    AnswersMix = FALSE
INVARIANTS
    FirstAckRecovers
