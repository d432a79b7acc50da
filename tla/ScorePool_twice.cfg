SPECIFICATION Spec
CONSTANTS
    Turn <- Four
    Session <- OneSession
    Index <- FromOne
    Points <- Three
    Threshold = 6
    ForcedCap = 9
    CreditMayFail = FALSE
    DrainMayFail = FALSE
    SchedulerOn = TRUE
    MaxRestarts = 2
    MaxEvents = 3
INVARIANTS
    NoPointTwice
