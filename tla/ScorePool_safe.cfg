SPECIFICATION Spec
CONSTANTS
    Turn <- Four
    Session <- OneSession
    Index <- FromZero
    Points <- Three
    Threshold = 6
    ForcedCap = 9
    CreditMayFail = TRUE
    DrainMayFail = TRUE
    SchedulerOn = TRUE
    MaxRestarts = 2
    MaxEvents = 3
INVARIANTS
    TypeOK
    NeverRefired
    NoPointDropped
    EventCoversItsTurns
