SPECIFICATION FairSpec
CONSTANTS
    Nobody = nobody
    Sweeper = sweeper
    a = a
    b = b
    Session <- Both
    Workload <- QuietAndRaising
    MaxTurns = 2
    Repeats = 1
    LateRequests = FALSE
    MaxLane = 3
    MayStop = TRUE
CHECK_DEADLOCK FALSE
INVARIANTS
    TypeOK
    ScoredOnce
    NothingLostAtStop
    AckMeansStored
PROPERTIES
    TurnsPersist
    RequestsAnswered
