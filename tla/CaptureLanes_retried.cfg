SPECIFICATION FairSpec
CONSTANTS
    Nobody = nobody
    Sweeper = sweeper
    a = a
    b = b
    Session <- Both
    Workload <- JustOne
    MaxTurns = 2
    Repeats = 0
    LateRequests = FALSE
    MaxLane = 2
    MayStop = FALSE
CHECK_DEADLOCK FALSE
PROPERTIES LostRetried
