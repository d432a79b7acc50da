SPECIFICATION FairSpec
CONSTANTS
    MaxTurn = 2
    Floor = 1
    Cap = 2
    MaxAttempts = 3
    PoolFires = TRUE
    Silent = TRUE
CHECK_DEADLOCK FALSE
INVARIANTS
    TypeOK
    StreakAwaitsSomething
PROPERTIES
    OneRefirePerFailure
    StreakSettles
