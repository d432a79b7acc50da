SPECIFICATION Spec
CONSTANTS
    c1 = c1
    c2 = c2
    narrow = narrow
    wide = wide
    NoWindow = NoWindow
    Chunk <- TwoRows
    Window <- TwoRanges
    Covers <- CoversTwo
    MaxRuns = 2
    MaxHeld = 1
    MaxRestarts = 1
    ParkAfter = 2
    AutoModes = {TRUE}
    VoteModes = {FALSE}
    BatchModes = {FALSE}
    ActivityWired = FALSE
    ChainMayRaise = FALSE
INVARIANTS
    RecoveryAlwaysTerminates
