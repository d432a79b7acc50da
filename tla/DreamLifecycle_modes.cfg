SPECIFICATION Spec
CONSTANTS
    c1 = c1
    c2 = c2
    narrow = narrow
    wide = wide
    NoWindow = NoWindow
    Chunk <- OneRow
    Window <- OneRange
    Covers <- CoversRow
    MaxRuns = 2
    MaxHeld = 1
    MaxRestarts = 1
    ParkAfter = 2
    AutoModes = {TRUE, FALSE}
    VoteModes = {TRUE}
    BatchModes = {FALSE}
    ActivityWired = TRUE
    ChainMayRaise = TRUE
PROPERTIES
    KeepsPromise
