SPECIFICATION Spec
CONSTANTS
    MaxWrites = 4
    MaxBoots = 2
    MaxEdits = 0
    MaxFailures = 0
    Rollbacks = TRUE
CHECK_DEADLOCK FALSE
INVARIANTS
    NeverRefused
