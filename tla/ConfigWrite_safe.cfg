SPECIFICATION Spec
CONSTANTS
    MaxWrites = 2
    MaxBoots = 2
    MaxEdits = 1
    MaxFailures = 1
    Rollbacks = TRUE
CHECK_DEADLOCK FALSE
INVARIANTS
    Converged
    AckedInForce
    LinkHeld
PROPERTIES
    FreshSave
    KeepsRegister
