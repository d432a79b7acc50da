SPECIFICATION FairSpec
CONSTANTS
    Events = {e1, e2}
    Manuals = {m1}
    Resumes <- TwoJournals
    Release = release
    NoJob = nojob
    MaxFlips = 3
    MayRaise = TRUE
    MayStop = TRUE
    r1 = r1
    r2 = r2
CHECK_DEADLOCK FALSE
INVARIANTS
    TypeOK
    EventsKept
    ResumedOnce
    HonestAnswers
PROPERTIES
    RequestsAnswered
