SPECIFICATION FairSpec
CONSTANTS
    Events = {}
    Manuals = {}
    Resumes <- OneJournal
    Release = release
    NoJob = nojob
    MaxFlips = 1
    MayRaise = FALSE
    MayStop = FALSE
    r1 = r1
    r2 = r2
CHECK_DEADLOCK FALSE
PROPERTIES RetainedResumesRun
