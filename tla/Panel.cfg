SPECIFICATION FairSpec
CHECK_DEADLOCK FALSE
CONSTANTS
    j1 = j1
    j2 = j2
    Job <- TwoJobs
    NoJob = NoJob
    Pages <- PageKind
    Faults <- FaultKind
INVARIANTS
    TypeOK
    BusyPageCannotRun
    OneJobAtATime
PROPERTIES
    UnclearedPageComesBack
