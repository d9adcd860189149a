SPECIFICATION FairSpec
CONSTANTS
    r1 = r1
    r2 = r2
    Run <- OneRun
    NoRun = NoRun
    Overlap = FALSE
    Faults <- AllFaults
PROPERTIES
    StopPreventsSuccess
    StopEndsRun
    ImplementsContract
