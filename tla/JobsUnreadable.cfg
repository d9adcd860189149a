SPECIFICATION FairSpec
CHECK_DEADLOCK FALSE
CONSTANTS
    jb = jb
    jr = jr
    s1 = s1
    s2 = s2
    o1 = o1
    Job <- ReviewJob
    Stoppable <- NoJob
    Reviewing <- ReviewJob
    Stream <- OneStream
    JobOf <- ToReview1
    Observer <- Nobody
    Target <- NoTarget
    MaxLog = 1
    MaxStop = 0
    Faults <- Unreadable
PROPERTIES
    FailureSurfaces
