SPECIFICATION Spec
CHECK_DEADLOCK FALSE
CONSTANTS
    jb = jb
    jr = jr
    s1 = s1
    s2 = s2
    o1 = o1
    Job <- BackendJob
    Stoppable <- BackendJob
    Reviewing <- NoJob
    Stream <- TwoStreams
    JobOf <- ToBackend2
    Observer <- Nobody
    Target <- NoTarget
    MaxLog = 2
    MaxStop = 2
    Faults <- AllFaults
INVARIANTS
    TypeOK
    OnlyNotesAfterTerminal
PROPERTIES
    StoppedJobNeverSucceeds
