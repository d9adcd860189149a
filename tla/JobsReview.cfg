SPECIFICATION FairSpec
CHECK_DEADLOCK FALSE
CONSTANTS
    jb = jb
    jr = jr
    s1 = s1
    s2 = s2
    o1 = o1
    Job <- ReviewJob
    Stoppable <- NoJob
    Reviewing <- ReviewJob
    Stream <- TwoStreams
    JobOf <- ToReview2
    Observer <- Snapshots
    Target <- ReviewTarget
    MaxLog = 1
    MaxStop = 0
    Faults <- Disconnects
INVARIANTS
    SnapshotExplainsStatus
    TerminalEventAfterFields
PROPERTIES
    ImplementsLifecycle
    SoleStreamEnds
