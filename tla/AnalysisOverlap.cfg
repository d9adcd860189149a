SPECIFICATION Spec
CONSTANTS
    r1 = r1
    r2 = r2
    Run <- TwoRuns
    NoRun = NoRun
    Overlap = TRUE
    Faults <- NoFaults
INVARIANTS
    SuccessUsesOwnConstraints
