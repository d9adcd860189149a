SPECIFICATION Spec
CONSTANTS
    r1 = r1
    r2 = r2
    Run <- TwoRuns
    NoRun = NoRun
    Overlap = FALSE
    Faults <- NoToolFault
SYMMETRY RunSymmetry
INVARIANTS
    TypeOK
    NoOrphan
    SuccessIsOwn
    StopDelivered
    ControllerTracksWorker
