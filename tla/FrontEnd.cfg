SPECIFICATION FrontEndOfTexts
CONSTANTS
    rtlFile = rtlFile
    header = header
    Guard = Guard
    File <- Files
    Nowhere = Nowhere
    Macro <- Macros
    Given <- None
    Top <- RtlFiles
    Line <- AllLines
    MaxLine <- AllBounds
    Literal <- Literals
    Suffix = ".v"
    ClockName <- ClockNames
    ResetName <- ResetNames
    Called <- Calls
    Alphabet <- Letters
    Threshold <- LowThreshold
    Settings <- LowSettings
INVARIANTS
    FrontEndTypeOK
    ActiveIsSelected
    ConditionalErrorIsTrue
    CommentErrorIsTrue
    GuardedOnce
PROPERTIES
    LegalTextIsRead
    EveryItemAdvances
    DamageIsContained
    NetReportsAreTrue
    OpenPortsAreReported
    LatchIsReported
    WidthReportIsTrue
    MachineReportsAreTrue
    CrossingIsReported
