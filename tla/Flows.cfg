SPECIFICATION Flows
CONSTANTS
    Wide = 4
    Name <- Names
    Design <- Designs
    Texts <- SomeTexts
    Absent <- NoText
    Commands <- SomeCommands
    RuleCases <- SomeRuleCases
    SyntaxRules <- SomeSyntaxRules
    UnsupportedRules <- SomeUnsupportedRules
    MaxRun = 2
    MaxEdit = 1
    MaxFault = 1
    Rank <- Ranks
    Corpora <- SomeCorpora
    BuiltIn <- SomeBuiltIn
    Required <- SomeRequired
    Outcomes <- SomeOutcomes
    Baseline = 2
    MaxBroken = 1
INVARIANTS
    FlowsTypeOK
    ComponentsAreClasses
    StackIsConnected
    RealLoopIsReported
    ReviewKeepsResults
    ArtifactsAreOfThisRun
    DiffVerdictIsTrue
