SPECIFICATION SharedSpec
CONSTANTS
    GraphCommits = {1, 2}
    GraphPayloads <- SmallPayloads
    ScipRows <- SmallScipRows
    GraphDeliveries = {1, 2, 3}
    Deployments <- TwoDeployments
    GraphWorkers = 2
    MaxStatementTries = 2
    MaxGraphFaults = 1
    ScipPlans <- TwoPlans
    LanguageOf <- SmallLanguages
    ScipArtifacts <- SmallArtifacts
    SemanticSymbols = {"f", "g", "x", "k"}
    LineSpan = 10
    SpanMax = 127
    StatusRevs <- BranchAndTag
    DefaultBranch = "main"
    Policies <- TwoPolicies
    FirstPolicy <- WidePolicy
    PutCalls = {"p1"}
    MaxRuns = 2
INVARIANTS
    SharedTypeOK
    ReadyIsWhole
    IngestedIsWhole
    SettledStatusIsTrue
    EnclosingIsInnermost
    
PROPERTIES
    ReadyStays
CHECK_DEADLOCK FALSE
