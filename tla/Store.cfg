SPECIFICATION StoreSpec
CONSTANTS
    Subjobs <- TwoSubjobs
    Branches = {"main", "dev"}
    Layer <- TwoLayers
    Branch <- TwoBranch
    PlanPos <- TwoPos
    PlannedSkipped = {"skip1"}
    Owners = {w1, w2}
    NoOwner = NoOwner
    MaxAttempts = 2
INVARIANTS
    NoTakeover
    DependencyOrder
    ActivationsSerialized
    CompletedMeansDone
PROPERTIES
    TerminalIsFinal
    KeepsPromise
