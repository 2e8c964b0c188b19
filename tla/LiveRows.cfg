SPECIFICATION FairSpec
CONSTANTS
    Subjobs <- CoreRows
    Branches = {"main"}
    Layer <- CoreLayers
    Branch <- CoreBranch
    PlanPos <- CorePos
    PlannedSkipped = {}
    MaxAttempts = 2
    Workers = {w1}
    Owners = {w1}
    NoOwner = NoOwner
    HostOf <- OwnHosts
    Dispatchers = {d1}
    NoDispatcher = NoDispatcher
    Commits = {"c1"}
    CommitOf <- OneCommit
    NoBranch = NoBranch
    FaultKinds = {"crash", "claim", "graphskip"}
    MaxFaults = 2
    MaxPending = 1
PROPERTIES
    RowsTerminate
    FailedRowEndsJob
