SPECIFICATION Spec
CONSTANTS
    Subjobs <- ScipRows
    Branches = {"main"}
    Layer <- ScipLayers
    Branch <- ScipBranch
    PlanPos <- ScipPos
    PlannedSkipped = {"skip"}
    MaxAttempts = 1
    Workers = {w1}
    Owners = {w1}
    NoOwner = NoOwner
    HostOf <- OwnHosts
    Dispatchers = {d1}
    NoDispatcher = NoDispatcher
    Commits = {"c1"}
    CommitOf <- OneCommit
    NoBranch = NoBranch
    FaultKinds = {"run", "semantic", "unavailable", "artifact", "graph", "graphskip"}
    MaxFaults = 2
    MaxPending = 2
INVARIANTS
    ActiveGraphIsReady
