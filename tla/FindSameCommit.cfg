SPECIFICATION Spec
CONSTANTS
    Subjobs <- TwoRows
    Branches = {"main", "dev"}
    Layer <- TwoLayers
    Branch <- TwoBranch
    PlanPos <- TwoPos
    PlannedSkipped = {}
    MaxAttempts = 2
    Workers = {w1}
    Owners = {w1}
    NoOwner = NoOwner
    HostOf <- OwnHosts
    Dispatchers = {d1}
    NoDispatcher = NoDispatcher
    Commits = {"c1"}
    CommitOf <- SameCommit
    NoBranch = NoBranch
    FaultKinds = {}
    MaxFaults = 0
    MaxPending = 1
INVARIANTS
    FaultFreeJobSucceeds
