SPECIFICATION Spec
CONSTANTS
    Subjobs <- CoreRows
    Branches = {"main"}
    Layer <- CoreLayers
    Branch <- CoreBranch
    PlanPos <- CorePos
    PlannedSkipped = {}
    MaxAttempts = 2
    Workers = {w1, w2}
    Owners = {w1, w2}
    NoOwner = NoOwner
    HostOf <- OwnHosts
    Dispatchers = {d1, d2}
    NoDispatcher = NoDispatcher
    Commits = {"c1"}
    CommitOf <- OneCommit
    NoBranch = NoBranch
    FaultKinds = {"stall", "slowpass"}
    MaxFaults = 1
    MaxPending = 1
SYMMETRY ProcessSymmetry
INVARIANTS
    ExclusiveAttempt
