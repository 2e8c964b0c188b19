SPECIFICATION Spec
CONSTANTS
    Subjobs <- TwoRows
    Branches = {"main", "dev"}
    Layer <- TwoLayers
    Branch <- TwoBranch
    PlanPos <- TwoPos
    PlannedSkipped = {}
    MaxAttempts = 2
    Workers = {w1}
    Owners = {w1}
    NoOwner = NoOwner
    HostOf <- OwnHosts
    Dispatchers = {d1}
    NoDispatcher = NoDispatcher
    Commits = {"c1", "c2"}
    CommitOf <- OwnCommits
    NoBranch = NoBranch
    FaultKinds = {"planner", "plan", "repair"}
    MaxFaults = 2
    MaxPending = 1
INVARIANTS
    CalledInTurn
