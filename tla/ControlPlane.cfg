SPECIFICATION ControlSpec
CONSTANTS
    Requests = {r1, r2}
    RepoBranches = {main, dev}
    HeadOf <- SameHead
    Selected = {main, dev}
    RefForms = {"short"}
    MaxOpenCalls = 2
    MaxRepoFaults = 1
    PathInfo <- SmallRepo
    DirOrder <- SmallDirs
    FirstTrees <- SmallTrees
    Blobs = {1, 2}
    EnabledClasses = {"ts-js", "go", "jvm"}
    MaxProjects = 2
    MaxCommits = 3
    MaxPlanFaults = 1
    ConfigCalls = {c1, c2}
    ConnNames = {n1, n2}
    FirstName = n1
    SecretKeys = {k}
    ModelNames = {m1, m2}
    Nothing = Nothing
    SyncJobs = {j1, j2}
    SyncWorkers = {w1, w2}
    HostRepos = {h1, h2}
    MaxSyncRetry = 2
    MaxSyncFaults = 1
    HostKinds = {"github", "gitlab", "gitea", "bitbucketCloud", "bitbucketServer", "gerrit", "azuredevops", "gitURL", "gitFile"}
    HostContainers <- TwoContainers
    HostWorlds <- SmallWorlds
    HostRules = {"forks", "repos"}
    PerPage = 2
    PageServed = 2
    MaxHostFaults = 4
SYMMETRY LifecycleSymmetry
INVARIANTS
    ControlTypeOK
    
    
    SecretRefsResolve
    
PROPERTIES
    
    CompletedSyncStays
CHECK_DEADLOCK FALSE
