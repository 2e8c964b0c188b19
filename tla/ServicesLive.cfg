SPECIFICATION LiveSpec
CONSTANTS
    Requests = {"r1", "r2"}
    RepoBranches = {"main"}
    HeadOf <- OneHead
    Selected = {"main"}
    RefForms = {"short"}
    MaxOpenCalls = 2
    MaxRepoFaults = 1
    Clients = {"c1"}
    LlmWorkers = {"w1", "w2"}
    Payload <- OnePayload
    Streamed = {}
    MaxRetry = 1
    MaxClaims = 2
    MaxLlmFaults = 1
    SyncJobs = {"j1"}
    SyncWorkers = {"w1", "w2"}
    HostRepos = {"h1", "h2"}
    MaxSyncRetry = 2
    MaxSyncFaults = 2
PROPERTIES
    QueuedJobEnds
    PollerIsAnswered
    StartedSyncEnds
CHECK_DEADLOCK FALSE
