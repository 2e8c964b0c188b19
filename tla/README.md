# Verification of codeintel

TLA+ specifications, model-checking runs and machine-checked proofs for the
backend of codeintel. Paths below are relative to the repository; `PROJECT.json`
gives the source lines of every definition, the hazards of the code with the
properties that watch them, and the theorems.

## 1. The system

`codeintel-app` serves the HTTP API and the MCP tools. `codeintel-backend` runs
the workers: it takes tasks from asynq queues in Redis, keeps every durable state
in Postgres and writes code graphs to Nebula. `codeintel-indexer-rs` runs the
language indexers, Zoekt the text search.

1. **Configuration.** An owner stores secrets, connections and language models.
   A connection is synced by a job that lists the repositories of a code host and
   upserts a `Repo` row for each.
2. **Scheduling.** A request to index or remove a repository, or one ref of it,
   inserts a `RepoIndexingJob` and enqueues a task.
3. **Planning.** The INDEX handler (`repoindexmanager`) clones the repository,
   compares each selected revision with its last READY manifest, and inserts one
   `CodeIntelIndexSubjob` row per layer: ZOEKT, AST_TREE_SITTER, SCIP (one per
   project), GRAPH_MERGE, ACTIVATE.
4. **Dispatch and work.** The dispatch loop of any backend process, under a lock
   row, requeues expired leases, lists the rows whose dependencies are done and
   enqueues a task for the next attempt of each. Workers claim a row with a lease
   (`indexexecutor`, `indexcore`), send heartbeats and mark the row.
5. **Contents.** AST rows write a PARTIAL `CodeGraphIndex` (`codegraphwriter`), SCIP
   rows are ingested (`scipartifact`), GRAPH_MERGE projects them into the graph and
   promotes it to READY, ACTIVATE turns the manifest READY, and the last row
   completes the job.
6. **Reading.** Status endpoints, MCP graph tools (with caches in Redis), the graph
   reader, the LLM gateway and the chat read what the jobs left, while other jobs run.

What makes the system correct: a worker that lost its lease changes nothing and no
attempt runs twice at once; no row runs before the rows it depends on; what is
served is whole; terminal rows stay as they are; answers are never older than the
question; every job ends.

## 2. Modules

| Module | Models | State and actions |
|---|---|---|
| `IndexJob` | what a job promises to whoever asked for it | its phase, and which revisions are planned, built and served |
| `IndexSubjobs` | `indexsubjobs/store.go`, `indexcore` transactions | the durable rows of one job; one action per SQL statement or transaction, under the name of the Go function. It is **open**: anybody may call any statement at any time with any lease |
| `IndexPipeline` | `repoindexmanager`, the dispatcher, `indexexecutor`, `indexcore`, restart | the INDEX task, dispatch passes, asynq tasks, worker slots with the place each handler has reached, the snapshot row of a commit, faults |
| `RepoLifecycle` | `scheduler`, INDEX, REMOVE_INDEX and CLEANUP of `repoindexmanager` | requests, jobs, tasks, the shared clone, and every table and store a removal touches, delete by delete |
| `IndexPlanning` | `repodelta`, `indexplanner`, project detection | a chain of pushed trees, the last READY manifest, the plan of the run under way |
| `ConnectionSync` | `connectionmanager`, its scheduling | the sync job, its task, runs of the handler, `Repo` rows and links |
| `CodeHosts` | the host clients of `connectionmanager` | one listing: container, page, retries, records, warnings |
| `OrgConfig` | the API handlers of connections, secrets and models | the three tables and the calls, statement by statement |
| `GraphWrites` | `codegraphwriter`, the merge of `indexcore`, the graph store | manifest, `CodeGraphIndex` row and stored rows of a commit, deliveries with their place |
| `ScipIngest` | `scipartifact` | artifacts, ingested rows, subjobs of the plan, the index row |
| `IndexStatus` | the status endpoints | the rows they read, one read at a time, against jobs that move |
| `GraphReads` | the MCP graph tools and their caches | what the stores hold, three caches, the reads of each call |
| `GraphInspect` | the graph reader | query plan, seeds, traversal step by step, ranking |
| `LLMGateway` | `llmgateway` | the request row, tasks per claim, clients and workers |
| `ChatTurns` | the chat API | the messages of a chat and the calls on it |

`MCIndexSubjobs`, `MCIndexPipeline`, `MCControlPlane`, `MCSharedRows`,
`MCAnswering` and `MCServicesLive` give the constants small values. The last four
put parts that share no variables into one run: `focus` says which part a
behaviour is about, and the others keep their first state. Eight modules
`...Proofs` hold the theorems (section 4). A definition `X_Variant` is a faulty
variant of `X` that no specification uses: put in the place of `X`, it shows that a
property notices the fault.

**How the job modules fit together.** A step of `IndexPipeline` that touches
Postgres is an action of `IndexSubjobs` joined with the step of the process that
takes it. `IndexPipeline` implements `StoreSpec`, and `StoreSpec` implements
`IndexJob` (`KeepsPromise`). `attemptId` is a fresh UUID per claim in the code and
the number of the attempt in the model; theorem `AttemptsHandedOutOnce` shows that
this identifies it. `offered` is the set of (row, attempt) pairs that were ever
listed, so a task may arrive late, twice or never. A few statements carry a
condition that is their caller's and not their SQL's; `CalledInTurn` says that
the processes call them only so.

**Faults.** Crashes, failed statements, stalled workers, lost and repeated
deliveries are actions or disjuncts of their own. Each takes one unit of a bounded
budget (`MaxFaults` and its like), so that behaviours with and without them are
told apart by a counter.

### What the abstraction leaves out

- A statement is atomic. The skew between two concurrent statements inside
  Postgres (READ COMMITTED) is not represented.
- The two lease checks of the AST ingest are one step. A handler whose heartbeat
  noticed a lost lease moves on, although the code may leave its function running
  for some time; a writer that outlives its lease is modelled by the stall.
- `IndexSubjobs` and `IndexPipeline` are one job of fixed commits. Several jobs of a
  repository meet in `RepoLifecycle`, where the inside of a job is coarser, and new
  commits arrive in `IndexPlanning`.
- LIMITs of statements, tenant columns, texts, names, file contents and rendered
  nGQL are abstracted to what the properties tell apart.

## 3. Runs

| Run | Instance | Shows | States |
|---|---|---|---|
| `store` | two revisions, two owners, two attempts, a skipped SCIP project | stale holders are fenced (`NoTakeover`), dependencies come first, one activation at a time, a COMPLETED job is done, terminal rows are final, and the rows keep the promise of `IndexJob` | 245 k |
| `pipeline_faults` | one revision, two workers, one fault of nine kinds | the processes implement `StoreSpec`, active graphs are READY, a failed job has a failed row | 550 k |
| `pipeline_stall` | two workers, two dispatchers, one stall or one pass that outlives its lock | no attempt runs twice at once | 670 k |
| `pipeline_scip` | SCIP projects, one attempt per row, two faults | a graph from AST, from SCIP alone or missing: an active one is READY | 244 k |
| `pipeline_replan` | two revisions, an INDEX task that fails twice and is delivered again, repairs | statements whose SQL relies on the caller are called in turn | 782 k |
| `live_rows` | two faults of crash, claim, skipped graph | every planned row ends, a FAILED row ends the job | 283 k |
| `live_job` | one fault, no crash of a process | every job ends | 26 k |
| `control_plane` | two requests on two branches at one commit; three commits; two configuration calls; two syncs; nine kinds of hosts over all small containers | a settled revision has its graph and a removal is exact; the commit said to be indexed is served; secrets of references exist; completed syncs stay; a listing is complete or says why not | 891 k |
| `shared_rows` | three deliveries and merges for two commits; three SCIP projects in two plans; two jobs under the status endpoints | a READY snapshot is whole and stays READY; ingested SCIP rows are those of the plan; the status tells the truth; occurrences go to the innermost definition | 1.2 M |
| `answering` | two graph calls over two snapshots; three small graphs with all kinds of questions; three clients and two workers of one LLM request; three calls on a chat | answers are never stale, compact ones are of one snapshot, healthy calls succeed; the traversal is breadth-first; requests have an owner, answers stay and are stored once per question | 1.2 M |
| `services_live` | two jobs of a repository, one polling client, one sync with two workers; one or two faults in each | queued jobs, polled requests and started syncs end | 108 k |
| `find_same_commit` | two revisions at one commit, no fault | **violation**: the job fails although nothing went wrong (section 6) | |

### Bounds

`MaxAttempts` is 2 (3 in the code): a first, a retried and a last attempt all
occur; it is 1 in `pipeline_scip`, where rows should be exhausted quickly.
`MaxPending` limits the tasks pending at once to 1, or 2 in `pipeline_scip`; a
duplicate still meets its original, since one can be pending while a worker holds
the other. Two workers suffice for two holders of one row, and two calls or
deliveries for every window between a read and the write that relies on it; there
are three where the third makes a difference (a client with another payload under
the same request id, a payload of another mode, a poll beside two turns). Page size
two and up to three repositories give a full, a short and an empty page. Fault
budgets count faults of all kinds in a behaviour.

The four runs that combine parts say `CHECK_DEADLOCK FALSE`: their numbers of
requests, pushes, calls and deliveries are finite, and a behaviour really may stop
when they are used up. Interchangeable workers, dispatchers, requests, branches and
clients are symmetric in the runs without liveness.

### Fairness

Only steps of processes that are up are weakly fair; no fault ever is.

- `FairSpec` (`IndexPipeline`): the INDEX task, each dispatcher, each worker (taking
  a task and going on with it), the start of a process that is down, and time (leases
  of dead holders, the uniqueness window of a rescue and the lock of a dead pass run
  out). The loops are tickers and asynq servers that poll, and expiry is a comparison
  with now.
- `RepoFairness`, `SyncFairness`, `LLMFairness`: a request goes on once it began,
  asynq delivers what is queued, a worker with a task goes on, a client that polls
  keeps polling and the model answers in the end or fails.

This takes for granted that no external call blocks for ever: a run that never
returns would hold its slot.

## 4. Proofs

The theorems hold for every value of the constants that satisfies the named
assumptions (`ConstantTypes`, `PlanShape`, `PipelineConstants`, `GraphConstants` and
so on): any plan, any number of processes, calls, commits, retries and faults. The
assumptions are the shape of what the callers pass in. `PlanShape` is what
`indexplanner.Build` produces: unique places, producers before the rows that wait for
them (skipped SCIP projects come last) and one ACTIVATE row per revision.
`HostConstants` says that containers and what a host answers for them are lists,
`LifecycleConstants` that a repository has finitely many branches and requests, and
`ScipConstants` that an artifact is a list of documents with distinct paths, each with
a list of occurrences whose ranges are numbers. Hypotheses beyond them are named in
the theorem. Each inductive invariant was model-checked on
the instance of a run as well, memberships in large sets of records excepted.

| Module | Theorems | Rests on |
|---|---|---|
| `IndexSubjobsProofs` | `IndInvHolds`, `TypeCorrect`, `LeasesCoherent`, `ClaimsNeverTakeOver`, `DependenciesFirst`, `ActivationsOneAtATime`, `ReadyIsProduced`, `CompletedIsDone`, `TerminalStaysFinal`, `AttemptsHandedOutOnce`; `StoreKeepsPromise`, `PromiseIsKept` | `IndInv` |
| `IndexPipelineProofs` | `PipelineInvHolds`, `StatementsInTurn`, `AttemptsAreExclusive`; `PipelineImplementsStore`, and through it `PipelineKeepsPromise`, `PipelineClaimsInOrder`; `FailuresHaveCauses`, `ActiveGraphsAreReady` | `PipelineInv`; `CauseInv` and `GraphInv` over it |
| `IndexContentsProofs` | `IndexedCommitsAreServed`; `GraphInvHolds`, `ReadySnapshotsAreWhole`, `ReadySnapshotsStay` | `PlanningInv`; `GraphInv` |
| `ScipProofs` | `ScipInvHolds`, `ScipStatusIsTrue`, `IngestionsAreWhole`, `OccurrencesAreInnermost`, `ScipTypesHold` | `ScipInv` |
| `RepoLifecycleProofs` | `RepoInvHolds`, `SettledRevisionsHaveGraphs`, `RemovalsAreExact`, `RepoTypesHold` | `RepoInv` |
| `ControlPlaneProofs` | `HostInvHolds`, `ListingsAreComplete`, `ListingTypesHold`; `SyncInvHolds`, `CompletedSyncsStay`; `OrgInvHolds`, `SecretReferencesResolve` | `HostInv`; `SyncInv`; `OrgInv` |
| `ReadProofs` | `ReadsInvHolds`, `AnswersAreFresh`, `CompactAnswersAreOfOneSnapshot`, `HealthyCallsSucceed`, `ReadTypesHold`; `StatusInvHolds`, `StatusIsTrueHolds`, `StatusTypesHold` | `ReadsInv`; `StatusInv` |
| `AnsweringProofs` | `GatewayInvHolds`, `RequestsHaveOwners`, `AnswersStay`, `GatewayTypesHold`; `AnswersWereAsked`; `InspectInvHolds`, `WalksAreExact` | `GatewayInv`; `ChatInv`; `InspectInv` |

**The store.** Claims check no dependencies, so `DependencyOrder` has to follow from
the moment of listing: `OfferCoherence` says that a pair that was ever listed had its
dependencies done, and that done rows stay done. That needs the plan to be inserted
in order (`PlanPrefix`): otherwise a dependency could appear after its dependant was
listed. `RowShape` says that rows inserted as SKIPPED stay so and that a claimed
attempt was listed, `ReadyHasActivation` ties a READY manifest to its ACTIVATE row.
The preservation proof groups the statements by what they may change. The refinement
of `IndexJob` maps every statement to one of its steps or to a stutter.

**The processes.** `PipelineInv` adds to `IndInv` that every task in the queue was
offered, and that a worker past its claim holds an attempt that was handed out, that
nobody else has it, and that its row is where the worker left it unless its lease was
taken away. That the workers keep it is proved in `IndexSubjobsProofs`, behind the
store; the planner and the dispatchers follow in `IndexPipelineProofs`. From it every
step of a process is a step of `StoreSpec`, so all that was proved of the open store
holds of the pipeline.

**How a job ends.** `FailuresHaveCauses` assumes that the INDEX task is not delivered
again and finds its repository (no `"planner"` and no `"plan"` fault) and that no
SCIP project is skipped. `ActiveGraphsAreReady` assumes that no live worker stalls
past its lease (`"stall"`) and that the revisions of a job have distinct commits. The
assumptions are needed: without each of them the property fails in the code, and
section 6 says how.

**Contents.** `PlanningInv` says that what is planned or indexed was pushed and that
the READY manifest holds a tree; the rest is an argument about sets of paths: a file
the delta plan leaves out has the same blob in that manifest and in the new tree.
`GraphInv` says, of every commit on which no two writers crossed, that at most one
writer is at work on it, that the row is BUILDING while rows are replaced, that a
merge starts only from a settled row, and which of its rows a writer at each of its
statements has stored already.

**SCIP rows.** Projects share symbol and relationship rows: the project that inserts
first owns the row, and its next ingestion deletes it. `ScipInv` says whose rows there
are and, for every ingested artifact, that what it describes is there under some
project. That survives the deletion only if the owner describes the symbol again, which
is the hypothesis `StableArtifacts` of `IngestionsAreWhole`. The status row is tied to
the last ingestion (`StatusFits`). `OccurrencesAreInnermost` is an argument about the
function itself: it takes the first scope of least `rangeSpan`, and on ordinary ranges a
scope inside another has no greater span, and the same span only if they are equal.

**The life of a repository.** `RepoInv` says where a request, its job row and its task
are, that one job at a time is active while none overlapped, that a PENDING manifest is
of a job at its subjobs, which rows a removal has deleted at each of its steps, and that
a revision no removal has touched has its graph. `RemovalsAreExact` needs one fact about
refs besides: however a client spells a branch, the candidates of `cleanupRefCandidates`
name that branch and no other.

**Control plane.** A sync run that has work left is not of a COMPLETED job unless the
task was delivered twice. A configuration call that overlaps no other still holds what
it checked when it writes. `HostInv` follows a listing page by page: every container
the config names is still to be listed, was warned about or noted, or has all that
decodes among the items; the container being listed has its pages so far in the part
kept for it.

**Readers.** The keys of the three caches carry the argument: an entry under the scope
of a snapshot holds nothing older than it, a call's key is not older than the call,
and a native traversal stays within the scopes and seeds of its key. `StatusInv` is
about the five reads behind a status answer: between jobs the `Repo` row, the manifests
and the graph rows name the same revisions (`ServedInv`); a read that meets no removal
may rely on what it has read being served still, and being all that is served if
nothing moved (`ReadInv`).

**Gateway and chat.** A busy worker runs the task of some claim, alone unless it lost
it; an IN_PROGRESS row has a live task or a caller about to enqueue one as long as
nothing failed; a task is retried without a fault only after the row was claimed
again. A chat call is about to write a list that ends with its question or has no
answer to it.

**The traversal.** `WalkIsExact` compares the walk with `Ball(call, ws)[k]`, the vertices
at most k steps from the seeds. `InspectInv` says that, as long as no statement was cut,
the visited vertices are the ball of the depth so far, the frontier is what the last
step added to it, every edge walked carries the distance of its near end, and the edges
at the ball before are all found. A workspace is left when a step adds nothing, and then
no further step would (`BallStops`), or at the depth of the plan. The plan is never
deeper than 6, so that the recursion of `Ball` is unfolded rather than induced over
(`BallUnfolds`).

### Only model-checked

- Everything about liveness: `RowsTerminate`, `FailedRowEndsJob`, `JobTerminates`,
  `QueuedJobEnds`, `PollerIsAnswered`, `StartedSyncEnds`. The prover has no fairness.
- The type invariants of planning, graph writes, syncs, configuration calls, the
  traversal and the chat as they are stated there; the proofs about these parts carry
  their own, partly weaker and partly stronger. The other conjuncts of `ControlTypeOK`,
  `SharedTypeOK` and `AnsweringTypeOK` are proved (`RepoTypesHold`, `ListingTypesHold`,
  `ScipTypesHold`, `StatusTypesHold`, `ReadTypesHold`, `GatewayTypesHold`).

## 5. Not modelled

Code search (query building and ranking are functions on text), audit, routing and
listings of the API, authentication, search contexts and workspaces, queue names,
analytics, observability, migrations, client set-up, graph schema and graph init, the
Rust indexer (what an attempt returns is a nondeterministic result of its run step),
the admin UI and Zoekt. `PROJECT.json` has the reason for each. Of question
answering, the prompts, the choice of evidence and the judging of answers are left
out; of the code hosts, names, URLs and JSON.

## 6. What the models show of the code

`find_same_commit` is a run of its own. `CodeGraphIndex` has one row per commit and
its `sourceRevision` is the last writer's. Two selected revisions at one commit, a
branch and a tag, write the same row, GRAPH_MERGE or ACTIVATE of the loser finds no
row of its own, and the job fails without any fault. `src/README.md:908` gives the
scope of a graph snapshot as `org/repo/ref/snapshot`.

The models have the following behaviours too, which is why some properties name
exceptions and some theorems assumptions. All paths are below `src/internal/`.

| Behaviour | Where | Set apart in |
|---|---|---|
| A process that dies between MarkSucceeded of the last ACTIVATE row and `completeJobIfReady` leaves the job IN_PROGRESS for ever (`src/README.md:1131`: "No queue path that loses work on pod crash.") | `backend/indexcore/handler.go` | `live_job` has no crash |
| A process that dies after the activation transaction: every retry fails on the manifest that is no longer PENDING, and the job ends FAILED although the revision is served | `backend/indexcore/handler.go:1526` | `FailureHasCause` asks for a failed row only |
| An AST writer that stalls past its lease turns the snapshot of a served revision PARTIAL; so does the second of two revisions at one commit | `backend/codegraphwriter/handler.go:180` | `ActiveGraphsAreReady`, `crossed` |
| An INDEX task that is delivered again finds its rows done and fails a job none of whose rows failed | `backend/indexsubjobs/store.go:172` | `FailuresHaveCauses` |
| Skipped SCIP rows are inserted last; a revision that is activated before makes that insert fail the job | `backend/repoindexmanager/handler.go:635` | `FailuresHaveCauses` |
| A scheduler that dies between the PENDING insert and the enqueue leaves a job no one runs, and later requests are refused | `backend/scheduler/scheduler.go:115` | `QueuedJobEnds` starts at the queued task |
| Jobs of a repository that overlap, and removals that fail half way, can leave a revision without its graph | `backend/repoindexmanager/handler.go:264`, `:273` | `SettledRevisionHasGraph` |
| The removal of a ref keeps the `CodeGraphIndex` rows of its commits | `backend/repoindexmanager/cleanup.go:93` | `RemovalIsExact` |
| A symbol that two SCIP projects describe belongs to the one that inserted it first; when that project is indexed again and no longer describes it, the row goes although the other still names it | `backend/scipartifact/store.go:459`, `:612` | `IngestionsAreWhole` assumes `StableArtifacts` |
| An answer whose traversal timed out is cached like a full one | `mcp/semantic_tools.go:264` | `HealthyCallSucceeds` speaks of success only |
| Of two overlapping chat turns one is lost | `api/chat.go:202` | not stated |
| The last retry of an LLM worker writes FAILED over SUCCEEDED once a request was claimed more than MaxRetry + 1 times | `backend/llmgateway/store.go:178` | `SucceededStays` |
| Two overlapping replacements of the models leave the union of both; a secret can be deleted while a reference to it is being written | `api/secrets_delete.go:81` | `SecretRefsResolve` |
| A sync task of a job that is already terminal returns an error, where the comment says "no-op success" | `backend/connectionmanager/handler.go:60` | |
| Warnings of Azure DevOps projects are dropped; gitea's listing ends at the first short page | `backend/connectionmanager/github_client.go:56` and the clients beside it | `CompleteOrReported` |
