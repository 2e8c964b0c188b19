----------------------------- MODULE RepoLifecycle -----------------------------
(***************************************************************************)
(* The jobs of ONE repository: how an API request becomes a row and a      *)
(* queue task (internal/api, backend/schedulerhttp, backend/scheduler),    *)
(* and what an INDEX and a REMOVE_INDEX task do to the rows, graphs and    *)
(* directories of the repository (backend/repoindexmanager).  IndexSubjobs *)
(* has the inside of one INDEX job; here its subjobs are two steps per     *)
(* revision, Produce and ActivateRevision, and what matters is that jobs   *)
(* of one repository meet.                                                 *)
(*                                                                         *)
(* Job r is the job of request r.  Every SQL statement, file-system call   *)
(* and graph call is a step of its own.  The remote does not move: the     *)
(* commit of a branch is HeadOf[b].                                        *)
(***************************************************************************)
EXTENDS Naturals, FiniteSets

CONSTANTS
    Requests,      \* API requests, each with the job it may create
    RepoBranches,  \* branches of the repository
    HeadOf,        \* HeadOf[b]: the commit of branch b
    Selected,      \* the branches the index policy in Repo.metadata selects
    RefForms,      \* the spellings of a ref the clients use: "short", "full"
    MaxOpenCalls,  \* how many requests may be in the scheduler at once
    MaxRepoFaults  \* how many faults a behaviour may have

Commits == {HeadOf[b] : b \in RepoBranches}
NoBranch == "no branch"
Before == "before"   \* the job that indexed the repository before the behaviour

\* A ref as a client spells it ("main" or "refs/heads/main"); NoRef is the
\* empty ref, which means the whole repository.
NoRef == [form |-> "short", branch |-> NoBranch]

ASSUME LifecycleConstants ==
    /\ HeadOf \in [RepoBranches -> Commits]
    /\ Selected \subseteq RepoBranches /\ Selected # {}
    /\ RefForms \subseteq {"short", "full"}
    /\ NoBranch \notin RepoBranches
    /\ IsFiniteSet(Requests) /\ IsFiniteSet(RepoBranches)
    /\ MaxOpenCalls \in Nat \ {0}
    /\ MaxRepoFaults \in Nat

VARIABLES
    call,       \* where the request is
    request,    \* what it asks for: [kind, ref]
    seen,       \* the active jobs its INSERT statement's snapshot contains
    answer,     \* the HTTP status of the reply, 0 before it
    jobRow,     \* RepoIndexingJob.status, "ABSENT" before the insert
    task,       \* the asynq task: "none", "queued", "taken", "done"
    step,       \* where the worker of job r is, "none" when nobody works on it
    found,      \* what it listed: branches to index, or commits to retire
    manifests,  \* RepoIndexManifest rows: whose, which branch, status, age (at),
                \* full or repair plan, and whether its producers are done (built)
    revisions,  \* branches with a CodeGraphRevision row
    graphRow,   \* CodeGraphIndex by commit: its sourceRevision, or NoBranch
    graphData,  \* commits whose graph is in Nebula
    indexes,    \* branches with CodeIntelIndex (SCIP) rows
    shards,     \* branches with Zoekt shards on disk
    listed,     \* Repo.metadata.indexedRevisions
    dirs,       \* commits with a revision snapshot directory
    tree,       \* the shared clone: "absent" or "ready"
    attached,   \* the repository still belongs to some connection
    overlapped, \* two jobs of the repository were active at once
    repoFaults  \* faults so far

callVars == <<call, request, seen, answer>>
workVars == <<step, found>>
indexVars == <<manifests, revisions, graphRow, graphData, indexes, shards,
               listed, dirs, tree>>
repoVars == <<callVars, jobRow, task, workVars, indexVars, attached,
              overlapped, repoFaults>>

OpenCall == {"loaded", "inserting", "inserted"}
ActiveRow == {"PENDING", "IN_PROGRESS"}
Active(r) == jobRow[r] \in ActiveRow
Kind(r) == request[r].kind
RefOf(r) == request[r].ref

-----------------------------------------------------------------------------
(***************************************************************************)
(* Refs.                                                                   *)
(***************************************************************************)
\* schedulerRefCandidates: the ref with and without "refs/heads/".
SchedulerRefCandidates(ref) ==
    IF ref = NoRef THEN {} ELSE {[ref EXCEPT !.form = f] : f \in {"short", "full"}}

\* The ref condition of the "existing" query for a new job and an old one.
RefsMeet(new, old) ==
    \/ new = NoRef
    \/ old = NoRef
    \/ old \in SchedulerRefCandidates(new)

CleanupRefCandidates_Verbatim(ref) == IF ref = NoRef THEN {} ELSE {ref}

\* cleanupRefCandidates: the ref, stripped, and in full.
CleanupRefCandidates(ref) ==
    IF ref = NoRef THEN {} ELSE {ref, [ref EXCEPT !.form = "short"],
                                 [ref EXCEPT !.form = "full"]}

\* The branches a REMOVE_INDEX is about: rows carry the full spelling.
Targets(r) ==
    IF RefOf(r) = NoRef THEN RepoBranches
    ELSE {b \in RepoBranches :
             [form |-> "full", branch |-> b] \in CleanupRefCandidates(RefOf(r))}

Whole(r) == RefOf(r) = NoRef

-----------------------------------------------------------------------------
(***************************************************************************)
(* The request: handlePostOrgRepoIndex and handleDeleteOrgRepoIndex call   *)
(* ScheduleRepoIndex over HTTP.                                            *)
(***************************************************************************)
\* handleRepoIndex: the scheduler's HTTP status for what ScheduleRepoIndex
\* returned.
HandleRepoIndex(outcome) ==
    CASE outcome = "scheduled" -> 200
      [] outcome = "repo not found" -> 404
      [] outcome = "job already active" -> 409
      [] OTHER -> 502

\* mapSchedulerError and the handler's error cases: not found and conflict
\* keep their meaning, any other failure is a bad gateway.
MapSchedulerError(status) == IF status \in {200, 404, 409} THEN status ELSE 502

Reply(r, outcome) ==
    /\ answer' = [answer EXCEPT ![r] = MapSchedulerError(HandleRepoIndex(outcome))]
    /\ call' = [call EXCEPT ![r] = "answered"]

\* parseRepoIndexRef: a ref of the query or the body, as spelt, or none.
RequestRefs == [form : RefForms, branch : RepoBranches] \cup {NoRef}

\* ScheduleRepoIndex loads the repository, which must belong to a connection.
ScheduleRepoIndex(r, kind) ==
    /\ call[r] = "idle"
    /\ Cardinality({x \in Requests : call[x] \in OpenCall}) < MaxOpenCalls
    /\ \E ref \in RequestRefs :
          request' = [request EXCEPT ![r] = [kind |-> kind, ref |-> ref]]
    /\ IF attached
       THEN call' = [call EXCEPT ![r] = "loaded"] /\ UNCHANGED answer
       ELSE Reply(r, "repo not found")
    /\ UNCHANGED <<seen, jobRow, task, workVars, indexVars, attached, repoFaults>>

\* An owner asks for an index, or for its removal.
HandlePostOrgRepoIndex(r) == ScheduleRepoIndex(r, "INDEX")
HandleDeleteOrgRepoIndex(r) == ScheduleRepoIndex(r, "REMOVE_INDEX")

\* insertPendingRepoIndexJob is one statement, and its snapshot is taken when
\* it starts: before pg_advisory_xact_lock has been granted.
StartInsert(r) ==
    /\ call[r] = "loaded"
    /\ call' = [call EXCEPT ![r] = "inserting"]
    /\ seen' = [seen EXCEPT ![r] = {j \in Requests : Active(j)}]
    /\ UNCHANGED <<request, answer, jobRow, task, workVars, indexVars, attached,
                   repoFaults>>

\* The rest of the statement, under the lock.
InsertPendingRepoIndexJob(r) ==
    /\ call[r] = "inserting"
    /\ IF \E j \in seen[r] : RefsMeet(RefOf(r), RefOf(j))
       THEN Reply(r, "job already active") /\ UNCHANGED jobRow
       ELSE /\ jobRow' = [jobRow EXCEPT ![r] = "PENDING"]
            /\ call' = [call EXCEPT ![r] = "inserted"]
            /\ UNCHANGED answer
    /\ UNCHANGED <<request, seen, task, workVars, indexVars, attached, repoFaults>>

EnqueueTask(r) ==
    /\ call[r] = "inserted"
    /\ task' = [task EXCEPT ![r] = "queued"]
    /\ Reply(r, "scheduled")
    /\ UNCHANGED <<request, seen, jobRow, workVars, indexVars, attached, repoFaults>>

\* The enqueue returns an error, whether or not the task reached Redis.  The
\* row is then marked, with the same context and ignoring the outcome:
\* "marked" is FALSE when that statement fails too.
EnqueueFails(r) ==
    /\ call[r] = "inserted"
    /\ repoFaults < MaxRepoFaults
    /\ \E landed, marked \in BOOLEAN :
          /\ task' = [task EXCEPT ![r] = IF landed THEN "queued" ELSE @]
          /\ jobRow' = [jobRow EXCEPT ![r] =
                           IF marked /\ @ = "PENDING" THEN "FAILED" ELSE @]
    /\ Reply(r, "enqueue failed")
    /\ repoFaults' = repoFaults + 1
    /\ UNCHANGED <<request, seen, workVars, indexVars, attached>>

\* The scheduler process dies between the insert and the enqueue.
SchedulerDies(r) ==
    /\ call[r] = "inserted"
    /\ repoFaults < MaxRepoFaults
    /\ call' = [call EXCEPT ![r] = "dead"]
    /\ repoFaults' = repoFaults + 1
    /\ UNCHANGED <<request, seen, answer, jobRow, task, workVars, indexVars, attached>>

\* DELETE of the last connection cascades to RepoToConnection.
DetachConnection ==
    /\ attached
    /\ repoFaults < MaxRepoFaults
    /\ attached' = FALSE
    /\ repoFaults' = repoFaults + 1
    /\ UNCHANGED <<callVars, jobRow, task, workVars, indexVars>>

-----------------------------------------------------------------------------
(***************************************************************************)
(* The worker of job r: repoindexmanager.Handle.                           *)
(***************************************************************************)
GoTo(r, s) == step' = [step EXCEPT ![r] = s]
AtWork(r, s) == step[r] = s /\ UNCHANGED <<callVars, attached>>

\* Statements between two states of the indexes.
Leaves(r, s, untouched) ==
    /\ GoTo(r, s)
    /\ UNCHANGED <<jobRow, task, repoFaults>>
    /\ UNCHANGED untouched

\* FetchJobScope and MarkInProgressScoped: a terminal job is skipped.
TakeTask(r) ==
    /\ task[r] = "queued"
    /\ IF Active(r)
       THEN /\ jobRow' = [jobRow EXCEPT ![r] = "IN_PROGRESS"]
            /\ task' = [task EXCEPT ![r] = "taken"]
            /\ GoTo(r, IF Kind(r) = "INDEX" THEN "clear" ELSE "list")
       ELSE /\ task' = [task EXCEPT ![r] = "done"]
            /\ UNCHANGED <<jobRow, step>>
    /\ UNCHANGED <<callVars, found, indexVars, attached, repoFaults>>

\* MarkCompletedScoped or MarkFailedScoped, whichever "status" says; a job that
\* is no longer active keeps its status.
EndJob(r, status) ==
    /\ jobRow' = [jobRow EXCEPT ![r] = IF @ \in ActiveRow THEN status ELSE @]
    /\ task' = [task EXCEPT ![r] = "done"]
    /\ GoTo(r, "none")
    /\ found' = [found EXCEPT ![r] = {}]

\* A step returns an error: the job is FAILED, and the retry that asynq makes
\* finds it terminal.  A clone that fails leaves no tree.
StepFails(r) ==
    /\ step[r] # "none"
    /\ repoFaults < MaxRepoFaults
    /\ EndJob(r, "FAILED")
    /\ tree' = IF step[r] = "clone" THEN "absent" ELSE tree
    /\ repoFaults' = repoFaults + 1
    /\ UNCHANGED <<callVars, manifests, revisions, graphRow, graphData, indexes,
                   shards, listed, dirs, attached>>

\* The process dies in the middle; asynq delivers the task again.
WorkerDies(r) ==
    /\ step[r] \notin {"none", "subjobs"}
    /\ repoFaults < MaxRepoFaults
    /\ task' = [task EXCEPT ![r] = "queued"]
    /\ GoTo(r, "none")
    /\ found' = [found EXCEPT ![r] = {}]
    /\ repoFaults' = repoFaults + 1
    /\ UNCHANGED <<callVars, jobRow, indexVars, attached>>

-----------------------------------------------------------------------------
(***************************************************************************)
(* REMOVE_INDEX: dispatchCleanupScoped.                                    *)
(***************************************************************************)
ListGraphSnapshotsForCleanup == {c \in Commits : graphRow[c] # NoBranch}

ListGraphSnapshotsForCleanupRef_AnySibling(r) ==
    IF Whole(r) THEN ListGraphSnapshotsForCleanup
    ELSE {HeadOf[b] : b \in {x \in Targets(r) \cap revisions :
                              graphRow[HeadOf[x]] # NoBranch}}

\* The READY snapshots of the targets that no other revision uses.
ListGraphSnapshotsForCleanupRef(r) ==
    IF Whole(r) THEN ListGraphSnapshotsForCleanup
    ELSE {HeadOf[b] : b \in {x \in Targets(r) \cap revisions :
              /\ graphRow[HeadOf[x]] # NoBranch
              /\ \A y \in revisions \ Targets(r) : HeadOf[y] # HeadOf[x]}}

ListSnapshots(r) ==
    /\ AtWork(r, "list")
    /\ found' = [found EXCEPT ![r] = ListGraphSnapshotsForCleanupRef(r)]
    /\ Leaves(r, "retire", indexVars)

\* MarkSnapshotForDeletion, one snapshot after the other.
RetireSnapshot(r) ==
    /\ AtWork(r, "retire")
    /\ \E c \in found[r] :
          /\ graphData' = graphData \ {c}
          /\ found' = [found EXCEPT ![r] = @ \ {c}]
    /\ Leaves(r, "retire", <<manifests, revisions, graphRow, indexes, shards,
                             listed, dirs, tree>>)

\* Commits of the targets' manifests that nothing else refers to; the whole
\* repository needs no list.
ListSnapshotCommitsForCleanupRef(r) ==
    IF Whole(r) THEN Commits
    ELSE {c \in {HeadOf[m.branch] : m \in {x \in manifests : x.branch \in Targets(r)}} :
             \A y \in (RepoBranches \ Targets(r)) :
                 HeadOf[y] = c => /\ \A m \in manifests : m.branch # y
                                /\ y \notin indexes \cup revisions}

ListCommits(r) ==
    /\ AtWork(r, "retire")
    /\ found[r] = {}
    /\ found' = [found EXCEPT ![r] = ListSnapshotCommitsForCleanupRef(r)]
    /\ Leaves(r, "graphRows", indexVars)

\* DELETE of the targets' CodeGraphRevision rows in a CTE, and of the
\* CodeGraphIndex rows left without one.  Both halves of the statement see the
\* table as it was before, deleted revisions included.
OrphanedGraphRows(r) ==
    {c \in {HeadOf[b] : b \in Targets(r) \cap revisions} :
        \A y \in revisions : HeadOf[y] # c}

DeleteGraphRows(r) ==
    /\ AtWork(r, "graphRows")
    /\ revisions' = revisions \ Targets(r)
    /\ graphRow' = [c \in Commits |-> IF Whole(r) \/ c \in OrphanedGraphRows(r)
                                      THEN NoBranch ELSE graphRow[c]]
    /\ UNCHANGED found
    /\ Leaves(r, "indexRows", <<manifests, graphData, indexes, shards, listed,
                                dirs, tree>>)

DeleteCodeIntelRows(r) ==
    /\ AtWork(r, "indexRows")
    /\ indexes' = indexes \ Targets(r)
    /\ UNCHANGED found
    /\ Leaves(r, "manifests", <<manifests, revisions, graphRow, graphData, shards,
                                listed, dirs, tree>>)

DeleteManifestRows(r) ==
    /\ AtWork(r, "manifests")
    /\ manifests' = {m \in manifests : m.branch \notin Targets(r)}
    /\ UNCHANGED found
    /\ Leaves(r, "repoRow", <<revisions, graphRow, graphData, indexes, shards,
                              listed, dirs, tree>>)

ClearIndexedRevisions(r) ==
    /\ AtWork(r, "repoRow")
    /\ listed' = listed \ Targets(r)
    /\ UNCHANGED found
    /\ Leaves(r, "shards", <<manifests, revisions, graphRow, graphData, indexes,
                             shards, dirs, tree>>)

\* The four statements, without a transaction around them.
CleanupStatement(r) == \/ DeleteGraphRows(r) \/ DeleteCodeIntelRows(r)
                       \/ DeleteManifestRows(r) \/ ClearIndexedRevisions(r)
CleanupRepoDBState(r) == Whole(r) /\ CleanupStatement(r)
CleanupRepoDBStateForRef(r) == ~Whole(r) /\ CleanupStatement(r)

\* CleanupRepoFilesystemForRef: the targets' shards, and for the whole
\* repository the clone as well.
DeleteShards(r) ==
    /\ AtWork(r, "shards")
    /\ shards' = shards \ Targets(r)
    /\ tree' = IF Whole(r) THEN "absent" ELSE tree
    /\ UNCHANGED found
    /\ Leaves(r, "dirs", <<manifests, revisions, graphRow, graphData, indexes,
                           listed, dirs>>)

\* CleanupRepoSnapshots or CleanupRepoSnapshotsForCommits; then the job is done.
DeleteSnapshotDirs(r) ==
    /\ AtWork(r, "dirs")
    /\ dirs' = dirs \ found[r]
    /\ EndJob(r, "COMPLETED")
    /\ UNCHANGED <<manifests, revisions, graphRow, graphData, indexes, shards,
                   listed, tree, repoFaults>>

-----------------------------------------------------------------------------
(***************************************************************************)
(* INDEX: dispatchIndex and planSplitIndex.  The selected branches are     *)
(* indexed, whatever ref the request named.                                *)
(***************************************************************************)
ClearTree(r) ==
    /\ AtWork(r, "clear")
    /\ tree' = "absent"
    /\ UNCHANGED found
    /\ Leaves(r, "clone", <<manifests, revisions, graphRow, graphData, indexes,
                            shards, listed, dirs>>)

\* gitclone.Clone refuses a destination that is not empty.
DestinationNotEmpty == tree = "ready"

CloneTree(r) ==
    /\ AtWork(r, "clone")
    /\ ~DestinationNotEmpty
    /\ tree' = "ready"
    /\ UNCHANGED found
    /\ Leaves(r, "resolve", <<manifests, revisions, graphRow, graphData, indexes,
                              shards, listed, dirs>>)

\* Another job cloned first; the error path removes the tree, its tree, too.
CloneRefused(r) ==
    /\ AtWork(r, "clone")
    /\ DestinationNotEmpty
    /\ tree' = "absent"
    /\ EndJob(r, "FAILED")
    /\ UNCHANGED <<manifests, revisions, graphRow, graphData, indexes, shards,
                   listed, dirs, repoFaults>>

\* The branches of the clone that the index policy selects.
ResolveIndexRevisions(r) ==
    /\ AtWork(r, "resolve")
    /\ tree = "ready"
    /\ found' = [found EXCEPT ![r] = Selected]
    /\ Leaves(r, "plan", indexVars)

\* FetchSemanticIndexHealth of an unchanged revision: rows only, Nebula is not
\* asked.
Healthy(b) == b \in indexes /\ graphRow[HeadOf[b]] = b

Unchanged(b) == \E m \in manifests : m.branch = b /\ m.status = "READY"

\* The row of a redelivered task joins the one of the first delivery; activation
\* takes the newest of a job.
InsertPendingManifest(r, b) ==
    manifests' = {m \in manifests : ~(m.job = r /\ m.branch = b)} \cup
                 {[job |-> r, branch |-> b, status |-> "PENDING", built |-> FALSE,
                   full |-> ~Unchanged(b),
                   at |-> Cardinality({m \in manifests : m.branch = b})]}

\* One revision: the snapshot directory, then NOOP or a PENDING manifest.
PlanRevision(r) ==
    /\ AtWork(r, "plan")
    /\ tree = "ready"
    /\ \E b \in found[r] :
          /\ found' = [found EXCEPT ![r] = @ \ {b}]
          /\ dirs' = dirs \cup {HeadOf[b]}
          /\ IF Unchanged(b) /\ Healthy(b)
             THEN listed' = listed \cup {b} /\ UNCHANGED manifests
             ELSE InsertPendingManifest(r, b) /\ UNCHANGED listed
    /\ Leaves(r, "plan", <<revisions, graphRow, graphData, indexes, shards, tree>>)

TreeMissing_AtResolve(r) ==
    /\ AtWork(r, "resolve")
    /\ tree = "absent"
    /\ EndJob(r, "FAILED")
    /\ UNCHANGED <<indexVars, repoFaults>>

\* The clone went away under the planner: another job cleared it.
TreeMissing(r) ==
    /\ \/ AtWork(r, "resolve")
       \/ AtWork(r, "plan") /\ found[r] # {}
    /\ tree = "absent"
    /\ EndJob(r, "FAILED")
    /\ UNCHANGED <<indexVars, repoFaults>>

Pending(r) == {m \in manifests : m.job = r /\ m.status = "PENDING"}

PlanDone(r) ==
    /\ AtWork(r, "plan")
    /\ found[r] = {}
    /\ IF Pending(r) = {}
       THEN EndJob(r, "COMPLETED") /\ UNCHANGED repoFaults
       ELSE /\ found' = [found EXCEPT ![r] = {m.branch : m \in Pending(r)}]
            /\ Leaves(r, "subjobs", <<>>)
    /\ UNCHANGED indexVars

\* The ZOEKT, AST, SCIP and GRAPH_MERGE subjobs of a revision read its snapshot
\* directory; a repair leaves the shards alone.
Produce(r) ==
    /\ AtWork(r, "subjobs")
    /\ \E m \in Pending(r) :
          /\ ~m.built
          /\ HeadOf[m.branch] \in dirs
          /\ manifests' = (manifests \ {m}) \cup {[m EXCEPT !.built = TRUE]}
          /\ graphData' = graphData \cup {HeadOf[m.branch]}
          /\ graphRow' = [graphRow EXCEPT ![HeadOf[m.branch]] = m.branch]
          /\ indexes' = indexes \cup {m.branch}
          /\ shards' = IF m.full THEN shards \cup {m.branch} ELSE shards
    /\ UNCHANGED found
    /\ Leaves(r, "subjobs", <<revisions, listed, dirs, tree>>)

Superseded_PendingOnly(m) ==
    {x \in manifests : x.branch = m.branch /\ x # m /\ x.status = "PENDING"}

\* The rows of the branch an activation of m supersedes.
Superseded(m) ==
    {x \in manifests : /\ x.branch = m.branch /\ x # m
                       /\ x.status = "READY" \/ x.at <= m.at}

\* indexcore.activate: one transaction under the lock of the Repo row.
ActivateRevision(r) ==
    /\ AtWork(r, "subjobs")
    /\ \E m \in Pending(r) :
          /\ m.built
          /\ graphRow[HeadOf[m.branch]] = m.branch
          /\ manifests' = ((manifests \ Superseded(m)) \ {m})
                          \cup {[m EXCEPT !.status = "READY"]}
          /\ revisions' = revisions \cup {m.branch}
          /\ listed' = listed \cup {m.branch}
                       \cup {x.branch : x \in {y \in manifests : y.status = "READY"}}
          /\ found' = [found EXCEPT ![r] = @ \ {m.branch}]
    /\ Leaves(r, "subjobs", <<graphRow, graphData, indexes, shards, dirs, tree>>)

\* Every row is done: completeJobIfReady.
SubjobsDone(r) ==
    /\ AtWork(r, "subjobs")
    /\ found[r] = {}
    /\ EndJob(r, "COMPLETED")
    /\ UNCHANGED <<indexVars, repoFaults>>

\* A revision that can no longer be produced or activated: its manifest or its
\* directory was removed, or its snapshot row taken over, under it.
SubjobsFail(r) ==
    /\ AtWork(r, "subjobs")
    /\ \E b \in found[r] :
          \/ \A m \in Pending(r) : m.branch # b
          \/ \E m \in Pending(r) : m.branch = b /\ ~m.built /\ HeadOf[b] \notin dirs
          \/ \E m \in Pending(r) : m.branch = b /\ m.built /\ graphRow[HeadOf[b]] # b
    /\ EndJob(r, "FAILED")
    /\ UNCHANGED <<indexVars, repoFaults>>

-----------------------------------------------------------------------------
\* The repository was never indexed, or all selected branches are.
IndexedBefore(B) ==
    /\ manifests = {[job |-> Before, branch |-> b, status |-> "READY", built |-> TRUE,
                     full |-> TRUE, at |-> 0] : b \in B}
    /\ revisions = B /\ indexes = B /\ shards = B /\ listed = B
    /\ graphData = {HeadOf[b] : b \in B} /\ dirs = {HeadOf[b] : b \in B}
    /\ graphRow \in {f \in [Commits -> B \cup {NoBranch}] :
                       \A c \in Commits : IF f[c] = NoBranch THEN c \notin graphData
                                                            ELSE HeadOf[f[c]] = c}
    /\ tree = IF B = {} THEN "absent" ELSE "ready"

RepoInit ==
    /\ call = [r \in Requests |-> "idle"]
    /\ request = [r \in Requests |-> [kind |-> "INDEX", ref |-> NoRef]]
    /\ seen = [r \in Requests |-> {}]
    /\ answer = [r \in Requests |-> 0]
    /\ jobRow = [r \in Requests |-> "ABSENT"]
    /\ task = [r \in Requests |-> "none"]
    /\ step = [r \in Requests |-> "none"]
    /\ found = [r \in Requests |-> {}]
    /\ IndexedBefore({}) \/ IndexedBefore(Selected)
    /\ attached = TRUE
    /\ overlapped = FALSE
    /\ repoFaults = 0

RequestStep(r) == \/ HandlePostOrgRepoIndex(r)
                  \/ HandleDeleteOrgRepoIndex(r)
                  \/ StartInsert(r)
                  \/ InsertPendingRepoIndexJob(r)
                  \/ EnqueueTask(r)

WorkerStepOf(r) ==
    \/ TakeTask(r)
    \/ ListSnapshots(r) \/ RetireSnapshot(r) \/ ListCommits(r)
    \/ CleanupRepoDBState(r) \/ CleanupRepoDBStateForRef(r)
    \/ DeleteShards(r) \/ DeleteSnapshotDirs(r)
    \/ ClearTree(r) \/ CloneTree(r) \/ CloneRefused(r)
    \/ ResolveIndexRevisions(r) \/ PlanRevision(r) \/ TreeMissing(r)
    \/ PlanDone(r) \/ Produce(r) \/ ActivateRevision(r) \/ SubjobsDone(r)
    \/ SubjobsFail(r)

FaultOf(r) == EnqueueFails(r) \/ SchedulerDies(r) \/ StepFails(r) \/ WorkerDies(r)

RepoStep ==
    \/ \E r \in Requests : RequestStep(r) \/ WorkerStepOf(r) \/ FaultOf(r)
    \/ DetachConnection

NoteOverlap ==
    overlapped' = (overlapped \/ Cardinality({r \in Requests : jobRow'[r] \in ActiveRow}) > 1)

RepoNext == RepoStep /\ NoteOverlap

RepoSpec == RepoInit /\ [][RepoNext]_repoVars

-----------------------------------------------------------------------------
(***************************************************************************)
(* Properties.                                                             *)
(***************************************************************************)
ManifestRow == [job : Requests \cup {Before}, branch : RepoBranches,
                status : {"PENDING", "READY"}, built : BOOLEAN, full : BOOLEAN,
                at : Nat]

\* Every variable has its type; at most one READY manifest per branch.
RepoTypeOK ==
    /\ call \in [Requests -> {"idle", "loaded", "inserting", "inserted", "answered",
                              "dead"}]
    /\ answer \in [Requests -> {0, 200, 404, 409, 502}]
    /\ jobRow \in [Requests -> ActiveRow \cup {"ABSENT", "COMPLETED", "FAILED"}]
    /\ task \in [Requests -> {"none", "queued", "taken", "done"}]
    /\ manifests \subseteq ManifestRow
    /\ \A m, n \in manifests :
          m.status = "READY" /\ n.status = "READY" /\ m.branch = n.branch => m = n
    /\ revisions \cup indexes \cup shards \cup listed \subseteq RepoBranches
    /\ graphRow \in [Commits -> RepoBranches \cup {NoBranch}]
    /\ graphData \cup dirs \subseteq Commits
    /\ tree \in {"absent", "ready"}

\* The branches the client of r named.
Asked(r) == IF RefOf(r) = NoRef THEN RepoBranches ELSE {RefOf(r).branch}

\* Branches a failed or interrupted removal touched.
HalfRemoved ==
    UNION {Asked(r) : r \in {x \in Requests : /\ Kind(x) = "REMOVE_INDEX"
                                               /\ jobRow[x] = "FAILED"}}

\* With no job at work, none that overlapped another and no removal that gave up
\* half way, a revision that searches may use has its graph in Nebula and its
\* snapshot row, also when another branch of the same commit was removed: the
\* sibling test of ListGraphSnapshotsForCleanupRef.
SettledRevisionHasGraph ==
    (~overlapped /\ \A r \in Requests : ~Active(r)) =>
        \A b \in revisions \ HalfRemoved :
            HeadOf[b] \in graphData /\ graphRow[HeadOf[b]] # NoBranch

\* A removal takes what it was asked to take and nothing else.  One that completes
\* leaves no revision, SCIP row, manifest, shard or metadata entry of its ref, whatever
\* spelling the client used, and no step of one takes the rows, the shards or the
\* snapshot directory of another branch.  The first part and the directory are for jobs
\* that did not run beside another job of the repository.
RemovalIsExact ==
    [][\A r \in Requests : Kind(r) = "REMOVE_INDEX" =>
          /\ jobRow[r] = "IN_PROGRESS" /\ jobRow'[r] = "COMPLETED" /\ ~overlapped =>
                /\ Asked(r) \cap (revisions' \cup indexes' \cup shards' \cup listed') = {}
                /\ \A m \in manifests' : m.branch \notin Asked(r)
          /\ step[r] # "none" /\ step'[r] # step[r] =>
                \A b \in revisions \ Asked(r) :
                   /\ b \in revisions'
                   /\ b \in shards => b \in shards'
                   /\ b \in indexes => b \in indexes'
                   /\ ~overlapped /\ HeadOf[b] \in dirs => HeadOf[b] \in dirs']_repoVars

\* Scheduling: a request goes on unless its process dies, asynq delivers what is
\* queued, and every worker step ends.
RepoFairness ==
    \A r \in Requests : WF_repoVars(call[r] # "idle" /\ RequestStep(r) /\ NoteOverlap)
                        /\ WF_repoVars(WorkerStepOf(r) /\ NoteOverlap)

RepoFairSpec == RepoSpec /\ RepoFairness

\* A job whose task reached the queue comes to an end, through worker deaths and
\* jobs that clear the clone or the rows under it.
QueuedJobEnds ==
    \A r \in Requests : (task[r] = "queued") ~> ~Active(r)
=============================================================================
