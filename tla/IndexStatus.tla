------------------------------ MODULE IndexStatus ------------------------------
(***************************************************************************)
(* GET /api/repos/{id}/status and /branches: what a client is told about   *)
(* the index of one repository (internal/api/repos_status.go,              *)
(* repos_branches.go, pkg/repoindexstatus) while its jobs run and its      *)
(* branch policy changes.                                                  *)
(*                                                                         *)
(* The jobs are those of RepoLifecycle, coarser: one after the other, and  *)
(* a step for every statement a reader can see.  A status read is five     *)
(* statements without a transaction around them, so a job may move between *)
(* any two of them.                                                        *)
(***************************************************************************)
EXTENDS Naturals, Sequences, FiniteSets

CONSTANTS
    StatusRevs,    \* revisions: [kind : {"heads", "tags"}, name]
    DefaultBranch, \* name of the default branch
    Policies,      \* policies a client may set: [branches, tags], sets of patterns
    FirstPolicy,   \* the one in force at the beginning
    PutCalls,      \* PUT /branches calls
    MaxRuns        \* jobs a behaviour may have

ASSUME StatusConstants ==
    /\ StatusRevs # {} /\ FirstPolicy \in Policies /\ MaxRuns \in Nat

VARIABLES
    runs,        \* RepoIndexingJob rows by createdAt: [type, status]
    runStep,     \* where the worker of the newest job is
    latest,      \* Repo.latestIndexingJobStatus, "" is NULL
    indexedAt,   \* Repo.indexedAt IS NOT NULL
    indexedRevs, \* Repo.metadata.indexedRevisions
    repoPolicy,  \* Repo.metadata.branches and tags
    connPolicy,  \* the same in the connection's config
    manifestRows,\* RepoIndexManifest: [rev, run, status]
    graphRows,   \* CodeGraphIndex: [run, status, revs, superseded]
    removalFailed,\* a REMOVE_INDEX gave up between the index rows and the Repo row
    put,         \* PUT calls: [at, policy]
    view         \* the status read and its answer

jobVars == <<runs, runStep, latest, indexedAt, indexedRevs, manifestRows, graphRows, removalFailed>>
policyVars == <<repoPolicy, connPolicy, put>>
statusVars == <<jobVars, policyVars, view>>

Newest == runs[Len(runs)]
Unfinished == {"PENDING", "IN_PROGRESS"}
AtRest == runs # <<>> => Newest.status \notin Unfinished /\ runStep = "none"

-----------------------------------------------------------------------------
\* The functions of pkg/repoindexstatus.  r is the Repo row as it was read.
\* Patterns are plain names or "*".
MatchAnyGlob(name, patterns) == "*" \in patterns \/ name \in patterns

IsBranchAllowedByIndexPolicy(r, name) ==
    IF r.policy.branches = {} THEN name = DefaultBranch ELSE MatchAnyGlob(name, r.policy.branches)

IsRevisionAllowedByIndexPolicy(r, rev) ==
    IF rev.kind = "heads" THEN IsBranchAllowedByIndexPolicy(r, rev.name)
    ELSE MatchAnyGlob(rev.name, r.policy.tags)

GetPolicyVisibleIndexedRevisions(r) ==
    {rev \in r.revs : IsRevisionAllowedByIndexPolicy(r, rev)}

\* The newest job row read, or the denormalised column when there is none.
GetLatestRunState(r, jobs) ==
    LET job == IF jobs = <<>> THEN [type |-> "", status |-> r.latest] ELSE jobs[Len(jobs)] IN
    CASE job.status \in Unfinished -> IF job.type = "REMOVE_INDEX" THEN "removing" ELSE "indexing"
      [] job.status = "FAILED" -> "failed"
      [] job.status = "COMPLETED" -> "completed"
      [] OTHER -> "none"

ResolveVisibleStatus_RunFirst(active, run) ==
    CASE run \in {"indexing", "removing", "failed"} -> run
      [] OTHER -> active

ResolveVisibleStatus(active, run) ==
    CASE run \in {"indexing", "removing"} -> run
      [] run = "failed" /\ active # "indexed" -> "failed"
      [] OTHER -> active

BuildRepoIndexSummary(r, jobs) ==
    LET revs == GetPolicyVisibleIndexedRevisions(r)
        active == IF r.indexedAt /\ revs # {} THEN "indexed" ELSE "not_indexed"
        run == GetLatestRunState(r, jobs)
    IN [active |-> active, run |-> run, revs |-> revs,
        status |-> ResolveVisibleStatus(active, run),
        blocks |-> run \in {"indexing", "removing"} \/ (run = "failed" /\ active # "indexed")]

BuildBranchIndexStatus(r, jobs, name) ==
    LET indexed == /\ IsBranchAllowedByIndexPolicy(r, name) /\ r.indexedAt
                   /\ [kind |-> "heads", name |-> name] \in GetPolicyVisibleIndexedRevisions(r)
        active == IF indexed THEN "indexed" ELSE "not_indexed"
    IN [branch |-> name, active |-> active,
        status |-> ResolveVisibleStatus(active, GetLatestRunState(r, jobs))]

\* The default branch, the configured names that are no patterns, and what is indexed.
BuildKnownBranchIndexStatuses(r, jobs) ==
    {BuildBranchIndexStatus(r, jobs, name) :
        name \in {DefaultBranch} \cup (r.policy.branches \ {"*"})
                 \cup {rev.name : rev \in {x \in r.revs : x.kind = "heads"}}}

IsCurrentGraphSnapshot(g) == g.status = "READY" /\ g.revs # {}
StatusRank(s) == CASE s = "READY" -> 0 [] s = "PARTIAL" -> 1 [] s = "BUILDING" -> 2 [] OTHER -> 3

\* Whether a sorts before b; rows of a later run have the later indexedAt.
CompareCodeGraphIndexForCurrent(a, b) ==
    IF IsCurrentGraphSnapshot(a) # IsCurrentGraphSnapshot(b) THEN IsCurrentGraphSnapshot(a)
    ELSE IF StatusRank(a.status) # StatusRank(b.status) THEN StatusRank(a.status) < StatusRank(b.status)
    ELSE IF a.superseded # b.superseded THEN ~a.superseded
    ELSE a.run > b.run

SelectCurrentCodeGraphIndex(graphs) ==
    IF graphs = {} THEN {}
    ELSE {CHOOSE g \in graphs : \A h \in graphs \ {g} : ~CompareCodeGraphIndexForCurrent(h, g)}

CurrentManifests(rows) == {m \in rows : m.status = "READY"}

RepoManifestQualityIssues(rows) ==
    {m \in rows : m.status = "PENDING" /\ \E n \in CurrentManifests(rows) : n.rev = m.rev}

-----------------------------------------------------------------------------
\* A step of a job or a PUT under a status read is noted in the read.
Noticed(v) ==
    IF v.at \in {"idle", "done"} THEN v
    ELSE [v EXCEPT !.moved = TRUE, !.removing = @ \/ (runs' # <<>> /\ runs'[Len(runs')].type = "REMOVE_INDEX")]

\* The jobs.  createdAt orders them; the scheduler lets one be active.
InsertRun(type) ==
    /\ AtRest /\ Len(runs) < MaxRuns
    /\ runs' = Append(runs, [type |-> type, status |-> "PENDING"])
    /\ UNCHANGED <<runStep, latest, indexedAt, indexedRevs, manifestRows, graphRows,
                   removalFailed, policyVars>>
    /\ view' = Noticed(view)

SetRun(status) == runs' = [runs EXCEPT ![Len(runs)].status = status]
StepTo(s) == runStep' = s

\* MarkInProgressScoped; the column in Repo is not refreshed here.
StartRun ==
    /\ runs # <<>> /\ Newest.status = "PENDING"
    /\ SetRun("IN_PROGRESS")
    /\ StepTo(IF Newest.type = "INDEX" THEN "plan" ELSE "removeRows")
    /\ UNCHANGED <<latest, indexedAt, indexedRevs, manifestRows, graphRows, removalFailed,
                   policyVars>>
    /\ view' = Noticed(view)

\* The planner's manifests and, with its subjobs, the graph row; then the refresh.
PlanRun ==
    /\ runStep = "plan"
    /\ manifestRows' = manifestRows \cup
          {[rev |-> v, run |-> Len(runs), status |-> "PENDING"] :
              v \in {x \in StatusRevs : IsRevisionAllowedByIndexPolicy([policy |-> repoPolicy], x)}}
    /\ graphRows' = graphRows \cup {[run |-> Len(runs), status |-> "PARTIAL", revs |-> {},
                                      superseded |-> FALSE]}
    /\ latest' = Newest.status
    /\ StepTo("subjobs")
    /\ UNCHANGED <<runs, indexedAt, indexedRevs, removalFailed, policyVars>>
    /\ view' = Noticed(view)

ActivateRev_KeepsOlder ==
    /\ runStep = "subjobs"
    /\ \E m \in manifestRows :
          /\ m.run = Len(runs) /\ m.status = "PENDING"
          /\ manifestRows' = (manifestRows \ {m}) \cup {[m EXCEPT !.status = "READY"]}
          /\ graphRows' = {IF g.run = Len(runs)
                           THEN [g EXCEPT !.status = "READY", !.revs = @ \cup {m.rev}] ELSE g
                           : g \in graphRows}
          /\ indexedRevs' = indexedRevs \cup {m.rev}
    /\ indexedAt' = TRUE
    /\ UNCHANGED <<runs, runStep, latest, removalFailed, policyVars>>
    /\ view' = Noticed(view)

\* The transaction of indexcore.activate for one revision.
ActivateRev ==
    /\ runStep = "subjobs"
    /\ \E m \in manifestRows :
          /\ m.run = Len(runs) /\ m.status = "PENDING"
          /\ manifestRows' = {n \in manifestRows : n.rev # m.rev} \cup {[m EXCEPT !.status = "READY"]}
          /\ graphRows' = {IF g.run = Len(runs)
                           THEN [g EXCEPT !.status = "READY", !.revs = @ \cup {m.rev}]
                           ELSE [g EXCEPT !.revs = @ \ {m.rev},
                                          !.superseded = @ \/ g.revs \subseteq {m.rev}]
                           : g \in graphRows}
          /\ indexedRevs' = indexedRevs \cup {m.rev}
    /\ indexedAt' = TRUE
    /\ UNCHANGED <<runs, runStep, latest, removalFailed, policyVars>>
    /\ view' = Noticed(view)

\* completeJobIfReady, or MarkCompletedScoped at the end of a removal.
CompleteRun ==
    /\ \/ runStep = "subjobs" /\ \A m \in manifestRows : m.run = Len(runs) => m.status = "READY"
       \/ runStep = "removed"
    /\ SetRun("COMPLETED") /\ StepTo("refresh")
    /\ UNCHANGED <<latest, indexedAt, indexedRevs, manifestRows, graphRows, removalFailed,
                   policyVars>>
    /\ view' = Noticed(view)

FailRun ==
    /\ runStep \in {"plan", "subjobs", "removeRows", "removeRepo", "removed"}
    /\ SetRun("FAILED") /\ StepTo("refresh")
    /\ removalFailed' = (removalFailed \/ runStep = "removeRepo")
    /\ UNCHANGED <<latest, indexedAt, indexedRevs, manifestRows, graphRows, policyVars>>
    /\ view' = Noticed(view)

RefreshRepoLatestIndexingJobStatus ==
    /\ runStep = "refresh"
    /\ latest' = Newest.status /\ StepTo("none")
    /\ UNCHANGED <<runs, indexedAt, indexedRevs, manifestRows, graphRows, removalFailed,
                   policyVars>>
    /\ view' = Noticed(view)

\* CleanupRepoDBState: the graph, SCIP and manifest rows, and last the Repo row.
RemoveRows ==
    /\ runStep = "removeRows"
    /\ manifestRows' = {} /\ graphRows' = {} /\ StepTo("removeRepo")
    /\ UNCHANGED <<runs, latest, indexedAt, indexedRevs, removalFailed, policyVars>>
    /\ view' = Noticed(view)

RemoveFromRepo ==
    /\ runStep = "removeRepo"
    /\ indexedAt' = FALSE /\ indexedRevs' = {} /\ latest' = "" /\ StepTo("removed")
    /\ removalFailed' = FALSE
    /\ UNCHANGED <<runs, manifestRows, graphRows, policyVars>>
    /\ view' = Noticed(view)

-----------------------------------------------------------------------------
\* handlePutOrgRepoBranches: the connection's config, then Repo.metadata.
PutConnection(c) ==
    /\ put[c].at = "new"
    /\ \E p \in Policies : /\ put' = [put EXCEPT ![c] = [at |-> "repo", policy |-> p]]
                           /\ connPolicy' = p
    /\ UNCHANGED <<repoPolicy, jobVars>>
    /\ view' = Noticed(view)

UpdateOrgRepoBranchPolicyMetadata(c) ==
    /\ put[c].at = "repo"
    /\ repoPolicy' = put[c].policy
    /\ put' = [put EXCEPT ![c].at = "done"]
    /\ UNCHANGED <<connPolicy, jobVars>>
    /\ view' = Noticed(view)

UpdateMetadataFails(c) ==
    /\ put[c].at = "repo"
    /\ put' = [put EXCEPT ![c].at = "failed"]
    /\ UNCHANGED <<repoPolicy, connPolicy, jobVars>>
    /\ view' = Noticed(view)

-----------------------------------------------------------------------------
\* PgxRepoStatusFetcher.Fetch, a statement at a time.  Two marks are kept for the
\* properties: "moved", that a job or a PUT moved or was under way during the read, and
\* "removing", that a removal was, or that one had failed half way before.
RepoRow == [policy |-> repoPolicy, latest |-> latest, indexedAt |-> indexedAt, revs |-> indexedRevs]
NoView == [at |-> "idle", moved |-> FALSE, removing |-> FALSE, policy |-> FirstPolicy, repo |-> <<>>,
           summary |-> <<>>, branches |-> {}, graph |-> {}, current |-> {}, issues |-> {}]

\* GetOrgRepoPrimaryConnectionMeta, the first read of GET /branches.
ReadConnection ==
    /\ view.at = "idle"
    /\ view' = [view EXCEPT !.at = "repo", !.policy = connPolicy,
                            !.moved = ~AtRest \/ \E c \in PutCalls : put[c].at = "repo",
                            !.removing = removalFailed \/ (~AtRest /\ Newest.type = "REMOVE_INDEX")]
    /\ UNCHANGED <<jobVars, policyVars>>

ReadRepo ==
    /\ view.at = "repo"
    /\ view' = [view EXCEPT !.at = "jobs", !.repo = RepoRow]
    /\ UNCHANGED <<jobVars, policyVars>>

\* The last 20 job rows; the summary and the branches are worked out at once.
ReadJobs ==
    /\ view.at = "jobs"
    /\ view' = [view EXCEPT !.at = "graphs", !.summary = BuildRepoIndexSummary(view.repo, runs),
                            !.branches = BuildKnownBranchIndexStatuses(view.repo, runs)]
    /\ UNCHANGED <<jobVars, policyVars>>

LoadCodeGraph ==
    /\ view.at = "graphs"
    /\ view' = [view EXCEPT !.at = "manifests", !.graph = SelectCurrentCodeGraphIndex(graphRows)]
    /\ UNCHANGED <<jobVars, policyVars>>

LoadIndexManifests ==
    /\ view.at = "manifests"
    /\ view' = [view EXCEPT !.at = "done", !.issues = {m.rev : m \in RepoManifestQualityIssues(manifestRows)},
                            !.current = {m.rev : m \in CurrentManifests(manifestRows)}]
    /\ UNCHANGED <<jobVars, policyVars>>

Poll ==
    /\ view.at = "done" /\ view' = NoView
    /\ UNCHANGED <<jobVars, policyVars>>

-----------------------------------------------------------------------------
StatusInit ==
    /\ runs = <<>> /\ runStep = "none" /\ latest = "" /\ indexedAt = FALSE /\ indexedRevs = {}
    /\ manifestRows = {} /\ graphRows = {} /\ removalFailed = FALSE
    /\ repoPolicy = FirstPolicy /\ connPolicy = FirstPolicy
    /\ put = [c \in PutCalls |-> [at |-> "new", policy |-> FirstPolicy]]
    /\ view = NoView

WorldStep ==
    \/ \E type \in {"INDEX", "REMOVE_INDEX"} : InsertRun(type)
    \/ StartRun \/ PlanRun \/ ActivateRev \/ CompleteRun \/ FailRun
    \/ RefreshRepoLatestIndexingJobStatus \/ RemoveRows \/ RemoveFromRepo
    \/ \E c \in PutCalls : PutConnection(c) \/ UpdateOrgRepoBranchPolicyMetadata(c)
                           \/ UpdateMetadataFails(c)

StatusRead == \/ ReadConnection \/ ReadRepo \/ ReadJobs \/ LoadCodeGraph \/ LoadIndexManifests
            \/ Poll

StatusNext == WorldStep \/ StatusRead

StatusSpec == StatusInit /\ [][StatusNext]_statusVars

-----------------------------------------------------------------------------
\* Job, Repo and manifest rows have their types, and a revision has one READY manifest.
StatusTypeOK ==
    /\ \A k \in DOMAIN runs : runs[k].type \in {"INDEX", "REMOVE_INDEX"}
    /\ latest \in Unfinished \cup {"", "COMPLETED", "FAILED"}
    /\ indexedRevs \subseteq StatusRevs
    /\ \A m, n \in CurrentManifests(manifestRows) : m.rev = n.rev => m = n
    /\ repoPolicy \in Policies /\ connPolicy \in Policies

\* Nothing moved while the status was read.
Quiet == view.at = "done" /\ ~view.moved

\* "an older index stays usable when a re-index fails" (BuildRepoIndexSummary), also
\* for a read that runs beside the jobs: whatever INDEX job starts, activates, fails or
\* completes between its statements, a revision the answer lists as indexed has a
\* current manifest in the answer, and the graph the answer offers is a READY snapshot.
\* A failed run does not turn the badge of an indexed repository.  When nothing moved,
\* the answer lists exactly the revisions with a current manifest that the policy
\* admits.  Set apart is a removal that failed between its statements, which leaves the
\* Repo row indexed over deleted manifests.
StatusIsTrue ==
    view.at = "done" /\ ~view.removing =>
        /\ view.summary.revs \subseteq view.current
        /\ view.summary.revs # {} =>
              /\ view.graph # {} /\ \A g \in view.graph : IsCurrentGraphSnapshot(g)
              /\ view.summary.status \in {"indexed", "indexing"}
              /\ \A b \in view.branches : b.active = "indexed" => b.status # "failed"
        /\ Quiet => view.summary.revs =
                       {v \in view.current : IsRevisionAllowedByIndexPolicy(view.repo, v)}
================================================================================
