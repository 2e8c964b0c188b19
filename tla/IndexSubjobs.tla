------------------------------ MODULE IndexSubjobs ------------------------------
(***************************************************************************)
(* The durable state of ONE repository indexing job and the SQL statements *)
(* that may touch it: the RepoIndexingJob row, its RepoIndexManifest rows  *)
(* and its CodeIntelIndexSubjob rows (src/internal/backend/indexsubjobs,   *)
(* repoindexmanager and indexcore).                                        *)
(*                                                                         *)
(* Every action is one SQL statement, or one transaction where the code    *)
(* opens one.  The module says nothing about WHO calls a statement or      *)
(* when: any process, live or stale, may call any statement with any lease *)
(* owner and attempt it likes, as often as it likes.  What holds here      *)
(* therefore holds whatever the queue, the workers and the crashes do.     *)
(* IndexPipeline adds the processes and implements this specification.     *)
(*                                                                         *)
(* A definition named X_Variant is a faulty variant of the X that follows  *)
(* it.  No specification uses one: substituting it for X must make the     *)
(* model checker find a violation, which shows a property is sensitive to  *)
(* that part of the code.                                                  *)
(***************************************************************************)
EXTENDS Naturals

CONSTANTS
    Subjobs,          \* the rows the planner derives for this job
    Branches,         \* the revisions selected for this job
    Owners, NoOwner,  \* lease owners (one per backend process), and SQL NULL
    Layer,            \* Layer[s]: the layer of subjob s
    Branch,           \* Branch[s]: the branch/revision/commit scope of s
    PlanPos,          \* PlanPos[s]: the place of s in the plan = (createdAt, id)
    PlannedSkipped,   \* SCIP projects persisted as SKIPPED, after the plan
    MaxAttempts       \* CodeIntelIndexSubjob."maxAttempts"

Layers == {"CLONE", "ZOEKT", "AST_TREE_SITTER", "SCIP", "GRAPH_MERGE",
           "ACTIVATE", "REMOVE"}
ExecutorLayers == {"ZOEKT", "AST_TREE_SITTER", "SCIP"}
Optional == {"SCIP", "AST_TREE_SITTER"}

\* Which layer waits for which: the NOT EXISTS clauses of ListDispatchable.
LayerEdges == ({"CLONE"} \X ExecutorLayers)
              \cup ({"AST_TREE_SITTER", "SCIP"} \X {"GRAPH_MERGE"})
              \cup ((Layers \ {"ACTIVATE"}) \X {"ACTIVATE"})

DependsOn(s) == {d \in Subjobs : /\ Branch[d] = Branch[s]
                                 /\ <<Layer[d], Layer[s]>> \in LayerEdges}
Activations == {s \in Subjobs : Layer[s] = "ACTIVATE"}

ASSUME ConstantTypes ==
    /\ Layer \in [Subjobs -> Layers]
    /\ Branch \in [Subjobs -> Branches]
    /\ PlanPos \in [Subjobs -> Nat]
    /\ PlannedSkipped \subseteq {s \in Subjobs : Layer[s] = "SCIP"}
    /\ MaxAttempts \in Nat \ {0}
    /\ NoOwner \notin Owners

(***************************************************************************)
(* indexplanner.Build: revision by revision, producers first, then         *)
(* GRAPH_MERGE, then ACTIVATE; persistSkippedSCIPProjects comes last.      *)
(***************************************************************************)
ASSUME PlanShape ==
    /\ \A s, t \in Subjobs : PlanPos[s] = PlanPos[t] => s = t
    /\ \A s \in Subjobs : \A d \in DependsOn(s) :
          d \notin PlannedSkipped => PlanPos[d] < PlanPos[s]
    /\ \A s, t \in Activations : Branch[s] = Branch[t] => s = t

VARIABLES
    job,         \* RepoIndexingJob.status
    manifest,    \* manifest[b]: statuses of the live RepoIndexManifest rows
    status,      \* CodeIntelIndexSubjob.status, "ABSENT" before the insert
    attempt,     \* .attempt
    attemptId,   \* ."attemptId": the attempt that was claimed, 0 for NULL
    leaseOwner,  \* ."leaseOwner"
    lease,       \* ."leaseExpiresAt" against NOW(): "none", "live", "expired"
    offered      \* the <<subjob, attempt>> pairs some dispatcher has listed

rows == <<status, attempt, attemptId, leaseOwner, lease>>
storeVars == <<job, manifest, rows, offered>>

Waiting == {"QUEUED", "RETRYING"}
InFlight == {"CLAIMED", "RUNNING", "ARTIFACT_WRITTEN", "VALIDATING"}
Terminal == {"SUCCEEDED", "FAILED", "CANCELED", "SKIPPED"}
Statuses == {"ABSENT"} \cup Waiting \cup InFlight \cup Terminal
JobStatuses == {"PENDING", "IN_PROGRESS", "COMPLETED", "FAILED"}
ActiveJob == {"PENDING", "IN_PROGRESS"}

Present(s) == status[s] # "ABSENT"

\* A dependency that no longer blocks anybody.
Done(s) == \/ status[s] \in {"SUCCEEDED", "SKIPPED"}
           \/ Layer[s] = "SCIP" /\ status[s] \in {"FAILED", "CANCELED"}

Unblocked_IgnoresRetrying(s) ==
    \A d \in DependsOn(s) : status[d] \notin {"QUEUED"} \cup InFlight

Unblocked(s) == \A d \in DependsOn(s) : Present(d) => Done(d)

ActivationTurn_IgnoresRetrying(s) ==
    Layer[s] = "ACTIVATE" =>
        \A a \in Activations :
            PlanPos[a] < PlanPos[s] =>
                status[a] \notin {"QUEUED", "CLAIMED", "RUNNING", "VALIDATING"}

\* ACTIVATE rows of one job are dispatched one after the other.
ActivationTurn(s) ==
    Layer[s] = "ACTIVATE" =>
        \A a \in Activations :
            PlanPos[a] < PlanPos[s] =>
                status[a] \notin {"QUEUED", "CLAIMED", "RUNNING", "VALIDATING",
                                  "RETRYING"}

Dispatchable_NoDependencies(s) ==
    /\ status[s] \in Waiting
    /\ job = "IN_PROGRESS"
    /\ attempt[s] < MaxAttempts
    /\ ActivationTurn(s)

Dispatchable(s) ==
    /\ status[s] \in Waiting
    /\ job = "IN_PROGRESS"
    /\ attempt[s] < MaxAttempts
    /\ Unblocked(s)
    /\ ActivationTurn(s)

\* The caller (w, n) is the lease holder the row names.
Holds(s, w, n) == /\ leaseOwner[s] = w
                  /\ attemptId[s] = n
                  /\ status[s] \in InFlight
                  /\ job = "IN_PROGRESS"

HoldsLive(s, w, n) == Holds(s, w, n) /\ lease[s] = "live"

(***************************************************************************)
(* The job row and the manifests.                                          *)
(***************************************************************************)
MarkInProgressScoped ==
    /\ job \in ActiveJob
    /\ job' = "IN_PROGRESS"
    /\ UNCHANGED <<manifest, rows, offered>>

MarkFailedScoped ==
    /\ job \in ActiveJob
    /\ job' = "FAILED"
    /\ UNCHANGED <<manifest, rows, offered>>

\* The INDEX handler found every selected revision unchanged against its
\* READY manifest: nothing is planned and the job is completed at once.
MarkCompletedScoped ==
    /\ job \in ActiveJob
    /\ \A b \in Branches : "READY" \in manifest[b]
    /\ job' = "COMPLETED"
    /\ UNCHANGED <<manifest, rows, offered>>

InsertPendingManifest(b) ==
    /\ manifest' = [manifest EXCEPT ![b] = @ \cup {"PENDING"}]
    /\ UNCHANGED <<job, rows, offered>>

\* upsertWithStatus: the guards hold for the insert and for the no-op update.
ScopeReady(s) == job = "IN_PROGRESS" /\ "PENDING" \in manifest[Branch[s]]

UpsertSubjob_ResetsStatus(s) ==
    /\ ScopeReady(s)
    /\ \A t \in Subjobs \ PlannedSkipped : PlanPos[t] < PlanPos[s] => Present(t)
    /\ status' = [status EXCEPT ![s] =
                    IF s \in PlannedSkipped THEN "SKIPPED" ELSE "QUEUED"]
    /\ UNCHANGED <<job, manifest, attempt, attemptId, leaseOwner, lease, offered>>

UpsertSubjob(s) ==
    /\ ScopeReady(s)
    /\ \A t \in Subjobs \ PlannedSkipped : PlanPos[t] < PlanPos[s] => Present(t)
    /\ status' = [status EXCEPT ![s] =
                    IF Present(s) THEN @
                    ELSE IF s \in PlannedSkipped THEN "SKIPPED" ELSE "QUEUED"]
    /\ UNCHANGED <<job, manifest, attempt, attemptId, leaseOwner, lease, offered>>

(***************************************************************************)
(* Dispatch and the life of one attempt.                                   *)
(***************************************************************************)
ListDispatchable ==
    /\ offered' = offered \cup {<<s, attempt[s] + 1>> :
                                  s \in {t \in Subjobs : Dispatchable(t)}}
    /\ UNCHANGED <<job, manifest, rows>>

ClaimGuard_StatusOnly(s, n) ==
    /\ status[s] \in Waiting \cup {"CLAIMED"}
    /\ attempt[s] < MaxAttempts
    /\ job = "IN_PROGRESS"

\* A task names the attempt it was listed for; a CLAIMED row may be taken over
\* once its lease has expired.
ClaimGuard(s, n) ==
    /\ status[s] \in Waiting \cup {"CLAIMED"}
    /\ attempt[s] = n - 1
    /\ attempt[s] < MaxAttempts
    /\ lease[s] \in {"none", "expired"} \/ status[s] \in Waiting
    /\ job = "IN_PROGRESS"

ClaimScoped_AttemptKept(s, w, n) ==
    /\ <<s, n>> \in offered
    /\ ClaimGuard(s, n)
    /\ status' = [status EXCEPT ![s] = "CLAIMED"]
    /\ attemptId' = [attemptId EXCEPT ![s] = n]
    /\ leaseOwner' = [leaseOwner EXCEPT ![s] = w]
    /\ lease' = [lease EXCEPT ![s] = "live"]
    /\ UNCHANGED <<job, manifest, attempt, offered>>

ClaimScoped(s, w, n) ==
    /\ <<s, n>> \in offered
    /\ ClaimGuard(s, n)
    /\ status' = [status EXCEPT ![s] = "CLAIMED"]
    /\ attempt' = [attempt EXCEPT ![s] = @ + 1]
    /\ attemptId' = [attemptId EXCEPT ![s] = n]
    /\ leaseOwner' = [leaseOwner EXCEPT ![s] = w]
    /\ lease' = [lease EXCEPT ![s] = "live"]
    /\ UNCHANGED <<job, manifest, offered>>

\* A heartbeat renews the lease even when it has already expired.
Heartbeat(s, w, n) ==
    /\ Holds(s, w, n)
    /\ status' = [status EXCEPT ![s] =
                    IF @ \in {"CLAIMED", "RUNNING"} THEN "RUNNING" ELSE @]
    /\ lease' = [lease EXCEPT ![s] = "live"]
    /\ UNCHANGED <<job, manifest, attempt, attemptId, leaseOwner, offered>>

MarkArtifactWritten(s, w, n) ==
    /\ Layer[s] \in ExecutorLayers
    /\ HoldsLive(s, w, n)
    /\ status[s] # "VALIDATING"
    /\ status' = [status EXCEPT ![s] = "ARTIFACT_WRITTEN"]
    /\ UNCHANGED <<job, manifest, attempt, attemptId, leaseOwner, lease, offered>>

\* validateLiveSubjobLease of the three artifact stores.
ValidateLiveSubjobLease(s, w, n) ==
    /\ Layer[s] \in ExecutorLayers
    /\ HoldsLive(s, w, n)
    /\ status[s] \in {"ARTIFACT_WRITTEN", "VALIDATING"}
    /\ "PENDING" \in manifest[Branch[s]]
    /\ status' = [status EXCEPT ![s] = "VALIDATING"]
    /\ UNCHANGED <<job, manifest, attempt, attemptId, leaseOwner, lease, offered>>

MarkSucceeded(s, w, n) ==
    /\ HoldsLive(s, w, n)
    /\ status' = [status EXCEPT ![s] = "SUCCEEDED"]
    /\ leaseOwner' = [leaseOwner EXCEPT ![s] = NoOwner]
    /\ lease' = [lease EXCEPT ![s] = "none"]
    /\ UNCHANGED <<job, manifest, attempt, attemptId, offered>>

\* Where an unsuccessful attempt leaves the row.
AfterFailure(s, optional) ==
    IF attempt[s] < MaxAttempts THEN "RETRYING"
    ELSE IF Layer[s] \in optional THEN "SKIPPED" ELSE "FAILED"

\* Every statement that takes rows S away from their holders; next[s] is where
\* it leaves row s.
Release(S, next) ==
    /\ status' = [s \in Subjobs |-> IF s \in S THEN next[s] ELSE status[s]]
    /\ attemptId' = [s \in Subjobs |-> IF s \in S THEN 0 ELSE attemptId[s]]
    /\ leaseOwner' = [s \in Subjobs |-> IF s \in S THEN NoOwner ELSE leaseOwner[s]]
    /\ lease' = [s \in Subjobs |-> IF s \in S THEN "none" ELSE lease[s]]
    /\ UNCHANGED <<attempt, offered, manifest>>

\* reason = "semantic": an empty or timed-out SCIP index, never retried.
MarkFailed(s, w, n, reason) ==
    /\ HoldsLive(s, w, n)
    /\ Release({s}, [t \in Subjobs |->
                      IF Layer[t] = "SCIP" /\ reason = "semantic" THEN "SKIPPED"
                      ELSE AfterFailure(t, Optional)])
    /\ UNCHANGED job

MarkRetryableInfrastructureFailure(s, w, n) ==
    /\ HoldsLive(s, w, n)
    /\ status[s] \in {"CLAIMED", "RUNNING"}
    /\ Release({s}, [t \in Subjobs |-> AfterFailure(t, Optional)])
    /\ UNCHANGED job

(***************************************************************************)
(* Failure of the whole job.                                               *)
(***************************************************************************)
CancelWaiting ==
    Release({t \in Subjobs : status[t] \in Waiting}, [t \in Subjobs |-> "CANCELED"])

FailParentIfTerminalFailure(s) ==
    /\ status[s] = "FAILED"
    /\ CancelWaiting
    /\ job' = IF job = "IN_PROGRESS" THEN "FAILED" ELSE job

FailureToReconcile_AnyError ==
    job = "IN_PROGRESS" /\ \E s \in Subjobs : status[s] \in {"FAILED", "RETRYING"}

FailureToReconcile_ProducersOnly ==
    job = "IN_PROGRESS" /\ \E s \in Subjobs :
        status[s] = "FAILED" /\ Layer[s] \in ExecutorLayers

\* Its first CTE, for RETRYING SCIP rows whose message says the index was
\* empty, matches only rows older builds left: MarkFailed skips those at once.
FailureToReconcile == job = "IN_PROGRESS" /\ \E s \in Subjobs : status[s] = "FAILED"

ReconcileTerminalFailures ==
    /\ FailureToReconcile
    /\ CancelWaiting
    /\ job' = "FAILED"

Requeued(s, optional) ==
    IF job = "IN_PROGRESS" THEN AfterFailure(s, optional) ELSE "CANCELED"

ExpiredRows_NotValidating ==
    {s \in Subjobs : status[s] \in InFlight \ {"VALIDATING"} /\ lease[s] = "expired"}

ExpiredRows == {s \in Subjobs : status[s] \in InFlight /\ lease[s] = "expired"}

RequeueExpiredLeases ==
    /\ ExpiredRows # {}
    /\ Release(ExpiredRows, [t \in Subjobs |-> Requeued(t, Optional)])
    /\ UNCHANGED job

\* On a restart, whatever the process' host still owns.
RequeueLeasesForOwnerPrefixes(w) ==
    LET rescued == {s \in Subjobs : status[s] \in InFlight /\ leaseOwner[s] = w}
    IN  /\ rescued # {}
        /\ Release(rescued, [t \in Subjobs |-> Requeued(t, {"SCIP"})])
        /\ UNCHANGED job

(***************************************************************************)
(* ACTIVATE: one transaction over manifests that never looks at the lease, *)
(* so any process that once claimed the row may run it; then the job.      *)
(***************************************************************************)
ActivationAllowed(s) == "PENDING" \in manifest[Branch[s]] /\ Unblocked(s)

Activate(s) ==
    /\ s \in Activations
    /\ attempt[s] > 0
    /\ ActivationAllowed(s)
    /\ manifest' = [manifest EXCEPT ![Branch[s]] = {"READY"}]
    /\ UNCHANGED <<job, rows, offered>>

JobReady_IgnoresRetrying ==
    job = "IN_PROGRESS" /\ \A t \in Subjobs : status[t] \notin {"QUEUED"} \cup InFlight

JobReady == job = "IN_PROGRESS" /\ \A t \in Subjobs : Present(t) => Done(t)

CompleteJobIfReady(s) ==
    /\ s \in Activations
    /\ status[s] = "SUCCEEDED"
    /\ JobReady
    /\ job' = "COMPLETED"
    /\ UNCHANGED <<manifest, rows, offered>>

\* The clock: nobody renewed the lease in time.
LeaseExpires(s) ==
    /\ lease[s] = "live"
    /\ lease' = [lease EXCEPT ![s] = "expired"]
    /\ UNCHANGED <<job, manifest, status, attempt, attemptId, leaseOwner, offered>>

-----------------------------------------------------------------------------
StoreInit ==
    /\ job = "PENDING"
    /\ manifest = [b \in Branches |-> {}]
    /\ status = [s \in Subjobs |-> "ABSENT"]
    /\ attempt = [s \in Subjobs |-> 0]
    /\ attemptId = [s \in Subjobs |-> 0]
    /\ leaseOwner = [s \in Subjobs |-> NoOwner]
    /\ lease = [s \in Subjobs |-> "none"]
    /\ offered = {}

Attempts == 1..MaxAttempts

StoreNext ==
    \/ MarkInProgressScoped
    \/ MarkFailedScoped
    \/ MarkCompletedScoped
    \/ \E b \in Branches : InsertPendingManifest(b)
    \/ ListDispatchable
    \/ ReconcileTerminalFailures
    \/ RequeueExpiredLeases
    \/ \E w \in Owners : RequeueLeasesForOwnerPrefixes(w)
    \/ \E s \in Subjobs :
          \/ UpsertSubjob(s)
          \/ FailParentIfTerminalFailure(s)
          \/ Activate(s)
          \/ CompleteJobIfReady(s)
          \/ LeaseExpires(s)
    \/ \E s \in Subjobs, w \in Owners, n \in Attempts :
          \/ ClaimScoped(s, w, n)
          \/ Heartbeat(s, w, n)
          \/ MarkArtifactWritten(s, w, n)
          \/ ValidateLiveSubjobLease(s, w, n)
          \/ MarkSucceeded(s, w, n)
          \/ \E reason \in {"other", "semantic"} : MarkFailed(s, w, n, reason)
          \/ MarkRetryableInfrastructureFailure(s, w, n)

StoreSpec == StoreInit /\ [][StoreNext]_storeVars
-----------------------------------------------------------------------------
(***************************************************************************)
(* Properties.                                                             *)
(***************************************************************************)

\* Every column holds a value of its enum, and an attempt never passes
\* "maxAttempts".
TypeOK ==
    /\ job \in JobStatuses
    /\ manifest \in [Branches -> SUBSET {"PENDING", "READY"}]
    /\ status \in [Subjobs -> Statuses]
    /\ attempt \in [Subjobs -> 0..MaxAttempts]
    /\ attemptId \in [Subjobs -> 0..MaxAttempts]
    /\ leaseOwner \in [Subjobs -> Owners \cup {NoOwner}]
    /\ lease \in [Subjobs -> {"none", "live", "expired"}]
    /\ offered \subseteq Subjobs \X Attempts

\* A row names a lease holder exactly while it is in flight, and that holder
\* is the one who claimed the row's current attempt: a process that claimed an
\* earlier attempt is fenced off from every lease-checked statement.
LeaseCoherence ==
    \A s \in Subjobs :
        IF status[s] \in InFlight
        THEN /\ lease[s] # "none"
             /\ leaseOwner[s] \in Owners
             /\ attempt[s] > 0
             /\ attemptId[s] = attempt[s]
        ELSE lease[s] = "none" /\ leaseOwner[s] = NoOwner

\* Whatever is delivered twice, late or after a restart: a task for a row in
\* flight never carries the attempt that would let ClaimScoped take the row
\* over from its holder, although its CLAIMED clause seems to allow that.
NoTakeover ==
    \A s \in Subjobs, n \in Attempts :
        <<s, n>> \in offered /\ status[s] \in InFlight => ~ClaimGuard(s, n)

\* A row that was ever claimed had, and still has, all its dependencies done.
\* ClaimScoped does not look at dependencies, so this rests on
\* ListDispatchable, on the order of the plan and on done rows staying done.
DependencyOrder ==
    \A s \in Subjobs :
        attempt[s] > 0 =>
            \A d \in DependsOn(s) \ PlannedSkipped : Done(d)

\* Two revisions of one job are never activated at the same time, however
\* stale the tasks that workers find in the queue.
ActivationsSerialized ==
    \A a, b \in Activations :
        status[a] \in InFlight /\ status[b] \in InFlight => a = b

\* A manifest becomes READY only when every producer row of its revision is
\* done, and none of them is undone later by a retry or a late worker.
ReadyMeansProduced ==
    \A s \in Activations :
        "READY" \in manifest[Branch[s]] =>
            \A d \in DependsOn(s) \ PlannedSkipped : Done(d)

\* A COMPLETED job leaves no row unfinished.  The one exception is an ACTIVATE
\* row whose revision a redelivered INDEX task already saw activated.
CompletedMeansDone ==
    job = "COMPLETED" =>
        \A s \in Subjobs :
            Present(s) => \/ Done(s)
                          \/ /\ s \in Activations
                             /\ "READY" \in manifest[Branch[s]]

\* Terminal row statuses, and terminal job statuses, are final.
TerminalIsFinal ==
    [][/\ \A s \in Subjobs : status[s] \in Terminal => status'[s] = status[s]
       /\ job \notin ActiveJob => job' = job]_storeVars

\* Only a claim moves the attempt counter, and only from a row nobody holds to
\* the next number: an attempt number is handed out at most once.
AttemptHandedOutOnce ==
    [][\A s \in Subjobs :
          attempt'[s] # attempt[s] =>
              /\ attempt'[s] = attempt[s] + 1
              /\ status[s] \in Waiting
              /\ job = "IN_PROGRESS"]_storeVars

(***************************************************************************)
(* The promise of IndexJob, as the rows keep it.                           *)
(***************************************************************************)
ActivationOf(b) == {s \in Activations : Branch[s] = b}
PlannedRevisions == {b \in Branches : \E s \in ActivationOf(b) : Present(s)}
BuiltRevisions ==
    {b \in PlannedRevisions :
        \A s \in ActivationOf(b) : \A d \in DependsOn(s) \ PlannedSkipped : Done(d)}
ServedRevisions == {b \in Branches : "READY" \in manifest[b]}

Promise == INSTANCE IndexJob WITH
    Revisions <- Branches, phase <- job, planned <- PlannedRevisions,
    built <- BuiltRevisions, served <- ServedRevisions

\* Whatever statements the processes call, in whatever order and however late,
\* the rows are a job as IndexJob has it: a revision is served only after all
\* its producers are done and stays served, a COMPLETED job planned nothing
\* that is not built, and a finished job stays as it is.
KeepsPromise == Promise!PromiseSpec
=============================================================================
