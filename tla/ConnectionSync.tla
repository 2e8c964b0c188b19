---------------------------- MODULE ConnectionSync ----------------------------
(***************************************************************************)
(* Syncing one connection: ScheduleConnectionSync of                        *)
(* internal/backend/scheduler, the asynq queue between, and                 *)
(* internal/backend/connectionmanager/handler.go, which lists the           *)
(* repositories of the code host and stores them.                           *)
(*                                                                         *)
(* asynq is external and modelled by what the code relies on: a task whose  *)
(* handler returns an error or whose worker dies is delivered again until   *)
(* its retries are used up; a worker that loses its lease goes on while the *)
(* task is delivered to another.                                            *)
(***************************************************************************)
EXTENDS Naturals, FiniteSets

CONSTANTS
    SyncJobs,       \* "ConnectionSyncJob" ids
    SyncWorkers,
    HostRepos,      \* repositories the code host may list
    MaxSyncRetry,   \* asynq retries of a task
    MaxSyncFaults   \* faults per behaviour

ASSUME SyncConstants == MaxSyncRetry \in Nat /\ MaxSyncFaults \in Nat

VARIABLES
    connection,    \* the "Connection" row: "live" or "deleted"
    syncedAt,      \* its syncedAt column is set
    syncJob,       \* syncJob[j]: status, "none" before the insert and after a delete
    scheduling,    \* where ScheduleConnectionSync is with j
    syncTask,      \* syncTask[j]: the asynq task
    sync,          \* sync[w]: the run of Handle in worker w
    repoRows,      \* "Repo" rows
    links,         \* "RepoToConnection" rows of this connection
    redelivered,   \* jobs that had two runs at once
    syncFaults

syncVars == <<connection, syncedAt, syncJob, scheduling, syncTask, sync, repoRows, links,
              redelivered, syncFaults>>

NoRun == [at |-> "idle", job |-> "none", todo |-> {}, listed |-> {}, repo |-> "none"]
Running(j) == {w \in SyncWorkers : sync[w].at # "idle" /\ sync[w].job = j}
SyncFault == syncFaults < MaxSyncFaults /\ syncFaults' = syncFaults + 1

-----------------------------------------------------------------------------
\* The connection is looked up and the PENDING row inserted.
InsertSyncJob(j) ==
    /\ scheduling[j] = "new" /\ connection = "live"
    /\ syncJob' = [syncJob EXCEPT ![j] = "PENDING"]
    /\ scheduling' = [scheduling EXCEPT ![j] = "inserted"]
    /\ UNCHANGED <<connection, syncedAt, syncTask, sync, repoRows, links, redelivered, syncFaults>>

EnqueueSync(j) ==
    /\ scheduling[j] = "inserted"
    /\ syncTask' = [syncTask EXCEPT ![j].state = "queued"]
    /\ scheduling' = [scheduling EXCEPT ![j] = "done"]
    /\ UNCHANGED <<connection, syncedAt, syncJob, sync, repoRows, links, redelivered, syncFaults>>

\* markConnectionSyncJobFailedAfterEnqueueError.
EnqueueSyncFails(j) ==
    /\ scheduling[j] = "inserted" /\ SyncFault
    /\ scheduling' = [scheduling EXCEPT ![j] = "done"]
    /\ syncJob' = [syncJob EXCEPT ![j] = IF @ = "PENDING" THEN "FAILED" ELSE @]
    /\ UNCHANGED <<connection, syncedAt, syncTask, sync, repoRows, links, redelivered>>

\* The process dies between the row and the task.
SyncSchedulerDies(j) ==
    /\ scheduling[j] = "inserted" /\ SyncFault
    /\ scheduling' = [scheduling EXCEPT ![j] = "dead"]
    /\ UNCHANGED <<connection, syncedAt, syncJob, syncTask, sync, repoRows, links, redelivered>>

\* DELETE of the connection cascades to its jobs and links, not to the repositories.
ConnectionDeleted ==
    /\ connection = "live"
    /\ connection' = "deleted" /\ syncedAt' = FALSE /\ links' = {}
    /\ syncJob' = [j \in SyncJobs |-> "none"]
    /\ UNCHANGED <<scheduling, syncTask, sync, repoRows, redelivered, syncFaults>>

-----------------------------------------------------------------------------
\* asynq (external): what becomes of the task when its delivery ends.
AfterDelivery(t, ok) ==
    CASE ok -> [t EXCEPT !.state = "finished"]
      [] ~ok /\ t.retried < MaxSyncRetry -> [t EXCEPT !.state = "queued", !.retried = @ + 1]
      [] OTHER -> [t EXCEPT !.state = "archived"]

\* Only the delivery that still holds the lease settles the task.
EndSync(w, ok) ==
    LET j == sync[w].job IN
    /\ syncTask' = [syncTask EXCEPT ![j] = IF @.state = "active" /\ @.worker = w
                                            THEN AfterDelivery(@, ok) ELSE @]
    /\ sync' = [sync EXCEPT ![w] = NoRun]

ContinueSync(w, at) == sync' = [sync EXCEPT ![w].at = at] /\ UNCHANGED syncTask

TakeSync(w) ==
    /\ sync[w].at = "idle"
    /\ \E j \in SyncJobs :
          /\ syncTask[j].state = "queued"
          /\ syncTask' = [syncTask EXCEPT ![j].state = "active", ![j].worker = w]
          /\ sync' = [sync EXCEPT ![w] = [NoRun EXCEPT !.at = "mark", !.job = j]]
          /\ redelivered' = IF Running(j) = {} THEN redelivered ELSE redelivered \cup {j}
    /\ UNCHANGED <<connection, syncedAt, syncJob, scheduling, repoRows, links, syncFaults>>

SyncWorkerDies(w) ==
    /\ sync[w].at # "idle" /\ SyncFault
    /\ EndSync(w, FALSE)
    /\ UNCHANGED <<connection, syncedAt, syncJob, scheduling, repoRows, links, redelivered>>

\* The lease of a live worker runs out: its task is delivered again.
SyncLeaseLost(w) ==
    /\ sync[w].at # "idle" /\ SyncFault
    /\ syncTask[sync[w].job].state = "active" /\ syncTask[sync[w].job].worker = w
    /\ syncTask' = [syncTask EXCEPT ![sync[w].job] = AfterDelivery(@, FALSE)]
    /\ UNCHANGED <<connection, syncedAt, syncJob, scheduling, sync, repoRows, links, redelivered>>

-----------------------------------------------------------------------------
MarkInProgress_AnyStatus(w) ==
    /\ sync[w].at = "mark"
    /\ IF connection = "live"
       THEN syncJob' = [syncJob EXCEPT ![sync[w].job] = "IN_PROGRESS"] /\ ContinueSync(w, "load")
       ELSE EndSync(w, FALSE) /\ UNCHANGED syncJob
    /\ UNCHANGED <<connection, syncedAt, scheduling, repoRows, links, redelivered, syncFaults>>

MarkInProgress_PendingOnly(w) ==
    /\ sync[w].at = "mark"
    /\ IF syncJob[sync[w].job] = "PENDING"
       THEN syncJob' = [syncJob EXCEPT ![sync[w].job] = "IN_PROGRESS"] /\ ContinueSync(w, "load")
       ELSE EndSync(w, FALSE) /\ UNCHANGED syncJob
    /\ UNCHANGED <<connection, syncedAt, scheduling, repoRows, links, redelivered, syncFaults>>

\* markInProgress: a job in a terminal state, or none, makes Handle return an error.
MarkInProgress(w) ==
    /\ sync[w].at = "mark"
    /\ IF syncJob[sync[w].job] \in {"PENDING", "IN_PROGRESS"}
       THEN syncJob' = [syncJob EXCEPT ![sync[w].job] = "IN_PROGRESS"] /\ ContinueSync(w, "load")
       ELSE EndSync(w, FALSE) /\ UNCHANGED syncJob
    /\ UNCHANGED <<connection, syncedAt, scheduling, repoRows, links, redelivered, syncFaults>>

\* markFailed has no status guard; a deleted connection leaves it no row.
MarkSyncFailed(w) ==
    syncJob' = [syncJob EXCEPT ![sync[w].job] = IF @ = "none" THEN @ ELSE "FAILED"]

LoadConnection(w) ==
    /\ sync[w].at = "load"
    /\ IF connection = "live" THEN ContinueSync(w, "compile") /\ UNCHANGED syncJob
       ELSE MarkSyncFailed(w) /\ EndSync(w, FALSE)
    /\ UNCHANGED <<connection, syncedAt, scheduling, repoRows, links, redelivered, syncFaults>>

\* The dispatch on connectionType and the host's listing.
Compile(w) ==
    /\ sync[w].at = "compile"
    /\ \E listed \in SUBSET HostRepos :
          sync' = [sync EXCEPT ![w].at = "repo", ![w].todo = listed, ![w].listed = listed]
    /\ UNCHANGED <<connection, syncedAt, syncJob, scheduling, syncTask, repoRows, links,
                   redelivered, syncFaults>>

\* An unparsable config, an unsupported type, a listing or a statement that fails
\* before markCompleted: FAILED, and the error goes to asynq.
SyncFails(w) ==
    /\ sync[w].at \in {"load", "compile", "repo", "link"} /\ SyncFault
    /\ MarkSyncFailed(w)
    /\ EndSync(w, FALSE)
    /\ UNCHANGED <<connection, syncedAt, scheduling, repoRows, links, redelivered>>

\* The statements of markInProgress and markCompleted fail: the error alone.
SyncStatementFails(w) ==
    /\ sync[w].at \in {"mark", "repo", "stamp"} /\ SyncFault
    /\ (sync[w].at = "repo") => sync[w].todo = {}
    /\ EndSync(w, FALSE)
    /\ UNCHANGED <<connection, syncedAt, syncJob, scheduling, repoRows, links, redelivered>>

\* upsertRepo: the "Repo" row, then its link, in two statements.
UpsertRepoRow(w) ==
    /\ sync[w].at = "repo"
    /\ \E r \in sync[w].todo :
          /\ repoRows' = repoRows \cup {r}
          /\ sync' = [sync EXCEPT ![w].at = "link", ![w].todo = (@ \ {r}), ![w].repo = r]
    /\ UNCHANGED <<connection, syncedAt, syncJob, scheduling, syncTask, links, redelivered,
                   syncFaults>>

\* A link to a connection that is gone breaks its foreign key.
LinkRepo(w) ==
    /\ sync[w].at = "link"
    /\ IF connection = "live"
       THEN /\ links' = links \cup {sync[w].repo}
            /\ UNCHANGED syncJob /\ ContinueSync(w, "repo")
       ELSE UNCHANGED links /\ MarkSyncFailed(w) /\ EndSync(w, FALSE)
    /\ UNCHANGED <<connection, syncedAt, scheduling, repoRows, redelivered, syncFaults>>

\* markCompleted, first statement: no guard on the status either.
MarkCompleted(w) ==
    /\ sync[w].at = "repo" /\ sync[w].todo = {}
    /\ IF syncJob[sync[w].job] # "none"
       THEN syncJob' = [syncJob EXCEPT ![sync[w].job] = "COMPLETED"] /\ ContinueSync(w, "stamp")
       ELSE UNCHANGED syncJob /\ EndSync(w, FALSE)
    /\ UNCHANGED <<connection, syncedAt, scheduling, repoRows, links, redelivered, syncFaults>>

\* Its second statement stamps the connection.
StampSyncedAt(w) ==
    /\ sync[w].at = "stamp"
    /\ syncedAt' = (connection = "live")
    /\ EndSync(w, connection = "live")
    /\ UNCHANGED <<connection, syncJob, scheduling, repoRows, links, redelivered, syncFaults>>

-----------------------------------------------------------------------------
SyncInit ==
    /\ connection = "live" /\ syncedAt = FALSE
    /\ syncJob = [j \in SyncJobs |-> "none"]
    /\ scheduling = [j \in SyncJobs |-> "new"]
    /\ syncTask = [j \in SyncJobs |-> [state |-> "none", retried |-> 0, worker |-> "none"]]
    /\ sync = [w \in SyncWorkers |-> NoRun]
    /\ repoRows = {} /\ links = {} /\ redelivered = {}
    /\ syncFaults = 0

SyncStep(w) ==
    \/ MarkInProgress(w) \/ LoadConnection(w) \/ Compile(w)
    \/ UpsertRepoRow(w) \/ LinkRepo(w) \/ MarkCompleted(w) \/ StampSyncedAt(w)

SyncNext ==
    \/ \E j \in SyncJobs : \/ InsertSyncJob(j) \/ EnqueueSync(j) \/ EnqueueSyncFails(j)
                           \/ SyncSchedulerDies(j)
    \/ ConnectionDeleted
    \/ \E w \in SyncWorkers :
          \/ TakeSync(w) \/ SyncStep(w) \/ SyncFails(w) \/ SyncStatementFails(w)
          \/ SyncWorkerDies(w) \/ SyncLeaseLost(w)

SyncSpec == SyncInit /\ [][SyncNext]_syncVars

\* asynq hands out what is queued and a worker with a task goes on; no fault is
\* ever required to happen.
SyncFairness ==
    /\ \A w \in SyncWorkers : WF_syncVars(TakeSync(w) \/ SyncStep(w))
    /\ \A j \in SyncJobs : WF_syncVars(EnqueueSync(j))

SyncFairSpec == SyncSpec /\ SyncFairness

-----------------------------------------------------------------------------
\* Rows, runs and links have their types; a link has its repository, as upsertRepo
\* stores it first.
SyncTypeOK ==
    /\ connection \in {"live", "deleted"} /\ syncedAt \in BOOLEAN
    /\ \A j \in SyncJobs : syncJob[j] \in {"none", "PENDING", "IN_PROGRESS", "COMPLETED", "FAILED"}
    /\ \A w \in SyncWorkers : sync[w].todo \subseteq sync[w].listed
    /\ links \subseteq repoRows /\ repoRows \subseteq HostRepos
    /\ syncFaults \in 0..MaxSyncFaults

\* A COMPLETED sync is not undone, except by a run of the same job that was
\* already going beside the one that completed it.
CompletedSyncStays ==
    [][\A j \in SyncJobs : syncJob[j] = "COMPLETED" /\ j \notin redelivered
          => syncJob'[j] \in {"COMPLETED", "none"}]_syncVars

\* A sync that started ends: in a terminal status or with its connection.
StartedSyncEnds ==
    \A j \in SyncJobs : syncJob[j] = "IN_PROGRESS" ~> syncJob[j] # "IN_PROGRESS"
================================================================================
