------------------------------ MODULE IndexPipeline ------------------------------
(***************************************************************************)
(* One indexing job as the backend runs it: the INDEX task that plans the  *)
(* subjobs, the dispatch loop, the asynq queue, the executor and core      *)
(* workers with their leases, the graph snapshot, and the faults: crashes, *)
(* stalls, lost leases, failing indexers, redelivered tasks.               *)
(*                                                                         *)
(* Every step that touches Postgres is an action of IndexSubjobs joined    *)
(* with the step of the process that takes it, so the module implements    *)
(* StoreSpec; what it adds is who takes which step when.                   *)
(***************************************************************************)
EXTENDS IndexSubjobs, FiniteSets

CONSTANTS
    Workers,      \* asynq worker slots
    HostOf,       \* HostOf[w]: the process (lease owner) w belongs to
    Dispatchers,  \* processes running the dispatch loop
    NoDispatcher, \* no row in the dispatch-lock table
    Commits, CommitOf,  \* CommitOf[b]: the commit revision b points at
    NoBranch,     \* no sourceRevision yet
    FaultKinds,   \* what may go wrong in this instance
    MaxFaults,    \* how often, all kinds together
    MaxPending    \* bound: tasks pending at once, duplicates included

(***************************************************************************)
(* A worker slot belongs to a process and a revision points at a commit.   *)
(* planSplitIndex asks indexplanner.Build for a GRAPH_MERGE and an         *)
(* ACTIVATE row of each revision; Build never makes CLONE or REMOVE rows.  *)
(***************************************************************************)
ASSUME PipelineConstants ==
    /\ HostOf \in [Workers -> Owners]
    /\ CommitOf \in [Branches -> Commits]
    /\ \A b \in Branches : \E s \in Subjobs : Branch[s] = b
    /\ \A s \in Subjobs : Layer[s] \in ExecutorLayers \cup {"GRAPH_MERGE", "ACTIVATE"}

VARIABLES
    planner,     \* the INDEX task: pc, revisions to plan, rows to insert
    queue,       \* pending asynq tasks <<subjob, attempt, kind>>
    dead,        \* archived asynq tasks that were never claimed
    worker,      \* worker[w]: pc and the task in hand
    restarting,  \* processes that crashed and are starting up again
    disp,        \* disp[d]: pc and the batch still to be enqueued
    lock,        \* the dispatch-lock row: owner and whether it has expired
    graph,       \* graph[c]: the CodeGraphIndex row of commit c
    scipRows,    \* revisions with SCIP rows in Postgres
    faults       \* faults so far

procVars == <<planner, queue, dead, worker, restarting, disp, lock, graph,
              scipRows, faults>>
vars == <<storeVars, procVars>>

\* A fault of kind k happens, within the budget.
Fault(k) == k \in FaultKinds /\ faults < MaxFaults /\ faults' = faults + 1

First(S) == CHOOSE s \in S : \A t \in S : PlanPos[s] <= PlanPos[t]

(***************************************************************************)
(* The INDEX task (repoindexmanager.Handle, planSplitIndex, PlanAndPersist) *)
(***************************************************************************)
PlannerTo(pc, revs, todo) == planner' = [pc |-> pc, revs |-> revs, todo |-> todo]
PlannerOnly == UNCHANGED <<queue, dead, worker, restarting, disp, lock, graph, scipRows>>

\* The handler starts, or a terminal job makes it return at once.
PlannerStart ==
    /\ planner.pc = "queued"
    /\ IF job \in ActiveJob
       THEN MarkInProgressScoped /\ PlannerTo("plan", Branches, {})
       ELSE UNCHANGED storeVars /\ PlannerTo("finished", {}, {})
    /\ PlannerOnly /\ UNCHANGED faults

RowsOf(b) == {s \in Subjobs : Branch[s] = b}

\* A revision that differs from its READY manifest gets a PENDING manifest.
PlanRevision(b) ==
    /\ planner.pc = "plan" /\ b \in planner.revs
    /\ \/ /\ "READY" \notin manifest[b]
          /\ UNCHANGED faults
       \/ "READY" \in manifest[b] /\ Fault("repair")
    /\ InsertPendingManifest(b)
    /\ PlannerTo("plan", planner.revs \ {b}, planner.todo \cup RowsOf(b))
    /\ PlannerOnly

PlanNoop_AnyManifest(b) ==
    /\ planner.pc = "plan" /\ b \in planner.revs
    /\ manifest[b] # {}
    /\ PlannerTo("plan", planner.revs \ {b}, planner.todo)
    /\ PlannerOnly /\ UNCHANGED <<storeVars, faults>>

\* An unchanged revision (NOOP delta) needs nothing.
PlanNoop(b) ==
    /\ planner.pc = "plan" /\ b \in planner.revs
    /\ "READY" \in manifest[b]
    /\ PlannerTo("plan", planner.revs \ {b}, planner.todo)
    /\ PlannerOnly /\ UNCHANGED <<storeVars, faults>>

\* Nothing planned: the job is complete, unless it became terminal meanwhile.
PlanEmpty ==
    /\ planner.pc = "plan" /\ planner.revs = {} /\ planner.todo = {}
    /\ IF job \in ActiveJob THEN MarkCompletedScoped ELSE UNCHANGED storeVars
    /\ PlannerTo("finished", {}, {})
    /\ PlannerOnly /\ UNCHANGED faults

\* UpsertQueued / UpsertSkipped row by row; ErrScopeNotReady ends the task.
PlanRow ==
    /\ planner.pc = "plan" /\ planner.revs = {} /\ planner.todo # {}
    /\ LET s == First(planner.todo)
           rest == planner.todo \ {s}
       IN  IF ScopeReady(s)
           THEN /\ UpsertSubjob(s)
                /\ PlannerTo(IF rest = {} THEN "finished" ELSE "plan", {}, rest)
           ELSE UNCHANGED storeVars /\ PlannerTo("fail", {}, {})
    /\ PlannerOnly /\ UNCHANGED faults

\* Git, the disk or the database fails the plan.
PlanError ==
    /\ planner.pc = "plan"
    /\ Fault("plan")
    /\ PlannerTo("fail", {}, {})
    /\ PlannerOnly /\ UNCHANGED storeVars

PlannerFail ==
    /\ planner.pc = "fail"
    /\ IF job \in ActiveJob THEN MarkFailedScoped ELSE UNCHANGED storeVars
    /\ PlannerTo("finished", {}, {})
    /\ PlannerOnly /\ UNCHANGED faults

\* The process dies before asynq sees the task acknowledged: it is redelivered.
PlannerCrash ==
    /\ planner.pc # "queued"
    /\ Fault("planner")
    /\ PlannerTo("queued", {}, {})
    /\ PlannerOnly /\ UNCHANGED storeVars

(***************************************************************************)
(* The dispatch loop (Dispatcher.RequeueExpiredAndDispatch) of process d.  *)
(***************************************************************************)
DispTo(d, pc, batch) == disp' = [disp EXCEPT ![d] = [pc |-> pc, batch |-> batch]]
DispOnly == UNCHANGED <<planner, dead, worker, restarting, graph, scipRows>>

\* Every pass has an owner name of its own, so the statement's "same owner"
\* clause never applies: the lock is taken when it is free or has expired.
TryAcquireDispatchLock(d) ==
    /\ disp[d].pc = "idle"
    /\ lock.owner = NoDispatcher \/ lock.expired
    /\ lock' = [owner |-> d, expired |-> FALSE]
    /\ DispTo(d, "requeue", {})
    /\ DispOnly /\ UNCHANGED <<storeVars, queue, faults>>

ReleaseDispatchLock(d) ==
    /\ disp[d].pc = "release"
    /\ lock' = IF lock.owner = d THEN [owner |-> NoDispatcher, expired |-> FALSE]
               ELSE lock
    /\ DispTo(d, "idle", {})
    /\ DispOnly /\ UNCHANGED <<storeVars, queue, faults>>

DispatchRequeue(d) ==
    /\ disp[d].pc = "requeue"
    /\ IF ExpiredRows # {} THEN RequeueExpiredLeases ELSE UNCHANGED storeVars
    /\ DispTo(d, "reconcile", {})
    /\ DispOnly /\ UNCHANGED <<queue, lock, faults>>

DispatchReconcile(d) ==
    /\ disp[d].pc = "reconcile"
    /\ IF FailureToReconcile THEN ReconcileTerminalFailures ELSE UNCHANGED storeVars
    /\ DispTo(d, "list", {})
    /\ DispOnly /\ UNCHANGED <<queue, lock, faults>>

DispatchList_IgnoresDependencies(d) ==
    /\ disp[d].pc = "list"
    /\ LET batch == {<<s, attempt[s] + 1>> : s \in {t \in Subjobs : status[t] \in Waiting}}
       IN  /\ offered' = offered \cup batch
           /\ DispTo(d, IF batch = {} THEN "release" ELSE "enqueue", batch)
    /\ DispOnly /\ UNCHANGED <<job, manifest, rows, queue, lock, faults>>

DispatchList(d) ==
    /\ disp[d].pc = "list"
    /\ ListDispatchable
    /\ LET batch == {<<s, attempt[s] + 1>> : s \in {t \in Subjobs : Dispatchable(t)}}
       IN  DispTo(d, IF batch = {} THEN "release" ELSE "enqueue", batch)
    /\ DispOnly /\ UNCHANGED <<queue, lock, faults>>

\* A task asynq still knows: pending, archived, or in a worker's hands.
Known(t) == \/ t \in queue \cup dead
            \/ \E w \in Workers : worker[w].pc = "claim" /\ worker[w].task = t

Enqueue_NoRescue(s, n) ==
    LET primary == <<s, n, "primary">>
    IN  queue' = IF ~Known(primary) THEN queue \cup {primary} ELSE queue

\* enqueue by TaskID; on a conflict enqueueRescue, once per uniqueness window.
Enqueue(s, n) ==
    LET primary == <<s, n, "primary">>
        rescue == <<s, n, "rescue">>
    IN  queue' = IF ~Known(primary) THEN queue \cup {primary}
                 ELSE IF ~Known(rescue) THEN queue \cup {rescue}
                 ELSE queue

DispatchReady(d) ==
    /\ disp[d].pc = "enqueue"
    /\ Cardinality(queue) < MaxPending
    /\ LET s == First({e[1] : e \in disp[d].batch})
           e == CHOOSE x \in disp[d].batch : x[1] = s
           rest == disp[d].batch \ {e}
       IN  /\ Enqueue(e[1], e[2])
           /\ DispTo(d, IF rest = {} THEN "release" ELSE "enqueue", rest)
    /\ DispOnly /\ UNCHANGED <<storeVars, lock, faults>>

\* Redis or Postgres fails the pass: the deferred release still runs.
DispatchError(d) ==
    /\ disp[d].pc \in {"requeue", "reconcile", "list", "enqueue"}
    /\ Fault("dispatch")
    /\ DispTo(d, "release", {})
    /\ DispOnly /\ UNCHANGED <<storeVars, queue, lock>>

\* The process dies in a pass and leaves the lock row behind.
DispatchCrash(d) ==
    /\ disp[d].pc # "idle"
    /\ Fault("dispatch")
    /\ DispTo(d, "idle", {})
    /\ DispOnly /\ UNCHANGED <<storeVars, queue, lock>>

\* Thirty seconds are over: of a pass that died, or of one that is too slow.
DispatchLockExpires ==
    /\ lock.owner # NoDispatcher /\ ~lock.expired
    /\ IF disp[lock.owner].pc = "idle" THEN UNCHANGED faults ELSE Fault("slowpass")
    /\ lock' = [lock EXCEPT !.expired = TRUE]
    /\ DispOnly /\ UNCHANGED <<storeVars, queue, disp>>

\* The ten-minute uniqueness lock of an archived rescue task lapses.
RescueWindowEnds(t) ==
    /\ t \in dead /\ t[3] = "rescue"
    /\ dead' = dead \ {t}
    /\ UNCHANGED <<storeVars, planner, queue, worker, restarting, disp, lock,
                   graph, scipRows, faults>>

(***************************************************************************)
(* Workers.  An idle worker has no task; "claim" is a task dequeued but    *)
(* not yet claimed; every other pc belongs to a claimed attempt.           *)
(***************************************************************************)
Idle == [pc |-> "idle", task |-> <<>>]
S(w) == worker[w].task[1]
N(w) == worker[w].task[2]
H(w) == HostOf[w]
B(w) == Branch[S(w)]
C(w) == CommitOf[B(w)]
At(w, pc) == worker[w].pc = pc
ToPc(w, pc) == worker' = [worker EXCEPT ![w] = IF pc = "idle" THEN Idle
                                               ELSE [@ EXCEPT !.pc = pc]]
WorkerOnly == UNCHANGED <<planner, queue, dead, restarting, disp, lock>>
NoGraph == UNCHANGED <<graph, scipRows>>

Dequeue(w) ==
    /\ At(w, "idle") /\ H(w) \notin restarting
    /\ \E t \in queue :
          /\ queue' = queue \ {t}
          /\ worker' = [worker EXCEPT ![w] = [pc |-> "claim", task |-> t]]
    /\ UNCHANGED <<storeVars, planner, dead, restarting, disp, lock, graph,
                   scipRows, faults>>

\* A rejected claim returns nil: the task is gone.
Claim(w) ==
    /\ At(w, "claim")
    /\ IF ClaimGuard(S(w), N(w))
       THEN ClaimScoped(S(w), H(w), N(w)) /\ ToPc(w, "beat")
       ELSE UNCHANGED storeVars /\ ToPc(w, "idle")
    /\ WorkerOnly /\ NoGraph /\ UNCHANGED faults

\* The claim statement itself fails: asynq archives the task unclaimed.
ClaimError(w) ==
    /\ At(w, "claim")
    /\ Fault("claim")
    /\ dead' = dead \cup {worker[w].task}
    /\ ToPc(w, "idle")
    /\ UNCHANGED <<storeVars, planner, queue, restarting, disp, lock>> /\ NoGraph

\* The heartbeat both handlers send before they start.
FirstBeat(w) ==
    /\ At(w, "beat")
    /\ IF Holds(S(w), H(w), N(w))
       THEN /\ Heartbeat(S(w), H(w), N(w))
            /\ ToPc(w, CASE Layer[S(w)] \in ExecutorLayers -> "run"
                         [] Layer[S(w)] = "GRAPH_MERGE" -> "merge"
                         [] OTHER -> "activate")
       ELSE UNCHANGED storeVars /\ ToPc(w, "fail")
    /\ WorkerOnly /\ NoGraph /\ UNCHANGED faults

Working == {"run", "publish", "ingest", "write", "building", "merge", "promote",
            "activate"}

\* The ticker's heartbeat; one that changes nothing is not a step.
TickerBeat(w) ==
    /\ worker[w].pc \in Working
    /\ IF Holds(S(w), H(w), N(w))
       THEN lease[S(w)] = "expired" /\ Heartbeat(S(w), H(w), N(w)) /\ UNCHANGED worker
       ELSE /\ UNCHANGED storeVars
            /\ ToPc(w, IF worker[w].pc \in {"run", "merge", "promote", "activate"}
                       THEN "fail" ELSE "idle")
    /\ WorkerOnly /\ NoGraph /\ UNCHANGED faults

\* indexexecutor: the indexer runs, well or badly.
RunOk(w) ==
    /\ At(w, "run")
    /\ ToPc(w, "postbeat")
    /\ WorkerOnly /\ NoGraph /\ UNCHANGED <<storeVars, faults>>

RunFails(w) ==
    /\ At(w, "run")
    /\ \/ Fault("run") /\ ToPc(w, "fail")
       \/ Fault("unavailable") /\ ToPc(w, "failInfra")
       \/ Layer[S(w)] = "SCIP" /\ Fault("semantic") /\ ToPc(w, "failSemantic")
    /\ WorkerOnly /\ NoGraph /\ UNCHANGED storeVars

\* The heartbeat before the post phase: a lost lease abandons the attempt.
PostBeat(w) ==
    /\ At(w, "postbeat")
    /\ IF Holds(S(w), H(w), N(w))
       THEN Heartbeat(S(w), H(w), N(w)) /\ ToPc(w, "publish")
       ELSE UNCHANGED storeVars /\ ToPc(w, "idle")
    /\ WorkerOnly /\ NoGraph /\ UNCHANGED faults

\* ValidateAndPublish, then MarkArtifactWritten.
Publish(w) ==
    /\ At(w, "publish")
    /\ \/ /\ IF HoldsLive(S(w), H(w), N(w))
             THEN MarkArtifactWritten(S(w), H(w), N(w)) /\ ToPc(w, "ingest")
             ELSE UNCHANGED storeVars /\ ToPc(w, "idle")
          /\ UNCHANGED faults
       \/ Fault("artifact") /\ ToPc(w, "fail") /\ UNCHANGED storeVars
    /\ WorkerOnly /\ NoGraph

IngestAllowed(w) == /\ HoldsLive(S(w), H(w), N(w))
                    /\ status[S(w)] \in {"ARTIFACT_WRITTEN", "VALIDATING"}
                    /\ "PENDING" \in manifest[B(w)]

\* The lease and manifest checks of the three artifact stores.
Ingest(w) ==
    /\ At(w, "ingest")
    /\ IF IngestAllowed(w)
       THEN ValidateLiveSubjobLease(S(w), H(w), N(w)) /\ ToPc(w, "write")
       ELSE UNCHANGED storeVars /\ ToPc(w, "fail")
    /\ WorkerOnly /\ NoGraph /\ UNCHANGED faults

WriteZoekt(w) ==
    /\ At(w, "write") /\ Layer[S(w)] = "ZOEKT"
    /\ \/ ToPc(w, "done") /\ UNCHANGED faults
       \/ Fault("artifact") /\ ToPc(w, "fail")
    /\ WorkerOnly /\ NoGraph /\ UNCHANGED storeVars

\* One transaction that checks the lease again and inserts the rows.
WriteScip(w) ==
    /\ At(w, "write") /\ Layer[S(w)] = "SCIP"
    /\ \/ /\ IF IngestAllowed(w)
             THEN /\ ValidateLiveSubjobLease(S(w), H(w), N(w))
                  /\ scipRows' = scipRows \cup {B(w)}
                  /\ ToPc(w, "done")
             ELSE UNCHANGED <<storeVars, scipRows>> /\ ToPc(w, "fail")
          /\ UNCHANGED faults
       \/ /\ Fault("semantic") /\ ToPc(w, "failSemantic")
          /\ UNCHANGED <<storeVars, scipRows>>
    /\ WorkerOnly /\ UNCHANGED graph

\* codegraphwriter.markBuilding: a READY or SKIPPED snapshot is left alone.
MarkBuilding(w) ==
    /\ At(w, "write") /\ Layer[S(w)] = "AST_TREE_SITTER"
    /\ IF graph[C(w)].st \in {"READY", "SKIPPED"}
       THEN UNCHANGED graph /\ ToPc(w, "done")
       ELSE /\ graph' = [graph EXCEPT ![C(w)] = [st |-> "BUILDING", src |-> B(w)]]
            /\ ToPc(w, "building")
    /\ WorkerOnly /\ UNCHANGED <<storeVars, scipRows, faults>>

\* The result of the Nebula write: markPartial and markSkipped look at
\* nothing but the row id, markFailed spares READY and SKIPPED rows.
MarkGraph(w) ==
    /\ At(w, "building")
    /\ \/ /\ graph' = [graph EXCEPT ![C(w)].st = "PARTIAL"]
          /\ ToPc(w, "done") /\ UNCHANGED faults
       \/ /\ Fault("graphskip")
          /\ graph' = [graph EXCEPT ![C(w)].st = "SKIPPED"]
          /\ ToPc(w, "done")
       \/ /\ Fault("graph")
          /\ graph' = [graph EXCEPT ![C(w)].st =
                          IF @ \in {"READY", "SKIPPED"} THEN @ ELSE "FAILED"]
          /\ ToPc(w, "fail")
    /\ WorkerOnly /\ UNCHANGED <<storeVars, scipRows>>

\* indexcore.mergeGraph, first half: find the snapshot, or build one from the
\* SCIP rows, or go on without one.
Merge(w) ==
    /\ At(w, "merge")
    /\ LET g == graph[C(w)]
       IN  IF g.st \in {"PARTIAL", "READY"} /\ g.src = B(w)
           THEN UNCHANGED graph /\ ToPc(w, "promote")
           ELSE IF B(w) \in scipRows
           THEN /\ graph' = [graph EXCEPT ![C(w)] =
                     [st |-> IF @.st = "READY" THEN "READY" ELSE "PARTIAL", src |-> B(w)]]
                /\ ToPc(w, "promote")
           ELSE UNCHANGED graph /\ ToPc(w, "done")
    /\ WorkerOnly /\ UNCHANGED <<storeVars, scipRows, faults>>

\* Second half: promote the PARTIAL snapshot, or find it READY already.
Promote(w) ==
    /\ At(w, "promote")
    /\ IF /\ graph[C(w)].st \in {"PARTIAL", "READY"}
          /\ graph[C(w)].src = B(w)
          /\ Unblocked(S(w))
       THEN graph' = [graph EXCEPT ![C(w)].st = "READY"] /\ ToPc(w, "done")
       ELSE UNCHANGED graph /\ ToPc(w, "fail")
    /\ WorkerOnly /\ UNCHANGED <<storeVars, scipRows, faults>>

GraphReadyFor_AnyStatus(b) == graph[CommitOf[b]].src = b

GraphReadyFor_NotChecked(b) == b \in Branches

\* indexcore.activate: it wants the READY snapshot of exactly this revision.
GraphReadyFor(b) == graph[CommitOf[b]] = [st |-> "READY", src |-> b]

ActivateRevision(w) ==
    /\ At(w, "activate")
    /\ IF ActivationAllowed(S(w)) /\ GraphReadyFor(B(w))
       THEN Activate(S(w)) /\ ToPc(w, "done")
       ELSE UNCHANGED storeVars /\ ToPc(w, "fail")
    /\ WorkerOnly /\ NoGraph /\ UNCHANGED faults

Finish(w) ==
    /\ At(w, "done")
    /\ IF HoldsLive(S(w), H(w), N(w))
       THEN /\ MarkSucceeded(S(w), H(w), N(w))
            /\ ToPc(w, IF Layer[S(w)] = "ACTIVATE" THEN "complete" ELSE "idle")
       ELSE UNCHANGED storeVars /\ ToPc(w, "idle")
    /\ WorkerOnly /\ NoGraph /\ UNCHANGED faults

\* completeJobIfReady, a statement of its own after MarkSucceeded.
Complete(w) ==
    /\ At(w, "complete")
    /\ IF JobReady THEN CompleteJobIfReady(S(w)) ELSE UNCHANGED storeVars
    /\ ToPc(w, "idle")
    /\ WorkerOnly /\ NoGraph /\ UNCHANGED faults

\* MarkFailed or MarkRetryableInfrastructureFailure; a lost lease is an error
\* the task ends with.  Only a FAILED row has more to do.
Fail(w) ==
    /\ worker[w].pc \in {"fail", "failSemantic", "failInfra"}
    /\ IF HoldsLive(S(w), H(w), N(w))
       THEN /\ CASE At(w, "fail") -> MarkFailed(S(w), H(w), N(w), "other")
                 [] At(w, "failSemantic") -> MarkFailed(S(w), H(w), N(w), "semantic")
                 [] At(w, "failInfra") ->
                        MarkRetryableInfrastructureFailure(S(w), H(w), N(w))
            /\ ToPc(w, IF status'[S(w)] = "FAILED" THEN "parent" ELSE "idle")
       ELSE UNCHANGED storeVars /\ ToPc(w, "idle")
    /\ WorkerOnly /\ NoGraph /\ UNCHANGED faults

FailParent(w) ==
    /\ At(w, "parent")
    /\ FailParentIfTerminalFailure(S(w))
    /\ ToPc(w, "idle")
    /\ WorkerOnly /\ NoGraph /\ UNCHANGED faults

\* A handler that returns on a database error without recording anything.
Abandon(w) ==
    /\ worker[w].pc \notin {"idle", "claim"}
    /\ Fault("abandon")
    /\ ToPc(w, "idle")
    /\ WorkerOnly /\ NoGraph /\ UNCHANGED storeVars

(***************************************************************************)
(* Processes and time.                                                     *)
(***************************************************************************)
\* Every worker of the process dies; asynq archives what was not claimed.
Crash(h) ==
    /\ h \notin restarting
    /\ \E w \in Workers : H(w) = h /\ ~At(w, "idle")
    /\ Fault("crash")
    /\ dead' = dead \cup {worker[w].task : w \in {v \in Workers : H(v) = h /\ At(v, "claim")}}
    /\ worker' = [w \in Workers |-> IF H(w) = h THEN Idle ELSE worker[w]]
    /\ restarting' = restarting \cup {h}
    /\ UNCHANGED <<storeVars, planner, queue, disp, lock>> /\ NoGraph

\* On the same host the rescue finds the old leases; on a new one it does not.
Startup(h) ==
    /\ h \in restarting
    /\ restarting' = restarting \ {h}
    /\ RequeueLeasesForOwnerPrefixes(h) \/ UNCHANGED storeVars
    /\ UNCHANGED <<planner, queue, dead, worker, disp, lock, faults>> /\ NoGraph

HeldByLiveWorker(s) ==
    \E w \in Workers : /\ worker[w].pc \notin {"idle", "claim"}
                       /\ worker[w].task[1] = s
                       /\ worker[w].task[2] = attemptId[s]

\* The lease of a worker that is gone expires; the lease of one that is there
\* expires only if the worker stalls.
LeaseRunsOut(s) ==
    /\ LeaseExpires(s)
    /\ IF HeldByLiveWorker(s) THEN Fault("stall") ELSE UNCHANGED faults
    /\ UNCHANGED <<planner, queue, dead, worker, restarting, disp, lock>> /\ NoGraph

-----------------------------------------------------------------------------
Init ==
    /\ StoreInit
    /\ planner = [pc |-> "queued", revs |-> {}, todo |-> {}]
    /\ queue = {}
    /\ dead = {}
    /\ worker = [w \in Workers |-> Idle]
    /\ restarting = {}
    /\ disp = [d \in Dispatchers |-> [pc |-> "idle", batch |-> {}]]
    /\ lock = [owner |-> NoDispatcher, expired |-> FALSE]
    /\ graph = [c \in Commits |-> [st |-> "none", src |-> NoBranch]]
    /\ scipRows = {}
    /\ faults = 0

PlannerStep ==
    \/ PlannerStart
    \/ \E b \in Branches : PlanRevision(b) \/ PlanNoop(b)
    \/ PlanEmpty
    \/ PlanRow
    \/ PlannerFail

DispatchStep(d) ==
    \/ TryAcquireDispatchLock(d)
    \/ DispatchRequeue(d)
    \/ DispatchReconcile(d)
    \/ DispatchList(d)
    \/ DispatchReady(d)
    \/ ReleaseDispatchLock(d)

\* What a worker does to finish the task in its hands.
WorkerStep(w) ==
    \/ Claim(w) \/ FirstBeat(w) \/ RunOk(w) \/ PostBeat(w) \/ Publish(w)
    \/ Ingest(w) \/ WriteZoekt(w) \/ WriteScip(w) \/ MarkBuilding(w) \/ MarkGraph(w)
    \/ Merge(w) \/ Promote(w) \/ ActivateRevision(w)
    \/ Finish(w) \/ Complete(w) \/ Fail(w) \/ FailParent(w)

Next ==
    \/ PlannerStep \/ PlanError \/ PlannerCrash
    \/ \E d \in Dispatchers : DispatchStep(d) \/ DispatchError(d) \/ DispatchCrash(d)
    \/ DispatchLockExpires
    \/ \E t \in dead : RescueWindowEnds(t)
    \/ \E w \in Workers : \/ Dequeue(w) \/ WorkerStep(w) \/ TickerBeat(w)
                          \/ RunFails(w) \/ ClaimError(w) \/ Abandon(w)
    \/ \E h \in Owners : Crash(h) \/ Startup(h)
    \/ \E s \in Subjobs : LeaseRunsOut(s)

Spec == Init /\ [][Next]_vars

\* Processes keep going, leases and uniqueness windows run out in time; no
\* fault is ever required to happen.
Fairness ==
    /\ WF_vars(PlannerStep)
    /\ \A d \in Dispatchers : WF_vars(DispatchStep(d))
    /\ \A w \in Workers : WF_vars(Dequeue(w)) /\ WF_vars(WorkerStep(w))
    /\ \A h \in Owners : WF_vars(Startup(h))
    /\ \A s \in Subjobs : WF_vars(LeaseRunsOut(s) /\ UNCHANGED faults)
    /\ WF_vars(\E t \in dead : RescueWindowEnds(t))
    /\ WF_vars(DispatchLockExpires /\ UNCHANGED faults)

FairSpec == Spec /\ Fairness

-----------------------------------------------------------------------------
(***************************************************************************)
(* Properties.                                                             *)
(***************************************************************************)

\* However often a task is delivered, by its TaskID, by a rescue or by two
\* dispatchers, no two workers ever run the same attempt of a subjob.
ExclusiveAttempt ==
    \A v, w \in Workers :
        /\ v # w
        /\ worker[v].pc \notin {"idle", "claim"}
        /\ worker[w].pc \notin {"idle", "claim"}
        => <<S(v), N(v)>> # <<S(w), N(w)>>

\* Some statements rely on what the code around the call has done, and their
\* SQL does not test it: rows are inserted in plan order, a job is completed
\* without rows only when all its revisions are READY, a claim is for an
\* attempt that was listed, only executor layers publish and only from a row
\* that is not VALIDATING, only a claimed ACTIVATE row activates.  Crashes,
\* stalls, redelivered tasks and a second INDEX task never bring a process to
\* such a statement at the wrong time.
CalledInTurn ==
    /\ planner.pc = "plan" /\ planner.revs = {} /\ planner.todo = {} /\ job \in ActiveJob
          => \A b \in Branches : "READY" \in manifest[b]
    /\ planner.pc = "plan" /\ planner.revs = {} /\ planner.todo # {}
          => \A t \in Subjobs \ PlannedSkipped :
                PlanPos[t] < PlanPos[First(planner.todo)] => Present(t)
    /\ \A w \in Workers :
          /\ At(w, "claim") => <<S(w), N(w)>> \in offered
          /\ worker[w].pc \in {"publish", "ingest", "write"} => Layer[S(w)] \in ExecutorLayers
          /\ At(w, "publish") /\ HoldsLive(S(w), H(w), N(w)) => status[S(w)] # "VALIDATING"
          /\ At(w, "failInfra") /\ HoldsLive(S(w), H(w), N(w))
                => status[S(w)] \in {"CLAIMED", "RUNNING"}
          /\ At(w, "activate") => S(w) \in Activations /\ attempt[S(w)] > 0
          /\ At(w, "complete") => S(w) \in Activations /\ status[S(w)] = "SUCCEEDED"
          /\ At(w, "parent") => status[S(w)] = "FAILED"

\* Search and MCP read the snapshot an activated revision points at: it is a
\* READY one ("PARTIAL rows are layer artifacts, not final active graphs").
ActiveGraphIsReady ==
    \A b \in Branches : "READY" \in manifest[b] => graph[CommitOf[b]].st = "READY"

\* A job fails only because one of its subjobs failed for good.
FailureHasCause ==
    job = "FAILED" => \E s \in Subjobs : status[s] = "FAILED"

\* Two revisions of a repository are indexed side by side: without any fault
\* a job does not fail.
FaultFreeJobSucceeds == faults = 0 => job # "FAILED"

\* Every row the planner inserted reaches a terminal status and stays there,
\* whichever worker or dispatcher crashes.
RowsTerminate ==
    <>[](\A s \in Subjobs : Present(s) => status[s] \in Terminal)

\* Every indexing job ends.
JobTerminates == <>(job \in {"COMPLETED", "FAILED"})

\* A subjob that failed for good ends the job, even if the worker that
\* recorded it dies before it gets to the job row.
FailedRowEndsJob ==
    (\E s \in Subjobs : status[s] = "FAILED") ~> job # "IN_PROGRESS"
=============================================================================
