-------------------------- MODULE IndexPipelineProofs --------------------------
(***************************************************************************)
(* The processes of IndexPipeline, for every plan and every number of      *)
(* workers, dispatchers and faults: the planner and the dispatchers keep   *)
(* the invariant that the workers keep, the processes call the statements  *)
(* of the store only in turn, never run an attempt twice at once, and      *)
(* therefore implement StoreSpec and through it the promise of IndexJob.   *)
(* Then how a job ends: it fails only when a row of it has failed, and     *)
(* what it serves is a READY graph.                                        *)
(***************************************************************************)
EXTENDS IndexSubjobsProofs

-----------------------------------------------------------------------------
(***************************************************************************)
(* The planner, the dispatchers and the theorems.                          *)
(***************************************************************************)

\* That a set of naturals has a least member.
LOCAL INSTANCE WellFoundedInduction

\* The order of the natural numbers as a set of pairs.
Below == {p \in Nat \X Nat : p[1] < p[2]}

\* A nonempty set of places in the plan has a smallest one.
LEMMA SmallestPlace ==
    ASSUME NEW P \in SUBSET Nat, P # {}
    PROVE  \E x \in P : \A y \in P : x <= y
<1>1. IsWellFoundedOn(Below, Nat)
  BY NatLessThanWellFounded, Zenon DEF OpToRel, Below
<1>2. PICK x \in P : \A y \in P : ~(<<y, x>> \in Below)
  BY <1>1, WFMin, Zenon
<1>3. ASSUME NEW y \in P PROVE x <= y
  <2>1. x \in Nat /\ y \in Nat /\ <<y, x>> \notin Below
    BY <1>2, Zenon
  <2> QED
    BY <2>1 DEF Below
<1> QED
  BY <1>3, Zenon

\* A member of a nonempty set of rows comes first in the plan.
LEMMA FirstIsSmallest ==
    ASSUME NEW T \in SUBSET Subjobs, T # {}
    PROVE  First(T) \in T /\ \A t \in T : ~(PlanPos[t] < PlanPos[First(T)])
<1> DEFINE P == {PlanPos[s] : s \in T}
<1>1. P \in SUBSET Nat /\ P # {}
  BY ConstantTypes
<1>2. \E x \in P : \A y \in P : x <= y
  <2> HIDE DEF P
  <2> QED
    BY <1>1, SmallestPlace, Zenon
<1>3. \E s \in T : \A t \in T : PlanPos[s] <= PlanPos[t]
  BY <1>2, Zenon
<1>4. First(T) \in T /\ \A t \in T : PlanPos[First(T)] <= PlanPos[t]
  BY <1>3, Zenon DEF First
<1>5. \A t \in T : PlanPos[t] \in Nat
  BY ConstantTypes, Zenon
<1> QED
  BY <1>4, <1>5

-----------------------------------------------------------------------------
(***************************************************************************)
(* Steps of the INDEX task, the dispatchers, the queue and the clock.      *)
(***************************************************************************)

\* The steps of the INDEX task.
LEMMA PlannerInv ==
    ASSUME PipelineInv, PlannerStep \/ PlanError \/ PlannerCrash
    PROVE  PipelineInv' /\ [StoreNext]_storeVars
<1>1. UNCHANGED <<queue, worker, disp, dead>>
  BY Zenon DEF PlannerStep, PlannerStart, PlanRevision, PlanNoop, PlanEmpty, PlanRow, PlannerFail,
     PlanError, PlannerCrash, PlannerOnly
<1>2. ASSUME PlanRow PROVE First(planner.todo) \in planner.todo /\ First(planner.todo) \in Subjobs
  <2>1. planner.todo \in SUBSET Subjobs /\ planner.todo # {}
    BY <1>2, Zenon DEF PlanRow, PipelineInv, ProcessTypes
  <2> QED
    BY <2>1, FirstIsSmallest, Zenon
<1>3. UNCHANGED storeVars \/ UnheldAction
  BY <1>2, Zenon DEF PlannerStep, PlannerStart, PlanRevision, PlanNoop, PlanEmpty, PlanRow, PlannerFail,
     PlanError, PlannerCrash, UnheldAction
<1>4. /\ IndInv' /\ Monotone /\ offered \subseteq offered'
      /\ \A b \in Branches : "READY" \in manifest[b] => "READY" \in manifest'[b]
      /\ ReadyIsPlanned => ReadyIsPlanned'
  BY <1>3, FreeStep, StoreGrows, Zenon DEF PipelineInv
<1>5. planner' \in [pc : {"queued", "plan", "fail", "finished"}, revs : SUBSET Branches,
                    todo : SUBSET Subjobs]
  <2>1. /\ planner.revs \in SUBSET Branches /\ planner.todo \in SUBSET Subjobs
        /\ \A b : RowsOf(b) \in SUBSET Subjobs
    BY Zenon DEF PipelineInv, ProcessTypes, RowsOf
  <2> DEFINE Typed(pc, revs, todo) == /\ pc \in {"queued", "plan", "fail", "finished"}
                                      /\ revs \in SUBSET Branches /\ todo \in SUBSET Subjobs
                                      /\ PlannerTo(pc, revs, todo)
  <2>2. \E pc, revs, todo : Typed(pc, revs, todo)
    <3>1. CASE PlannerStart
      <4>1. PlannerTo("plan", Branches, {}) \/ PlannerTo("finished", {}, {})
        BY <3>1, Zenon DEF PlannerStart
      <4> QED
        BY <4>1
    <3>2. ASSUME NEW b \in Branches, PlanRevision(b) \/ PlanNoop(b) PROVE \E pc, revs, todo : Typed(pc, revs, todo)
      <4>1. \/ PlannerTo("plan", planner.revs \ {b}, planner.todo \cup RowsOf(b))
            \/ PlannerTo("plan", planner.revs \ {b}, planner.todo)
        BY <3>2, Zenon DEF PlanRevision, PlanNoop
      <4> QED
        BY <2>1, <4>1
    <3>3. CASE PlanEmpty \/ PlannerFail \/ PlanError \/ PlannerCrash
      <4>1. PlannerTo("finished", {}, {}) \/ PlannerTo("fail", {}, {}) \/ PlannerTo("queued", {}, {})
        BY <3>3, Zenon DEF PlanEmpty, PlannerFail, PlanError, PlannerCrash
      <4> QED
        BY <4>1
    <3>4. CASE PlanRow
      <4>1. \E rest \in SUBSET Subjobs : \/ PlannerTo("finished", {}, rest) \/ PlannerTo("plan", {}, rest)
                                         \/ PlannerTo("fail", {}, {})
        BY <2>1, <3>4, Zenon DEF PlanRow
      <4> QED
        BY <4>1
    <3> QED
      BY <3>1, <3>2, <3>3, <3>4, Zenon DEF PlannerStep
  <2> QED
    BY <2>2 DEF PlannerTo
<1>6. ProcessTypes'
  BY <1>1, <1>5, Zenon DEF PipelineInv, ProcessTypes
<1>7. PlannerFits'
  <2>0. ReadyIsPlanned' /\ (planner.pc = "plan" => PlannerFits)
    BY <1>4, Zenon DEF PipelineInv, PlannerFits
  <2> USE DEF PlannerFits, PlannerTo
  <2>1. CASE PlannerStart
    <3>1. \/ planner' = [pc |-> "plan", revs |-> Branches, todo |-> {}]
          \/ planner' = [pc |-> "finished", revs |-> {}, todo |-> {}]
      BY <2>1, Zenon DEF PlannerStart
    <3>2. \A t \in Subjobs : Branch[t] \in Branches
      BY ConstantTypes, Zenon
    <3> QED
      BY <2>0, <3>1, <3>2
  <2>2. CASE \E b \in Branches : PlanRevision(b)
    <3>1. PICK b \in Branches : PlanRevision(b)
      BY <2>2, Zenon
    <3>2. RowsOf(b) # {} /\ planner.pc = "plan"
      BY <3>1, PipelineConstants, Zenon DEF RowsOf, PlanRevision
    <3>3. planner' = [pc |-> "plan", revs |-> planner.revs \ {b},
                      todo |-> planner.todo \cup RowsOf(b)]
      BY <3>1, Zenon DEF PlanRevision
    <3>4. \A t \in Subjobs \ PlannedSkipped :
             Present(t) \/ t \in planner.todo \/ Branch[t] \in planner.revs
      BY <2>0, <3>2, Zenon
    <3>5. \A t \in Subjobs \ PlannedSkipped :
             Present(t)' \/ t \in planner'.todo \/ Branch[t] \in planner'.revs
      BY <1>4, <3>3, <3>4, Zenon DEF Monotone, RowsOf
    <3> QED
      BY <2>0, <3>2, <3>3, <3>5, Zenon
  <2>3. CASE \E b \in Branches : PlanNoop(b)
    <3>1. PICK b \in Branches : PlanNoop(b)
      BY <2>3, Zenon
    <3>2. /\ planner.pc = "plan" /\ "READY" \in manifest[b] /\ UNCHANGED storeVars
          /\ planner' = [pc |-> "plan", revs |-> planner.revs \ {b}, todo |-> planner.todo]
      BY <3>1, Zenon DEF PlanNoop
    <3>3. PICK a \in Activations : Branch[a] = b
      BY <3>2, Zenon DEF PipelineInv, IndInv, ReadyHasActivation
    <3>4. \A t \in Subjobs \ PlannedSkipped : Branch[t] = b => Present(t)
      <4> SUFFICES ASSUME NEW t \in Subjobs \ PlannedSkipped, Branch[t] = b PROVE Present(t)
        OBVIOUS
      <4>1. CASE Layer[t] = "ACTIVATE"
        <5>1. t \in Activations
          BY <4>1, Zenon DEF Activations
        <5> QED
          BY <3>2, <5>1, Zenon DEF PipelineInv, PlannerFits, ReadyIsPlanned
      <4>2. CASE Layer[t] # "ACTIVATE"
        <5>1. t \in DependsOn(a) \ PlannedSkipped
          BY <3>3, <4>2, ConstantTypes, Zenon DEF DependsOn, LayerEdges, Activations
        <5>2. Done(t)
          BY <3>2, <3>3, <5>1, Zenon DEF PipelineInv, IndInv, ReadyMeansProduced
        <5> QED
          BY <5>2, Zenon DEF Done, Present
      <4> QED
        BY <4>1, <4>2, Zenon
    <3>5. \A t \in Subjobs \ PlannedSkipped :
             Present(t) \/ t \in planner.todo \/ Branch[t] \in planner.revs
      BY <2>0, <3>2, Zenon
    <3>6. \A t \in Subjobs \ PlannedSkipped :
             Present(t)' \/ t \in planner'.todo \/ Branch[t] \in planner'.revs
      BY <1>4, <3>2, <3>4, <3>5, Zenon DEF Monotone
    <3>7. planner.todo = {} => \A c \in Branches \ planner'.revs : "READY" \in manifest'[c]
      BY <1>4, <2>0, <3>2, Zenon
    <3> QED
      BY <2>0, <3>2, <3>6, <3>7, Zenon
  <2>4. CASE PlanEmpty \/ PlannerFail \/ PlanError \/ PlannerCrash
    BY <2>0, <2>4 DEF PlanEmpty, PlannerFail, PlanError, PlannerCrash
  <2>5. CASE PlanRow
    <3>0. PICK s \in Subjobs : s = First(planner.todo)
      BY <1>2, <2>5, Zenon
    <3>1. planner.pc = "plan" /\ planner.revs = {}
      BY <2>5, Zenon DEF PlanRow
    <3>2. CASE ScopeReady(s) /\ planner.todo \ {s} # {}
      <4>1. /\ UpsertSubjob(s)
            /\ planner' = [pc |-> "plan", revs |-> {}, todo |-> planner.todo \ {s}]
        BY <2>5, <3>0, <3>2, Zenon DEF PlanRow
      <4>2. Present(s)'
        BY <3>1, <4>1, Zenon DEF UpsertSubjob, Present, PipelineInv, IndInv, TypeOK
      <4>3. \A t \in Subjobs \ PlannedSkipped :
               Present(t) \/ t \in planner.todo \/ Branch[t] \in planner.revs
        BY <2>0, <3>1, Zenon
      <4>4. \A t \in Subjobs \ PlannedSkipped : Present(t)' \/ t \in planner'.todo
        BY <1>4, <3>1, <4>1, <4>2, <4>3, Zenon DEF Monotone
      <4> QED
        BY <2>0, <3>2, <4>1, <4>4, Zenon
    <3>3. CASE ~(ScopeReady(s) /\ planner.todo \ {s} # {})
      <4>1. planner'.pc # "plan"
        BY <2>5, <3>0, <3>3 DEF PlanRow
      <4> QED
        BY <2>0, <4>1, Zenon
    <3> QED
      BY <3>2, <3>3, Zenon
  <2> QED
    BY <2>1, <2>2, <2>3, <2>4, <2>5, Zenon DEF PlannerStep
<1>8. /\ \A t \in queue' : <<t[1], t[2]>> \in offered'
      /\ \A d \in Dispatchers : /\ disp'[d].batch \subseteq offered'
                                /\ disp'[d].pc = "enqueue" => disp'[d].batch # {}
  BY <1>1, <1>4, Zenon DEF PipelineInv, TasksOffered
<1> QED
  BY <1>1, <1>3, <1>6, <1>7, <1>8, WorkersStay, Zenon

\* The first element of a batch, as DispatchReady picks it.
LEMMA BatchElement ==
    ASSUME NEW batch \in SUBSET (Subjobs \X Attempts), batch # {}
    PROVE  LET s == First({e[1] : e \in batch})
           IN  (CHOOSE x \in batch : x[1] = s) \in batch
<1> DEFINE T == {e[1] : e \in batch}
<1>1. T \in SUBSET Subjobs /\ T # {}
  OBVIOUS
<1>2. First(T) \in T
  <2> HIDE DEF T
  <2> QED
    BY <1>1, FirstIsSmallest, Zenon
<1>3. \E x \in batch : x[1] = First(T)
  BY <1>2, Zenon
<1> QED
  BY <1>3, Zenon

\* The steps of a dispatch pass.
LEMMA DispatchInv ==
    ASSUME PipelineInv, NEW d \in Dispatchers,
           DispatchStep(d) \/ DispatchError(d) \/ DispatchCrash(d)
    PROVE  PipelineInv' /\ [StoreNext]_storeVars
<1> DEFINE Pcs == {"idle", "requeue", "reconcile", "list", "enqueue", "release"}
<1>1. UNCHANGED <<planner, worker, dead>>
  BY Zenon DEF DispatchStep, TryAcquireDispatchLock, ReleaseDispatchLock, DispatchRequeue,
     DispatchReconcile, DispatchList, DispatchReady, DispatchError, DispatchCrash, DispOnly
<1>2. UNCHANGED storeVars \/ UnheldAction
  BY Zenon DEF DispatchStep, TryAcquireDispatchLock, ReleaseDispatchLock, DispatchRequeue,
     DispatchReconcile, DispatchList, DispatchReady, DispatchError, DispatchCrash, UnheldAction
<1>3. /\ IndInv' /\ Monotone /\ offered \subseteq offered'
      /\ \A b \in Branches : "READY" \in manifest[b] => "READY" \in manifest'[b]
      /\ ReadyIsPlanned => ReadyIsPlanned'
  BY <1>2, FreeStep, StoreGrows, Zenon DEF PipelineInv
<1>4. PlannerFits'
  <2>1. PlannerFits /\ UNCHANGED planner
    BY <1>1, Zenon DEF PipelineInv
  <2> QED
    BY <1>3, <2>1, Zenon DEF PlannerFits, Monotone
<1>5. /\ queue' \subseteq Tasks
      /\ \A t \in queue' : <<t[1], t[2]>> \in offered'
      /\ \E pc \in Pcs, batch \in SUBSET (Subjobs \X Attempts) :
            /\ DispTo(d, pc, batch)
            /\ batch \subseteq offered'
            /\ pc = "enqueue" => batch # {}
  <2>1. /\ queue \subseteq Tasks /\ \A t \in queue : <<t[1], t[2]>> \in offered
        /\ disp[d].batch \in SUBSET (Subjobs \X Attempts) /\ disp[d].batch \subseteq offered
        /\ disp[d].pc = "enqueue" => disp[d].batch # {}
    BY Zenon DEF PipelineInv, ProcessTypes, TasksOffered
  <2>2. CASE DispatchList(d)
    <3> DEFINE batch == {<<s, attempt[s] + 1>> : s \in {t \in Subjobs : Dispatchable(t)}}
    <3>1. queue' = queue /\ offered' = offered \cup batch
      BY <2>2, Zenon DEF DispatchList, ListDispatchable
    <3>2. DispTo(d, IF batch = {} THEN "release" ELSE "enqueue", batch)
      BY <2>2, Zenon DEF DispatchList
    <3>3. offered' \subseteq Subjobs \X Attempts
      BY <1>3, Zenon DEF IndInv, TypeOK
    <3> HIDE DEF batch
    <3>4. batch \in SUBSET (Subjobs \X Attempts) /\ batch \subseteq offered'
      BY <3>1, <3>3, Zenon
    <3>5. CASE batch = {}
      <4>1. DispTo(d, "release", batch)
        BY <3>2, <3>5, Zenon
      <4> QED
        BY <2>1, <3>1, <3>4, <4>1, Zenon
    <3>6. CASE batch # {}
      <4>1. DispTo(d, "enqueue", batch)
        BY <3>2, <3>6, Zenon
      <4> QED
        BY <2>1, <3>1, <3>4, <3>6, <4>1, Zenon
    <3> QED
      BY <3>5, <3>6, Zenon
  <2>3. CASE DispatchReady(d)
    <3> DEFINE first == First({e[1] : e \in disp[d].batch})
               e == CHOOSE x \in disp[d].batch : x[1] = first
               rest == disp[d].batch \ {e}
    <3>1. /\ Enqueue(e[1], e[2]) /\ UNCHANGED storeVars
          /\ DispTo(d, IF rest = {} THEN "release" ELSE "enqueue", rest)
      BY <2>3, Zenon DEF DispatchReady
    <3>2. disp[d].batch # {}
      BY <2>1, <2>3, Zenon DEF DispatchReady
    <3>3. e \in disp[d].batch
      BY <2>1, <3>2, BatchElement, Zenon
    <3>4. rest \in SUBSET (Subjobs \X Attempts) /\ rest \subseteq offered'
      BY <1>3, <2>1, Zenon
    <3> HIDE DEF e, rest, first
    <3>5. e[1] \in Subjobs /\ e[2] \in Attempts /\ <<e[1], e[2]>> \in offered
      <4>1. e \in Subjobs \X Attempts /\ e \in offered
        BY <2>1, <3>3, Zenon
      <4>2. e = <<e[1], e[2]>> /\ e[1] \in Subjobs /\ e[2] \in Attempts
        BY <4>1
      <4> QED
        BY <4>1, <4>2, Zenon
    <3>6. \E k \in {"primary", "rescue"} :
             queue' \subseteq queue \cup {<<e[1], e[2], k>>}
      BY <3>1, Zenon DEF Enqueue
    <3>7. PICK k \in {"primary", "rescue"} :
             queue' \subseteq queue \cup {<<e[1], e[2], k>>}
      BY <3>6, Zenon
    <3>8. queue' \subseteq Tasks
      BY <2>1, <3>5, <3>7 DEF Tasks
    <3>9. \A t \in queue' : <<t[1], t[2]>> \in offered'
      <4> SUFFICES ASSUME NEW t \in queue' PROVE <<t[1], t[2]>> \in offered'
        BY Zenon
      <4>1. CASE t \in queue
        BY <1>3, <2>1, <4>1, Zenon
      <4>2. CASE t = <<e[1], e[2], k>>
        <5>1. t[1] = e[1] /\ t[2] = e[2]
          BY <4>2, Zenon
        <5> QED
          BY <1>3, <3>5, <5>1, Zenon
      <4> QED
        BY <3>7, <4>1, <4>2, Zenon
    <3>10. CASE rest = {}
      <4>1. DispTo(d, "release", rest)
        BY <3>1, <3>10, Zenon
      <4> QED
        BY <3>4, <3>8, <3>9, <4>1, Zenon
    <3>11. CASE rest # {}
      <4>1. DispTo(d, "enqueue", rest)
        BY <3>1, <3>11, Zenon
      <4> QED
        BY <3>4, <3>8, <3>9, <3>11, <4>1, Zenon
    <3> QED
      BY <3>10, <3>11, Zenon
  <2>4. CASE ~DispatchList(d) /\ ~DispatchReady(d)
    <3>1. queue' = queue /\ \E pc \in Pcs \ {"enqueue"} : DispTo(d, pc, {})
      BY <2>4, Zenon DEF DispatchStep, TryAcquireDispatchLock, ReleaseDispatchLock, DispatchRequeue,
         DispatchReconcile, DispatchError, DispatchCrash
    <3> QED
      BY <1>3, <2>1, <3>1, Zenon
  <2> QED
    BY <2>2, <2>3, <2>4, Zenon
<1>6. PICK pc \in Pcs, batch \in SUBSET (Subjobs \X Attempts) :
         /\ DispTo(d, pc, batch)
         /\ batch \subseteq offered'
         /\ pc = "enqueue" => batch # {}
  BY <1>5, Zenon
<1>7. ProcessTypes'
  BY <1>1, <1>5, <1>6, Zenon DEF PipelineInv, ProcessTypes, DispTo
<1>8. \A c \in Dispatchers : /\ disp'[c].batch \subseteq offered'
                             /\ disp'[c].pc = "enqueue" => disp'[c].batch # {}
  BY <1>3, <1>6, Zenon DEF PipelineInv, ProcessTypes, TasksOffered, DispTo
<1> QED
  BY <1>1, <1>2, <1>4, <1>5, <1>7, <1>8, WorkersStay, Zenon

\* The clocks, the archive and a process that starts up again.
LEMMA EnvironmentInv ==
    ASSUME PipelineInv,
           \/ DispatchLockExpires
           \/ \E t \in dead : RescueWindowEnds(t)
           \/ \E h \in Owners : Startup(h)
           \/ \E s \in Subjobs : LeaseRunsOut(s)
    PROVE  PipelineInv' /\ [StoreNext]_storeVars
<1>1. UNCHANGED <<planner, worker, queue, disp>> /\ dead' \subseteq dead
  BY Zenon DEF DispatchLockExpires, RescueWindowEnds, Startup, LeaseRunsOut, DispOnly
<1>2. UNCHANGED storeVars \/ UnheldAction
  BY Zenon DEF DispatchLockExpires, RescueWindowEnds, Startup, LeaseRunsOut, UnheldAction
<1>3. /\ IndInv' /\ Monotone /\ offered \subseteq offered'
      /\ \A b \in Branches : "READY" \in manifest[b] => "READY" \in manifest'[b]
      /\ ReadyIsPlanned => ReadyIsPlanned'
  BY <1>2, FreeStep, StoreGrows, Zenon DEF PipelineInv
<1>4. PlannerFits'
  <2>1. PlannerFits /\ UNCHANGED planner
    BY <1>1, Zenon DEF PipelineInv
  <2> QED
    BY <1>3, <2>1, Zenon DEF PlannerFits, Monotone
<1>5. ProcessTypes'
  BY <1>1, Zenon DEF PipelineInv, ProcessTypes
<1>6. /\ \A t \in queue' : <<t[1], t[2]>> \in offered'
      /\ \A d \in Dispatchers : /\ disp'[d].batch \subseteq offered'
                                /\ disp'[d].pc = "enqueue" => disp'[d].batch # {}
  BY <1>1, <1>3, Zenon DEF PipelineInv, TasksOffered
<1> QED
  BY <1>1, <1>2, <1>4, <1>5, <1>6, WorkersStay, Zenon

-----------------------------------------------------------------------------
(***************************************************************************)
(* The theorems.                                                           *)
(***************************************************************************)
\* The job before its INDEX task is delivered.
LEMMA InitPipelineInv == Init => PipelineInv
<1> SUFFICES ASSUME Init PROVE PipelineInv
  OBVIOUS
<1>1. IndInv
  BY InitIndInv, Zenon DEF Init
<1>2. ProcessTypes
  BY Zenon DEF Init, ProcessTypes, Idle, WorkerPcs
<1>3. TasksOffered /\ WorkersFit /\ ExclusiveAttempt
  BY Zenon DEF Init, TasksOffered, WorkersFit, WorkerFits, LayerFits, ExclusiveAttempt, Idle,
     ExecutorPcs, MergePcs, EarlyPcs
<1>4. PlannerFits
  BY ConstantTypes, Zenon DEF Init, StoreInit, PlannerFits, ReadyIsPlanned, Activations
<1> QED
  BY <1>1, <1>2, <1>3, <1>4, Zenon DEF PipelineInv

\* Every step of every process keeps the invariant and is a step of the store
\* specification, or leaves the store alone.
LEMMA NextPipelineInv ==
    ASSUME PipelineInv, [Next]_vars
    PROVE  PipelineInv' /\ [StoreNext]_storeVars
<1>1. CASE UNCHANGED vars
  <2>1. UNCHANGED <<storeVars, worker, planner, queue, dead, disp>>
    BY <1>1, Zenon DEF vars, procVars
  <2>2. PipelineInv'
    <3>1. IndInv'
      BY <2>1, StoreGrows, Zenon DEF PipelineInv
    <3>2. ProcessTypes' /\ TasksOffered' /\ ExclusiveAttempt'
      BY <2>1, Zenon DEF PipelineInv, ProcessTypes, TasksOffered, ExclusiveAttempt, S, N, storeVars
    <3>3. WorkersFit' /\ PlannerFits'
      BY <2>1, Zenon DEF PipelineInv, WorkersFit, WorkerFits, PlannerFits, ReadyIsPlanned, Present, S, N,
         storeVars, rows
    <3> QED
      BY <3>1, <3>2, <3>3, Zenon DEF PipelineInv
  <2> QED
    BY <2>1, <2>2, Zenon
<1>2. CASE PlannerStep \/ PlanError \/ PlannerCrash
  BY <1>2, PlannerInv, Zenon
<1>3. ASSUME NEW d \in Dispatchers, DispatchStep(d) \/ DispatchError(d) \/ DispatchCrash(d)
      PROVE  PipelineInv' /\ [StoreNext]_storeVars
  BY <1>3, DispatchInv, Zenon
<1>4. ASSUME NEW w \in Workers, WorkerStep(w)
      PROVE  PipelineInv' /\ [StoreNext]_storeVars
  <2>1. CASE Claim(w)
    BY <2>1, ClaimInv, Zenon
  <2>2. CASE FirstBeat(w) \/ PostBeat(w)
    BY <2>2, BeatInv, Zenon
  <2>3. CASE Publish(w) \/ Ingest(w) \/ WriteScip(w)
    BY <2>3, ArtifactStepInv, Zenon
  <2>4. CASE \/ RunOk(w) \/ WriteZoekt(w) \/ MarkBuilding(w) \/ MarkGraph(w)
             \/ Merge(w) \/ Promote(w)
    BY <2>4, QuietStepInv, Zenon
  <2>5. CASE ActivateRevision(w) \/ Complete(w)
    BY <2>5, ActivationStepInv, Zenon
  <2>6. CASE Finish(w)
    BY <2>6, FinishInv, Zenon
  <2>7. CASE Fail(w)
    BY <2>7, FailInv, Zenon
  <2>8. CASE FailParent(w)
    BY <2>8, FailParentInv, Zenon
  <2> QED
    BY <1>4, <2>1, <2>2, <2>3, <2>4, <2>5, <2>6, <2>7, <2>8, Zenon DEF WorkerStep
<1>5. ASSUME NEW w \in Workers,
             Dequeue(w) \/ TickerBeat(w) \/ RunFails(w) \/ ClaimError(w) \/ Abandon(w)
      PROVE  PipelineInv' /\ [StoreNext]_storeVars
  BY <1>5, DequeueInv, TickerBeatInv, QuietStepInv, ClaimErrorInv, Zenon
<1>6. ASSUME NEW h \in Owners, Crash(h) PROVE PipelineInv' /\ [StoreNext]_storeVars
  BY <1>6, CrashInv, Zenon
<1>7. CASE \/ DispatchLockExpires
           \/ \E t \in dead : RescueWindowEnds(t)
           \/ \E h \in Owners : Startup(h)
           \/ \E s \in Subjobs : LeaseRunsOut(s)
  BY <1>7, EnvironmentInv, Zenon
<1> QED
  BY <1>1, <1>2, <1>3, <1>4, <1>5, <1>6, <1>7, Zenon DEF Next

\* The inductive invariant of the processes.
THEOREM PipelineInvHolds == Spec => []PipelineInv
  BY InitPipelineInv, NextPipelineInv, PTL DEF Spec

\* The processes of the backend, whatever fails, is delivered twice or comes
\* late, do to the store only what its statements allow.
THEOREM PipelineImplementsStore == Spec => StoreSpec
<1>1. Init => StoreInit
  BY Zenon DEF Init
<1> QED
  BY <1>1, InitPipelineInv, NextPipelineInv, PTL DEF Spec, StoreSpec

\* Hence a job as the processes run it keeps the promise of IndexJob.
THEOREM PipelineKeepsPromise == Spec => KeepsPromise
  BY PipelineImplementsStore, StoreKeepsPromise, PTL

\* Hence, too, no claim of a task that is redelivered, rescued or late takes a
\* row in flight over, and no row starts before its dependencies are done.
THEOREM PipelineClaimsInOrder == Spec => [](NoTakeover /\ DependencyOrder /\ ActivationsSerialized)
  BY PipelineImplementsStore, ClaimsNeverTakeOver, DependenciesFirst, ActivationsOneAtATime, PTL

\* No two workers ever run the same attempt of a subjob.
THEOREM AttemptsAreExclusive == Spec => []ExclusiveAttempt
<1>1. PipelineInv => ExclusiveAttempt
  BY Zenon DEF PipelineInv
<1> QED
  BY <1>1, PipelineInvHolds, PTL

\* Every statement of the store is called only when what its SQL takes for
\* granted holds, so no guard of the model keeps a process from a step the code
\* would take.
THEOREM StatementsInTurn == Spec => []CalledInTurn
<1>1. PipelineInv => CalledInTurn
  <2> SUFFICES ASSUME PipelineInv PROVE CalledInTurn
    OBVIOUS
  <2>1. planner.pc = "plan" /\ planner.revs = {} /\ planner.todo = {}
           => \A b \in Branches : "READY" \in manifest[b]
    BY Zenon DEF PipelineInv, PlannerFits
  <2>2. ASSUME planner.pc = "plan", planner.revs = {}, planner.todo # {},
               NEW t \in Subjobs \ PlannedSkipped, PlanPos[t] < PlanPos[First(planner.todo)]
        PROVE  Present(t)
    <3>1. planner.todo \in SUBSET Subjobs
      BY Zenon DEF PipelineInv, ProcessTypes
    <3>2. t \notin planner.todo
      BY <2>2, <3>1, FirstIsSmallest, Zenon
    <3> QED
      BY <2>2, <3>2, Zenon DEF PipelineInv, PlannerFits
  <2>3. ASSUME NEW w \in Workers
        PROVE  /\ At(w, "claim") => <<S(w), N(w)>> \in offered
               /\ worker[w].pc \in {"publish", "ingest", "write"} =>
                     Layer[S(w)] \in ExecutorLayers
               /\ At(w, "publish") /\ HoldsLive(S(w), H(w), N(w)) =>
                     status[S(w)] # "VALIDATING"
               /\ At(w, "failInfra") /\ HoldsLive(S(w), H(w), N(w)) =>
                     status[S(w)] \in {"CLAIMED", "RUNNING"}
               /\ At(w, "activate") => S(w) \in Activations /\ attempt[S(w)] > 0
               /\ At(w, "complete") => S(w) \in Activations /\ status[S(w)] = "SUCCEEDED"
               /\ At(w, "parent") => status[S(w)] = "FAILED"
    <3>1. WorkerFits(w) /\ (worker[w].pc # "idle" => <<S(w), N(w)>> \in offered)
      BY Zenon DEF PipelineInv, WorkersFit, TasksOffered
    <3>2. worker[w].pc # "idle" => S(w) \in Subjobs /\ N(w) \in Attempts
      BY WorkerTask, Zenon
    <3>3. ASSUME Claimed(w) PROVE attempt[S(w)] > 0
      <4>1. N(w) <= attempt[S(w)] /\ S(w) \in Subjobs /\ N(w) \in Attempts
        BY <3>1, <3>2, <3>3, Zenon DEF WorkerFits, Claimed
      <4>2. N(w) \in Nat \ {0} /\ attempt[S(w)] \in Nat
        BY <4>1, ConstantTypes DEF PipelineInv, IndInv, TypeOK, Attempts
      <4> QED
        BY <4>1, <4>2
    <3> QED
      BY <3>1, <3>2, <3>3, Zenon DEF WorkerFits, LayerFits, ExecutorPcs, EarlyPcs, At, Claimed,
         Activations, HoldsLive, Holds
  <2> QED
    BY <2>1, <2>2, <2>3, Zenon DEF CalledInTurn
<1> QED
  BY <1>1, PipelineInvHolds, PTL

-----------------------------------------------------------------------------
(***************************************************************************)
(* Why a job fails.                                                        *)
(***************************************************************************)

\* What the one INDEX task still has to plan has no rows yet, nobody has
\* activated a revision it has a row of in hand, and if it gives up, somebody
\* has ended the job before.
PlanUntouched ==
    /\ planner.pc = "queued" => job = "PENDING" /\ \A s \in Subjobs : ~Present(s)
    /\ planner.pc = "plan" =>
          /\ job # "PENDING"
          /\ \A s \in planner.todo : ~Present(s) /\ "PENDING" \in manifest[Branch[s]]
          /\ \A s \in Subjobs : Branch[s] \in planner.revs => ~Present(s)
    /\ planner.pc = "fail" => job \notin ActiveJob

CauseInv == PipelineInv /\ PlanUntouched /\ FailureHasCause

\* The statements that workers, dispatchers and the clock take: all but those of
\* the INDEX task.
RestAction ==
    \/ ListDispatchable
    \/ ReconcileTerminalFailures
    \/ RequeueExpiredLeases
    \/ \E h \in Owners : RequeueLeasesForOwnerPrefixes(h)
    \/ \E s \in Subjobs :
          \/ FailParentIfTerminalFailure(s)
          \/ Activate(s)
          \/ CompleteJobIfReady(s)
          \/ LeaseExpires(s)
    \/ \E s \in Subjobs, h \in Owners, n \in Attempts : HolderAction(s, h, n)

\* Every step is one of the INDEX task, or leaves it alone and takes one of
\* those statements or none.
LEMMA StepKinds ==
    ASSUME PipelineInv, [Next]_vars
    PROVE  \/ PlannerStep \/ PlanError \/ PlannerCrash
           \/ UNCHANGED planner /\ (UNCHANGED storeVars \/ RestAction)
<1>1. CASE UNCHANGED vars
  BY <1>1, Zenon DEF vars, procVars
<1>2. ASSUME NEW d \in Dispatchers, DispatchStep(d) \/ DispatchError(d) \/ DispatchCrash(d)
      PROVE  UNCHANGED planner /\ (UNCHANGED storeVars \/ RestAction)
  BY <1>2, Zenon DEF DispatchStep, DispatchError, DispatchCrash, TryAcquireDispatchLock,
     ReleaseDispatchLock, DispatchRequeue, DispatchReconcile, DispatchList, DispatchReady, DispOnly,
     RestAction
<1>3. ASSUME NEW w \in Workers, WorkerStep(w) \/ TickerBeat(w)
      PROVE  UNCHANGED planner /\ (UNCHANGED storeVars \/ RestAction)
  <2>1. UNCHANGED planner
    BY <1>3, Zenon DEF WorkerStep, TickerBeat, Claim, FirstBeat, RunOk, PostBeat, Publish, Ingest,
       WriteZoekt, WriteScip, MarkBuilding, MarkGraph, Merge, Promote, ActivateRevision, Finish,
       Complete, Fail, FailParent, WorkerOnly
  <2>2. \/ UNCHANGED storeVars \/ HolderAction(S(w), H(w), N(w)) \/ Activate(S(w))
        \/ CompleteJobIfReady(S(w)) \/ FailParentIfTerminalFailure(S(w))
    BY <1>3, Zenon DEF WorkerStep, TickerBeat, Claim, FirstBeat, RunOk, PostBeat, Publish, Ingest,
       WriteZoekt, WriteScip, MarkBuilding, MarkGraph, Merge, Promote, ActivateRevision, Finish,
       Complete, Fail, FailParent, HolderAction, At
  <2>3. worker[w].pc # "idle"
    BY <1>3, Zenon DEF WorkerStep, TickerBeat, Claim, FirstBeat, RunOk, PostBeat, Publish, Ingest,
       WriteZoekt, WriteScip, MarkBuilding, MarkGraph, Merge, Promote, ActivateRevision, Finish,
       Complete, Fail, FailParent, At, Working
  <2>4. S(w) \in Subjobs /\ N(w) \in Attempts /\ H(w) \in Owners
    BY <2>3, WorkerTask, Zenon
  <2> QED
    BY <2>1, <2>2, <2>4, Zenon DEF RestAction
<1>4. ASSUME NEW w \in Workers, Dequeue(w) \/ RunFails(w) \/ ClaimError(w) \/ Abandon(w)
      PROVE  UNCHANGED planner /\ UNCHANGED storeVars
  BY <1>4, Zenon DEF Dequeue, RunFails, ClaimError, Abandon, WorkerOnly
<1>5. ASSUME NEW h \in Owners, Crash(h) \/ Startup(h)
      PROVE  UNCHANGED planner /\ (UNCHANGED storeVars \/ RestAction)
  BY <1>5, Zenon DEF Crash, Startup, RestAction
<1>6. ASSUME \/ DispatchLockExpires
             \/ \E t \in dead : RescueWindowEnds(t)
             \/ \E s \in Subjobs : LeaseRunsOut(s)
      PROVE  UNCHANGED planner /\ (UNCHANGED storeVars \/ RestAction)
  BY <1>6, Zenon DEF DispatchLockExpires, RescueWindowEnds, LeaseRunsOut, DispOnly, RestAction
<1> QED
  BY <1>1, <1>2, <1>3, <1>4, <1>5, <1>6, Zenon DEF Next

\* Those statements insert no row, end no job that has not begun, and fail a job
\* only over a row that has failed; one of them takes a PENDING manifest away.
LEMMA RestEffects ==
    ASSUME IndInv, RestAction
    PROVE  /\ \A s \in Subjobs : ~Present(s) => ~Present(s)'
           /\ job = "PENDING" => job' = "PENDING"
           /\ job # "PENDING" => job' # "PENDING"
           /\ job \notin ActiveJob => job' = job
           /\ job' = "FAILED" => job = "FAILED" \/ \E s \in Subjobs : status[s] = "FAILED"
           /\ UNCHANGED manifest \/ \E s \in Subjobs : Activate(s)
<1> USE DEF IndInv, TypeOK
<1>1. CASE ListDispatchable \/ \E s \in Subjobs : LeaseExpires(s) \/ Activate(s)
  BY <1>1, Zenon DEF ListDispatchable, LeaseExpires, Activate, rows, Present
<1>2. CASE \/ ReconcileTerminalFailures
           \/ \E s \in Subjobs : FailParentIfTerminalFailure(s)
  BY <1>2, Zenon DEF ReconcileTerminalFailures, FailParentIfTerminalFailure, FailureToReconcile,
     CancelWaiting, Release, Waiting, Present, ActiveJob
<1>3. CASE \/ RequeueExpiredLeases
           \/ \E h \in Owners : RequeueLeasesForOwnerPrefixes(h)
  BY <1>3, Zenon DEF RequeueExpiredLeases, RequeueLeasesForOwnerPrefixes, ExpiredRows, Release, InFlight,
     Present
<1>4. CASE \E s \in Subjobs : CompleteJobIfReady(s)
  BY <1>4, Zenon DEF CompleteJobIfReady, JobReady, rows, Present, ActiveJob
<1>5. ASSUME NEW s \in Subjobs, NEW h \in Owners, NEW n \in Attempts, HolderAction(s, h, n)
      PROVE  /\ \A t \in Subjobs : ~Present(t) => ~Present(t)'
             /\ UNCHANGED <<job, manifest>>
  <2>1. UNCHANGED <<job, manifest>>
    BY <1>5, Zenon DEF HolderAction, ClaimScoped, Heartbeat, MarkArtifactWritten,
       ValidateLiveSubjobLease, MarkSucceeded, MarkFailed, MarkRetryableInfrastructureFailure,
       Release
  <2>2. status[s] # "ABSENT"
    BY <1>5, ZenonT(60) DEF HolderAction, ClaimScoped, ClaimGuard, Heartbeat, MarkArtifactWritten,
       ValidateLiveSubjobLease, MarkSucceeded, MarkFailed, MarkRetryableInfrastructureFailure,
       HoldsLive, Holds, InFlight, Waiting
  <2>3. \A t \in Subjobs \ {s} : status'[t] = status[t]
    BY <1>5 DEF HolderAction, ClaimScoped, Heartbeat, MarkArtifactWritten,
       ValidateLiveSubjobLease, MarkSucceeded, MarkFailed, MarkRetryableInfrastructureFailure,
       Release
  <2> QED
    BY <2>1, <2>2, <2>3, Zenon DEF Present
<1> QED
  BY <1>1, <1>2, <1>3, <1>4, <1>5, Zenon DEF RestAction

\* A revision is activated only when all its rows are there.
LEMMA ActivatedIsPlanned ==
    ASSUME IndInv, PlannedSkipped = {}, NEW a \in Subjobs, Activate(a),
           NEW s \in Subjobs, Branch[s] = Branch[a]
    PROVE  Present(s)
<1>1. a \in Activations /\ attempt[a] > 0
  BY Zenon DEF Activate
<1>2. /\ <<a, attempt[a]>> \in offered /\ attempt[a] \in Attempts
  BY <1>1, ConstantTypes, Zenon DEF IndInv, RowShape, TypeOK, Attempts
<1>3. Present(a) /\ \A d \in DependsOn(a) : Done(d)
  BY <1>2, Zenon DEF IndInv, OfferCoherence
<1>4. CASE Layer[s] = "ACTIVATE"
  BY <1>1, <1>3, <1>4, PlanShape, Zenon DEF Activations
<1>5. CASE Layer[s] # "ACTIVATE"
  <2>1. s \in DependsOn(a)
    BY <1>1, <1>5, ConstantTypes, Zenon DEF DependsOn, LayerEdges, Activations
  <2> QED
    BY <1>3, <2>1, Zenon DEF Done, Present
<1> QED
  BY <1>4, <1>5, Zenon

\* One step of anybody, when the plan is not disturbed.
LEMMA StepCause ==
    ASSUME PlannedSkipped = {}, "plan" \notin FaultKinds, "planner" \notin FaultKinds,
           CauseInv, [Next]_vars
    PROVE  CauseInv'
<1>1. PipelineInv' /\ [StoreNext]_storeVars
  BY NextPipelineInv, Zenon DEF CauseInv
<1>2. IndInv' /\ Monotone
  BY <1>1, StoreGrows, Zenon DEF CauseInv, PipelineInv
<1>3. (\E s \in Subjobs : status[s] = "FAILED") => \E s \in Subjobs : status'[s] = "FAILED"
  BY <1>2, Zenon DEF Monotone, Terminal
<1>4. ~PlanError /\ ~PlannerCrash
  BY Zenon DEF PlanError, PlannerCrash, Fault
<1>5. CASE UNCHANGED <<planner, storeVars>>
  BY <1>1, <1>5, Zenon DEF CauseInv, PlanUntouched, FailureHasCause, Present, storeVars, rows
<1>6. CASE UNCHANGED planner /\ RestAction
  <2>1. /\ \A s \in Subjobs : ~Present(s) => ~Present(s)'
        /\ job = "PENDING" => job' = "PENDING"
        /\ job # "PENDING" => job' # "PENDING"
        /\ job \notin ActiveJob => job' = job
        /\ job' = "FAILED" => job = "FAILED" \/ \E s \in Subjobs : status[s] = "FAILED"
        /\ UNCHANGED manifest \/ \E s \in Subjobs : Activate(s)
    BY <1>6, RestEffects, Zenon DEF CauseInv, PipelineInv
  <2>3. FailureHasCause'
    BY <1>3, <2>1, Zenon DEF CauseInv, FailureHasCause
  <2>4. ASSUME planner.pc = "plan", NEW s \in planner.todo
        PROVE  "PENDING" \in manifest'[Branch[s]]
    <3>1. s \in Subjobs /\ Branch[s] \in Branches
      BY ConstantTypes, Zenon DEF CauseInv, PipelineInv, ProcessTypes
    <3>2. ~Present(s) /\ "PENDING" \in manifest[Branch[s]]
      BY <2>4, Zenon DEF CauseInv, PlanUntouched
    <3>3. ASSUME NEW a \in Subjobs, Activate(a) PROVE "PENDING" \in manifest'[Branch[s]]
      <4>1. Branch[s] # Branch[a]
        BY <3>1, <3>2, <3>3, ActivatedIsPlanned, Zenon DEF CauseInv, PipelineInv
      <4>2. manifest \in [Branches -> SUBSET {"PENDING", "READY"}]
        BY Zenon DEF CauseInv, PipelineInv, IndInv, TypeOK
      <4> QED
        BY <3>1, <3>2, <3>3, <4>1, <4>2, Zenon DEF Activate
    <3> QED
      BY <2>1, <3>2, <3>3, Zenon
  <2>5. PlanUntouched'
    <3>1. planner.todo \in SUBSET Subjobs /\ planner' = planner
      BY <1>6, Zenon DEF CauseInv, PipelineInv, ProcessTypes
    <3> QED
      BY <2>1, <2>4, <3>1, Zenon DEF CauseInv, PlanUntouched, ActiveJob
  <2> QED
    BY <1>1, <2>3, <2>5, Zenon DEF CauseInv
<1>7. CASE PlannerStep
  <2> USE DEF PlannerTo
  <2>1. planner.todo \in SUBSET Subjobs /\ planner.revs \in SUBSET Branches
    BY Zenon DEF CauseInv, PipelineInv, ProcessTypes
  <2>t. manifest \in [Branches -> SUBSET {"PENDING", "READY"}] /\ status \in [Subjobs -> Statuses]
    BY Zenon DEF CauseInv, PipelineInv, IndInv, TypeOK
  <2>2. CASE PlannerStart
    <3>1. job = "PENDING" /\ \A s \in Subjobs : ~Present(s)
      BY <2>2, Zenon DEF PlannerStart, CauseInv, PlanUntouched
    <3> QED
      BY <1>1, <2>2, <3>1 DEF PlannerStart, MarkInProgressScoped, ActiveJob, rows, Present,
         CauseInv, PlanUntouched, FailureHasCause
  <2>3. ASSUME NEW b \in Branches, PlanRevision(b) PROVE CauseInv'
    <3>1. /\ planner.pc = "plan" /\ b \in planner.revs
          /\ planner' = [pc |-> "plan", revs |-> planner.revs \ {b},
                         todo |-> planner.todo \cup RowsOf(b)]
          /\ InsertPendingManifest(b)
      BY <2>3, Zenon DEF PlanRevision
    <3>2. UNCHANGED <<job, status>> /\ \A c \in Branches : manifest[c] \subseteq manifest'[c]
      BY <2>t, <3>1, Zenon DEF InsertPendingManifest, rows
    <3>3. "PENDING" \in manifest'[b]
      BY <2>t, <3>1, Zenon DEF InsertPendingManifest
    <3>4. job # "PENDING" /\ \A s \in planner.todo : Branch[s] \in Branches
      BY <2>1, <3>1, ConstantTypes, Zenon DEF CauseInv, PlanUntouched
    <3>5. \A s \in planner.todo \cup RowsOf(b) :
             ~Present(s) /\ "PENDING" \in manifest'[Branch[s]]
      BY <3>1, <3>2, <3>3, <3>4, Zenon DEF CauseInv, PlanUntouched, RowsOf
    <3>6. PlanUntouched'
      BY <3>1, <3>2, <3>4, <3>5, Zenon DEF CauseInv, PlanUntouched, Present
    <3> QED
      BY <1>1, <3>2, <3>6, Zenon DEF CauseInv, FailureHasCause
  <2>4. ASSUME NEW b \in Branches, PlanNoop(b) PROVE CauseInv'
    BY <1>1, <2>4, Zenon DEF PlanNoop, CauseInv, PlanUntouched, FailureHasCause, Present, storeVars, rows
  <2>5. CASE PlanEmpty
    BY <1>1, <2>5, Zenon DEF PlanEmpty, MarkCompletedScoped, CauseInv, PlanUntouched, FailureHasCause,
       Present, storeVars, rows
  <2>6. CASE PlanRow
    <3>1. PICK s : s = First(planner.todo)
      OBVIOUS
    <3>2. s \in planner.todo /\ planner.pc = "plan" /\ planner.revs = {}
      BY <2>1, <2>6, <3>1, FirstIsSmallest, Zenon DEF PlanRow
    <3>3. ~Present(s) /\ "PENDING" \in manifest[Branch[s]] /\ job # "PENDING"
      BY <3>2, Zenon DEF CauseInv, PlanUntouched
    <3>4. CASE ScopeReady(s)
      <4>1. /\ UpsertSubjob(s) /\ planner'.todo = planner.todo \ {s} /\ planner'.revs = {}
            /\ planner'.pc \in {"plan", "finished"}
        BY <2>6, <3>1, <3>4 DEF PlanRow
      <4>2. UNCHANGED <<job, manifest>> /\ \A t \in planner.todo \ {s} : status'[t] = status[t]
        BY <2>1, <2>t, <4>1, Zenon DEF UpsertSubjob
      <4>3. PlanUntouched'
        BY <3>2, <4>1, <4>2, Zenon DEF CauseInv, PlanUntouched, Present
      <4> QED
        BY <1>1, <1>3, <4>2, <4>3, Zenon DEF CauseInv, FailureHasCause
    <3>5. CASE ~ScopeReady(s)
      <4>1. UNCHANGED storeVars /\ planner'.pc = "fail"
        BY <2>6, <3>1, <3>5 DEF PlanRow
      <4>2. job \notin ActiveJob
        BY <3>3, <3>5, Zenon DEF ScopeReady, ActiveJob
      <4> QED
        BY <1>1, <4>1, <4>2, Zenon DEF CauseInv, PlanUntouched, FailureHasCause, storeVars, rows
    <3> QED
      BY <3>4, <3>5, Zenon
  <2>7. CASE PlannerFail
    BY <1>1, <2>7, Zenon DEF PlannerFail, CauseInv, PlanUntouched, FailureHasCause, storeVars, rows
  <2> QED
    BY <1>7, <2>2, <2>3, <2>4, <2>5, <2>6, <2>7, Zenon DEF PlannerStep
<1> QED
  BY <1>4, <1>5, <1>6, <1>7, StepKinds, Zenon DEF CauseInv

\* A job that was never started has no rows.
LEMMA InitCause == Init => CauseInv
<1> SUFFICES ASSUME Init PROVE CauseInv
  OBVIOUS
<1>1. job = "PENDING" /\ planner.pc = "queued" /\ \A s \in Subjobs : ~Present(s)
  BY Zenon DEF Init, StoreInit, Present
<1> QED
  BY <1>1, InitPipelineInv, Zenon DEF CauseInv, PlanUntouched, FailureHasCause

\* However workers, dispatchers and leases fail, a job whose INDEX task is not
\* redelivered and finds its repository fails only because one of its subjobs
\* failed for good.  It takes a plan without skipped SCIP projects: those are
\* inserted when the plan can already be activated, and then fail the task.
THEOREM FailuresHaveCauses ==
    ASSUME PlannedSkipped = {}, "plan" \notin FaultKinds, "planner" \notin FaultKinds
    PROVE  Spec => []FailureHasCause
<1>1. CauseInv => FailureHasCause
  BY Zenon DEF CauseInv
<1>2. CauseInv /\ [Next]_vars => CauseInv'
  BY StepCause, Zenon
<1> QED
  BY <1>1, <1>2, InitCause, PTL DEF Spec

-----------------------------------------------------------------------------
(***************************************************************************)
(* What an activated revision serves.                                      *)
(***************************************************************************)

\* The worker is at work on its row: it has not yet recorded how that ended.
AtWork(w) == worker[w].pc \notin {"idle", "claim", "complete", "parent"}

\* Its row names it as the holder, with a lease that is live.
HasLease(w) ==
    /\ status[S(w)] \in InFlight
    /\ leaseOwner[S(w)] = H(w)
    /\ attemptId[S(w)] = N(w)
    /\ lease[S(w)] = "live"

\* A process that starts up has no worker at work, and a worker at work that
\* never stalls has its lease.
LeasesHeld ==
    /\ \A w \in Workers : H(w) \in restarting => worker[w].pc = "idle"
    /\ \A w \in Workers : AtWork(w) => HasLease(w)

GraphTypes == graph \in [Commits -> [st : {"none", "BUILDING", "PARTIAL", "READY", "SKIPPED",
                                           "FAILED"},
                                     src : Branches \cup {NoBranch}]]

GraphInv == PipelineInv /\ GraphTypes /\ LeasesHeld /\ ActiveGraphIsReady

\* A step that leaves the lease of row s alone, as long as it is live.
SameLease(s) ==
    status[s] \in InFlight /\ lease[s] = "live" =>
        /\ status'[s] \in InFlight /\ lease'[s] = "live"
        /\ leaseOwner'[s] = leaseOwner[s] /\ attemptId'[s] = attemptId[s]

\* The holder of row s after the step is (h, n), with a live lease.
LeasedTo(s, h, n) ==
    /\ status'[s] \in InFlight /\ lease'[s] = "live"
    /\ leaseOwner'[s] = h /\ attemptId'[s] = n

\* What a holder of one row does leaves every other row alone.
LEMMA HolderElsewhere ==
    ASSUME IndInv, NEW t \in Subjobs, NEW h \in Owners, NEW n \in Attempts, HolderAction(t, h, n),
           NEW s \in Subjobs \ {t}
    PROVE  /\ status'[s] = status[s] /\ lease'[s] = lease[s]
           /\ leaseOwner'[s] = leaseOwner[s] /\ attemptId'[s] = attemptId[s]
<1>0. DOMAIN status = Subjobs /\ DOMAIN lease = Subjobs /\ DOMAIN leaseOwner = Subjobs
      /\ DOMAIN attemptId = Subjobs
  BY Zenon DEF IndInv, TypeOK
<1>1. CASE ClaimScoped(t, h, n)
  BY <1>0, <1>1, Zenon DEF ClaimScoped
<1>2. CASE Heartbeat(t, h, n)
  BY <1>0, <1>2, Zenon DEF Heartbeat
<1>3. CASE MarkArtifactWritten(t, h, n)
  BY <1>0, <1>3, Zenon DEF MarkArtifactWritten
<1>4. CASE ValidateLiveSubjobLease(t, h, n)
  BY <1>0, <1>4, Zenon DEF ValidateLiveSubjobLease
<1>5. CASE MarkSucceeded(t, h, n)
  BY <1>0, <1>5, Zenon DEF MarkSucceeded, Release
<1>6. CASE \E reason \in {"other", "semantic"} : MarkFailed(t, h, n, reason)
  BY <1>0, <1>6, Zenon DEF MarkFailed, Release
<1>7. CASE MarkRetryableInfrastructureFailure(t, h, n)
  BY <1>0, <1>7, Zenon DEF MarkRetryableInfrastructureFailure, Release
<1> QED
  BY <1>1, <1>2, <1>3, <1>4, <1>5, <1>6, <1>7, Zenon DEF HolderAction

\* Which statements leave which leases alone.
LEMMA LeaseEffects ==
    ASSUME IndInv
    PROVE  /\ UNCHANGED rows => \A s \in Subjobs : SameLease(s)
           /\ RequeueExpiredLeases \/ CancelWaiting => \A s \in Subjobs : SameLease(s)
           /\ \A t \in Subjobs : UpsertSubjob(t) => \A s \in Subjobs : SameLease(s)
           /\ \A h \in Owners : RequeueLeasesForOwnerPrefixes(h) =>
                 \A s \in Subjobs : leaseOwner[s] # h => SameLease(s)
           /\ \A t \in Subjobs : LeaseExpires(t) => \A s \in Subjobs \ {t} : SameLease(s)
           /\ \A t \in Subjobs, h \in Owners, n \in Attempts :
                 HolderAction(t, h, n) => \A s \in Subjobs \ {t} : SameLease(s)
<1> USE DEF IndInv, TypeOK, SameLease
<1>1. UNCHANGED rows => \A s \in Subjobs : SameLease(s)
  BY Zenon DEF rows
<1>2. RequeueExpiredLeases \/ CancelWaiting => \A s \in Subjobs : SameLease(s)
  BY DEF RequeueExpiredLeases, CancelWaiting, Release, ExpiredRows, Waiting, InFlight
<1>3. \A t \in Subjobs : UpsertSubjob(t) => \A s \in Subjobs : SameLease(s)
  BY Zenon DEF UpsertSubjob, Present, InFlight
<1>4. \A h \in Owners : RequeueLeasesForOwnerPrefixes(h) =>
         \A s \in Subjobs : leaseOwner[s] # h => SameLease(s)
  BY ZenonT(60) DEF RequeueLeasesForOwnerPrefixes, Release
<1>5. \A t \in Subjobs : LeaseExpires(t) => \A s \in Subjobs \ {t} : SameLease(s)
  BY Zenon DEF LeaseExpires
<1>6. ASSUME NEW t \in Subjobs, NEW h \in Owners, NEW n \in Attempts, HolderAction(t, h, n),
             NEW s \in Subjobs \ {t}
      PROVE  SameLease(s)
  <2>1. /\ status'[s] = status[s] /\ lease'[s] = lease[s]
        /\ leaseOwner'[s] = leaseOwner[s] /\ attemptId'[s] = attemptId[s]
    BY <1>6, HolderElsewhere, Zenon
  <2> QED
    BY <2>1, Zenon DEF SameLease
<1> QED
  BY <1>1, <1>2, <1>3, <1>4, <1>5, <1>6, Zenon

\* The statements after which the caller has the lease.
LEMMA LeaseGained ==
    ASSUME IndInv, NEW s \in Subjobs, NEW h \in Owners, NEW n \in Attempts,
           \/ ClaimScoped(s, h, n) \/ Heartbeat(s, h, n)
           \/ MarkArtifactWritten(s, h, n) \/ ValidateLiveSubjobLease(s, h, n)
    PROVE  LeasedTo(s, h, n)
<1> USE DEF IndInv, TypeOK, LeasedTo
<1>1. CASE ClaimScoped(s, h, n)
  BY <1>1, Zenon DEF ClaimScoped, InFlight
<1>2. CASE Heartbeat(s, h, n)
  BY <1>2, Zenon DEF Heartbeat, Holds, InFlight
<1>3. CASE MarkArtifactWritten(s, h, n) \/ ValidateLiveSubjobLease(s, h, n)
  BY <1>3, Zenon DEF MarkArtifactWritten, ValidateLiveSubjobLease, HoldsLive, Holds, InFlight
<1> QED
  BY <1>1, <1>2, <1>3, Zenon

\* A worker that stays keeps its lease.
LEMMA StillLeased ==
    ASSUME NEW v \in Workers, AtWork(v) => HasLease(v) /\ SameLease(S(v)),
           worker'[v] = worker[v]
    PROVE  AtWork(v)' => HasLease(v)'
  BY Zenon DEF AtWork, HasLease, SameLease, S, N, H

\* One worker moves: the others keep their leases, and it has one where it goes.
LEMMA LeasesMove ==
    ASSUME PipelineInv, LeasesHeld, NEW w \in Workers, NEW pc \in WorkerPcs,
           worker[w].pc # "idle", ToPc(w, pc), UNCHANGED restarting,
           \A v \in Workers \ {w} : AtWork(v) => SameLease(S(v)),
           pc \in {"idle", "complete", "parent"} \/ LeasedTo(S(w), H(w), N(w))
    PROVE  LeasesHeld'
<1>1. /\ worker'[w].pc = pc
      /\ pc # "idle" => worker'[w].task = worker[w].task
      /\ \A v \in Workers \ {w} : worker'[v] = worker[v]
  BY ToPcMoves, Zenon DEF PipelineInv
<1>2. \A v \in Workers \ {w} : AtWork(v)' => HasLease(v)'
  BY <1>1, StillLeased, Zenon DEF LeasesHeld
<1>3. AtWork(w)' => HasLease(w)'
  <2> SUFFICES ASSUME AtWork(w)' PROVE HasLease(w)'
    OBVIOUS
  <2>1. pc \notin {"idle", "complete", "parent"} /\ worker'[w].task = worker[w].task
    BY <1>1, Zenon DEF AtWork
  <2>2. S(w)' = S(w) /\ N(w)' = N(w) /\ H(w)' = H(w)
    BY <2>1, Zenon DEF S, N, H
  <2> QED
    BY <2>1, <2>2, Zenon DEF HasLease, LeasedTo
<1>4. \A v \in Workers : H(v)' \in restarting' => worker'[v].pc = "idle"
  BY <1>1, Zenon DEF LeasesHeld, H
<1> QED
  BY <1>2, <1>3, <1>4, Zenon DEF LeasesHeld

\* Nobody else is at work on the row whose lease a worker has or takes.
LEMMA AloneOnRow ==
    ASSUME PipelineInv, LeasesHeld, NEW w \in Workers, NEW v \in Workers \ {w}, AtWork(v),
           \/ Claimed(w) /\ attemptId[S(w)] = N(w)
           \/ status[S(w)] \notin InFlight
    PROVE  S(v) # S(w)
<1>1. HasLease(v) /\ Claimed(v)
  BY Zenon DEF LeasesHeld, AtWork, Claimed
<1>2. CASE Claimed(w) /\ attemptId[S(w)] = N(w)
  <2>1. <<S(v), N(v)>> # <<S(w), N(w)>>
    BY <1>1, <1>2, Zenon DEF PipelineInv, ExclusiveAttempt, Claimed
  <2> QED
    BY <1>1, <1>2, <2>1, Zenon DEF HasLease
<1> QED
  BY <1>1, <1>2, Zenon DEF HasLease

\* A statement of a worker on its own row leaves the others their leases.
LEMMA OthersKeepLeases ==
    ASSUME PipelineInv, LeasesHeld, NEW w \in Workers, worker[w].pc # "idle",
           HolderAction(S(w), H(w), N(w)),
           \/ Claimed(w) /\ attemptId[S(w)] = N(w)
           \/ status[S(w)] \notin InFlight
    PROVE  \A v \in Workers \ {w} : AtWork(v) => SameLease(S(v))
<1> SUFFICES ASSUME NEW v \in Workers \ {w}, AtWork(v) PROVE SameLease(S(v))
  OBVIOUS
<1>1. S(w) \in Subjobs /\ H(w) \in Owners /\ N(w) \in Attempts
  BY WorkerTask, Zenon
<1>2. S(v) \in Subjobs
  BY ClaimedTask, Zenon DEF AtWork, Claimed
<1>3. S(v) # S(w)
  BY AloneOnRow, Zenon
<1> QED
  BY <1>1, <1>2, <1>3, LeaseEffects, Zenon DEF PipelineInv

\* Steps of worker w.
LEMMA WorkerLeases ==
    ASSUME PipelineInv, LeasesHeld, NEW w \in Workers,
           WorkerStep(w) \/ TickerBeat(w) \/ RunFails(w) \/ ClaimError(w) \/ Abandon(w)
    PROVE  LeasesHeld'
<1>1. worker[w].pc # "idle" /\ UNCHANGED restarting
  BY Zenon DEF WorkerStep, TickerBeat, RunFails, ClaimError, Abandon, Claim, FirstBeat, RunOk, PostBeat,
     Publish, Ingest, WriteZoekt, WriteScip, MarkBuilding, MarkGraph, Merge, Promote,
     ActivateRevision, Finish, Complete, Fail, FailParent, At, Working, WorkerOnly
<1>2. S(w) \in Subjobs /\ H(w) \in Owners /\ N(w) \in Attempts /\ <<S(w), N(w)>> \in offered
  BY <1>1, WorkerTask, Zenon
<1>a. \A v \in Workers : AtWork(v) => S(v) \in Subjobs
  BY ClaimedTask, Zenon DEF AtWork, Claimed
<1>3. ASSUME NEW pc \in WorkerPcs, ToPc(w, pc), UNCHANGED rows, AtWork(w) \/ pc = "idle"
      PROVE  LeasesHeld'
  <2>1. \A v \in Workers : AtWork(v) => SameLease(S(v))
    BY <1>3, <1>a, LeaseEffects, Zenon DEF PipelineInv
  <2>2. AtWork(w) => LeasedTo(S(w), H(w), N(w))
    BY <2>1, Zenon DEF LeasesHeld, HasLease, SameLease, LeasedTo
  <2> QED
    BY <1>1, <1>3, <2>1, <2>2, LeasesMove, Zenon
<1>4. ASSUME NEW pc \in WorkerPcs, ToPc(w, pc), Claimed(w), HolderAction(S(w), H(w), N(w)),
             Holds(S(w), H(w), N(w)),
             pc \in {"idle", "complete", "parent"} \/ LeasedTo(S(w), H(w), N(w))
      PROVE  LeasesHeld'
  <2>1. \A v \in Workers \ {w} : AtWork(v) => SameLease(S(v))
    BY <1>1, <1>4, OthersKeepLeases, Zenon DEF Holds
  <2> QED
    BY <1>1, <1>4, <2>1, LeasesMove, Zenon
<1>5. CASE Claim(w)
  <2>1. CASE ClaimGuard(S(w), N(w))
    <3>1. ClaimScoped(S(w), H(w), N(w)) /\ ToPc(w, "beat")
      BY <1>5, <2>1, Zenon DEF Claim
    <3>2. status[S(w)] \notin InFlight
      <4>1. status[S(w)] \in InFlight => N(w) <= attempt[S(w)]
        BY <1>2, Zenon DEF PipelineInv, IndInv, OfferCoherence
      <4>2. attempt[S(w)] = N(w) - 1 /\ attempt[S(w)] \in Nat /\ N(w) \in Nat
        BY <1>2, <2>1, ConstantTypes, SMTT(30) DEF ClaimGuard, PipelineInv, IndInv, TypeOK, Attempts
      <4> QED
        BY <4>1, <4>2
    <3>3. \A v \in Workers \ {w} : AtWork(v) => SameLease(S(v))
      BY <1>1, <3>1, <3>2, OthersKeepLeases, Zenon DEF HolderAction
    <3>4. LeasedTo(S(w), H(w), N(w))
      BY <1>2, <3>1, LeaseGained, Zenon DEF PipelineInv
    <3> QED
      BY <1>1, <3>1, <3>3, <3>4, LeasesMove, Zenon DEF WorkerPcs
  <2>2. CASE ~ClaimGuard(S(w), N(w))
    BY <1>3, <1>5, <2>2, Zenon DEF Claim, storeVars, WorkerPcs
  <2> QED
    BY <2>1, <2>2, Zenon
<1>6. CASE FirstBeat(w)
  <2>1. CASE Holds(S(w), H(w), N(w))
    <3>1. PICK pc \in WorkerPcs : ToPc(w, pc) /\ Heartbeat(S(w), H(w), N(w))
      BY <1>6, <2>1, Zenon DEF FirstBeat, WorkerPcs, ExecutorPcs, MergePcs
    <3>2. LeasedTo(S(w), H(w), N(w)) /\ Claimed(w)
      BY <1>2, <1>6, <3>1, LeaseGained, Zenon DEF PipelineInv, Claimed, FirstBeat, At
    <3> QED
      BY <1>4, <2>1, <3>1, <3>2, Zenon DEF HolderAction
  <2>2. CASE ~Holds(S(w), H(w), N(w))
    BY <1>3, <1>6, <2>2, ZenonT(60) DEF FirstBeat, storeVars, AtWork, At, WorkerPcs
  <2> QED
    BY <2>1, <2>2, Zenon
<1>7. CASE PostBeat(w)
  <2>1. CASE Holds(S(w), H(w), N(w))
    <3>1. ToPc(w, "publish") /\ Heartbeat(S(w), H(w), N(w))
      BY <1>7, <2>1, Zenon DEF PostBeat
    <3>2. LeasedTo(S(w), H(w), N(w)) /\ Claimed(w)
      BY <1>2, <1>7, <3>1, LeaseGained, Zenon DEF PipelineInv, Claimed, PostBeat, At
    <3> QED
      BY <1>4, <2>1, <3>1, <3>2, Zenon DEF HolderAction, WorkerPcs, ExecutorPcs
  <2>2. CASE ~Holds(S(w), H(w), N(w))
    BY <1>3, <1>7, <2>2, Zenon DEF PostBeat, storeVars, WorkerPcs
  <2> QED
    BY <2>1, <2>2, Zenon
<1>8. CASE TickerBeat(w)
  <2>1. HasLease(w)
    BY <1>8, Zenon DEF TickerBeat, LeasesHeld, AtWork, Working
  <2>2. ~Holds(S(w), H(w), N(w)) /\ AtWork(w)
    BY <1>8, <2>1, Zenon DEF TickerBeat, HasLease, AtWork, Working
  <2>3. PICK pc \in WorkerPcs : ToPc(w, pc) /\ UNCHANGED storeVars
    BY <1>8, <2>2, Zenon DEF TickerBeat, WorkerPcs
  <2> QED
    BY <1>3, <2>2, <2>3, Zenon DEF storeVars
<1>9. CASE Publish(w) \/ Ingest(w) \/ WriteScip(w)
  <2>1. AtWork(w) /\ Claimed(w)
    BY <1>9, Zenon DEF Publish, Ingest, WriteScip, At, AtWork, Claimed
  <2>2. \E pc \in WorkerPcs : ToPc(w, pc) /\
           \/ UNCHANGED storeVars
           \/ /\ \/ MarkArtifactWritten(S(w), H(w), N(w))
                 \/ ValidateLiveSubjobLease(S(w), H(w), N(w))
              /\ Holds(S(w), H(w), N(w))
    BY <1>9, Zenon DEF Publish, Ingest, WriteScip, IngestAllowed, HoldsLive, WorkerPcs, ExecutorPcs
  <2>3. PICK pc \in WorkerPcs : ToPc(w, pc) /\
           \/ UNCHANGED storeVars
           \/ /\ \/ MarkArtifactWritten(S(w), H(w), N(w))
                 \/ ValidateLiveSubjobLease(S(w), H(w), N(w))
              /\ Holds(S(w), H(w), N(w))
    BY <2>2, Zenon
  <2>4. CASE UNCHANGED storeVars
    BY <1>3, <2>1, <2>3, <2>4, Zenon DEF storeVars
  <2>5. CASE ~UNCHANGED storeVars
    <3>1. LeasedTo(S(w), H(w), N(w))
      BY <1>2, <2>3, <2>5, LeaseGained, Zenon DEF PipelineInv
    <3> QED
      BY <1>4, <2>1, <2>3, <2>5, <3>1, ZenonT(60) DEF HolderAction
  <2> QED
    BY <2>4, <2>5, Zenon
<1>10. CASE \/ RunOk(w) \/ RunFails(w) \/ WriteZoekt(w) \/ MarkBuilding(w) \/ MarkGraph(w)
            \/ Merge(w) \/ Promote(w) \/ ActivateRevision(w)
  <2>1. AtWork(w)
    BY <1>10, Zenon DEF RunOk, RunFails, WriteZoekt, MarkBuilding, MarkGraph, Merge, Promote,
       ActivateRevision, At, AtWork
  <2>2. UNCHANGED rows
    BY <1>10, Zenon DEF RunOk, RunFails, WriteZoekt, MarkBuilding, MarkGraph, Merge, Promote,
       ActivateRevision, Activate, storeVars
  <2>3. \E pc \in WorkerPcs : ToPc(w, pc)
    BY <1>10, Zenon DEF RunOk, RunFails, WriteZoekt, MarkBuilding, MarkGraph, Merge, Promote,
       ActivateRevision, WorkerPcs, ExecutorPcs, MergePcs
  <2> QED
    BY <1>3, <2>1, <2>2, <2>3, Zenon
<1>11. CASE ClaimError(w) \/ Abandon(w) \/ Complete(w)
  <2>1. UNCHANGED rows /\ ToPc(w, "idle")
    BY <1>11, Zenon DEF ClaimError, Abandon, Complete, CompleteJobIfReady, storeVars
  <2> QED
    BY <1>3, <2>1, Zenon DEF WorkerPcs
<1>12. CASE Finish(w) \/ Fail(w)
  <2>1. Claimed(w)
    BY <1>12, Zenon DEF Finish, Fail, At, Claimed
  <2>2. CASE HoldsLive(S(w), H(w), N(w))
    <3>1. HolderAction(S(w), H(w), N(w)) /\ Holds(S(w), H(w), N(w))
      BY <1>12, <2>2, Zenon DEF Finish, Fail, HolderAction, HoldsLive, At
    <3>2. \E pc \in {"idle", "complete", "parent"} : ToPc(w, pc)
      BY <1>12, <2>2, Zenon DEF Finish, Fail
    <3> QED
      BY <1>4, <2>1, <3>1, <3>2, Zenon DEF WorkerPcs
  <2>3. CASE ~HoldsLive(S(w), H(w), N(w))
    BY <1>3, <1>12, <2>3, Zenon DEF Finish, Fail, storeVars, WorkerPcs
  <2> QED
    BY <2>2, <2>3, Zenon
<1>13. CASE FailParent(w)
  <2>1. CancelWaiting /\ ToPc(w, "idle")
    BY <1>13, Zenon DEF FailParent, FailParentIfTerminalFailure
  <2>2. \A v \in Workers : AtWork(v) => SameLease(S(v))
    BY <1>a, <2>1, LeaseEffects, Zenon DEF PipelineInv
  <2> QED
    BY <1>1, <2>1, <2>2, LeasesMove, Zenon DEF WorkerPcs
<1> QED
  BY <1>5, <1>6, <1>7, <1>8, <1>9, <1>10, <1>11, <1>12, <1>13, ZenonT(60) DEF WorkerStep

\* Every step, if no worker that is alive stalls past its lease.
LEMMA StepLeases ==
    ASSUME "stall" \notin FaultKinds, PipelineInv, LeasesHeld, [Next]_vars
    PROVE  LeasesHeld'
<1>a. \A v \in Workers : AtWork(v) => S(v) \in Subjobs /\ Claimed(v) /\ HasLease(v)
  BY ClaimedTask, Zenon DEF AtWork, Claimed, LeasesHeld
<1>b. ASSUME UNCHANGED worker, restarting' \subseteq restarting,
             \A v \in Workers : AtWork(v) => SameLease(S(v))
      PROVE  LeasesHeld'
  <2>1. \A v \in Workers : AtWork(v)' => HasLease(v)'
    BY <1>a, <1>b, StillLeased, Zenon
  <2> QED
    BY <1>b, <2>1, Zenon DEF LeasesHeld, H
<1>1. CASE UNCHANGED vars
  <2>1. UNCHANGED <<worker, restarting, rows>>
    BY <1>1, Zenon DEF vars, procVars, storeVars
  <2> QED
    BY <1>a, <1>b, <2>1, LeaseEffects, Zenon DEF PipelineInv
<1>2. CASE PlannerStep \/ PlanError \/ PlannerCrash
  <2>1. UNCHANGED <<worker, restarting>>
    BY <1>2, Zenon DEF PlannerStep, PlanError, PlannerCrash, PlannerStart, PlanRevision, PlanNoop,
       PlanEmpty, PlanRow, PlannerFail, PlannerOnly
  <2>2. UNCHANGED rows \/ PlanRow
    BY <1>2, Zenon DEF PlannerStep, PlanError, PlannerCrash, PlannerStart, PlanRevision, PlanNoop,
       PlanEmpty, PlannerFail, MarkInProgressScoped, InsertPendingManifest, MarkCompletedScoped,
       MarkFailedScoped, storeVars
  <2>3. CASE PlanRow
    <3>1. planner.todo \in SUBSET Subjobs
      BY Zenon DEF PipelineInv, ProcessTypes
    <3>2. First(planner.todo) \in Subjobs
      BY <2>3, <3>1, FirstIsSmallest, Zenon DEF PlanRow
    <3>3. UpsertSubjob(First(planner.todo)) \/ UNCHANGED rows
      BY <2>3, Zenon DEF PlanRow, storeVars
    <3> QED
      BY <1>a, <1>b, <2>1, <3>2, <3>3, LeaseEffects, ZenonT(60) DEF PipelineInv
  <2> QED
    BY <1>a, <1>b, <2>1, <2>2, <2>3, LeaseEffects, ZenonT(60) DEF PipelineInv
<1>3. ASSUME NEW d \in Dispatchers, DispatchStep(d) \/ DispatchError(d) \/ DispatchCrash(d)
      PROVE  LeasesHeld'
  <2>1. UNCHANGED <<worker, restarting>>
    BY <1>3, Zenon DEF DispatchStep, DispatchError, DispatchCrash, TryAcquireDispatchLock,
       ReleaseDispatchLock, DispatchRequeue, DispatchReconcile, DispatchList, DispatchReady,
       DispOnly
  <2>2. UNCHANGED rows \/ RequeueExpiredLeases \/ CancelWaiting
    BY <1>3, ZenonT(60) DEF DispatchStep, DispatchError, DispatchCrash, TryAcquireDispatchLock,
       ReleaseDispatchLock, DispatchRequeue, DispatchReconcile, DispatchList, DispatchReady,
       ListDispatchable, ReconcileTerminalFailures, storeVars
  <2> QED
    BY <1>a, <1>b, <2>1, <2>2, LeaseEffects, ZenonT(60) DEF PipelineInv
<1>4. CASE DispatchLockExpires \/ \E t \in dead : RescueWindowEnds(t)
  <2>1. UNCHANGED <<worker, restarting, rows>>
    BY <1>4, Zenon DEF DispatchLockExpires, RescueWindowEnds, DispOnly, storeVars
  <2> QED
    BY <1>a, <1>b, <2>1, LeaseEffects, Zenon DEF PipelineInv
<1>5. ASSUME NEW w \in Workers, Dequeue(w) PROVE LeasesHeld'
  <2>1. PICK t \in queue : worker' = [worker EXCEPT ![w] = [pc |-> "claim", task |-> t]]
    BY <1>5, Zenon DEF Dequeue
  <2>2. /\ worker'[w].pc = "claim" /\ \A v \in Workers \ {w} : worker'[v] = worker[v]
        /\ H(w) \notin restarting /\ UNCHANGED <<rows, restarting>>
    BY <1>5, <2>1, Zenon DEF Dequeue, PipelineInv, ProcessTypes, storeVars
  <2>3. \A v \in Workers : AtWork(v) => SameLease(S(v))
    BY <1>a, <2>2, LeaseEffects, Zenon DEF PipelineInv
  <2>4. \A v \in Workers \ {w} : AtWork(v)' => HasLease(v)'
    BY <1>a, <2>2, <2>3, StillLeased, Zenon
  <2> QED
    BY <2>2, <2>4, Zenon DEF LeasesHeld, AtWork, H
<1>6. ASSUME NEW w \in Workers,
             WorkerStep(w) \/ TickerBeat(w) \/ RunFails(w) \/ ClaimError(w) \/ Abandon(w)
      PROVE  LeasesHeld'
  BY <1>6, WorkerLeases, Zenon
<1>7. ASSUME NEW h \in Owners, Crash(h) PROVE LeasesHeld'
  <2>1. /\ \A v \in Workers : worker'[v] = IF H(v) = h THEN Idle ELSE worker[v]
        /\ restarting' = restarting \cup {h} /\ UNCHANGED rows
    BY <1>7, Zenon DEF Crash, storeVars
  <2>2. \A v \in Workers : AtWork(v) => SameLease(S(v))
    BY <1>a, <2>1, LeaseEffects, Zenon DEF PipelineInv
  <2>3. ASSUME NEW v \in Workers, H(v) # h PROVE AtWork(v)' => HasLease(v)'
    BY <1>a, <2>1, <2>2, <2>3, StillLeased, ZenonT(60)
  <2>4. ASSUME NEW v \in Workers, H(v) = h PROVE worker'[v].pc = "idle"
    BY <2>1, <2>4 DEF Idle
  <2> QED
    BY <2>1, <2>3, <2>4, Zenon DEF LeasesHeld, AtWork, H
<1>8. ASSUME NEW h \in Owners, Startup(h) PROVE LeasesHeld'
  <2>1. /\ h \in restarting /\ restarting' \subseteq restarting /\ UNCHANGED worker
        /\ RequeueLeasesForOwnerPrefixes(h) \/ UNCHANGED rows
    BY <1>8, Zenon DEF Startup, storeVars
  <2>2. ASSUME NEW v \in Workers, AtWork(v) PROVE S(v) \in Subjobs /\ leaseOwner[S(v)] # h
    BY <1>a, <2>1, <2>2, Zenon DEF LeasesHeld, HasLease, AtWork
  <2>3. \A v \in Workers : AtWork(v) => SameLease(S(v))
    BY <2>1, <2>2, LeaseEffects, Zenon DEF PipelineInv
  <2> QED
    BY <1>b, <2>1, <2>3, Zenon
<1>9. ASSUME NEW s \in Subjobs, LeaseRunsOut(s) PROVE LeasesHeld'
  <2>1. LeaseExpires(s) /\ ~HeldByLiveWorker(s) /\ UNCHANGED <<worker, restarting>>
    BY <1>9, Zenon DEF LeaseRunsOut, Fault
  <2>2. ASSUME NEW v \in Workers, AtWork(v) PROVE S(v) \in Subjobs \ {s}
    BY <1>a, <2>1, <2>2, Zenon DEF HeldByLiveWorker, HasLease, AtWork, S, N
  <2>3. \A v \in Workers : AtWork(v) => SameLease(S(v))
    BY <2>1, <2>2, LeaseEffects, Zenon DEF PipelineInv
  <2> QED
    BY <1>b, <2>1, <2>3, Zenon
<1> QED
  BY <1>1, <1>2, <1>3, <1>4, <1>5, <1>6, <1>7, <1>8, <1>9, ZenonT(60) DEF Next

\* Only ActivateRevision makes a manifest READY.
LEMMA ReadyByActivation ==
    ASSUME PipelineInv, [Next]_vars, ~\E w \in Workers : ActivateRevision(w)
    PROVE  \A b \in Branches : "READY" \in manifest'[b] => "READY" \in manifest[b]
<1>1. CASE UNCHANGED manifest
  BY <1>1, Zenon
<1>2. CASE \E b \in Branches : InsertPendingManifest(b)
  BY <1>2 DEF InsertPendingManifest, PipelineInv, IndInv, TypeOK
<1>3. CASE PlannerStep \/ PlanError \/ PlannerCrash
  BY <1>1, <1>2, <1>3, ZenonT(60) DEF PlannerStep, PlanError, PlannerCrash, PlannerStart, PlanRevision,
     PlanNoop, PlanEmpty, PlanRow, PlannerFail, MarkInProgressScoped, MarkCompletedScoped,
     MarkFailedScoped, UpsertSubjob, storeVars
<1>4. ASSUME NEW w \in Workers, WorkerStep(w) PROVE UNCHANGED manifest
  BY <1>4, ZenonT(60) DEF WorkerStep, Claim, FirstBeat, RunOk, PostBeat, Publish, Ingest,
     WriteZoekt, WriteScip, MarkBuilding, MarkGraph, Merge, Promote, Finish,
     Complete, Fail, FailParent, At, ClaimScoped, Heartbeat, MarkArtifactWritten,
     ValidateLiveSubjobLease, MarkSucceeded, MarkFailed, MarkRetryableInfrastructureFailure,
     CompleteJobIfReady, FailParentIfTerminalFailure, CancelWaiting, Release, storeVars
<1>5. ASSUME NEW w \in Workers,
             Dequeue(w) \/ TickerBeat(w) \/ RunFails(w) \/ ClaimError(w) \/ Abandon(w)
      PROVE  UNCHANGED manifest
  BY <1>5, Zenon DEF Dequeue, TickerBeat, RunFails, ClaimError, Abandon, Heartbeat, storeVars
<1>6. ASSUME NEW d \in Dispatchers, DispatchStep(d) \/ DispatchError(d) \/ DispatchCrash(d)
      PROVE  UNCHANGED manifest
  BY <1>6, Zenon DEF DispatchStep, DispatchError, DispatchCrash, TryAcquireDispatchLock,
     ReleaseDispatchLock, DispatchRequeue, DispatchReconcile, DispatchList, DispatchReady,
     ListDispatchable, ReconcileTerminalFailures, RequeueExpiredLeases, CancelWaiting, Release,
     storeVars
<1>7. ASSUME \/ UNCHANGED vars \/ DispatchLockExpires
             \/ \E t \in dead : RescueWindowEnds(t)
             \/ \E h \in Owners : Crash(h) \/ Startup(h)
             \/ \E s \in Subjobs : LeaseRunsOut(s)
      PROVE  UNCHANGED manifest
  BY <1>7, Zenon DEF vars, DispatchLockExpires, RescueWindowEnds, Crash, Startup, LeaseRunsOut,
     LeaseExpires, RequeueLeasesForOwnerPrefixes, Release, storeVars
<1> QED
  BY <1>1, <1>3, <1>4, <1>5, <1>6, <1>7, ZenonT(60) DEF Next

\* The worker that writes the AST graph is at work on a row of a revision that
\* cannot have been activated yet.
LEMMA BuilderIsEarly ==
    ASSUME PipelineInv, LeasesHeld, NEW w \in Workers, At(w, "building")
    PROVE  "READY" \notin manifest[B(w)]
<1>1. S(w) \in Subjobs /\ Layer[S(w)] = "AST_TREE_SITTER" /\ status[S(w)] \in InFlight
  BY ClaimedTask, Zenon DEF At, Claimed, PipelineInv, WorkersFit, WorkerFits, LayerFits, LeasesHeld,
     HasLease, AtWork
<1> SUFFICES ASSUME "READY" \in manifest[B(w)] PROVE FALSE
  OBVIOUS
<1>2. PICK a \in Activations : Branch[a] = B(w)
  BY <1>1, ConstantTypes, Zenon DEF B, PipelineInv, IndInv, ReadyHasActivation
<1>3. S(w) \in DependsOn(a) \ PlannedSkipped
  BY <1>1, <1>2, ConstantTypes, Zenon DEF DependsOn, LayerEdges, Layers, Activations, B
<1>4. Done(S(w))
  BY <1>2, <1>3, Zenon DEF PipelineInv, IndInv, ReadyMeansProduced
<1> QED
  BY <1>1, <1>4, Zenon DEF Done, InFlight

\* Which steps write the graph row, and what becomes of a READY one.
LEMMA GraphRowWrites ==
    ASSUME PipelineInv, GraphTypes, [Next]_vars
    PROVE  /\ GraphTypes'
           /\ \A c \in Commits : graph[c].st = "READY" /\ graph'[c].st # "READY" =>
                 \E w \in Workers : At(w, "building") /\ C(w) = c
<1>1. CASE UNCHANGED graph
  BY <1>1, Zenon DEF GraphTypes
<1>2. ASSUME NEW w \in Workers, MarkBuilding(w) \/ MarkGraph(w) \/ Merge(w) \/ Promote(w)
      PROVE  /\ GraphTypes'
             /\ \A c \in Commits : graph[c].st = "READY" /\ graph'[c].st # "READY" =>
                   At(w, "building") /\ C(w) = c
  <2>1. S(w) \in Subjobs
    BY <1>2, ClaimedTask, Zenon DEF MarkBuilding, MarkGraph, Merge, Promote, At, Claimed
  <2>2. B(w) \in Branches /\ C(w) \in Commits
    BY <2>1, ConstantTypes, PipelineConstants, Zenon DEF B, C
  <2>3. CASE MarkBuilding(w)
    BY <2>2, <2>3 DEF MarkBuilding, GraphTypes
  <2>4. CASE MarkGraph(w)
    BY <2>2, <2>4 DEF MarkGraph, GraphTypes
  <2>5. CASE Merge(w)
    BY <2>2, <2>5 DEF Merge, GraphTypes
  <2>6. CASE Promote(w)
    BY <2>2, <2>6, ZenonT(60) DEF Promote, GraphTypes
  <2> QED
    BY <1>2, <2>3, <2>4, <2>5, <2>6, ZenonT(60)
<1>3. CASE PlannerStep \/ PlanError \/ PlannerCrash
  BY <1>1, <1>3, Zenon DEF PlannerStep, PlanError, PlannerCrash, PlannerStart, PlanRevision,
     PlanNoop, PlanEmpty, PlanRow, PlannerFail, PlannerOnly
<1>4. ASSUME NEW w \in Workers, WorkerStep(w)
      PROVE  \/ UNCHANGED graph
             \/ MarkBuilding(w) \/ MarkGraph(w) \/ Merge(w) \/ Promote(w)
  BY <1>4, Zenon DEF WorkerStep, Claim, FirstBeat, RunOk, PostBeat, Publish, Ingest, WriteZoekt,
     WriteScip, ActivateRevision, Finish, Complete, Fail, FailParent, NoGraph
<1>5. ASSUME NEW w \in Workers,
             Dequeue(w) \/ TickerBeat(w) \/ RunFails(w) \/ ClaimError(w) \/ Abandon(w)
      PROVE  UNCHANGED graph
  BY <1>5, Zenon DEF Dequeue, TickerBeat, RunFails, ClaimError, Abandon, NoGraph
<1>6. ASSUME NEW d \in Dispatchers, DispatchStep(d) \/ DispatchError(d) \/ DispatchCrash(d)
      PROVE  UNCHANGED graph
  BY <1>6, Zenon DEF DispatchStep, DispatchError, DispatchCrash, TryAcquireDispatchLock,
     ReleaseDispatchLock, DispatchRequeue, DispatchReconcile, DispatchList, DispatchReady,
     DispOnly
<1>7. ASSUME \/ UNCHANGED vars \/ DispatchLockExpires
             \/ \E t \in dead : RescueWindowEnds(t)
             \/ \E h \in Owners : Crash(h) \/ Startup(h)
             \/ \E s \in Subjobs : LeaseRunsOut(s)
      PROVE  UNCHANGED graph
  BY <1>7, Zenon DEF vars, procVars, DispatchLockExpires, DispOnly, RescueWindowEnds, Crash, Startup,
     LeaseRunsOut, NoGraph
<1> QED
  BY <1>1, <1>2, <1>3, <1>4, <1>5, <1>6, <1>7, ZenonT(60) DEF Next

\* One step of anybody.
LEMMA StepGraph ==
    ASSUME "stall" \notin FaultKinds,
           \A b, c \in Branches : CommitOf[b] = CommitOf[c] => b = c,
           GraphInv, [Next]_vars
    PROVE  GraphInv'
<1>1. PipelineInv' /\ LeasesHeld' /\ GraphTypes'
  BY NextPipelineInv, StepLeases, GraphRowWrites, Zenon DEF GraphInv
<1>2. ASSUME NEW b \in Branches, "READY" \in manifest[b] PROVE graph'[CommitOf[b]].st = "READY"
  <2>1. graph[CommitOf[b]].st = "READY" /\ CommitOf[b] \in Commits
    BY <1>2, PipelineConstants, Zenon DEF GraphInv, ActiveGraphIsReady
  <2>2. ASSUME NEW w \in Workers, At(w, "building"), C(w) = CommitOf[b] PROVE FALSE
    <3>1. "READY" \notin manifest[B(w)]
      BY <2>2, BuilderIsEarly, Zenon DEF GraphInv
    <3>2. B(w) \in Branches
      BY <2>2, ClaimedTask, ConstantTypes, Zenon DEF GraphInv, At, Claimed, B
    <3> QED
      BY <1>2, <2>2, <3>1, <3>2, Zenon DEF C
  <2> QED
    BY <2>1, <2>2, GraphRowWrites, Zenon DEF GraphInv
<1>3. ASSUME NEW w \in Workers, ActivateRevision(w), NEW b \in Branches,
             "READY" \in manifest'[b]
      PROVE  graph'[CommitOf[b]].st = "READY"
  <2>1. CASE "READY" \in manifest[b]
    BY <1>2, <2>1, Zenon
  <2>2. CASE "READY" \notin manifest[b]
    <3>1. GraphReadyFor(B(w)) /\ Activate(S(w)) /\ UNCHANGED graph
      BY <1>3, <2>2, Zenon DEF ActivateRevision, storeVars, NoGraph
    <3>2. b = B(w)
      <4>1. manifest \in [Branches -> SUBSET {"PENDING", "READY"}]
        BY Zenon DEF GraphInv, PipelineInv, IndInv, TypeOK
      <4>2. manifest' = [manifest EXCEPT ![B(w)] = {"READY"}]
        BY <3>1, Zenon DEF Activate, B
      <4> QED
        BY <1>3, <2>2, <4>1, <4>2, Zenon
    <3> QED
      BY <3>1, <3>2 DEF GraphReadyFor
  <2> QED
    BY <2>1, <2>2, Zenon
<1>4. ActiveGraphIsReady'
  BY <1>2, <1>3, ReadyByActivation, Zenon DEF GraphInv, ActiveGraphIsReady
<1> QED
  BY <1>1, <1>4, Zenon DEF GraphInv

\* Nothing is built and nobody at work.
LEMMA InitGraph == Init => GraphInv
<1> SUFFICES ASSUME Init PROVE GraphInv
  OBVIOUS
<1>1. GraphTypes
  BY Zenon DEF Init, GraphTypes
<1>2. LeasesHeld
  BY Zenon DEF Init, LeasesHeld, AtWork, Idle
<1>3. ActiveGraphIsReady
  BY Zenon DEF Init, StoreInit, ActiveGraphIsReady
<1> QED
  BY <1>1, <1>2, <1>3, InitPipelineInv, Zenon DEF GraphInv

\* A revision that is served has a READY graph, whatever crashes, fails or is
\* delivered twice, as long as no worker that is alive stalls past its lease and
\* no two revisions of the job point at the same commit.  Both can spoil the
\* graph of a revision that is active already.
THEOREM ActiveGraphsAreReady ==
    ASSUME "stall" \notin FaultKinds,
           \A b, c \in Branches : CommitOf[b] = CommitOf[c] => b = c
    PROVE  Spec => []ActiveGraphIsReady
<1>1. GraphInv => ActiveGraphIsReady
  BY Zenon DEF GraphInv
<1>2. GraphInv /\ [Next]_vars => GraphInv'
  BY StepGraph, Zenon
<1> QED
  BY <1>1, <1>2, InitGraph, PTL DEF Spec
=============================================================================
