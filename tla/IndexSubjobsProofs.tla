--------------------------- MODULE IndexSubjobsProofs ---------------------------
(***************************************************************************)
(* The properties of IndexSubjobs, proved for every plan, every number of  *)
(* processes and every MaxAttempts; and, for every number of workers, that *)
(* the workers of IndexPipeline keep the invariant of the processes.       *)
(***************************************************************************)
EXTENDS IndexPipeline, TLAPS

\* Rows the planner inserted come before the rows it has not inserted yet.
PlanPrefix ==
    \A s \in Subjobs : Present(s) =>
        \A t \in Subjobs \ PlannedSkipped : PlanPos[t] < PlanPos[s] => Present(t)

\* Rows inserted as SKIPPED stay so; only executor layers write artifacts.
RowShape ==
    \A s \in Subjobs :
        /\ s \in PlannedSkipped => status[s] \in {"ABSENT", "SKIPPED"}
        /\ status[s] = "ARTIFACT_WRITTEN" => Layer[s] \in ExecutorLayers
        /\ attempt[s] > 0 => <<s, attempt[s]>> \in offered

\* What a task in somebody's hands says about the rows, now and for ever.
OfferCoherence ==
    \A s \in Subjobs, n \in Attempts :
        <<s, n>> \in offered =>
            /\ Present(s)
            /\ n <= attempt[s] + 1
            /\ status[s] \in InFlight => n <= attempt[s]
            /\ \A d \in DependsOn(s) \ PlannedSkipped : Done(d)
            /\ s \in Activations =>
                  \A a \in Activations :
                      PlanPos[a] < PlanPos[s] => status[a] \in Terminal

ReadyHasActivation ==
    \A b \in Branches : "READY" \in manifest[b] =>
        \E a \in Activations : Branch[a] = b

IndInv == /\ TypeOK
          /\ LeaseCoherence
          /\ PlanPrefix
          /\ RowShape
          /\ OfferCoherence
          /\ ReadyHasActivation
          /\ ReadyMeansProduced
          /\ CompletedMeansDone

-----------------------------------------------------------------------------
\* The initial state, before the planner has inserted anything.
LEMMA InitIndInv == StoreInit => IndInv
<1> SUFFICES ASSUME StoreInit PROVE IndInv
  OBVIOUS
<1>1. TypeOK
  BY ConstantTypes DEF StoreInit, TypeOK, JobStatuses, Statuses
<1>2. LeaseCoherence
  BY Zenon DEF StoreInit, LeaseCoherence, InFlight
<1>3. PlanPrefix /\ RowShape /\ OfferCoherence
  BY ConstantTypes DEF StoreInit, PlanPrefix, RowShape, OfferCoherence, Present
<1>4. ReadyHasActivation /\ CompletedMeansDone
  BY Zenon DEF StoreInit, ReadyHasActivation, CompletedMeansDone
<1>5. ReadyMeansProduced
  BY ConstantTypes, Zenon DEF StoreInit, ReadyMeansProduced, Activations
<1> QED
  BY <1>1, <1>2, <1>3, <1>4, <1>5, Zenon DEF IndInv

-----------------------------------------------------------------------------
(***************************************************************************)
(* The shapes of the steps.  Each action has one of them.                  *)
(***************************************************************************)

\* Rows and offers stay; the job or the manifests may move.
JobStep == UNCHANGED <<rows, offered>>

\* The holder of s, or the clock, moves a row that stays in flight.
HolderStep(s) ==
    /\ s \in Subjobs
    /\ status[s] \in InFlight
    /\ status' \in [Subjobs -> Statuses]
    /\ status'[s] \in InFlight
    /\ status'[s] = "ARTIFACT_WRITTEN" =>
          Layer[s] \in ExecutorLayers
    /\ \A t \in Subjobs : t # s => status'[t] = status[t]
    /\ lease' \in [Subjobs -> {"none", "live", "expired"}]
    /\ lease'[s] # "none"
    /\ \A t \in Subjobs : t # s => lease'[t] = lease[t]
    /\ UNCHANGED <<job, manifest, attempt, attemptId, leaseOwner, offered>>

\* The rows `freed' leave their holders, or leave the queue.
ReleaseStep(freed) ==
    /\ freed \subseteq Subjobs
    /\ \A s \in freed : status[s] \in InFlight \cup Waiting
    /\ status' \in [Subjobs -> Statuses]
    /\ \A s \in freed : status'[s] \in {"RETRYING", "SUCCEEDED", "SKIPPED", "FAILED", "CANCELED"}
    /\ \A s \in Subjobs \ freed : status'[s] = status[s]
    /\ attemptId' \in [Subjobs -> 0..MaxAttempts]
    /\ \A s \in Subjobs \ freed : attemptId'[s] = attemptId[s]
    /\ leaseOwner' = [s \in Subjobs |-> IF s \in freed THEN NoOwner ELSE leaseOwner[s]]
    /\ lease' = [s \in Subjobs |-> IF s \in freed THEN "none" ELSE lease[s]]
    /\ job' = job \/ (job' = "FAILED" /\ job # "COMPLETED")
    /\ UNCHANGED <<attempt, offered, manifest>>

\* The statements that name a lease holder and an attempt.
HolderAction(s, w, n) ==
    \/ ClaimScoped(s, w, n)
    \/ Heartbeat(s, w, n)
    \/ MarkArtifactWritten(s, w, n)
    \/ ValidateLiveSubjobLease(s, w, n)
    \/ MarkSucceeded(s, w, n)
    \/ \E reason \in {"other", "semantic"} : MarkFailed(s, w, n, reason)
    \/ MarkRetryableInfrastructureFailure(s, w, n)

\* Terminal rows keep their status and no row is deleted.
Monotone ==
    \A s \in Subjobs : /\ status[s] \in Terminal => status'[s] = status[s]
                       /\ Present(s) => Present(s)'

\* What is done stays done.
LEMMA DoneStays ==
    ASSUME Monotone, NEW s \in Subjobs, Done(s)
    PROVE  Done(s)'
  BY Zenon DEF Monotone, Done, Terminal

\* Of two rows one dependency edge apart, the dependency is done if the
\* dependent may be dispatched: it was inserted first.
LEMMA DispatchedAfterDependencies ==
    ASSUME PlanPrefix, NEW s \in Subjobs, Present(s), Unblocked(s),
           NEW d \in DependsOn(s) \ PlannedSkipped
    PROVE  Done(d)
<1>1. d \in Subjobs /\ PlanPos[d] < PlanPos[s]
  BY PlanShape, Zenon DEF DependsOn
<1>2. Present(d)
  BY <1>1, Zenon DEF PlanPrefix
<1> QED
  BY <1>1, <1>2, Zenon DEF Unblocked

-----------------------------------------------------------------------------
(***************************************************************************)
(* Each shape of step preserves the invariant.                             *)
(***************************************************************************)
\* A step on one row in flight that leaves it in flight under the same holder.
LEMMA HolderStepInv ==
    ASSUME IndInv, NEW s \in Subjobs, HolderStep(s)
    PROVE  IndInv' /\ Monotone
<1> USE DEF IndInv
<1>1. Monotone
  BY Zenon DEF HolderStep, Monotone, Present, InFlight, Terminal, TypeOK
<1>2. TypeOK'
  BY Zenon DEF HolderStep, TypeOK
<1>3. LeaseCoherence'
  BY Zenon DEF HolderStep, LeaseCoherence, TypeOK
<1>4. PlanPrefix'
  BY <1>1, Zenon DEF HolderStep, PlanPrefix, Present, InFlight
<1>5. RowShape'
  BY Zenon DEF HolderStep, RowShape, InFlight
<1>6. OfferCoherence'
  <2> SUFFICES ASSUME NEW t \in Subjobs, NEW n \in Attempts, <<t, n>> \in offered
               PROVE  /\ Present(t)'
                      /\ n <= attempt[t] + 1
                      /\ status'[t] \in InFlight => n <= attempt[t]
                      /\ \A d \in DependsOn(t) \ PlannedSkipped : Done(d)'
                      /\ t \in Activations =>
                            \A a \in Activations :
                                PlanPos[a] < PlanPos[t] => status'[a] \in Terminal
    BY Zenon DEF HolderStep, OfferCoherence
  <2>1. /\ Present(t)
        /\ n <= attempt[t] + 1
        /\ status[t] \in InFlight => n <= attempt[t]
        /\ \A d \in DependsOn(t) \ PlannedSkipped : Done(d)
        /\ t \in Activations =>
              \A a \in Activations :
                  PlanPos[a] < PlanPos[t] => status[a] \in Terminal
    BY Zenon DEF OfferCoherence
  <2>2. \A d \in DependsOn(t) \ PlannedSkipped : Done(d)'
    BY <1>1, <2>1, DoneStays, Zenon DEF DependsOn
  <2> QED
    BY <1>1, <2>1, <2>2, Zenon DEF HolderStep, Monotone, Activations
<1>7. ReadyHasActivation'
  BY Zenon DEF HolderStep, ReadyHasActivation
<1>8. ReadyMeansProduced'
  BY <1>1, DoneStays, Zenon DEF HolderStep, ReadyMeansProduced, DependsOn
<1>9. CompletedMeansDone'
  <2> SUFFICES ASSUME job = "COMPLETED", NEW t \in Subjobs, Present(t)'
               PROVE  Done(t)' \/ (t \in Activations /\ "READY" \in manifest[Branch[t]])
    BY Zenon DEF HolderStep, CompletedMeansDone
  <2>1. Present(t)
    BY Zenon DEF HolderStep, Present, InFlight
  <2> QED
    BY <1>1, <2>1, DoneStays, Zenon DEF CompletedMeansDone
<1> QED
  BY <1>1, <1>2, <1>3, <1>4, <1>5, <1>6, <1>7, <1>8, <1>9, Zenon

\* A statement that takes rows from their holders: the rows end up unheld,
\* waiting or terminal.
LEMMA ReleaseStepInv ==
    ASSUME IndInv, NEW freed \in SUBSET Subjobs, ReleaseStep(freed)
    PROVE  IndInv' /\ Monotone
<1> USE DEF IndInv
<1>1. Monotone
  BY Zenon DEF ReleaseStep, Monotone, Present, InFlight, Waiting, Terminal, TypeOK
<1>2. TypeOK'
  BY Zenon DEF ReleaseStep, TypeOK, JobStatuses
<1>3. LeaseCoherence'
  BY Zenon DEF ReleaseStep, LeaseCoherence, TypeOK, InFlight
<1>4. PlanPrefix'
  BY <1>1, ZenonT(60) DEF ReleaseStep, PlanPrefix, Present, InFlight, Waiting
<1>5. RowShape'
  BY Zenon DEF ReleaseStep, RowShape, InFlight, Waiting
<1>6. OfferCoherence'
  <2> SUFFICES ASSUME NEW t \in Subjobs, NEW n \in Attempts, <<t, n>> \in offered
               PROVE  /\ Present(t)'
                      /\ n <= attempt[t] + 1
                      /\ status'[t] \in InFlight => n <= attempt[t]
                      /\ \A d \in DependsOn(t) \ PlannedSkipped : Done(d)'
                      /\ t \in Activations =>
                            \A a \in Activations :
                                PlanPos[a] < PlanPos[t] => status'[a] \in Terminal
    BY Zenon DEF ReleaseStep, OfferCoherence
  <2>1. /\ Present(t)
        /\ n <= attempt[t] + 1
        /\ status[t] \in InFlight => n <= attempt[t]
        /\ \A d \in DependsOn(t) \ PlannedSkipped : Done(d)
        /\ t \in Activations =>
              \A a \in Activations :
                  PlanPos[a] < PlanPos[t] => status[a] \in Terminal
    BY Zenon DEF OfferCoherence
  <2>2. \A d \in DependsOn(t) \ PlannedSkipped : Done(d)'
    BY <1>1, <2>1, DoneStays, Zenon DEF DependsOn
  <2>3. status'[t] \in InFlight => status[t] \in InFlight
    BY Zenon DEF ReleaseStep, InFlight
  <2> QED
    BY <1>1, <2>1, <2>2, <2>3, Zenon DEF Monotone, Activations
<1>7. ReadyHasActivation'
  BY Zenon DEF ReleaseStep, ReadyHasActivation
<1>8. ReadyMeansProduced'
  BY <1>1, DoneStays, Zenon DEF ReleaseStep, ReadyMeansProduced, DependsOn
<1>9. CompletedMeansDone'
  <2> SUFFICES ASSUME job' = "COMPLETED", NEW t \in Subjobs, Present(t)'
               PROVE  Done(t)' \/ (t \in Activations /\ "READY" \in manifest[Branch[t]])
    BY Zenon DEF ReleaseStep, CompletedMeansDone
  <2>1. Present(t) /\ job = "COMPLETED"
    BY Zenon DEF ReleaseStep, Present, InFlight, Waiting
  <2> QED
    BY <1>1, <2>1, DoneStays, Zenon DEF CompletedMeansDone
<1> QED
  BY <1>1, <1>2, <1>3, <1>4, <1>5, <1>6, <1>7, <1>8, <1>9, Zenon

\* The job and manifest statements leave every row alone.
LEMMA JobStepInv ==
    ASSUME IndInv,
           \/ MarkInProgressScoped
           \/ MarkFailedScoped
           \/ MarkCompletedScoped
           \/ \E b \in Branches : InsertPendingManifest(b)
           \/ \E s \in Subjobs : Activate(s) \/ CompleteJobIfReady(s)
    PROVE  IndInv' /\ Monotone
<1> USE DEF IndInv
<1>1. JobStep
  BY Zenon DEF MarkInProgressScoped, MarkFailedScoped, MarkCompletedScoped,
     InsertPendingManifest, Activate, CompleteJobIfReady, JobStep
<1>2. Monotone
  BY <1>1, Zenon DEF JobStep, rows, Monotone, Present
<1>3. TypeOK'
  <2>1. job' \in JobStatuses
    BY Zenon DEF TypeOK, JobStatuses, MarkInProgressScoped, MarkFailedScoped,
       MarkCompletedScoped, InsertPendingManifest, Activate, CompleteJobIfReady
  <2>2. manifest' \in [Branches -> SUBSET {"PENDING", "READY"}]
    BY DEF TypeOK, MarkInProgressScoped, MarkFailedScoped,
       MarkCompletedScoped, InsertPendingManifest, Activate, CompleteJobIfReady
  <2> QED
    BY <1>1, <2>1, <2>2, Zenon DEF TypeOK, JobStep, rows
<1>4. LeaseCoherence' /\ PlanPrefix' /\ RowShape'
  BY <1>1, Zenon DEF JobStep, rows, LeaseCoherence, PlanPrefix, RowShape, Present
<1>5. OfferCoherence'
  BY <1>1, Zenon DEF JobStep, rows, OfferCoherence, Present, Done
<1>6. \A s \in Subjobs : Done(s)' <=> Done(s)
  BY <1>1, Zenon DEF JobStep, rows, Done
<1>7. /\ \A b \in Branches : "READY" \in manifest'[b] =>
              \/ "READY" \in manifest[b]
              \/ \E s \in Activations : attempt[s] > 0 /\ Branch[s] = b
      /\ \A b \in Branches : "READY" \in manifest[b] => "READY" \in manifest'[b]
  <2>1. CASE \E s \in Subjobs : Activate(s)
    BY <2>1, ConstantTypes DEF Activate, TypeOK
  <2>2. CASE \E b \in Branches : InsertPendingManifest(b)
    BY <2>2 DEF InsertPendingManifest, TypeOK
  <2>3. CASE UNCHANGED manifest
    BY <2>3, Zenon
  <2> QED
    BY <2>1, <2>2, <2>3, Zenon DEF MarkInProgressScoped, MarkFailedScoped,
       MarkCompletedScoped, CompleteJobIfReady
<1>8. ReadyHasActivation'
  BY <1>7, Zenon DEF ReadyHasActivation
<1>9. ReadyMeansProduced'
  <2> SUFFICES ASSUME NEW s \in Activations, "READY" \in manifest'[Branch[s]],
                      NEW d \in DependsOn(s) \ PlannedSkipped
               PROVE  Done(d)'
    BY Zenon DEF ReadyMeansProduced
  <2>1. CASE "READY" \in manifest[Branch[s]]
    BY <2>1, <1>6, Zenon DEF ReadyMeansProduced, DependsOn
  <2>2. CASE \E t \in Activations : attempt[t] > 0 /\ Branch[t] = Branch[s]
    <3>1. attempt[s] > 0 /\ s \in Subjobs
      BY <2>2, PlanShape, Zenon DEF Activations
    <3>2. <<s, attempt[s]>> \in offered /\ attempt[s] \in Attempts
      BY <3>1, ConstantTypes, Zenon DEF RowShape, TypeOK, Attempts
    <3> QED
      BY <3>1, <3>2, <1>6, Zenon DEF OfferCoherence, DependsOn
  <2>3. Branch[s] \in Branches
    BY ConstantTypes, Zenon DEF Activations
  <2> QED
    BY <1>7, <2>1, <2>2, <2>3, Zenon
<1>10. CompletedMeansDone'
  <2> SUFFICES ASSUME job' = "COMPLETED", NEW t \in Subjobs, Present(t)'
               PROVE  Done(t)' \/ (t \in Activations /\ "READY" \in manifest'[Branch[t]])
    BY Zenon DEF CompletedMeansDone
  <2>0. Present(t) /\ Branch[t] \in Branches
    BY <1>1, ConstantTypes, Zenon DEF JobStep, rows, Present
  <2>1. CASE job = "COMPLETED"
    BY <2>0, <2>1, <1>6, <1>7, Zenon DEF CompletedMeansDone
  <2>2. CASE \E s \in Subjobs : CompleteJobIfReady(s)
    BY <2>0, <2>2, <1>6, Zenon DEF CompleteJobIfReady, JobReady
  <2>3. CASE MarkCompletedScoped
    <3>1. "READY" \in manifest[Branch[t]] /\ manifest' = manifest
      BY <2>0, <2>3, Zenon DEF MarkCompletedScoped
    <3>2. CASE t \in Activations
      BY <3>1, <3>2, Zenon
    <3>3. CASE t \in PlannedSkipped
      BY <2>0, <3>3, <1>6, Zenon DEF RowShape, Present, Done
    <3>4. CASE t \notin Activations /\ t \notin PlannedSkipped
      <4>1. PICK a \in Activations : Branch[a] = Branch[t]
        BY <2>0, <3>1, Zenon DEF ReadyHasActivation
      <4>2. t \in DependsOn(a) \ PlannedSkipped
        BY <4>1, <3>4, ConstantTypes, Zenon DEF DependsOn, Activations, LayerEdges
      <4> QED
        BY <4>1, <4>2, <3>1, <1>6, Zenon DEF ReadyMeansProduced
    <3> QED
      BY <3>2, <3>3, <3>4, Zenon
  <2> QED
    BY <2>1, <2>2, <2>3, Zenon DEF MarkInProgressScoped, MarkFailedScoped,
       InsertPendingManifest, Activate
<1> QED
  BY <1>2, <1>3, <1>4, <1>5, <1>8, <1>9, <1>10, Zenon

\* Listing hands out attempts; it changes no row.
LEMMA ListDispatchableInv ==
    ASSUME IndInv, ListDispatchable
    PROVE  IndInv' /\ Monotone
<1> USE DEF IndInv
<1>1. UNCHANGED <<job, manifest, status, attempt, attemptId, leaseOwner, lease>>
  BY Zenon DEF ListDispatchable, rows
<1>2. Monotone
  BY <1>1, Zenon DEF Monotone, Present
<1>3. TypeOK'
  <2>1. offered' \subseteq Subjobs \X Attempts
    BY ConstantTypes DEF ListDispatchable, Dispatchable, TypeOK, Attempts
  <2> QED
    BY <1>1, <2>1, Zenon DEF TypeOK
<1>4. LeaseCoherence' /\ PlanPrefix' /\ ReadyHasActivation'
  BY <1>1, Zenon DEF LeaseCoherence, PlanPrefix, Present, ReadyHasActivation
<1>5. RowShape'
  BY <1>1, Zenon DEF RowShape, ListDispatchable
<1>6. ReadyMeansProduced' /\ CompletedMeansDone'
  BY <1>1, Zenon DEF ReadyMeansProduced, CompletedMeansDone, Present, Done
<1>7. OfferCoherence'
  <2> SUFFICES ASSUME NEW s \in Subjobs, NEW n \in Attempts, <<s, n>> \in offered'
               PROVE  /\ Present(s)
                      /\ n <= attempt[s] + 1
                      /\ status[s] \in InFlight => n <= attempt[s]
                      /\ \A d \in DependsOn(s) \ PlannedSkipped : Done(d)
                      /\ s \in Activations =>
                            \A a \in Activations :
                                PlanPos[a] < PlanPos[s] => status[a] \in Terminal
    BY <1>1, Zenon DEF OfferCoherence, Present, Done
  <2>1. CASE <<s, n>> \in offered
    BY <2>1, Zenon DEF OfferCoherence
  <2>2. CASE <<s, n>> \notin offered
    <3>1. Dispatchable(s) /\ n = attempt[s] + 1
      BY <2>2, Zenon DEF ListDispatchable
    <3>2. Present(s) /\ status[s] \notin InFlight /\ Unblocked(s)
      BY <3>1, Zenon DEF Dispatchable, Present, Waiting, InFlight
    <3>3. \A d \in DependsOn(s) \ PlannedSkipped : Done(d)
      BY <3>2, DispatchedAfterDependencies, Zenon
    <3>4. ASSUME s \in Activations, NEW a \in Activations, PlanPos[a] < PlanPos[s]
          PROVE  status[a] \in Terminal
      <4>1. a \in Subjobs \ PlannedSkipped
        BY ConstantTypes, Zenon DEF Activations
      <4>2. Present(a)
        BY <3>2, <3>4, <4>1, Zenon DEF PlanPrefix
      <4>3. status[a] \notin {"QUEUED", "CLAIMED", "RUNNING", "VALIDATING", "RETRYING"}
        BY <3>1, <3>4, Zenon DEF Dispatchable, ActivationTurn, Activations
      <4>4. status[a] # "ARTIFACT_WRITTEN"
        BY <4>1, Zenon DEF RowShape, Activations, ExecutorLayers
      <4> QED
        BY <4>1, <4>2, <4>3, <4>4, Zenon DEF TypeOK, Statuses, Present, Waiting, InFlight
    <3>5. attempt[s] \in Nat
      BY ConstantTypes DEF TypeOK
    <3> QED
      BY <3>1, <3>2, <3>3, <3>4, <3>5
  <2> QED
    BY <2>1, <2>2, Zenon
<1> QED
  BY <1>2, <1>3, <1>4, <1>5, <1>6, <1>7, Zenon

\* The planner's insert, or its no-op on a row that is there.
LEMMA UpsertSubjobInv ==
    ASSUME IndInv, NEW s \in Subjobs, UpsertSubjob(s)
    PROVE  IndInv' /\ Monotone
<1> USE DEF IndInv
<1>1. /\ UNCHANGED <<job, manifest, attempt, attemptId, leaseOwner, lease, offered>>
      /\ status' \in [Subjobs -> Statuses]
      /\ \A t \in Subjobs : t # s \/ Present(t) => status'[t] = status[t]
      /\ ~Present(s) => status'[s] = IF s \in PlannedSkipped THEN "SKIPPED" ELSE "QUEUED"
      /\ job = "IN_PROGRESS"
      /\ \A t \in Subjobs \ PlannedSkipped : PlanPos[t] < PlanPos[s] => Present(t)
  BY Zenon DEF UpsertSubjob, ScopeReady, TypeOK, Statuses, Waiting, Terminal
<1>2. Monotone
  BY <1>1, Zenon DEF Monotone, Present, Terminal
<1>3. TypeOK'
  BY <1>1, Zenon DEF TypeOK
<1>4. LeaseCoherence'
  BY <1>1, Zenon DEF LeaseCoherence, Present, InFlight
<1>5. PlanPrefix'
  BY <1>1, <1>2, Zenon DEF PlanPrefix, Present, Monotone
<1>6. RowShape'
  BY <1>1, Zenon DEF RowShape, Present
<1>7. OfferCoherence'
  <2> SUFFICES ASSUME NEW t \in Subjobs, NEW n \in Attempts, <<t, n>> \in offered
               PROVE  /\ Present(t)'
                      /\ n <= attempt[t] + 1
                      /\ status'[t] \in InFlight => n <= attempt[t]
                      /\ \A d \in DependsOn(t) \ PlannedSkipped : Done(d)'
                      /\ t \in Activations =>
                            \A a \in Activations :
                                PlanPos[a] < PlanPos[t] => status'[a] \in Terminal
    BY <1>1, Zenon DEF OfferCoherence
  <2>1. /\ Present(t)
        /\ n <= attempt[t] + 1
        /\ status[t] \in InFlight => n <= attempt[t]
        /\ \A d \in DependsOn(t) \ PlannedSkipped : Done(d)
        /\ t \in Activations =>
              \A a \in Activations :
                  PlanPos[a] < PlanPos[t] => status[a] \in Terminal
    BY Zenon DEF OfferCoherence
  <2>2. \A d \in DependsOn(t) \ PlannedSkipped : Done(d)'
    BY <1>2, <2>1, DoneStays, Zenon DEF DependsOn
  <2> QED
    BY <1>1, <1>2, <2>1, <2>2, Zenon DEF Monotone, Activations
<1>8. ReadyHasActivation' /\ CompletedMeansDone'
  BY <1>1, Zenon DEF ReadyHasActivation, CompletedMeansDone
<1>9. ReadyMeansProduced'
  BY <1>1, <1>2, DoneStays, Zenon DEF ReadyMeansProduced, DependsOn
<1> QED
  BY <1>2, <1>3, <1>4, <1>5, <1>6, <1>7, <1>8, <1>9, Zenon

\* A claim finds the row unheld: an offer for a row in flight is used up.
LEMMA ClaimFindsWaiting ==
    ASSUME IndInv, NEW s \in Subjobs, NEW n \in Attempts,
           <<s, n>> \in offered, ClaimGuard(s, n)
    PROVE  status[s] \in Waiting
<1>1. attempt[s] \in Nat /\ n \in Nat
  BY ConstantTypes DEF IndInv, TypeOK, Attempts
<1>2. status[s] \notin InFlight
  BY <1>1 DEF IndInv, OfferCoherence, ClaimGuard
<1> QED
  BY <1>2, Zenon DEF ClaimGuard, InFlight

\* A claim puts an unheld row in flight under a fresh attempt number.
LEMMA ClaimScopedInv ==
    ASSUME IndInv, NEW s \in Subjobs, NEW w \in Owners, NEW n \in Attempts,
           ClaimScoped(s, w, n)
    PROVE  IndInv' /\ Monotone
<1> USE DEF IndInv
<1>1. /\ UNCHANGED <<job, manifest, offered>>
      /\ <<s, n>> \in offered
      /\ status[s] \in Waiting
      /\ job = "IN_PROGRESS"
      /\ n = attempt[s] + 1
      /\ attempt[s] \in Nat
      /\ attempt[s] < MaxAttempts
  <2>1. attempt[s] \in Nat /\ n \in Nat
    BY ConstantTypes DEF TypeOK, Attempts
  <2> QED
    BY <2>1, ClaimFindsWaiting DEF ClaimScoped, ClaimGuard
<1>2. /\ status' = [status EXCEPT ![s] = "CLAIMED"]
      /\ attempt' = [attempt EXCEPT ![s] = n]
      /\ attemptId' = [attemptId EXCEPT ![s] = n]
      /\ leaseOwner' = [leaseOwner EXCEPT ![s] = w]
      /\ lease' = [lease EXCEPT ![s] = "live"]
  BY <1>1, Zenon DEF ClaimScoped, TypeOK
<1>3. Monotone
  BY <1>1, <1>2, Zenon DEF Monotone, Present, Terminal, Waiting, TypeOK
<1>4. TypeOK'
  BY <1>1, <1>2, ConstantTypes DEF TypeOK, Statuses, InFlight, Attempts
<1>5. LeaseCoherence'
  BY <1>1, <1>2 DEF LeaseCoherence, TypeOK, InFlight
<1>6. PlanPrefix'
  BY <1>1, <1>2, <1>3, Zenon DEF PlanPrefix, Present, Monotone, Waiting, TypeOK
<1>7. RowShape'
  BY <1>1, <1>2, Zenon DEF RowShape, TypeOK, Waiting
<1>8. OfferCoherence'
  <2> SUFFICES ASSUME NEW t \in Subjobs, NEW m \in Attempts, <<t, m>> \in offered
               PROVE  /\ Present(t)'
                      /\ m <= attempt'[t] + 1
                      /\ status'[t] \in InFlight => m <= attempt'[t]
                      /\ \A d \in DependsOn(t) \ PlannedSkipped : Done(d)'
                      /\ t \in Activations =>
                            \A a \in Activations :
                                PlanPos[a] < PlanPos[t] => status'[a] \in Terminal
    BY <1>1, Zenon DEF OfferCoherence
  <2>1. /\ Present(t)
        /\ m <= attempt[t] + 1
        /\ status[t] \in InFlight => m <= attempt[t]
        /\ \A d \in DependsOn(t) \ PlannedSkipped : Done(d)
        /\ t \in Activations =>
              \A a \in Activations :
                  PlanPos[a] < PlanPos[t] => status[a] \in Terminal
    BY Zenon DEF OfferCoherence
  <2>2. \A d \in DependsOn(t) \ PlannedSkipped : Done(d)'
    BY <1>3, <2>1, DoneStays, Zenon DEF DependsOn
  <2>3. m <= attempt'[t] + 1 /\ (status'[t] \in InFlight => m <= attempt'[t])
    <3>1. attempt[t] \in Nat /\ m \in Nat
      BY ConstantTypes DEF TypeOK, Attempts
    <3> QED
      BY <1>1, <1>2, <2>1, <3>1 DEF TypeOK
  <2> QED
    BY <1>3, <2>1, <2>2, <2>3, Zenon DEF Monotone, Activations
<1>9. ReadyHasActivation' /\ CompletedMeansDone'
  BY <1>1, Zenon DEF ReadyHasActivation, CompletedMeansDone
<1>10. ReadyMeansProduced'
  BY <1>1, <1>3, DoneStays, Zenon DEF ReadyMeansProduced, DependsOn
<1> QED
  BY <1>3, <1>4, <1>5, <1>6, <1>7, <1>8, <1>9, <1>10, Zenon

-----------------------------------------------------------------------------
(***************************************************************************)
(* Each remaining action has one of the shapes.                            *)
(***************************************************************************)
\* Heartbeat, MarkArtifactWritten and the ingest check are statements of the
\* lease holder that keep the row in flight.
LEMMA HolderActions ==
    ASSUME IndInv, NEW s \in Subjobs, NEW w \in Owners, NEW n \in Attempts,
           \/ Heartbeat(s, w, n)
           \/ MarkArtifactWritten(s, w, n)
           \/ ValidateLiveSubjobLease(s, w, n)
    PROVE  HolderStep(s)
<1> USE DEF IndInv
<1>1. CASE Heartbeat(s, w, n)
  BY <1>1, Zenon DEF Heartbeat, Holds, HolderStep, TypeOK, LeaseCoherence, RowShape,
     Statuses, InFlight
<1>2. CASE MarkArtifactWritten(s, w, n)
  BY <1>2, Zenon DEF MarkArtifactWritten, HoldsLive, Holds, HolderStep, TypeOK,
     LeaseCoherence, RowShape, Statuses, InFlight
<1>3. CASE ValidateLiveSubjobLease(s, w, n)
  BY <1>3, Zenon DEF ValidateLiveSubjobLease, HoldsLive, Holds, HolderStep, TypeOK,
     LeaseCoherence, RowShape, Statuses, InFlight
<1> QED
  BY <1>1, <1>2, <1>3, Zenon

\* An expiring lease changes nothing but the lease of a row in flight.
LEMMA LeaseExpiresShape ==
    ASSUME IndInv, NEW s \in Subjobs, LeaseExpires(s)
    PROVE  HolderStep(s)
<1>1. status[s] \in InFlight
  BY Zenon DEF IndInv, LeaseCoherence, LeaseExpires
<1> QED
  BY <1>1, Zenon DEF IndInv, LeaseExpires, HolderStep, TypeOK, RowShape

\* Where an unsuccessful attempt can leave a row.
LEMMA AfterFailureRange ==
    ASSUME NEW s \in Subjobs, NEW optional
    PROVE  /\ AfterFailure(s, optional) \in {"RETRYING", "SKIPPED", "FAILED"}
           /\ Requeued(s, optional) \in {"RETRYING", "SKIPPED", "FAILED", "CANCELED"}
  BY Zenon DEF AfterFailure, Requeued

\* MarkSucceeded, MarkFailed and MarkRetryableInfrastructureFailure release
\* the holder's row.
LEMMA HolderReleases ==
    ASSUME IndInv, NEW s \in Subjobs, NEW w \in Owners, NEW n \in Attempts,
           \/ MarkSucceeded(s, w, n)
           \/ \E reason \in {"other", "semantic"} : MarkFailed(s, w, n, reason)
           \/ MarkRetryableInfrastructureFailure(s, w, n)
    PROVE  ReleaseStep({s})
<1> USE DEF IndInv
<1>1. CASE MarkSucceeded(s, w, n)
  BY <1>1, Zenon DEF MarkSucceeded, HoldsLive, Holds, ReleaseStep, TypeOK, Statuses, Terminal
<1>2. ASSUME NEW reason \in {"other", "semantic"}, MarkFailed(s, w, n, reason)
      PROVE  ReleaseStep({s})
  <2> DEFINE next(t) == IF Layer[t] = "SCIP" /\ reason = "semantic" THEN "SKIPPED"
                        ELSE AfterFailure(t, Optional)
  <2>1. next(s) \in {"RETRYING", "SKIPPED", "FAILED"}
    BY AfterFailureRange, Zenon
  <2> QED
    BY <1>2, <2>1, ConstantTypes DEF MarkFailed, Release, HoldsLive, Holds,
       ReleaseStep, TypeOK, Statuses, Terminal, Waiting
<1>3. CASE MarkRetryableInfrastructureFailure(s, w, n)
  BY <1>3, AfterFailureRange, ConstantTypes DEF MarkRetryableInfrastructureFailure,
     Release, HoldsLive, Holds, ReleaseStep, TypeOK, Statuses, Terminal, Waiting
<1> QED
  BY <1>1, <1>2, <1>3, Zenon

\* Failing the job releases the waiting rows as CANCELED.
LEMMA CancelShape ==
    ASSUME IndInv,
           ReconcileTerminalFailures
              \/ \E s \in Subjobs : FailParentIfTerminalFailure(s)
    PROVE  ReleaseStep({t \in Subjobs : status[t] \in Waiting})
  BY ConstantTypes DEF IndInv, ReconcileTerminalFailures, FailureToReconcile,
     FailParentIfTerminalFailure, CancelWaiting, Release, ReleaseStep, TypeOK, Statuses, Terminal

\* Both lease rescues release rows in flight.
LEMMA RequeueShape ==
    ASSUME IndInv,
           RequeueExpiredLeases
              \/ \E w \in Owners : RequeueLeasesForOwnerPrefixes(w)
    PROVE  \E freed \in SUBSET Subjobs : ReleaseStep(freed)
<1> USE DEF IndInv
<1>1. CASE RequeueExpiredLeases
  <2>1. ExpiredRows \in SUBSET Subjobs
    BY Zenon DEF ExpiredRows
  <2>2. ReleaseStep(ExpiredRows)
    BY <1>1, <2>1, AfterFailureRange, ConstantTypes DEF RequeueExpiredLeases,
       ExpiredRows, Release, ReleaseStep, TypeOK, Statuses, Terminal, Waiting
  <2> QED
    BY <2>1, <2>2, Zenon
<1>2. ASSUME NEW w \in Owners, RequeueLeasesForOwnerPrefixes(w)
      PROVE  \E freed \in SUBSET Subjobs : ReleaseStep(freed)
  <2> DEFINE freed == {s \in Subjobs : status[s] \in InFlight /\ leaseOwner[s] = w}
  <2>1. ReleaseStep(freed)
    BY <1>2, AfterFailureRange, ConstantTypes DEF RequeueLeasesForOwnerPrefixes,
       Release, ReleaseStep, TypeOK, Statuses, Terminal, Waiting
  <2> QED
    BY <2>1, Zenon
<1> QED
  BY <1>1, <1>2, Zenon

-----------------------------------------------------------------------------
\* Every step keeps the invariant, keeps terminal rows and deletes no row.
LEMMA StepIndInv ==
    ASSUME IndInv, [StoreNext]_storeVars
    PROVE  IndInv' /\ Monotone
<1>1. CASE \/ MarkInProgressScoped
           \/ MarkFailedScoped
           \/ MarkCompletedScoped
           \/ \E b \in Branches : InsertPendingManifest(b)
           \/ \E s \in Subjobs : Activate(s) \/ CompleteJobIfReady(s)
  BY <1>1, JobStepInv, Zenon
<1>2. CASE ListDispatchable
  BY <1>2, ListDispatchableInv, Zenon
<1>3. CASE ReconcileTerminalFailures
              \/ \E s \in Subjobs : FailParentIfTerminalFailure(s)
  BY <1>3, CancelShape, ReleaseStepInv, Zenon
<1>4. CASE RequeueExpiredLeases
              \/ \E w \in Owners : RequeueLeasesForOwnerPrefixes(w)
  BY <1>4, RequeueShape, ReleaseStepInv, Zenon
<1>5. CASE \E s \in Subjobs : UpsertSubjob(s)
  BY <1>5, UpsertSubjobInv, Zenon
<1>6. CASE \E s \in Subjobs : LeaseExpires(s)
  BY <1>6, LeaseExpiresShape, HolderStepInv, Zenon
<1>7. CASE \E s \in Subjobs, w \in Owners, n \in Attempts : ClaimScoped(s, w, n)
  BY <1>7, ClaimScopedInv, Zenon
<1>8. CASE \E s \in Subjobs, w \in Owners, n \in Attempts :
              \/ Heartbeat(s, w, n)
              \/ MarkArtifactWritten(s, w, n)
              \/ ValidateLiveSubjobLease(s, w, n)
  BY <1>8, HolderActions, HolderStepInv, Zenon
<1>9. CASE \E s \in Subjobs, w \in Owners, n \in Attempts :
              \/ MarkSucceeded(s, w, n)
              \/ \E reason \in {"other", "semantic"} : MarkFailed(s, w, n, reason)
              \/ MarkRetryableInfrastructureFailure(s, w, n)
  BY <1>9, HolderReleases, ReleaseStepInv, Zenon
<1>10. CASE UNCHANGED storeVars
  <2>1. /\ job' = job /\ manifest' = manifest /\ status' = status /\ attempt' = attempt
        /\ attemptId' = attemptId /\ leaseOwner' = leaseOwner /\ lease' = lease /\ offered' = offered
    BY <1>10, Zenon DEF storeVars, rows
  <2>2. TypeOK' /\ LeaseCoherence'
    BY <2>1, Zenon DEF IndInv, TypeOK, LeaseCoherence
  <2>3. PlanPrefix' /\ RowShape' /\ OfferCoherence'
    BY <2>1, Zenon DEF IndInv, PlanPrefix, RowShape, OfferCoherence, Present, Done
  <2>4. ReadyHasActivation' /\ ReadyMeansProduced' /\ CompletedMeansDone'
    BY <2>1, Zenon DEF IndInv, ReadyHasActivation, ReadyMeansProduced, CompletedMeansDone, Present, Done
  <2>5. Monotone
    BY <2>1, Zenon DEF Monotone, Present
  <2> QED
    BY <2>2, <2>3, <2>4, <2>5, Zenon DEF IndInv
<1> QED
  BY <1>1, <1>2, <1>3, <1>4, <1>5, <1>6, <1>7, <1>8, <1>9, <1>10, Zenon DEF StoreNext

-----------------------------------------------------------------------------
\* The inductive invariant holds for every plan and any number of processes.
THEOREM IndInvHolds == StoreSpec => []IndInv
<1>1. StoreInit => IndInv
  BY InitIndInv, Zenon
<1>2. IndInv /\ [StoreNext]_storeVars => IndInv'
  BY StepIndInv, Zenon
<1> QED
  BY <1>1, <1>2, PTL DEF StoreSpec

\* Every column keeps its type; no row is tried more than MaxAttempts times.
THEOREM TypeCorrect == StoreSpec => []TypeOK
<1>1. IndInv => TypeOK
  BY Zenon DEF IndInv
<1> QED
  BY <1>1, IndInvHolds, PTL

\* A row in flight is held by the claimer of its current attempt.
THEOREM LeasesCoherent == StoreSpec => []LeaseCoherence
<1>1. IndInv => LeaseCoherence
  BY Zenon DEF IndInv
<1> QED
  BY <1>1, IndInvHolds, PTL

\* No task, however late or duplicated, takes a row over from its holder.
THEOREM ClaimsNeverTakeOver == StoreSpec => []NoTakeover
<1>1. IndInv => NoTakeover
  BY ClaimFindsWaiting, Zenon DEF NoTakeover, InFlight, Waiting
<1> QED
  BY <1>1, IndInvHolds, PTL

\* A claimed row has had its dependencies done ever since.
THEOREM DependenciesFirst == StoreSpec => []DependencyOrder
<1>1. ASSUME IndInv PROVE DependencyOrder
  <2> SUFFICES ASSUME NEW s \in Subjobs, attempt[s] > 0,
                      NEW d \in DependsOn(s) \ PlannedSkipped
               PROVE  Done(d)
    BY Zenon DEF DependencyOrder
  <2>1. <<s, attempt[s]>> \in offered /\ attempt[s] \in Attempts
    BY <1>1, ConstantTypes, Zenon DEF IndInv, RowShape, TypeOK, Attempts
  <2> QED
    BY <1>1, <2>1, Zenon DEF IndInv, OfferCoherence
<1> QED
  BY <1>1, IndInvHolds, PTL

\* At most one ACTIVATE row of a job is in flight.
THEOREM ActivationsOneAtATime == StoreSpec => []ActivationsSerialized
<1>1. ASSUME IndInv PROVE ActivationsSerialized
  <2> SUFFICES ASSUME NEW a \in Activations, NEW b \in Activations,
                      status[a] \in InFlight, status[b] \in InFlight, a # b
               PROVE  FALSE
    BY Zenon DEF ActivationsSerialized
  <2>1. \A s \in Activations : status[s] \in InFlight =>
            \A t \in Activations : PlanPos[t] < PlanPos[s] => status[t] \in Terminal
    <3> SUFFICES ASSUME NEW s \in Activations, status[s] \in InFlight
                 PROVE  \A t \in Activations :
                            PlanPos[t] < PlanPos[s] => status[t] \in Terminal
      OBVIOUS
    <3>1. s \in Subjobs /\ attempt[s] > 0
      BY <1>1, Zenon DEF IndInv, LeaseCoherence, Activations
    <3>2. <<s, attempt[s]>> \in offered /\ attempt[s] \in Attempts
      BY <1>1, <3>1, ConstantTypes, Zenon DEF IndInv, RowShape, TypeOK, Attempts
    <3> QED
      BY <1>1, <3>1, <3>2, Zenon DEF IndInv, OfferCoherence
  <2>2. PlanPos[a] < PlanPos[b] \/ PlanPos[b] < PlanPos[a]
    BY PlanShape, ConstantTypes DEF Activations
  <2> QED
    BY <2>1, <2>2, Zenon DEF InFlight, Terminal
<1> QED
  BY <1>1, IndInvHolds, PTL

\* A READY manifest's producer rows are done.
THEOREM ReadyIsProduced == StoreSpec => []ReadyMeansProduced
<1>1. IndInv => ReadyMeansProduced
  BY Zenon DEF IndInv
<1> QED
  BY <1>1, IndInvHolds, PTL

\* A COMPLETED job left no row behind, but for activated revisions.
THEOREM CompletedIsDone == StoreSpec => []CompletedMeansDone
<1>1. IndInv => CompletedMeansDone
  BY Zenon DEF IndInv
<1> QED
  BY <1>1, IndInvHolds, PTL

\* No statement revives a terminal row or a terminal job.
THEOREM TerminalStaysFinal == StoreSpec => TerminalIsFinal
<1> DEFINE Final ==
      /\ \A s \in Subjobs : status[s] \in Terminal => status'[s] = status[s]
      /\ job \notin ActiveJob => job' = job
<1>1. IndInv /\ [StoreNext]_storeVars => [Final]_storeVars
  <2> SUFFICES ASSUME IndInv, StoreNext PROVE Final
    BY Zenon DEF storeVars
  <2>1. \A s \in Subjobs : status[s] \in Terminal => status'[s] = status[s]
    BY StepIndInv, Zenon DEF Monotone
  <2>2. job \notin ActiveJob => job' = job
    <3>1. CASE \/ MarkInProgressScoped
               \/ MarkFailedScoped
               \/ MarkCompletedScoped
               \/ ReconcileTerminalFailures
               \/ \E s \in Subjobs :
                     CompleteJobIfReady(s) \/ FailParentIfTerminalFailure(s)
      BY <3>1, Zenon DEF ActiveJob, MarkInProgressScoped, MarkFailedScoped,
         MarkCompletedScoped, ReconcileTerminalFailures, FailureToReconcile,
         CompleteJobIfReady, JobReady, FailParentIfTerminalFailure
    <3>2. CASE \/ \E b \in Branches : InsertPendingManifest(b)
               \/ ListDispatchable
               \/ RequeueExpiredLeases
               \/ \E w \in Owners : RequeueLeasesForOwnerPrefixes(w)
               \/ \E s \in Subjobs : UpsertSubjob(s) \/ Activate(s) \/ LeaseExpires(s)
      BY <3>2, Zenon DEF InsertPendingManifest, ListDispatchable, RequeueExpiredLeases,
         RequeueLeasesForOwnerPrefixes, UpsertSubjob, Activate, LeaseExpires
    <3>3. ASSUME NEW s \in Subjobs, NEW w \in Owners, NEW n \in Attempts,
                 HolderAction(s, w, n)
          PROVE  UNCHANGED job
      BY <3>3, Zenon DEF HolderAction, ClaimScoped, Heartbeat, MarkArtifactWritten,
         ValidateLiveSubjobLease, MarkSucceeded, MarkFailed,
         MarkRetryableInfrastructureFailure
    <3> QED
      BY <3>1, <3>2, <3>3, Zenon DEF StoreNext, HolderAction
  <2> QED
    BY <2>1, <2>2, Zenon
<1> QED
  BY <1>1, IndInvHolds, PTL DEF StoreSpec, TerminalIsFinal

\* Every attempt number is handed to at most one claimer.
THEOREM AttemptsHandedOutOnce == StoreSpec => AttemptHandedOutOnce
<1> DEFINE Once ==
      \A s \in Subjobs : attempt'[s] # attempt[s] =>
          /\ attempt'[s] = attempt[s] + 1
          /\ status[s] \in Waiting
          /\ job = "IN_PROGRESS"
<1>1. IndInv /\ [StoreNext]_storeVars => [Once]_storeVars
  <2> SUFFICES ASSUME IndInv, StoreNext PROVE Once
    BY Zenon DEF storeVars
  <2>1. CASE \E s \in Subjobs, w \in Owners, n \in Attempts : ClaimScoped(s, w, n)
    <3>1. PICK s \in Subjobs, w \in Owners, n \in Attempts : ClaimScoped(s, w, n)
      BY <2>1, Zenon
    <3>2. status[s] \in Waiting
      BY <3>1, ClaimFindsWaiting, Zenon DEF ClaimScoped
    <3> QED
      BY <3>1, <3>2, Zenon DEF ClaimScoped, ClaimGuard, IndInv, TypeOK
  <2>2. CASE \/ MarkInProgressScoped
             \/ MarkFailedScoped
             \/ MarkCompletedScoped
             \/ \E b \in Branches : InsertPendingManifest(b)
             \/ ListDispatchable
             \/ \E s \in Subjobs : \/ UpsertSubjob(s)
                                   \/ Activate(s)
                                   \/ CompleteJobIfReady(s)
                                   \/ LeaseExpires(s)
    BY <2>2, Zenon DEF rows, MarkInProgressScoped, MarkFailedScoped, MarkCompletedScoped,
       InsertPendingManifest, ListDispatchable, UpsertSubjob, Activate,
       CompleteJobIfReady, LeaseExpires
  <2>3. CASE \/ ReconcileTerminalFailures
             \/ \E s \in Subjobs : FailParentIfTerminalFailure(s)
             \/ RequeueExpiredLeases
             \/ \E w \in Owners : RequeueLeasesForOwnerPrefixes(w)
    BY <2>3, Zenon DEF CancelWaiting, Release, ReconcileTerminalFailures,
       FailParentIfTerminalFailure, RequeueExpiredLeases,
       RequeueLeasesForOwnerPrefixes
  <2>4. ASSUME NEW s \in Subjobs, NEW w \in Owners, NEW n \in Attempts,
               HolderAction(s, w, n), ~ClaimScoped(s, w, n)
        PROVE  UNCHANGED attempt
    BY <2>4, Zenon DEF HolderAction, Heartbeat, MarkArtifactWritten, Release,
       ValidateLiveSubjobLease, MarkSucceeded, MarkFailed,
       MarkRetryableInfrastructureFailure
  <2> QED
    BY <2>1, <2>2, <2>3, <2>4, Zenon DEF StoreNext, HolderAction
<1> QED
  BY <1>1, IndInvHolds, PTL DEF StoreSpec, AttemptHandedOutOnce

-----------------------------------------------------------------------------
(***************************************************************************)
(* IndexSubjobs implements IndexJob, for every plan, every number of       *)
(* processes and every MaxAttempts.                                        *)
(***************************************************************************)

\* Steps that keep terminal rows and delete none leave built revisions built.
LEMMA BuiltStays ==
    ASSUME Monotone
    PROVE  /\ PlannedRevisions \subseteq PlannedRevisions'
           /\ BuiltRevisions \subseteq BuiltRevisions'
<1>1. PlannedRevisions \subseteq PlannedRevisions'
  BY Zenon DEF PlannedRevisions, ActivationOf, Activations, Monotone
<1>2. ASSUME NEW s \in Subjobs, Done(s) PROVE Done(s)'
  BY <1>2, DoneStays, Zenon
<1> QED
  BY <1>1, <1>2, Zenon DEF BuiltRevisions, ActivationOf, Activations, DependsOn

\* Where no row is inserted and none ends, the promise's view of the rows stays.
LEMMA RowsViewStays ==
    ASSUME \A s \in Subjobs : /\ Present(s)' <=> Present(s)
                              /\ s \notin PlannedSkipped => (Done(s)' <=> Done(s))
    PROVE  UNCHANGED <<PlannedRevisions, BuiltRevisions>>
<1>1. PlannedRevisions' = PlannedRevisions
  BY Zenon DEF PlannedRevisions, ActivationOf, Activations
<1>2. BuiltRevisions' = BuiltRevisions
  BY <1>1, Zenon DEF BuiltRevisions, ActivationOf, Activations, DependsOn
<1> QED
  BY <1>1, <1>2, Zenon

\* If every row, or every row but activations, is done, what is planned is
\* built: the plan inserted producers before the activation.
LEMMA DoneMeansBuilt ==
    ASSUME IndInv, \A t \in Subjobs : Present(t) => Done(t) \/ t \in Activations
    PROVE  PlannedRevisions \subseteq BuiltRevisions
<1> SUFFICES ASSUME NEW b \in PlannedRevisions, NEW s \in ActivationOf(b),
                    NEW d \in DependsOn(s) \ PlannedSkipped
             PROVE  Done(d)
  BY Zenon DEF BuiltRevisions
<1>1. PICK a \in ActivationOf(b) : Present(a)
  BY Zenon DEF PlannedRevisions
<1>2. a = s /\ s \in Subjobs
  BY <1>1, PlanShape, Zenon DEF ActivationOf, Activations
<1>3. d \in Subjobs /\ PlanPos[d] < PlanPos[s] /\ d \notin Activations
  BY <1>2, PlanShape, ConstantTypes, Zenon DEF DependsOn, LayerEdges, Activations,
     ExecutorLayers
<1>4. Present(d)
  BY <1>1, <1>2, <1>3, Zenon DEF IndInv, PlanPrefix
<1> QED
  BY <1>3, <1>4, Zenon

\* A COMPLETED job planned nothing that is not built.
LEMMA CompletedIsBuilt ==
    ASSUME IndInv, job = "COMPLETED"
    PROVE  PlannedRevisions \subseteq BuiltRevisions
  BY DoneMeansBuilt, Zenon DEF IndInv, CompletedMeansDone

-----------------------------------------------------------------------------
(***************************************************************************)
(* One lemma for each way a statement shows in the promise.                *)
(***************************************************************************)
\* The job statements start, fail or complete the job.
LEMMA JobStatements ==
    ASSUME IndInv,
           \/ MarkInProgressScoped
           \/ MarkFailedScoped
           \/ MarkCompletedScoped
           \/ \E s \in Subjobs : CompleteJobIfReady(s)
    PROVE  Promise!PromiseNext
<1>1. UNCHANGED <<manifest, status>>
  BY Zenon DEF MarkInProgressScoped, MarkFailedScoped, MarkCompletedScoped,
     CompleteJobIfReady, rows
<1>2. UNCHANGED <<PlannedRevisions, BuiltRevisions>>
  BY <1>1, RowsViewStays, Zenon DEF Present, Done
<1>3. UNCHANGED ServedRevisions
  BY <1>1, Zenon DEF ServedRevisions
<1>4. CASE MarkInProgressScoped
  BY <1>2, <1>3, <1>4, Zenon DEF MarkInProgressScoped, ActiveJob, Promise!PromiseNext,
     Promise!Start
<1>5. CASE MarkFailedScoped
  BY <1>2, <1>3, <1>5, Zenon DEF MarkFailedScoped, ActiveJob, Promise!PromiseNext,
     Promise!Fail
<1>6. CASE MarkCompletedScoped
  <2>1. PlannedRevisions \subseteq BuiltRevisions
    BY <1>6, ConstantTypes, Zenon DEF MarkCompletedScoped, BuiltRevisions, PlannedRevisions,
       ActivationOf, Activations, IndInv, ReadyMeansProduced
  <2> QED
    BY <1>2, <1>3, <1>6, <2>1, Zenon DEF MarkCompletedScoped, ActiveJob,
       Promise!PromiseNext, Promise!Complete
<1>7. CASE \E s \in Subjobs : CompleteJobIfReady(s)
  <2>1. PlannedRevisions \subseteq BuiltRevisions
    BY <1>7, DoneMeansBuilt, Zenon DEF CompleteJobIfReady, JobReady
  <2> QED
    BY <1>2, <1>3, <1>7, <2>1, Zenon DEF CompleteJobIfReady, JobReady,
       Promise!PromiseNext, Promise!Complete
<1> QED
  BY <1>4, <1>5, <1>6, <1>7, Zenon

\* A manifest insert is invisible; an activation serves a built revision.
LEMMA ManifestStatements ==
    ASSUME IndInv,
           \/ \E b \in Branches : InsertPendingManifest(b)
           \/ \E s \in Subjobs : Activate(s)
    PROVE  [Promise!PromiseNext]_(Promise!promiseVars)
<1>1. UNCHANGED <<job, status>>
  BY Zenon DEF InsertPendingManifest, Activate, rows
<1>2. UNCHANGED <<PlannedRevisions, BuiltRevisions>>
  BY <1>1, RowsViewStays, Zenon DEF Present, Done
<1>3. CASE \E b \in Branches : InsertPendingManifest(b)
  <2>1. UNCHANGED ServedRevisions
    BY <1>3 DEF InsertPendingManifest, ServedRevisions, IndInv, TypeOK
  <2> QED
    BY <1>1, <1>2, <2>1, Zenon DEF Promise!promiseVars
<1>4. ASSUME NEW s \in Subjobs, Activate(s)
      PROVE  Promise!PromiseNext
  <2>1. Branch[s] \in Branches /\ s \in ActivationOf(Branch[s])
    BY <1>4, ConstantTypes, Zenon DEF Activate, ActivationOf, Activations
  <2>2. <<s, attempt[s]>> \in offered /\ attempt[s] \in Attempts
    BY <1>4, ConstantTypes, Zenon DEF Activate, IndInv, RowShape, TypeOK, Attempts
  <2>3. Present(s) /\ \A d \in DependsOn(s) \ PlannedSkipped : Done(d)
    BY <2>2, Zenon DEF IndInv, OfferCoherence
  <2>4. \A a \in ActivationOf(Branch[s]) : a = s
    BY <1>4, PlanShape, Zenon DEF ActivationOf, Activate
  <2>5. Branch[s] \in BuiltRevisions
    BY <2>1, <2>3, <2>4, Zenon DEF BuiltRevisions, PlannedRevisions
  <2>6. ServedRevisions' = ServedRevisions \cup {Branch[s]}
    BY <1>4, <2>1 DEF Activate, ServedRevisions, IndInv, TypeOK
  <2>7. Promise!Serve(Branch[s])
    BY <1>1, <1>2, <2>5, <2>6, Zenon DEF Promise!Serve
  <2> QED
    BY <2>1, <2>7, Zenon DEF Promise!PromiseNext
<1> QED
  BY <1>3, <1>4, Zenon

\* The planner's insert of an ACTIVATE row plans its revision; its other
\* inserts are invisible.
LEMMA PlannerInserts ==
    ASSUME IndInv, NEW s \in Subjobs, UpsertSubjob(s)
    PROVE  [Promise!PromiseNext]_(Promise!promiseVars)
<1>1. /\ UNCHANGED <<job, manifest>>
      /\ \A t \in Subjobs : t # s \/ Present(t) => status'[t] = status[t]
      /\ ~Present(s) => status'[s] = IF s \in PlannedSkipped THEN "SKIPPED" ELSE "QUEUED"
      /\ job = "IN_PROGRESS"
  BY Zenon DEF UpsertSubjob, ScopeReady, IndInv, TypeOK
<1>2. UNCHANGED ServedRevisions
  BY <1>1, Zenon DEF ServedRevisions
<1>3. \A t \in Subjobs \ PlannedSkipped : Done(t)' <=> Done(t)
  BY <1>1, Zenon DEF Done, Present
<1>4. CASE Present(s) \/ s \notin Activations
  <2>1. PlannedRevisions' = PlannedRevisions
    BY <1>1, <1>4, Zenon DEF PlannedRevisions, ActivationOf, Activations, Present
  <2>2. BuiltRevisions' = BuiltRevisions
    BY <1>3, <2>1, Zenon DEF BuiltRevisions, ActivationOf, Activations, DependsOn
  <2> QED
    BY <1>1, <1>2, <2>1, <2>2, Zenon DEF Promise!promiseVars
<1>5. CASE ~Present(s) /\ s \in Activations
  <2>1. Branch[s] \in Branches
    BY ConstantTypes, Zenon
  <2>2. PlannedRevisions' = PlannedRevisions \cup {Branch[s]}
    <3>1. Present(s)'
      BY <1>1, <1>5, Zenon DEF Present
    <3>2. \A t \in Subjobs : t # s => (Present(t)' <=> Present(t))
      BY <1>1, Zenon DEF Present
    <3> QED
      BY <1>5, <2>1, <3>1, <3>2, Zenon DEF PlannedRevisions, ActivationOf, Activations
  <2>3. BuiltRevisions' \in {BuiltRevisions, BuiltRevisions \cup {Branch[s]}}
    BY <1>3, <2>2, Zenon DEF BuiltRevisions, ActivationOf, Activations, DependsOn
  <2>4. Promise!Plan(Branch[s])
    BY <1>1, <1>2, <2>2, <2>3, Zenon DEF Promise!Plan
  <2> QED
    BY <2>1, <2>4, Zenon DEF Promise!PromiseNext
<1> QED
  BY <1>4, <1>5, Zenon

\* Listing, claiming and what a holder does to a row it keeps are invisible.
LEMMA HolderStatements ==
    ASSUME IndInv,
           \/ ListDispatchable
           \/ \E s \in Subjobs : HolderStep(s)
           \/ \E s \in Subjobs, w \in Owners, n \in Attempts : ClaimScoped(s, w, n)
    PROVE  UNCHANGED Promise!promiseVars
<1>1. UNCHANGED <<job, manifest>>
  BY Zenon DEF ListDispatchable, HolderStep, ClaimScoped
<1>2. \A t \in Subjobs : /\ Present(t)' <=> Present(t)
                         /\ Done(t)' <=> Done(t)
  <2>1. CASE ListDispatchable
    BY <2>1, Zenon DEF ListDispatchable, rows, Present, Done
  <2>2. CASE \E s \in Subjobs : HolderStep(s)
    BY <2>2, Zenon DEF HolderStep, Present, Done, InFlight
  <2>3. ASSUME NEW s \in Subjobs, NEW w \in Owners, NEW n \in Attempts,
               ClaimScoped(s, w, n)
        PROVE  \A t \in Subjobs : /\ Present(t)' <=> Present(t)
                                  /\ Done(t)' <=> Done(t)
    <3>1. status[s] \in Waiting
      BY <2>3, ClaimFindsWaiting, Zenon DEF ClaimScoped
    <3> QED
      BY <2>3, <3>1, ZenonT(60) DEF ClaimScoped, IndInv, TypeOK, Present, Done, Waiting
  <2> QED
    BY <2>1, <2>2, <2>3, Zenon
<1>3. UNCHANGED <<PlannedRevisions, BuiltRevisions>>
  BY <1>2, RowsViewStays, Zenon
<1> QED
  BY <1>1, <1>3, Zenon DEF Promise!promiseVars, ServedRevisions

\* A statement that ends or requeues rows builds the revisions whose last
\* producer it ended.
LEMMA ReleaseStatements ==
    ASSUME IndInv, NEW freed \in SUBSET Subjobs, ReleaseStep(freed),
           job' = job \/ (job = "IN_PROGRESS" /\ job' = "FAILED")
    PROVE  [Promise!PromiseNext]_(Promise!promiseVars)
<1>1. Monotone
  BY ReleaseStepInv, Zenon
<1>2. PlannedRevisions' = PlannedRevisions
  <2>1. \A t \in Subjobs : Present(t)' <=> Present(t)
    BY Zenon DEF ReleaseStep, Present, InFlight, Waiting
  <2> QED
    BY <2>1, Zenon DEF PlannedRevisions, ActivationOf, Activations
<1>3. UNCHANGED ServedRevisions
  BY Zenon DEF ReleaseStep, ServedRevisions
<1>4. BuiltRevisions \subseteq BuiltRevisions' /\ BuiltRevisions' \subseteq PlannedRevisions
  BY <1>1, <1>2, BuiltStays, Zenon DEF BuiltRevisions
<1>5. CASE job = "COMPLETED"
  <2>1. BuiltRevisions' = BuiltRevisions
    BY <1>4, <1>5, CompletedIsBuilt, Zenon
  <2> QED
    BY <1>2, <1>3, <1>5, <2>1, Zenon DEF Promise!promiseVars
<1>6. CASE job # "COMPLETED"
  <2>1. Promise!Build(BuiltRevisions')
    BY <1>2, <1>3, <1>4, <1>6, Zenon DEF Promise!Build
  <2>2. BuiltRevisions' \in SUBSET Branches
    BY <1>4, Zenon DEF PlannedRevisions
  <2> QED
    BY <2>1, <2>2, Zenon DEF Promise!PromiseNext
<1> QED
  BY <1>5, <1>6, Zenon

-----------------------------------------------------------------------------
\* Every statement of the store is a step of the promise, or invisible to it.
LEMMA StepKeepsPromise ==
    ASSUME IndInv, [StoreNext]_storeVars
    PROVE  [Promise!PromiseNext]_(Promise!promiseVars)
<1>1. CASE \/ MarkInProgressScoped
           \/ MarkFailedScoped
           \/ MarkCompletedScoped
           \/ \E s \in Subjobs : CompleteJobIfReady(s)
  BY <1>1, JobStatements, Zenon
<1>2. CASE \/ \E b \in Branches : InsertPendingManifest(b)
           \/ \E s \in Subjobs : Activate(s)
  BY <1>2, ManifestStatements, Zenon
<1>3. CASE \E s \in Subjobs : UpsertSubjob(s)
  BY <1>3, PlannerInserts, Zenon
<1>4. CASE \/ ListDispatchable
           \/ \E s \in Subjobs : LeaseExpires(s)
           \/ \E s \in Subjobs, w \in Owners, n \in Attempts :
                 \/ ClaimScoped(s, w, n)
                 \/ Heartbeat(s, w, n)
                 \/ MarkArtifactWritten(s, w, n)
                 \/ ValidateLiveSubjobLease(s, w, n)
  <2>1. CASE \E s \in Subjobs : HolderStep(s)
    BY <2>1, HolderStatements, Zenon
  <2>2. CASE ListDispatchable \/ \E s \in Subjobs, w \in Owners, n \in Attempts :
                                    ClaimScoped(s, w, n)
    BY <2>2, HolderStatements, Zenon
  <2> QED
    BY <1>4, <2>1, <2>2, LeaseExpiresShape, HolderActions, Zenon
<1>5. CASE \E s \in Subjobs, w \in Owners, n \in Attempts :
              \/ MarkSucceeded(s, w, n)
              \/ \E reason \in {"other", "semantic"} : MarkFailed(s, w, n, reason)
              \/ MarkRetryableInfrastructureFailure(s, w, n)
  <2>1. PICK s \in Subjobs : ReleaseStep({s})
    BY <1>5, HolderReleases, Zenon
  <2>2. UNCHANGED job
    BY <1>5, Zenon DEF MarkSucceeded, MarkFailed, MarkRetryableInfrastructureFailure
  <2> QED
    BY <2>1, <2>2, ReleaseStatements, Zenon
<1>6. CASE ReconcileTerminalFailures
              \/ \E s \in Subjobs : FailParentIfTerminalFailure(s)
  <2>1. job' = job \/ (job = "IN_PROGRESS" /\ job' = "FAILED")
    BY <1>6, Zenon DEF ReconcileTerminalFailures, FailureToReconcile,
       FailParentIfTerminalFailure
  <2>2. {t \in Subjobs : status[t] \in Waiting} \in SUBSET Subjobs
    OBVIOUS
  <2> QED
    BY <1>6, <2>1, <2>2, CancelShape, ReleaseStatements, Zenon
<1>7. CASE RequeueExpiredLeases
              \/ \E w \in Owners : RequeueLeasesForOwnerPrefixes(w)
  <2>1. UNCHANGED job
    BY <1>7, Zenon DEF RequeueExpiredLeases, RequeueLeasesForOwnerPrefixes
  <2> QED
    BY <1>7, <2>1, RequeueShape, ReleaseStatements, Zenon
<1>8. CASE UNCHANGED storeVars
  <2>1. UNCHANGED <<PlannedRevisions, BuiltRevisions>>
    BY <1>8, RowsViewStays, Zenon DEF storeVars, rows, Present, Done
  <2> QED
    BY <1>8, <2>1, Zenon DEF storeVars, Promise!promiseVars, ServedRevisions
<1> QED
  BY <1>1, <1>2, <1>3, <1>4, <1>5, <1>6, <1>7, <1>8, Zenon DEF StoreNext

\* Before the planner has run nothing is planned, built or served.
LEMMA InitKeepsPromise == StoreInit => Promise!PromiseInit
<1> SUFFICES ASSUME StoreInit PROVE Promise!PromiseInit
  OBVIOUS
<1>1. PlannedRevisions = {}
  BY Zenon DEF StoreInit, PlannedRevisions, ActivationOf, Activations, Present
<1>2. BuiltRevisions = {} /\ ServedRevisions = {}
  BY <1>1, Zenon DEF StoreInit, BuiltRevisions, ServedRevisions
<1> QED
  BY <1>1, <1>2, Zenon DEF StoreInit, Promise!PromiseInit

\* The rows and statements of the indexing job implement IndexJob.
THEOREM StoreKeepsPromise == StoreSpec => KeepsPromise
<1>1. StoreInit => Promise!PromiseInit
  BY InitKeepsPromise, Zenon
<1>2. IndInv /\ [StoreNext]_storeVars => [Promise!PromiseNext]_(Promise!promiseVars)
  BY StepKeepsPromise, Zenon
<1> QED
  BY <1>1, <1>2, IndInvHolds, PTL DEF StoreSpec, KeepsPromise, Promise!PromiseSpec

\* In IndexJob nothing is served that is not built, and a COMPLETED job has
\* built all it planned: any implementation inherits both.
THEOREM PromiseIsKept == Promise!PromiseSpec => []Promise!PromiseKept
<1>1. Promise!PromiseInit => Promise!PromiseKept
  BY Zenon DEF Promise!PromiseInit, Promise!PromiseKept
<1>2. Promise!PromiseKept /\ [Promise!PromiseNext]_(Promise!promiseVars)
        => Promise!PromiseKept'
  BY Zenon DEF Promise!PromiseKept, Promise!PromiseNext, Promise!promiseVars, Promise!Start,
     Promise!Fail, Promise!Complete, Promise!Plan, Promise!Serve, Promise!Build
<1> QED
  BY <1>1, <1>2, PTL DEF Promise!PromiseSpec

-----------------------------------------------------------------------------
(***************************************************************************)
(* The workers of IndexPipeline: a worker past its claim holds an attempt  *)
(* that was handed out, nobody else has it, and its row is where the worker *)
(* left it.                                                                *)
(***************************************************************************)

Tasks == Subjobs \X Attempts \X {"primary", "rescue"}
\* The steps of the executor's handler, of the merge and of the activation.
ExecutorPcs == {"run", "postbeat", "publish", "ingest", "write", "building", "failInfra",
                "failSemantic"}
MergePcs == {"merge", "promote"}
WorkerPcs == {"idle", "claim", "beat", "activate", "done", "complete", "fail", "parent"}
             \cup ExecutorPcs \cup MergePcs
\* The steps before the artifact of the attempt is recorded.
EarlyPcs == {"beat", "run", "postbeat", "publish", "merge", "promote", "activate",
             "failInfra"}

\* What the processes have in hand.
ProcessTypes ==
    /\ planner \in [pc : {"queued", "plan", "fail", "finished"}, revs : SUBSET Branches,
                    todo : SUBSET Subjobs]
    /\ queue \subseteq Tasks
    /\ dead \subseteq Tasks
    /\ worker \in [Workers -> [pc : WorkerPcs, task : Tasks \cup {<<>>}]]
    /\ disp \in [Dispatchers -> [pc : {"idle", "requeue", "reconcile", "list", "enqueue",
                                       "release"},
                                 batch : SUBSET (Subjobs \X Attempts)]]

\* Every task anywhere is for an attempt a dispatcher has listed.
TasksOffered ==
    /\ \A t \in queue : <<t[1], t[2]>> \in offered
    /\ \A d \in Dispatchers : /\ disp[d].batch \subseteq offered
                              /\ disp[d].pc = "enqueue" => disp[d].batch # {}
    /\ \A w \in Workers : worker[w].pc # "idle" =>
          worker[w].task \in Tasks /\ <<S(w), N(w)>> \in offered

\* Which rows reach which steps of the handlers.
LayerFits(pc, layer) ==
    /\ pc \in ExecutorPcs => layer \in ExecutorLayers
    /\ pc = "building" => layer = "AST_TREE_SITTER"
    /\ pc \in MergePcs => layer = "GRAPH_MERGE"
    /\ pc \in {"activate", "complete"} => layer = "ACTIVATE"

\* A worker past the claim has an attempt that was handed out, its step fits the
\* layer of its row, and the row is where the worker left it if it still names
\* the worker's attempt.
WorkerFits(w) ==
    /\ worker[w].pc \notin {"idle", "claim"} => N(w) <= attempt[S(w)]
    /\ LayerFits(worker[w].pc, Layer[S(w)])
    /\ worker[w].pc \in EarlyPcs /\ status[S(w)] \in InFlight /\ attemptId[S(w)] = N(w)
          => status[S(w)] \in {"CLAIMED", "RUNNING"}
    /\ worker[w].pc = "complete" => status[S(w)] = "SUCCEEDED"
    /\ worker[w].pc = "parent" => status[S(w)] = "FAILED"

WorkersFit == \A w \in Workers : WorkerFits(w)

\* An activated revision has its ACTIVATE row.
ReadyIsPlanned ==
    \A a \in Activations : "READY" \in manifest[Branch[a]] => Present(a)

\* What the INDEX task has not planned yet is in its hands, in plan order, also
\* when it is delivered again.
PlannerFits ==
    /\ ReadyIsPlanned
    /\ planner.pc = "plan" =>
        /\ \A t \in Subjobs \ PlannedSkipped :
              Present(t) \/ t \in planner.todo \/ Branch[t] \in planner.revs
        /\ planner.todo = {} =>
              \A b \in Branches \ planner.revs : "READY" \in manifest[b]

PipelineInv ==
    /\ IndInv
    /\ ProcessTypes
    /\ TasksOffered
    /\ WorkersFit
    /\ ExclusiveAttempt
    /\ PlannerFits

-----------------------------------------------------------------------------
(***************************************************************************)
(* What a step of the store leaves to everybody else.                      *)
(***************************************************************************)

\* The statements that do not name a lease holder.
UnheldAction ==
    \/ MarkInProgressScoped
    \/ MarkFailedScoped
    \/ MarkCompletedScoped
    \/ \E b \in Branches : InsertPendingManifest(b)
    \/ ListDispatchable
    \/ ReconcileTerminalFailures
    \/ RequeueExpiredLeases
    \/ \E h \in Owners : RequeueLeasesForOwnerPrefixes(h)
    \/ \E s \in Subjobs :
          \/ UpsertSubjob(s)
          \/ FailParentIfTerminalFailure(s)
          \/ Activate(s)
          \/ CompleteJobIfReady(s)
          \/ LeaseExpires(s)

\* No attempt is taken back, and if row s is in flight under attempt n after the
\* step, it was so before, in the same status.
Kept(s, n) ==
    /\ attempt[s] <= attempt'[s]
    /\ status'[s] \in InFlight /\ attemptId'[s] = n =>
          status[s] \in InFlight /\ attemptId[s] = n /\ status'[s] = status[s]

\* The attempts of the rows are counted in natural numbers.
LEMMA AttemptCounts ==
    /\ IndInv => attempt \in [Subjobs -> Nat] /\ status \in [Subjobs -> Statuses]
    /\ IndInv' => attempt' \in [Subjobs -> Nat]
    /\ \A n \in Attempts : n \in Nat \ {0}
<1>1. MaxAttempts \in Nat
  BY ConstantTypes, Zenon
<1>2. IndInv => attempt \in [Subjobs -> 0..MaxAttempts] /\ status \in [Subjobs -> Statuses]
  BY Zenon DEF IndInv, TypeOK
<1>3. IndInv' => attempt' \in [Subjobs -> 0..MaxAttempts]
  BY Zenon DEF IndInv, TypeOK
<1>4. \A n \in Attempts : n \in Nat \ {0}
  BY <1>1 DEF Attempts
<1> QED
  BY <1>1, <1>2, <1>3, <1>4

\* Both kinds of statement are steps of the store.
LEMMA StoreActions ==
    /\ UnheldAction => StoreNext
    /\ \A s \in Subjobs, h \in Owners, n \in Attempts : HolderAction(s, h, n) => StoreNext
  BY Zenon DEF UnheldAction, HolderAction, StoreNext

\* Attempts are never taken back, offers never withdrawn, and an activated
\* revision stays activated.
LEMMA StoreGrows ==
    ASSUME IndInv, [StoreNext]_storeVars
    PROVE  /\ IndInv' /\ Monotone
           /\ \A s \in Subjobs : attempt[s] <= attempt'[s]
           /\ offered \subseteq offered'
           /\ \A b \in Branches : "READY" \in manifest[b] => "READY" \in manifest'[b]
           /\ ReadyIsPlanned => ReadyIsPlanned'
<1>1. IndInv' /\ Monotone
  BY StepIndInv, Zenon
<1>a. Activations \subseteq Subjobs /\ \A a \in Activations : Branch[a] \in Branches
  BY ConstantTypes, Zenon DEF Activations
<1>b. ASSUME ReadyIsPlanned, UNCHANGED manifest PROVE ReadyIsPlanned'
  BY <1>1, <1>a, <1>b, Zenon DEF ReadyIsPlanned, Monotone
<1> USE ConstantTypes DEF IndInv, TypeOK
<1>2. CASE UNCHANGED storeVars
  BY <1>1, <1>2, <1>b DEF storeVars, rows
<1>3. CASE UnheldAction
  <2>1. offered \subseteq offered'
    BY <1>3, Zenon DEF UnheldAction, MarkInProgressScoped, MarkFailedScoped, MarkCompletedScoped,
       InsertPendingManifest, ListDispatchable, ReconcileTerminalFailures, CancelWaiting, Release,
       RequeueExpiredLeases, RequeueLeasesForOwnerPrefixes, UpsertSubjob,
       FailParentIfTerminalFailure, Activate, CompleteJobIfReady, LeaseExpires
  <2>2. manifest' = manifest \/ (\E b \in Branches : InsertPendingManifest(b))
        \/ \E s \in Subjobs : Activate(s)
    BY <1>3, Zenon DEF UnheldAction, MarkInProgressScoped, MarkFailedScoped, MarkCompletedScoped,
       ListDispatchable, ReconcileTerminalFailures, CancelWaiting, Release,
       RequeueExpiredLeases, RequeueLeasesForOwnerPrefixes, UpsertSubjob,
       FailParentIfTerminalFailure, CompleteJobIfReady, LeaseExpires
  <2>3. \A b \in Branches : "READY" \in manifest[b] => "READY" \in manifest'[b]
    BY <2>2 DEF InsertPendingManifest, Activate
  <2>4. attempt' = attempt
    BY <1>3, Zenon DEF UnheldAction, MarkInProgressScoped, MarkFailedScoped, MarkCompletedScoped,
       InsertPendingManifest, ListDispatchable, ReconcileTerminalFailures, CancelWaiting, Release,
       RequeueExpiredLeases, RequeueLeasesForOwnerPrefixes, UpsertSubjob,
       FailParentIfTerminalFailure, Activate, CompleteJobIfReady, LeaseExpires, rows
  <2>5. ASSUME ReadyIsPlanned PROVE ReadyIsPlanned'
    <3>1. CASE UNCHANGED manifest
      BY <1>b, <2>5, <3>1, Zenon
    <3>2. CASE \E b \in Branches : InsertPendingManifest(b)
      BY <1>1, <1>a, <2>5, <3>2 DEF InsertPendingManifest, ReadyIsPlanned, Monotone
    <3>3. ASSUME NEW s \in Subjobs, Activate(s) PROVE ReadyIsPlanned'
      <4>1. s \in Activations /\ Present(s)
        BY <3>3, Zenon DEF Activate, RowShape, OfferCoherence
      <4>2. \A a \in Activations : a # s => Branch[a] # Branch[s]
        BY <4>1, PlanShape, Zenon
      <4>3. \A a \in Activations : a # s => manifest'[Branch[a]] = manifest[Branch[a]]
        BY <1>a, <3>3, <4>2, Zenon DEF Activate
      <4> QED
        BY <1>1, <1>a, <2>5, <4>1, <4>3 DEF ReadyIsPlanned, Monotone
    <3> QED
      BY <2>2, <3>1, <3>2, <3>3, Zenon
  <2> QED
    BY <1>1, <2>1, <2>3, <2>4, <2>5
<1>4. CASE \E s \in Subjobs, h \in Owners, n \in Attempts : HolderAction(s, h, n)
  <2>1. UNCHANGED <<offered, manifest>>
    BY <1>4, SMTT(30) DEF HolderAction, ClaimScoped, Heartbeat, MarkArtifactWritten,
       ValidateLiveSubjobLease, MarkSucceeded, MarkFailed, MarkRetryableInfrastructureFailure,
       Release
  <2>2. \A s \in Subjobs : attempt[s] <= attempt'[s]
    BY <1>4 DEF HolderAction, ClaimScoped, Heartbeat, MarkArtifactWritten,
       ValidateLiveSubjobLease, MarkSucceeded, MarkFailed, MarkRetryableInfrastructureFailure,
       Release
  <2> QED
    BY <1>1, <1>b, <2>1, <2>2, ZenonT(60)
<1> QED
  BY <1>2, <1>3, <1>4, Zenon DEF StoreNext, UnheldAction, HolderAction

\* A statement without a holder only takes rows away.
LEMMA UnheldKeeps ==
    ASSUME IndInv, UnheldAction, NEW s \in Subjobs, NEW n \in Attempts
    PROVE  Kept(s, n)
<1> USE DEF IndInv
<1>1. attempt' = attempt
  BY Zenon DEF UnheldAction, MarkInProgressScoped, MarkFailedScoped, MarkCompletedScoped,
     InsertPendingManifest, ListDispatchable, ReconcileTerminalFailures, CancelWaiting, Release,
     RequeueExpiredLeases, RequeueLeasesForOwnerPrefixes, UpsertSubjob,
     FailParentIfTerminalFailure, Activate, CompleteJobIfReady, LeaseExpires, rows
<1>2. attempt[s] <= attempt'[s]
  BY <1>1, ConstantTypes DEF TypeOK
<1>3. CASE UNCHANGED <<status, attemptId>>
  BY <1>2, <1>3, Zenon DEF Kept
<1>4. CASE \E T, next : Release(T, next)
  BY <1>2, <1>4 DEF Release, Kept, Attempts
<1>5. CASE \E t \in Subjobs : UpsertSubjob(t)
  BY <1>2, <1>5, Zenon DEF UpsertSubjob, Kept, TypeOK, InFlight, Present
<1> QED
  BY <1>3, <1>4, <1>5, Zenon DEF UnheldAction, MarkInProgressScoped, MarkFailedScoped,
     MarkCompletedScoped, InsertPendingManifest, ListDispatchable, ReconcileTerminalFailures,
     CancelWaiting, RequeueExpiredLeases, RequeueLeasesForOwnerPrefixes,
     FailParentIfTerminalFailure, Activate, CompleteJobIfReady, LeaseExpires, rows

\* The holder of an attempt does nothing to any other attempt.
LEMMA HolderKeeps ==
    ASSUME IndInv, NEW s \in Subjobs, NEW h \in Owners, NEW n \in Attempts,
           HolderAction(s, h, n),
           NEW t \in Subjobs, NEW m \in Attempts, <<t, m>> # <<s, n>>
    PROVE  Kept(t, m)
<1> USE DEF IndInv
<1>1. CASE ClaimScoped(s, h, n)
  BY <1>1, ConstantTypes DEF ClaimScoped, ClaimGuard, Kept, TypeOK
<1>2. CASE Heartbeat(s, h, n)
  BY <1>2, ConstantTypes DEF Heartbeat, Holds, Kept, TypeOK
<1>3. CASE MarkArtifactWritten(s, h, n) \/ ValidateLiveSubjobLease(s, h, n)
  BY <1>3, ConstantTypes DEF MarkArtifactWritten, ValidateLiveSubjobLease, HoldsLive, Holds, Kept,
     TypeOK
<1>4. CASE MarkSucceeded(s, h, n)
  BY <1>4, ConstantTypes DEF MarkSucceeded, HoldsLive, Holds, Kept, TypeOK
<1>5. CASE \E T, next : Release(T, next)
  BY <1>5, ConstantTypes DEF Release, Kept, Attempts, TypeOK
<1> QED
  BY <1>1, <1>2, <1>3, <1>4, <1>5, Zenon DEF HolderAction, MarkFailed,
     MarkRetryableInfrastructureFailure

-----------------------------------------------------------------------------
(***************************************************************************)
(* Steps of the workers.                                                   *)
(***************************************************************************)

\* The worker has claimed the attempt of its task.
Claimed(w) == worker[w].pc \notin {"idle", "claim"}

\* What ToPc does to the workers.
LEMMA ToPcMoves ==
    ASSUME ProcessTypes, NEW w \in Workers, NEW pc \in WorkerPcs, ToPc(w, pc)
    PROVE  /\ worker' \in [Workers -> [pc : WorkerPcs, task : Tasks \cup {<<>>}]]
           /\ worker'[w].pc = pc
           /\ pc # "idle" => worker'[w].task = worker[w].task
           /\ \A v \in Workers \ {w} : worker'[v] = worker[v]
<1>1. Idle \in [pc : WorkerPcs, task : Tasks \cup {<<>>}]
  BY Zenon DEF Idle, WorkerPcs
<1>2. worker[w] \in [pc : WorkerPcs, task : Tasks \cup {<<>>}]
  BY Zenon DEF ProcessTypes
<1> QED
  BY <1>1, <1>2, Zenon DEF ProcessTypes, ToPc, Idle

\* A worker that does not move keeps fitting, if its attempt is left alone.
LEMMA StillFits ==
    ASSUME IndInv, IndInv', Monotone, ProcessTypes, TasksOffered, NEW v \in Workers,
           worker'[v] = worker[v], WorkerFits(v), Claimed(v) => Kept(S(v), N(v))
    PROVE  WorkerFits(v)'
<1>1. CASE ~Claimed(v)
  BY <1>1, Zenon DEF Claimed, WorkerFits, LayerFits, ExecutorPcs, MergePcs, EarlyPcs
<1>2. CASE Claimed(v)
  <2>1. S(v) \in Subjobs /\ N(v) \in Attempts /\ worker[v].pc # "idle"
    BY <1>2, Zenon DEF Claimed, TasksOffered, Tasks, S, N
  <2>2. S(v)' = S(v) /\ N(v)' = N(v) /\ worker'[v].pc = worker[v].pc
    BY Zenon DEF S, N
  <2>3. Kept(S(v), N(v)) /\ N(v) <= attempt[S(v)]
    BY <1>2, Zenon DEF Claimed, WorkerFits
  <2>4. N(v) <= attempt'[S(v)]
    <3>1. attempt[S(v)] \in Nat /\ attempt'[S(v)] \in Nat /\ N(v) \in Nat
      BY <2>1, AttemptCounts, Zenon
    <3>2. attempt[S(v)] <= attempt'[S(v)]
      BY <2>3, Zenon DEF Kept
    <3> QED
      BY <2>3, <3>1, <3>2
  <2>5. /\ status[S(v)] = "SUCCEEDED" => status'[S(v)] = "SUCCEEDED"
        /\ status[S(v)] = "FAILED" => status'[S(v)] = "FAILED"
    BY <2>1, Zenon DEF Monotone, Terminal
  <2> QED
    BY <2>1, <2>2, <2>3, <2>4, <2>5, Zenon DEF WorkerFits, Kept
<1> QED
  BY <1>1, <1>2, Zenon

\* The attempts in the hands of two workers stay different as long as nobody
\* claims one.
LEMMA StillExclusive ==
    ASSUME ExclusiveAttempt,
           \A v \in Workers : Claimed(v)' => Claimed(v) /\ S(v)' = S(v) /\ N(v)' = N(v)
    PROVE  ExclusiveAttempt'
  BY Zenon DEF ExclusiveAttempt, Claimed

\* A step of one worker: it moves to pc, the store takes one step or none, every
\* other worker's attempt is left alone, and the worker fits where it goes.
LEMMA WorkerMoves ==
    ASSUME PipelineInv, NEW w \in Workers, NEW pc \in WorkerPcs, worker[w].pc # "idle",
           ToPc(w, pc), [StoreNext]_storeVars, UNCHANGED <<planner, queue, disp>>,
           dead' \subseteq Tasks,
           \A v \in Workers \ {w} : Claimed(v) => Kept(S(v), N(v)),
           pc \in {"idle", "claim"} \/ Claimed(w)
              \/ \A v \in Workers \ {w} : Claimed(v) => <<S(v), N(v)>> # <<S(w), N(w)>>,
           pc # "idle" => WorkerFits(w)'
    PROVE  PipelineInv'
<1>1. /\ IndInv' /\ Monotone
      /\ offered \subseteq offered'
      /\ \A b \in Branches : "READY" \in manifest[b] => "READY" \in manifest'[b]
      /\ ReadyIsPlanned => ReadyIsPlanned'
  BY StoreGrows, Zenon DEF PipelineInv
<1>2. /\ worker' \in [Workers -> [pc : WorkerPcs, task : Tasks \cup {<<>>}]]
      /\ worker'[w].pc = pc
      /\ pc # "idle" => worker'[w].task = worker[w].task
      /\ \A v \in Workers \ {w} : worker'[v] = worker[v]
  BY ToPcMoves, Zenon DEF PipelineInv
<1>3. ProcessTypes'
  BY <1>2, Zenon DEF PipelineInv, ProcessTypes
<1>4. TasksOffered'
  <2>1. \A v \in Workers : worker'[v].pc # "idle" =>
           worker'[v].task \in Tasks /\ <<S(v), N(v)>>' \in offered
    BY <1>2, Zenon DEF PipelineInv, TasksOffered, S, N
  <2> QED
    BY <1>1, <2>1, Zenon DEF PipelineInv, TasksOffered
<1>5. WorkersFit'
  <2> SUFFICES ASSUME NEW v \in Workers PROVE WorkerFits(v)'
    BY Zenon DEF WorkersFit
  <2>1. CASE v # w
    BY <1>1, <1>2, <2>1, StillFits, Zenon DEF PipelineInv, WorkersFit
  <2>2. CASE v = w /\ pc = "idle"
    BY <1>2, <2>2, Zenon DEF WorkerFits, LayerFits, ExecutorPcs, MergePcs, EarlyPcs
  <2> QED
    BY <2>1, <2>2, Zenon
<1>6. ExclusiveAttempt'
  <2>1. \A v \in Workers \ {w} : /\ Claimed(v)' = Claimed(v)
                                 /\ S(v)' = S(v) /\ N(v)' = N(v)
    BY <1>2, Zenon DEF Claimed, S, N
  <2>2. pc # "idle" => S(w)' = S(w) /\ N(w)' = N(w)
    BY <1>2, Zenon DEF S, N
  <2>3. CASE pc \in {"idle", "claim"} \/ Claimed(w)
    <3>1. Claimed(w)' => Claimed(w) /\ S(w)' = S(w) /\ N(w)' = N(w)
      BY <1>2, <2>2, <2>3, Zenon DEF Claimed
    <3> QED
      BY <2>1, <3>1, StillExclusive, Zenon DEF PipelineInv
  <2>4. CASE \A v \in Workers \ {w} : Claimed(v) => <<S(v), N(v)>> # <<S(w), N(w)>>
    <3> SUFFICES ASSUME NEW u \in Workers, NEW v \in Workers, u # v, Claimed(u)', Claimed(v)'
                 PROVE  <<S(u), N(u)>>' # <<S(v), N(v)>>'
      BY Zenon DEF ExclusiveAttempt, Claimed
    <3>1. CASE u # w /\ v # w
      BY <2>1, <3>1, Zenon DEF PipelineInv, ExclusiveAttempt, Claimed
    <3>2. CASE u = w \/ v = w
      <4>1. pc # "idle"
        BY <1>2, <3>2, Zenon DEF Claimed
      <4> QED
        BY <2>1, <2>2, <2>4, <3>2, <4>1, Zenon
    <3> QED
      BY <3>1, <3>2, Zenon
  <2> QED
    BY <2>3, <2>4, Zenon
<1>7. PlannerFits'
  <2>1. PlannerFits /\ UNCHANGED planner
    BY Zenon DEF PipelineInv
  <2> QED
    BY <1>1, <2>1, Zenon DEF PlannerFits, Monotone
<1> QED
  BY <1>1, <1>3, <1>4, <1>5, <1>6, <1>7, Zenon DEF PipelineInv

\* The task of a worker that is not idle.
LEMMA WorkerTask ==
    ASSUME PipelineInv, NEW w \in Workers, worker[w].pc # "idle"
    PROVE  /\ S(w) \in Subjobs /\ N(w) \in Attempts /\ H(w) \in Owners
           /\ <<S(w), N(w)>> \in offered
  BY PipelineConstants, Zenon DEF PipelineInv, TasksOffered, Tasks, S, N, H

\* The same for a worker past the claim.
LEMMA ClaimedTask ==
    ASSUME PipelineInv, NEW w \in Workers, Claimed(w)
    PROVE  S(w) \in Subjobs /\ N(w) \in Attempts /\ H(w) \in Owners
  BY WorkerTask, Zenon DEF Claimed

\* No step, or a statement without a holder, disturbs nobody's attempt.
LEMMA FreeStep ==
    ASSUME PipelineInv, UNCHANGED storeVars \/ UnheldAction
    PROVE  /\ [StoreNext]_storeVars
           /\ \A v \in Workers : Claimed(v) => Kept(S(v), N(v))
<1>1. [StoreNext]_storeVars
  BY StoreActions, Zenon
<1>2. ASSUME NEW v \in Workers, Claimed(v) PROVE Kept(S(v), N(v))
  <2>1. S(v) \in Subjobs /\ N(v) \in Attempts
    BY <1>2, WorkerTask, Zenon DEF Claimed
  <2>2. CASE UNCHANGED storeVars
    BY <2>1, <2>2, ConstantTypes DEF storeVars, rows, Kept, PipelineInv, IndInv, TypeOK
  <2> QED
    BY <2>1, <2>2, UnheldKeeps, Zenon DEF PipelineInv
<1> QED
  BY <1>1, <1>2, Zenon

\* The statements of a worker for its own attempt disturb no other worker's.
LEMMA OwnStep ==
    ASSUME PipelineInv, NEW w \in Workers, Claimed(w), HolderAction(S(w), H(w), N(w))
    PROVE  /\ [StoreNext]_storeVars
           /\ \A v \in Workers \ {w} : Claimed(v) => Kept(S(v), N(v))
<1>1. S(w) \in Subjobs /\ N(w) \in Attempts /\ H(w) \in Owners
  BY WorkerTask, Zenon DEF Claimed
<1>2. [StoreNext]_storeVars
  BY <1>1, StoreActions, Zenon
<1>3. ASSUME NEW v \in Workers \ {w}, Claimed(v) PROVE Kept(S(v), N(v))
  <2>1. S(v) \in Subjobs /\ N(v) \in Attempts
    BY <1>3, WorkerTask, Zenon DEF Claimed
  <2>2. <<S(v), N(v)>> # <<S(w), N(w)>>
    BY <1>3, Zenon DEF PipelineInv, ExclusiveAttempt, Claimed
  <2> QED
    BY <1>1, <2>1, <2>2, HolderKeeps, Zenon DEF PipelineInv
<1> QED
  BY <1>2, <1>3, Zenon

\* No statement takes back the attempt a worker past the claim holds.
LEMMA HandedOutStays ==
    ASSUME PipelineInv, NEW w \in Workers, Claimed(w), [StoreNext]_storeVars
    PROVE  N(w) <= attempt'[S(w)]
<1>1. S(w) \in Subjobs /\ N(w) \in Attempts
  BY WorkerTask, Zenon DEF Claimed
<1>2. N(w) <= attempt[S(w)]
  BY Zenon DEF PipelineInv, WorkersFit, WorkerFits, Claimed
<1>3. attempt[S(w)] <= attempt'[S(w)] /\ IndInv'
  BY <1>1, StoreGrows, Zenon DEF PipelineInv
<1>4. attempt[S(w)] \in Nat /\ attempt'[S(w)] \in Nat
  BY <1>1, <1>3, ConstantTypes DEF PipelineInv, IndInv, TypeOK, Attempts
<1>5. N(w) \in Nat
  BY <1>1, ConstantTypes DEF Attempts
<1> QED
  BY <1>2, <1>3, <1>4, <1>5

\* A worker past the claim moves on: the invariant holds again if it fits there.
LEMMA ClaimedMoves ==
    ASSUME PipelineInv, NEW w \in Workers, NEW pc \in WorkerPcs \ {"claim"}, Claimed(w),
           ToPc(w, pc), UNCHANGED <<planner, queue, dead, disp>>,
           UNCHANGED storeVars \/ UnheldAction \/ HolderAction(S(w), H(w), N(w)),
           pc # "idle" => LayerFits(pc, Layer[S(w)]),
           pc \in EarlyPcs /\ status'[S(w)] \in InFlight /\ attemptId'[S(w)] = N(w)
              => status'[S(w)] \in {"CLAIMED", "RUNNING"},
           pc = "complete" => status'[S(w)] = "SUCCEEDED",
           pc = "parent" => status'[S(w)] = "FAILED"
    PROVE  PipelineInv' /\ [StoreNext]_storeVars
<1>1. /\ [StoreNext]_storeVars
      /\ \A v \in Workers \ {w} : Claimed(v) => Kept(S(v), N(v))
  BY FreeStep, OwnStep, Zenon
<1>2. S(w) \in Subjobs /\ N(w) \in Attempts /\ worker[w].pc # "idle"
  BY WorkerTask, Zenon DEF Claimed
<1>3. ASSUME pc # "idle" PROVE WorkerFits(w)'
  <2>1. S(w)' = S(w) /\ N(w)' = N(w) /\ worker'[w].pc = pc
    BY <1>3, ToPcMoves, Zenon DEF PipelineInv, S, N
  <2>2. N(w) <= attempt'[S(w)]
    BY <1>1, HandedOutStays, Zenon
  <2> QED
    BY <1>3, <2>1, <2>2, Zenon DEF WorkerFits
<1> QED
  BY <1>1, <1>2, <1>3, WorkerMoves, Zenon DEF PipelineInv, ProcessTypes, Claimed

\* What a claim that succeeds writes into its row.
LEMMA ClaimHandsOut ==
    ASSUME PipelineInv, NEW s \in Subjobs, NEW n \in Attempts, NEW h \in Owners,
           ClaimGuard(s, n), ClaimScoped(s, h, n)
    PROVE  n <= attempt'[s] /\ status'[s] = "CLAIMED"
<1>1. attempt \in [Subjobs -> Nat] /\ status \in [Subjobs -> Statuses]
  BY AttemptCounts, Zenon DEF PipelineInv
<1>2. attempt[s] = n - 1 /\ n \in Nat
  BY AttemptCounts, Zenon DEF ClaimGuard
<1>3. /\ attempt' = [attempt EXCEPT ![s] = attempt[s] + 1]
      /\ status' = [status EXCEPT ![s] = "CLAIMED"]
  BY Zenon DEF ClaimScoped
<1>4. attempt'[s] = attempt[s] + 1 /\ status'[s] = "CLAIMED"
  BY <1>1, <1>3, Zenon
<1> QED
  BY <1>2, <1>4

\* Claim: the only step that hands a worker an attempt, and a new one.
LEMMA ClaimInv ==
    ASSUME PipelineInv, NEW w \in Workers, Claim(w)
    PROVE  PipelineInv' /\ [StoreNext]_storeVars
<1> USE DEF Claim, At
<1>1. S(w) \in Subjobs /\ N(w) \in Attempts /\ H(w) \in Owners /\ worker[w].pc # "idle"
  BY WorkerTask, Zenon
<1>2. UNCHANGED <<planner, queue, dead, disp>> /\ dead' \subseteq Tasks
  BY Zenon DEF WorkerOnly, PipelineInv, ProcessTypes
<1>3. CASE ClaimGuard(S(w), N(w))
  <2>1. ClaimScoped(S(w), H(w), N(w)) /\ ToPc(w, "beat")
    BY <1>3, Zenon
  <2>2. [StoreNext]_storeVars
    BY <1>1, <2>1, StoreActions, Zenon DEF HolderAction
  <2>3. \A v \in Workers \ {w} : Claimed(v) => <<S(v), N(v)>> # <<S(w), N(w)>>
    <3> SUFFICES ASSUME NEW v \in Workers \ {w}, Claimed(v), S(v) = S(w), N(v) = N(w)
                 PROVE  FALSE
      BY Zenon
    <3>1. N(w) <= attempt[S(w)]
      BY Zenon DEF PipelineInv, WorkersFit, WorkerFits, Claimed
    <3>2. attempt[S(w)] = N(w) - 1
      BY <1>3, Zenon DEF ClaimGuard
    <3>3. N(w) \in Nat
      BY <1>1, AttemptCounts, Zenon
    <3> QED
      BY <3>1, <3>2, <3>3
  <2>4. \A v \in Workers \ {w} : Claimed(v) => Kept(S(v), N(v))
    <3> SUFFICES ASSUME NEW v \in Workers \ {w}, Claimed(v) PROVE Kept(S(v), N(v))
      BY Zenon
    <3>1. S(v) \in Subjobs /\ N(v) \in Attempts
      BY WorkerTask, Zenon DEF Claimed
    <3> QED
      BY <1>1, <2>1, <2>3, <3>1, HolderKeeps, Zenon DEF PipelineInv, HolderAction
  <2>5. WorkerFits(w)'
    <3>1. S(w)' = S(w) /\ N(w)' = N(w) /\ worker'[w].pc = "beat"
      BY <2>1, ToPcMoves DEF PipelineInv, S, N, WorkerPcs
    <3>2. N(w) <= attempt'[S(w)] /\ status'[S(w)] = "CLAIMED"
      BY <1>1, <1>3, <2>1, ClaimHandsOut, Zenon
    <3> QED
      BY <3>1, <3>2, ZenonT(60) DEF WorkerFits, LayerFits, ExecutorPcs, MergePcs
  <2> QED
    BY <1>1, <1>2, <2>1, <2>2, <2>3, <2>4, <2>5, WorkerMoves, Zenon DEF WorkerPcs
<1>4. CASE ~ClaimGuard(S(w), N(w))
  <2>1. UNCHANGED storeVars /\ ToPc(w, "idle")
    BY <1>4, Zenon
  <2>2. [StoreNext]_storeVars /\ \A v \in Workers : Claimed(v) => Kept(S(v), N(v))
    BY <2>1, FreeStep, Zenon
  <2> QED
    BY <1>1, <1>2, <2>1, <2>2, WorkerMoves, Zenon DEF WorkerPcs
<1> QED
  BY <1>3, <1>4, Zenon

\* A claim that fails leaves its task in the archive.
LEMMA ClaimErrorInv ==
    ASSUME PipelineInv, NEW w \in Workers, ClaimError(w)
    PROVE  PipelineInv' /\ [StoreNext]_storeVars
<1>1. /\ UNCHANGED <<planner, queue, disp, storeVars>> /\ ToPc(w, "idle")
      /\ worker[w].pc # "idle"
  BY Zenon DEF ClaimError, At
<1>2. dead' \subseteq Tasks
  BY Zenon DEF ClaimError, At, PipelineInv, ProcessTypes, TasksOffered
<1>3. [StoreNext]_storeVars /\ \A v \in Workers : Claimed(v) => Kept(S(v), N(v))
  BY <1>1, FreeStep, Zenon
<1> QED
  BY <1>1, <1>2, <1>3, WorkerMoves, Zenon DEF WorkerPcs

\* The steps in which the worker leaves the store alone.
LEMMA QuietStepInv ==
    ASSUME PipelineInv, NEW w \in Workers,
           \/ RunOk(w) \/ RunFails(w) \/ WriteZoekt(w) \/ MarkBuilding(w) \/ MarkGraph(w)
           \/ Merge(w) \/ Promote(w) \/ Abandon(w)
    PROVE  PipelineInv' /\ [StoreNext]_storeVars
<1>1. UNCHANGED <<planner, queue, dead, disp, storeVars>>
  BY Zenon DEF RunOk, RunFails, WriteZoekt, MarkBuilding, MarkGraph, Merge, Promote, Abandon, WorkerOnly
<1>2. Claimed(w)
  BY Zenon DEF RunOk, RunFails, WriteZoekt, MarkBuilding, MarkGraph, Merge, Promote, Abandon, Claimed, At
<1>3. \E pc \in WorkerPcs \ {"claim", "complete", "parent"} :
         /\ ToPc(w, pc)
         /\ pc # "idle" => LayerFits(pc, Layer[S(w)])
         /\ pc \in EarlyPcs => worker[w].pc \in EarlyPcs
  <2>0. CASE Abandon(w)
    <3>1. ToPc(w, "idle")
      BY <2>0, Zenon DEF Abandon
    <3>2. "idle" \in WorkerPcs \ {"claim", "complete", "parent"} /\ "idle" \notin EarlyPcs
      BY Zenon DEF WorkerPcs, EarlyPcs
    <3> QED
      BY <3>1, <3>2, Zenon
  <2> USE DEF PipelineInv, WorkersFit, WorkerFits, LayerFits, ExecutorPcs, MergePcs, EarlyPcs,
          WorkerPcs, At
  <2>1. CASE RunOk(w) \/ RunFails(w)
    BY <2>1, Zenon DEF RunOk, RunFails
  <2>2. CASE WriteZoekt(w) \/ MarkBuilding(w) \/ MarkGraph(w)
    BY <2>2 DEF WriteZoekt, MarkBuilding, MarkGraph
  <2>3. CASE Merge(w) \/ Promote(w)
    BY <2>3, Zenon DEF Merge, Promote
  <2> QED
    BY <2>0, <2>1, <2>2, <2>3, Zenon
<1>4. PICK pc \in WorkerPcs \ {"claim", "complete", "parent"} :
         /\ ToPc(w, pc)
         /\ pc # "idle" => LayerFits(pc, Layer[S(w)])
         /\ pc \in EarlyPcs => worker[w].pc \in EarlyPcs
  BY <1>3, Zenon
<1>5. pc \in EarlyPcs /\ status'[S(w)] \in InFlight /\ attemptId'[S(w)] = N(w)
         => status'[S(w)] \in {"CLAIMED", "RUNNING"}
  BY <1>1, <1>4, Zenon DEF storeVars, rows, PipelineInv, WorkersFit, WorkerFits
<1> QED
  BY <1>1, <1>2, <1>4, <1>5, ClaimedMoves, Zenon

\* The heartbeats before the run and before the post phase.
LEMMA BeatInv ==
    ASSUME PipelineInv, NEW w \in Workers, FirstBeat(w) \/ PostBeat(w)
    PROVE  PipelineInv' /\ [StoreNext]_storeVars
<1>0. /\ UNCHANGED <<planner, queue, dead, disp>> /\ Claimed(w)
      /\ worker[w].pc \in {"beat", "postbeat"}
  BY Zenon DEF FirstBeat, PostBeat, WorkerOnly, At, Claimed
<1>1. S(w) \in Subjobs
  BY <1>0, ClaimedTask, Zenon
<1>2. CASE Holds(S(w), H(w), N(w))
  <2>0. Heartbeat(S(w), H(w), N(w))
    BY <1>2, Zenon DEF FirstBeat, PostBeat
  <2>1. \E pc \in {"run", "merge", "activate", "publish"} :
           ToPc(w, pc) /\ LayerFits(pc, Layer[S(w)])
    <3>1. CASE PostBeat(w)
      BY <1>2, <3>1, Zenon DEF PostBeat, LayerFits, ExecutorPcs, MergePcs, PipelineInv,
         WorkersFit, WorkerFits, At
    <3>2. CASE FirstBeat(w)
      <4>1. ToPc(w, CASE Layer[S(w)] \in ExecutorLayers -> "run"
                      [] Layer[S(w)] = "GRAPH_MERGE" -> "merge"
                      [] OTHER -> "activate")
        BY <1>2, <3>2, Zenon DEF FirstBeat
      <4>2. CASE Layer[S(w)] \in ExecutorLayers
        <5>1. ToPc(w, "run") /\ LayerFits("run", Layer[S(w)])
          BY <4>1, <4>2, Zenon DEF LayerFits, ExecutorLayers, MergePcs
        <5> QED
          BY <5>1, Zenon
      <4>3. CASE Layer[S(w)] = "GRAPH_MERGE"
        <5>1. ToPc(w, "merge") /\ LayerFits("merge", Layer[S(w)])
          BY <4>1, <4>3, Zenon DEF LayerFits, ExecutorLayers, ExecutorPcs
        <5> QED
          BY <5>1, Zenon
      <4>4. CASE Layer[S(w)] = "ACTIVATE"
        <5>1. ToPc(w, "activate") /\ LayerFits("activate", Layer[S(w)])
          BY <4>1, <4>4, Zenon DEF LayerFits, ExecutorLayers, ExecutorPcs, MergePcs
        <5> QED
          BY <5>1, Zenon
      <4> QED
        BY <1>1, <4>2, <4>3, <4>4, PipelineConstants, Zenon
    <3> QED
      BY <3>1, <3>2, Zenon
  <2>2. PICK pc \in {"run", "merge", "activate", "publish"} :
           ToPc(w, pc) /\ LayerFits(pc, Layer[S(w)])
    BY <2>1, Zenon
  <2>3. status'[S(w)] \in {"CLAIMED", "RUNNING"}
    <3>1. Holds(S(w), H(w), N(w)) /\ status[S(w)] \in {"CLAIMED", "RUNNING"}
      BY <1>0, <1>1, <1>2, Zenon DEF Holds, PipelineInv, WorkersFit, WorkerFits, EarlyPcs
    <3> QED
      BY <1>1, <2>0, <3>1, Zenon DEF Heartbeat, PipelineInv, IndInv, TypeOK
  <2>4. pc \in WorkerPcs \ {"claim"}
    BY Zenon DEF WorkerPcs, ExecutorPcs, MergePcs
  <2> QED
    BY <1>0, <1>1, <2>0, <2>2, <2>3, <2>4, ClaimedMoves, Zenon DEF HolderAction
<1>3. CASE ~Holds(S(w), H(w), N(w))
  <2>1. UNCHANGED storeVars /\ \E pc \in {"fail", "idle"} : ToPc(w, pc)
    BY <1>3, Zenon DEF FirstBeat, PostBeat
  <2>2. PICK pc \in {"fail", "idle"} : ToPc(w, pc)
    BY <2>1, Zenon
  <2>3. pc \in WorkerPcs \ {"claim"} /\ LayerFits(pc, Layer[S(w)]) /\ pc \notin EarlyPcs
    BY Zenon DEF WorkerPcs, LayerFits, ExecutorPcs, MergePcs, EarlyPcs
  <2> QED
    BY <1>0, <1>1, <2>1, <2>2, <2>3, ClaimedMoves, Zenon
<1> QED
  BY <1>2, <1>3, Zenon

\* A ticker's heartbeat renews the worker's own lease or finds it lost.
LEMMA TickerBeatInv ==
    ASSUME PipelineInv, NEW w \in Workers, TickerBeat(w)
    PROVE  PipelineInv' /\ [StoreNext]_storeVars
<1>0. /\ UNCHANGED <<planner, queue, dead, disp>> /\ Claimed(w)
      /\ worker[w].pc \in WorkerPcs \ {"claim", "idle"}
  BY Zenon DEF TickerBeat, WorkerOnly, Claimed, Working, WorkerPcs, ExecutorPcs, MergePcs
<1>1. S(w) \in Subjobs
  BY <1>0, ClaimedTask, Zenon
<1>2. CASE Holds(S(w), H(w), N(w))
  <2>1. Heartbeat(S(w), H(w), N(w)) /\ UNCHANGED worker
    BY <1>2, Zenon DEF TickerBeat
  <2>2. ToPc(w, worker[w].pc)
    <3>1. worker[w] \in [pc : WorkerPcs, task : Tasks \cup {<<>>}]
      BY Zenon DEF PipelineInv, ProcessTypes
    <3> QED
      BY <1>0, <2>1, <3>1, Zenon DEF ToPc, PipelineInv, ProcessTypes
  <2>3. /\ LayerFits(worker[w].pc, Layer[S(w)])
        /\ worker[w].pc \in EarlyPcs => status'[S(w)] \in {"CLAIMED", "RUNNING"}
        /\ worker[w].pc \notin {"complete", "parent"}
    <3>1. worker[w].pc \notin {"complete", "parent"}
      BY Zenon DEF TickerBeat, Working
    <3>2. LayerFits(worker[w].pc, Layer[S(w)])
      BY Zenon DEF PipelineInv, WorkersFit, WorkerFits
    <3>3. ASSUME worker[w].pc \in EarlyPcs PROVE status'[S(w)] \in {"CLAIMED", "RUNNING"}
      <4>1. status[S(w)] \in {"CLAIMED", "RUNNING"}
        BY <1>2, <3>3, Zenon DEF Holds, PipelineInv, WorkersFit, WorkerFits
      <4> QED
        BY <1>1, <2>1, <4>1, Zenon DEF Heartbeat, PipelineInv, IndInv, TypeOK
    <3> QED
      BY <3>1, <3>2, <3>3, Zenon
  <2> QED
    BY <1>0, <1>1, <2>1, <2>2, <2>3, ClaimedMoves, Zenon DEF HolderAction
<1>3. CASE ~Holds(S(w), H(w), N(w))
  <2>1. UNCHANGED storeVars /\ \E pc \in {"fail", "idle"} : ToPc(w, pc)
    BY <1>3, Zenon DEF TickerBeat
  <2>2. PICK pc \in {"fail", "idle"} : ToPc(w, pc)
    BY <2>1, Zenon
  <2>3. pc \in WorkerPcs \ {"claim"} /\ LayerFits(pc, Layer[S(w)]) /\ pc \notin EarlyPcs
    BY Zenon DEF WorkerPcs, LayerFits, ExecutorPcs, MergePcs, EarlyPcs
  <2> QED
    BY <1>0, <1>1, <2>1, <2>2, <2>3, ClaimedMoves, Zenon
<1> QED
  BY <1>2, <1>3, Zenon

\* Publishing, the lease check before the write and the write of SCIP rows.
LEMMA ArtifactStepInv ==
    ASSUME PipelineInv, NEW w \in Workers, Publish(w) \/ Ingest(w) \/ WriteScip(w)
    PROVE  PipelineInv' /\ [StoreNext]_storeVars
<1>1. UNCHANGED <<planner, queue, dead, disp>> /\ Claimed(w)
  <2>1. /\ UNCHANGED <<planner, queue, dead, disp>>
        /\ worker[w].pc \in {"publish", "ingest", "write"}
    BY Zenon DEF Publish, Ingest, WriteScip, WorkerOnly, At
  <2> QED
    BY <2>1, Zenon DEF Claimed
<1>2. UNCHANGED storeVars \/ HolderAction(S(w), H(w), N(w))
  BY Zenon DEF Publish, Ingest, WriteScip, HolderAction
<1>3. \E pc \in {"ingest", "write", "done", "fail", "failSemantic", "idle"} :
         ToPc(w, pc) /\ LayerFits(pc, Layer[S(w)])
  <2> USE DEF LayerFits, ExecutorPcs, MergePcs
  <2>1. Layer[S(w)] \in ExecutorLayers
    BY Zenon DEF PipelineInv, WorkersFit, WorkerFits, Publish, Ingest, WriteScip, At
  <2>2. \E pc \in {"ingest", "write", "done", "fail", "failSemantic", "idle"} : ToPc(w, pc)
    BY Zenon DEF Publish, Ingest, WriteScip
  <2> QED
    BY <2>1, <2>2, Zenon
<1>4. PICK pc \in {"ingest", "write", "done", "fail", "failSemantic", "idle"} :
         ToPc(w, pc) /\ LayerFits(pc, Layer[S(w)])
  BY <1>3, Zenon
<1>5. pc \in WorkerPcs \ {"claim"} /\ pc \notin EarlyPcs
  BY Zenon DEF WorkerPcs, ExecutorPcs, MergePcs, EarlyPcs
<1> QED
  BY <1>1, <1>2, <1>4, <1>5, ClaimedMoves, Zenon

\* The activation of a revision, and completeJobIfReady after it.
LEMMA ActivationStepInv ==
    ASSUME PipelineInv, NEW w \in Workers, ActivateRevision(w) \/ Complete(w)
    PROVE  PipelineInv' /\ [StoreNext]_storeVars
<1>0. UNCHANGED <<planner, queue, dead, disp>> /\ Claimed(w)
  BY Zenon DEF ActivateRevision, Complete, WorkerOnly, At, Claimed
<1>1. S(w) \in Subjobs
  BY <1>0, ClaimedTask, Zenon
<1>2. UNCHANGED storeVars \/ UnheldAction
  BY <1>1, Zenon DEF ActivateRevision, Complete, UnheldAction
<1>3. \E pc \in {"done", "fail", "idle"} : ToPc(w, pc)
  BY Zenon DEF ActivateRevision, Complete
<1>4. PICK pc \in {"done", "fail", "idle"} : ToPc(w, pc)
  BY <1>3, Zenon
<1>5. pc \in WorkerPcs \ {"claim"} /\ pc \notin EarlyPcs /\ LayerFits(pc, Layer[S(w)])
  BY Zenon DEF WorkerPcs, ExecutorPcs, MergePcs, EarlyPcs, LayerFits
<1> QED
  BY <1>0, <1>1, <1>2, <1>4, <1>5, ClaimedMoves, Zenon

\* MarkSucceeded: only an ACTIVATE row has more to do.
LEMMA FinishInv ==
    ASSUME PipelineInv, NEW w \in Workers, Finish(w)
    PROVE  PipelineInv' /\ [StoreNext]_storeVars
<1>0. UNCHANGED <<planner, queue, dead, disp>> /\ Claimed(w)
  BY Zenon DEF Finish, WorkerOnly, At, Claimed
<1>1. S(w) \in Subjobs
  BY <1>0, ClaimedTask, Zenon
<1>2. CASE HoldsLive(S(w), H(w), N(w))
  <2>1. MarkSucceeded(S(w), H(w), N(w))
    BY <1>2, Zenon DEF Finish
  <2>2. status'[S(w)] = "SUCCEEDED"
    BY <1>1, <2>1, Zenon DEF MarkSucceeded, PipelineInv, IndInv, TypeOK
  <2>3. CASE Layer[S(w)] = "ACTIVATE"
    <3>1. ToPc(w, "complete") /\ "complete" \in WorkerPcs \ {"claim"}
      BY <1>2, <2>3, Zenon DEF Finish, WorkerPcs
    <3>2. LayerFits("complete", Layer[S(w)])
      BY <2>3, Zenon DEF LayerFits, ExecutorPcs, MergePcs
    <3> QED
      BY <1>0, <1>1, <2>1, <2>2, <3>1, <3>2, ClaimedMoves, Zenon DEF HolderAction, EarlyPcs
  <2>4. CASE Layer[S(w)] # "ACTIVATE"
    <3>1. ToPc(w, "idle") /\ "idle" \in WorkerPcs \ {"claim"}
      BY <1>2, <2>4, Zenon DEF Finish, WorkerPcs
    <3> QED
      BY <1>0, <1>1, <2>1, <3>1, ClaimedMoves, Zenon DEF HolderAction, EarlyPcs
  <2> QED
    BY <2>3, <2>4, Zenon
<1>3. CASE ~HoldsLive(S(w), H(w), N(w))
  <2>1. UNCHANGED storeVars /\ ToPc(w, "idle") /\ "idle" \in WorkerPcs \ {"claim"}
    BY <1>3, Zenon DEF Finish, WorkerPcs
  <2> QED
    BY <1>0, <1>1, <2>1, ClaimedMoves, Zenon DEF EarlyPcs
<1> QED
  BY <1>2, <1>3, Zenon

\* MarkFailed and its variants: only a FAILED row has more to do.
LEMMA FailInv ==
    ASSUME PipelineInv, NEW w \in Workers, Fail(w)
    PROVE  PipelineInv' /\ [StoreNext]_storeVars
<1>1. UNCHANGED <<planner, queue, dead, disp>> /\ Claimed(w)
  BY Zenon DEF Fail, WorkerOnly, Claimed
<1>2. CASE HoldsLive(S(w), H(w), N(w))
  <2>1. HolderAction(S(w), H(w), N(w))
    <3>1. CASE At(w, "fail")
      BY <1>2, <3>1, Zenon DEF Fail, HolderAction, At
    <3>2. CASE At(w, "failSemantic")
      BY <1>2, <3>2, Zenon DEF Fail, HolderAction, At
    <3>3. CASE At(w, "failInfra")
      BY <1>2, <3>3, Zenon DEF Fail, HolderAction, At
    <3> QED
      BY <3>1, <3>2, <3>3, Zenon DEF Fail, At
  <2>2. CASE status'[S(w)] = "FAILED"
    <3>1. ToPc(w, "parent") /\ "parent" \in WorkerPcs \ {"claim"}
      BY <1>2, <2>2, Zenon DEF Fail, WorkerPcs
    <3>2. LayerFits("parent", Layer[S(w)])
      BY Zenon DEF LayerFits, ExecutorPcs, MergePcs
    <3> QED
      BY <1>1, <2>1, <2>2, <3>1, <3>2, ClaimedMoves, Zenon DEF EarlyPcs
  <2>3. CASE status'[S(w)] # "FAILED"
    <3>1. ToPc(w, "idle") /\ "idle" \in WorkerPcs \ {"claim"}
      BY <1>2, <2>3, Zenon DEF Fail, WorkerPcs
    <3> QED
      BY <1>1, <2>1, <3>1, ClaimedMoves, Zenon DEF EarlyPcs
  <2> QED
    BY <2>2, <2>3, Zenon
<1>3. CASE ~HoldsLive(S(w), H(w), N(w))
  <2>1. UNCHANGED storeVars /\ ToPc(w, "idle") /\ "idle" \in WorkerPcs \ {"claim"}
    BY <1>3, Zenon DEF Fail, WorkerPcs
  <2> QED
    BY <1>1, <2>1, ClaimedMoves, Zenon DEF EarlyPcs
<1> QED
  BY <1>2, <1>3, Zenon

\* The second statement of MarkFailed ends the job.
LEMMA FailParentInv ==
    ASSUME PipelineInv, NEW w \in Workers, FailParent(w)
    PROVE  PipelineInv' /\ [StoreNext]_storeVars
<1>1. UNCHANGED <<planner, queue, dead, disp>> /\ Claimed(w)
  BY Zenon DEF FailParent, WorkerOnly, Claimed, At
<1>2. S(w) \in Subjobs
  BY <1>1, ClaimedTask, Zenon
<1>3. UnheldAction
  BY <1>2, Zenon DEF FailParent, UnheldAction
<1>4. ToPc(w, "idle") /\ "idle" \in WorkerPcs \ {"claim"}
  BY Zenon DEF FailParent, WorkerPcs
<1> QED
  BY <1>1, <1>3, <1>4, ClaimedMoves, Zenon DEF EarlyPcs

\* A step in which no worker moves.
LEMMA WorkersStay ==
    ASSUME PipelineInv, UNCHANGED worker, UNCHANGED storeVars \/ UnheldAction,
           ProcessTypes',
           \A t \in queue' : <<t[1], t[2]>> \in offered',
           \A d \in Dispatchers : /\ disp'[d].batch \subseteq offered'
                                  /\ disp'[d].pc = "enqueue" => disp'[d].batch # {},
           PlannerFits'
    PROVE  PipelineInv' /\ [StoreNext]_storeVars
<1>1. /\ [StoreNext]_storeVars
      /\ \A v \in Workers : Claimed(v) => Kept(S(v), N(v))
  BY FreeStep, Zenon
<1>2. IndInv' /\ Monotone /\ offered \subseteq offered'
  BY <1>1, StoreGrows, Zenon DEF PipelineInv
<1>3. TasksOffered'
  BY <1>2, Zenon DEF PipelineInv, TasksOffered, S, N
<1>4. WorkersFit'
  <2> SUFFICES ASSUME NEW v \in Workers PROVE WorkerFits(v)'
    BY Zenon DEF WorkersFit
  <2> QED
    BY <1>1, <1>2, StillFits, Zenon DEF PipelineInv, WorkersFit
<1>5. ExclusiveAttempt'
  BY Zenon DEF PipelineInv, ExclusiveAttempt, S, N
<1> QED
  BY <1>1, <1>2, <1>3, <1>4, <1>5, Zenon DEF PipelineInv

\* A worker takes a task off the queue.
LEMMA DequeueInv ==
    ASSUME PipelineInv, NEW w \in Workers, Dequeue(w)
    PROVE  PipelineInv' /\ [StoreNext]_storeVars
<1>1. PICK t \in queue : /\ queue' = queue \ {t}
                         /\ worker' = [worker EXCEPT ![w] = [pc |-> "claim", task |-> t]]
  BY Zenon DEF Dequeue
<1>2. UNCHANGED <<storeVars, planner, dead, disp>>
  BY Zenon DEF Dequeue
<1>3. t \in Tasks /\ <<t[1], t[2]>> \in offered
  BY Zenon DEF PipelineInv, ProcessTypes, TasksOffered
<1>4. /\ worker' \in [Workers -> [pc : WorkerPcs, task : Tasks \cup {<<>>}]]
      /\ worker'[w] = [pc |-> "claim", task |-> t]
      /\ \A v \in Workers \ {w} : worker'[v] = worker[v]
  BY <1>1, <1>3, Zenon DEF PipelineInv, ProcessTypes, WorkerPcs
<1>5. [StoreNext]_storeVars /\ \A v \in Workers : Claimed(v) => Kept(S(v), N(v))
  BY <1>2, FreeStep, Zenon
<1>6. IndInv' /\ Monotone /\ UNCHANGED <<offered, status, manifest>>
  BY <1>2, <1>5, StoreGrows, Zenon DEF PipelineInv, storeVars, rows
<1>7. ProcessTypes'
  BY <1>1, <1>2, <1>4, Zenon DEF PipelineInv, ProcessTypes
<1>8. TasksOffered'
  <2>1. \A v \in Workers : worker'[v].pc # "idle" =>
           worker'[v].task \in Tasks /\ <<S(v), N(v)>>' \in offered
    <3> SUFFICES ASSUME NEW v \in Workers, worker'[v].pc # "idle"
                 PROVE  worker'[v].task \in Tasks /\ <<worker'[v].task[1], worker'[v].task[2]>> \in offered
      BY Zenon DEF S, N
    <3>1. CASE v = w
      BY <1>3, <1>4, <3>1
    <3>2. CASE v # w
      <4>1. worker'[v] = worker[v]
        BY <1>4, <3>2, Zenon
      <4>2. worker[v].pc # "idle" => worker[v].task \in Tasks /\ <<worker[v].task[1], worker[v].task[2]>> \in offered
        BY Zenon DEF PipelineInv, TasksOffered, S, N
      <4> QED
        BY <4>1, <4>2, Zenon
    <3> QED
      BY <3>1, <3>2, Zenon
  <2> QED
    BY <1>1, <1>2, <1>6, <2>1, Zenon DEF PipelineInv, TasksOffered
<1>9. WorkersFit'
  <2> SUFFICES ASSUME NEW v \in Workers PROVE WorkerFits(v)'
    BY ZenonT(60) DEF WorkersFit
  <2>1. CASE v = w
    BY <1>4, <2>1 DEF WorkerFits, LayerFits, ExecutorPcs, MergePcs, EarlyPcs
  <2>2. CASE v # w
    BY <1>4, <1>5, <1>6, <2>2, StillFits, Zenon DEF PipelineInv, WorkersFit
  <2> QED
    BY <2>1, <2>2, Zenon
<1>10. ExclusiveAttempt'
  <2>1. \A v \in Workers : Claimed(v)' => Claimed(v) /\ S(v)' = S(v) /\ N(v)' = N(v)
    BY <1>4 DEF Claimed, S, N
  <2> QED
    BY <2>1, StillExclusive, ZenonT(60) DEF PipelineInv
<1>11. PlannerFits'
  BY <1>2, <1>6, Zenon DEF PipelineInv, PlannerFits, ReadyIsPlanned, Present
<1> QED
  BY <1>5, <1>6, <1>7, <1>8, <1>9, <1>10, <1>11, Zenon DEF PipelineInv

\* All workers of a process die.
LEMMA CrashInv ==
    ASSUME PipelineInv, NEW h \in Owners, Crash(h)
    PROVE  PipelineInv' /\ [StoreNext]_storeVars
<1>1. /\ UNCHANGED <<storeVars, planner, queue, disp>>
      /\ worker' = [w \in Workers |-> IF H(w) = h THEN Idle ELSE worker[w]]
  BY Zenon DEF Crash
<1>2. dead' \subseteq Tasks
  <2>1. \A v \in Workers : At(v, "claim") => worker[v].task \in Tasks
    BY Zenon DEF PipelineInv, TasksOffered, At
  <2> QED
    BY <2>1 DEF Crash, PipelineInv, ProcessTypes
<1>3. [StoreNext]_storeVars /\ \A v \in Workers : Claimed(v) => Kept(S(v), N(v))
  BY <1>1, FreeStep, Zenon
<1>4. IndInv' /\ Monotone /\ UNCHANGED <<offered, status, manifest>>
  BY <1>1, <1>3, StoreGrows, Zenon DEF PipelineInv, storeVars, rows
<1>5. \A v \in Workers : worker'[v] = worker[v] \/ worker'[v] = Idle
  BY <1>1, Zenon
<1>6. ProcessTypes'
  <2>1. Idle \in [pc : WorkerPcs, task : Tasks \cup {<<>>}]
    BY Zenon DEF Idle, WorkerPcs
  <2> QED
    BY <1>1, <1>2, <2>1, Zenon DEF PipelineInv, ProcessTypes
<1>7. TasksOffered'
  <2>1. \A v \in Workers : worker'[v].pc # "idle" =>
           worker'[v].task \in Tasks /\ <<S(v), N(v)>>' \in offered
    <3> SUFFICES ASSUME NEW v \in Workers, worker'[v].pc # "idle"
                 PROVE  worker'[v].task \in Tasks /\ <<worker'[v].task[1], worker'[v].task[2]>> \in offered
      BY Zenon DEF S, N
    <3>1. worker'[v] = worker[v]
      BY <1>5 DEF Idle
    <3>2. worker[v].pc # "idle" => worker[v].task \in Tasks /\ <<worker[v].task[1], worker[v].task[2]>> \in offered
      BY Zenon DEF PipelineInv, TasksOffered, S, N
    <3> QED
      BY <3>1, <3>2, Zenon
  <2> QED
    BY <1>1, <1>4, <2>1, Zenon DEF PipelineInv, TasksOffered
<1>8. WorkersFit'
  <2> SUFFICES ASSUME NEW v \in Workers PROVE WorkerFits(v)'
    BY Zenon DEF WorkersFit
  <2>1. CASE worker'[v] = Idle
    BY <2>1 DEF WorkerFits, LayerFits, ExecutorPcs, MergePcs, EarlyPcs, Idle
  <2>2. CASE worker'[v] = worker[v]
    BY <1>3, <1>4, <2>2, StillFits, Zenon DEF PipelineInv, WorkersFit
  <2> QED
    BY <1>5, <2>1, <2>2, Zenon
<1>9. ExclusiveAttempt'
  <2>1. \A v \in Workers : Claimed(v)' => Claimed(v) /\ S(v)' = S(v) /\ N(v)' = N(v)
    BY <1>5 DEF Claimed, S, N, Idle
  <2> QED
    BY <2>1, StillExclusive, Zenon DEF PipelineInv
<1>10. PlannerFits'
  BY <1>1, <1>4, Zenon DEF PipelineInv, PlannerFits, ReadyIsPlanned, Present
<1> QED
  BY <1>3, <1>4, <1>6, <1>7, <1>8, <1>9, <1>10, Zenon DEF PipelineInv
=============================================================================
