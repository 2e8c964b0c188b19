---------------------------- MODULE AnsweringProofs ----------------------------
(***************************************************************************)
(* Proofs about the language-model gateway and the chat over it, for any   *)
(* number of clients, payloads, workers, claims, retries, calls and        *)
(* faults; and about the traversal of a graph inspection, for any graphs   *)
(* and requests.                                                           *)
(***************************************************************************)
EXTENDS LLMGateway, ChatTurns, GraphInspect, TLAPS

(***************************************************************************)
(* The gateway.  What its proofs rest on, in three parts: the shape of the *)
(* state and who holds which task (TaskInv), who will answer an            *)
(* IN_PROGRESS row (OwnerInv), and how often a row must have been claimed  *)
(* for a task to have been retried when nothing fails (RetryInv).          *)
(***************************************************************************)
TaskStates == {"none", "pending", "active", "archived"}
Task == [state : TaskStates, retried : 0 .. MaxRetry]
Bodies == Payloads \cup {"none"}
Row == [status : {"ABSENT", "IN_PROGRESS", "SUCCEEDED", "FAILED"}, payload : Bodies,
        answer : [partial : BOOLEAN, payload : Bodies], tried : BOOLEAN]
Slot == [at : {"idle", "calling", "answered", "failed"}, gen : 0 .. MaxClaims, payload : Bodies,
         retried : 0 .. MaxRetry, lost : BOOLEAN]
Caller == [at : {"start", "existing", "claimed", "polling", "rescuing", "done"},
           gen : 0 .. MaxClaims, told : Bodies \cup {"FAILED", "nothing"}]

GatewayTypes ==
    /\ llmRow \in Row
    /\ llmAge \in {"fresh", "orphan", "stale"}
    /\ llmGen \in 0 .. MaxClaims
    /\ llmTask \in [Gens -> Task]
    /\ llmWorker \in [LlmWorkers -> Slot]
    /\ llmClient \in [Clients -> Caller]
    /\ llmFaults \in 0 .. MaxLlmFaults

Busy(w) == llmWorker[w].at # "idle"
Holds(w) == Busy(w) /\ ~llmWorker[w].lost
Ended == llmRow.status \in {"SUCCEEDED", "FAILED"}

\* A busy worker runs a task of some claim, and the task of a worker that has not
\* lost it is active, for that worker alone.
TaskInv ==
    /\ GatewayTypes
    /\ \A w \in LlmWorkers :
          /\ ~Busy(w) => llmWorker[w] = Idle
          /\ Busy(w) => llmWorker[w].gen \in 1 .. llmGen /\ llmWorker[w].payload \in Payloads
          /\ Holds(w) => /\ llmTask[llmWorker[w].gen].state = "active"
                         /\ llmTask[llmWorker[w].gen].retried = llmWorker[w].retried
    /\ \A v, w \in LlmWorkers :
          v # w /\ Holds(v) /\ Holds(w) => llmWorker[v].gen # llmWorker[w].gen
    /\ \A c \in Clients : llmClient[c].at \in {"claimed", "rescuing"} => llmClient[c].gen \in 1 .. llmGen
    /\ \A g \in Gens : /\ g > llmGen => llmTask[g].state = "none"
                       /\ llmTask[g].state = "none" => llmTask[g].retried = 0
    /\ llmGen = 0 <=> llmRow.status = "ABSENT"
    /\ llmGen = 0 => ~llmRow.tried
    /\ llmGen # 0 => llmRow.payload \in Payloads
    /\ llmRow.status = "SUCCEEDED" => llmRow.answer.payload \in Payloads /\ ~llmRow.answer.partial

\* As long as nothing failed, no worker lost its task and an IN_PROGRESS row has a
\* live task or a caller about to enqueue one.  A first claim whose task nobody
\* has seen was never tried.
OwnerInv ==
    /\ llmFaults = 0 =>
          /\ \A w \in LlmWorkers : ~llmWorker[w].lost
          /\ llmRow.status = "IN_PROGRESS" =>
                /\ llmTask[llmGen].state # "archived"
                /\ \/ llmTask[llmGen].state # "none"
                   \/ \E c \in Clients : llmClient[c].at = "claimed" /\ llmClient[c].gen = llmGen
    /\ llmGen = 1 /\ llmRow.status = "IN_PROGRESS" /\ llmTask[1].state = "none" =>
          /\ \A w \in LlmWorkers : ~Busy(w)
          /\ ~llmRow.tried /\ llmRow.answer = NoAnswer

\* A task is retried, when nothing fails, only because it found the row ended, and
\* taken again only once the row is claimed again; the first claim has no rival.
RetryInv ==
    llmFaults = 0 =>
        /\ \A w \in LlmWorkers : Busy(w) =>
              /\ llmWorker[w].retried = 0 \/ llmGen >= llmWorker[w].retried + 2
              /\ llmWorker[w].at = "failed" =>
                    llmGen >= llmWorker[w].retried + 3 \/ (llmGen >= llmWorker[w].retried + 2 /\ Ended)
        /\ \A g \in Gens : llmTask[g].state = "pending" =>
              \/ llmTask[g].retried = 0
              \/ llmGen >= llmTask[g].retried + 2
              \/ llmGen >= llmTask[g].retried + 1 /\ Ended
        /\ llmGen = 1 /\ Ended => \A w \in LlmWorkers : ~Busy(w)

GatewayInv == TaskInv /\ OwnerInv /\ RetryInv

-----------------------------------------------------------------------------
\* What Queued does: a task that is not there becomes pending, as new.
LEMMA QueuedEffects ==
    ASSUME TaskInv, NEW g \in Gens, Queued(g)
    PROVE  /\ llmTask' \in [Gens -> Task]
           /\ \A h \in Gens : /\ llmTask'[h].retried = llmTask[h].retried
                              /\ llmTask'[h].state = IF h = g /\ llmTask[g].state = "none" THEN "pending"
                                                     ELSE llmTask[h].state
BY DEF TaskInv, GatewayTypes, Queued, Task, TaskStates

\* A returned task is pending once more, with one more retry, or archived.
LEMMA ReturnedEffects ==
    ASSUME NEW t \in Task
    PROVE  /\ Returned(t) \in Task
           /\ \/ Returned(t).state = "archived" /\ Returned(t).retried = t.retried /\ t.retried >= MaxRetry
              \/ Returned(t).state = "pending" /\ Returned(t).retried = t.retried + 1 /\ t.retried < MaxRetry
BY GatewayConstants DEF Returned, Task, TaskStates

\* A handler that returns leaves its slot idle and, unless it lost it, its task t.
LEMMA SettleEffects ==
    ASSUME TaskInv, NEW w \in LlmWorkers, Busy(w), NEW t \in Task, Settle(w, t)
    PROVE  /\ llmTask' \in [Gens -> Task]
           /\ llmWorker[w].gen \in Gens
           /\ \A h \in Gens : llmTask'[h] = IF ~llmWorker[w].lost /\ h = llmWorker[w].gen THEN t ELSE llmTask[h]
           /\ llmWorker' \in [LlmWorkers -> Slot]
           /\ llmWorker'[w] = Idle
           /\ \A v \in LlmWorkers \ {w} : llmWorker'[v] = llmWorker[v]
<1>1. Idle \in Slot
  BY GatewayConstants DEF Idle, Slot, Bodies
<1>2. llmWorker[w].gen \in Gens
  BY GatewayConstants DEF TaskInv, GatewayTypes, Gens
<1> QED
  BY <1>1, <1>2, Zenon DEF TaskInv, GatewayTypes, Settle

\* A client that goes on to another state, or is told how its request ended, is
\* the only one that moves.
Waiting(d) == llmClient[d].at \in {"claimed", "rescuing"}

LEMMA ClientEffects ==
    ASSUME GatewayTypes, NEW c \in Clients,
           \/ \E at \in {"existing", "polling"} : Goto(c, at)
           \/ \E told \in Bodies \cup {"FAILED"} : Tell(c, told)
    PROVE  /\ llmClient' \in [Clients -> Caller]
           /\ llmClient'[c].at \notin {"claimed", "rescuing"}
           /\ \A d \in Clients \ {c} : llmClient'[d] = llmClient[d]
<1>1. llmClient \in [Clients -> Caller]
  BY Zenon DEF GatewayTypes
<1>2. ASSUME NEW at \in {"existing", "polling"}, Goto(c, at)
      PROVE  llmClient' = [llmClient EXCEPT ![c] = [llmClient[c] EXCEPT !.at = at]]
  BY <1>1, <1>2, Zenon DEF Goto
<1>3. ASSUME NEW told \in Bodies \cup {"FAILED"}, Tell(c, told)
      PROVE  llmClient' = [llmClient EXCEPT ![c] = [llmClient[c] EXCEPT !.at = "done", !.told = told]]
  BY <1>1, <1>3, Zenon DEF Tell, Caller
<1>4. ASSUME NEW x \in Caller, llmClient' = [llmClient EXCEPT ![c] = x], x.at \notin {"claimed", "rescuing"}
      PROVE  /\ llmClient' \in [Clients -> Caller]
             /\ llmClient'[c].at \notin {"claimed", "rescuing"}
             /\ \A d \in Clients \ {c} : llmClient'[d] = llmClient[d]
  BY <1>1, <1>4, Zenon
<1>5. CASE \E at \in {"existing", "polling"} : Goto(c, at)
  <2>1. PICK at \in {"existing", "polling"} : Goto(c, at)
    BY <1>5, Zenon
  <2>2. [llmClient[c] EXCEPT !.at = at] \in Caller /\ [llmClient[c] EXCEPT !.at = at].at = at
    BY <1>1, Zenon DEF Caller
  <2> QED
    BY <1>2, <1>4, <2>1, <2>2, Zenon
<1>6. CASE \E told \in Bodies \cup {"FAILED"} : Tell(c, told)
  <2>1. PICK told \in Bodies \cup {"FAILED"} : Tell(c, told)
    BY <1>6, Zenon
  <2>2. /\ [llmClient[c] EXCEPT !.at = "done", !.told = told] \in Caller
        /\ [llmClient[c] EXCEPT !.at = "done", !.told = told].at = "done"
    BY <1>1, Zenon DEF Caller
  <2> QED
    BY <1>3, <1>4, <2>1, <2>2, Zenon
<1> QED
  BY <1>5, <1>6, Zenon

\* What the statements write into the row.
LEMMA RowWrites ==
    ASSUME GatewayTypes
    PROVE  /\ MarkFailed \in Row /\ MarkFailed.status = "FAILED" /\ MarkFailed.payload = llmRow.payload
           /\ MarkFailed.tried
           /\ MarkRetryableError \in Row /\ MarkRetryableError.status = llmRow.status
           /\ MarkRetryableError.payload = llmRow.payload /\ MarkRetryableError.answer = llmRow.answer
           /\ \A w \in LlmWorkers :
                 /\ MarkSucceeded(w) \in Row /\ MarkSucceeded(w).status = "SUCCEEDED"
                 /\ MarkSucceeded(w).payload = llmRow.payload
                 /\ MarkSucceeded(w).answer.payload = llmWorker[w].payload
                 /\ ~MarkSucceeded(w).answer.partial
<1>1. llmRow \in Row /\ llmWorker \in [LlmWorkers -> Slot]
  BY Zenon DEF GatewayTypes
<1>2. \A w \in LlmWorkers : llmWorker[w].payload \in Bodies
  BY <1>1, Zenon DEF Slot
<1> QED
  BY <1>1, <1>2, Zenon DEF Row, MarkFailed, MarkRetryableError, MarkSucceeded

\* Steps of the clients alone, and of the clock, change nothing the invariant
\* looks at but who waits to enqueue a task.
LEMMA ClientsMove ==
    ASSUME GatewayInv, llmClient' \in [Clients -> Caller], llmAge' \in {"fresh", "orphan", "stale"},
           UNCHANGED <<llmRow, llmGen, llmTask, llmWorker, llmFaults>>,
           \A d \in Clients : /\ llmClient[d].at = "claimed" => llmClient'[d] = llmClient[d]
                              /\ llmClient'[d].at \in {"claimed", "rescuing"} => llmClient'[d].gen \in 1 .. llmGen
    PROVE  GatewayInv'
<1>1. TaskInv'
  BY Zenon DEF GatewayInv, TaskInv, GatewayTypes, Busy, Holds
<1>2. OwnerInv'
  BY Zenon DEF GatewayInv, OwnerInv, Busy
<1>3. RetryInv'
  BY Zenon DEF GatewayInv, RetryInv, Busy, Ended
<1> QED
  BY <1>1, <1>2, <1>3, Zenon DEF GatewayInv

\* A claim: the row is IN_PROGRESS for a new generation, whose task does not
\* exist yet, and the client that claimed it is to enqueue it.
LEMMA ClaimMoves ==
    ASSUME GatewayInv, NEW c \in Clients, ClaimStarted(c)
    PROVE  GatewayInv'
<1>1. GatewayTypes /\ llmRow \in Row /\ llmClient \in [Clients -> Caller]
  BY Zenon DEF GatewayInv, TaskInv, GatewayTypes
<1>2. /\ llmRow' \in Row /\ llmRow'.status = "IN_PROGRESS" /\ llmRow'.payload \in Payloads
      /\ llmRow'.answer = NoAnswer /\ llmRow'.tried = llmRow.tried
  BY <1>1, Zenon DEF ClaimStarted, WriteRow, Row, NoAnswer, Bodies, Payloads
<1>3. llmGen \in 0 .. MaxClaims /\ llmGen' = llmGen + 1 /\ llmGen' \in 1 .. MaxClaims /\ llmGen' \in Gens
  BY GatewayConstants, <1>1 DEF GatewayTypes, ClaimStarted, Gens
<1>4. /\ llmClient' \in [Clients -> Caller]
      /\ llmClient'[c].at = "claimed" /\ llmClient'[c].gen = llmGen'
      /\ \A d \in Clients \ {c} : llmClient'[d] = llmClient[d]
  <2>1. llmClient' = [llmClient EXCEPT ![c] = [llmClient[c] EXCEPT !.at = "claimed", !.gen = llmGen + 1]]
    BY <1>1, Zenon DEF ClaimStarted, Caller
  <2>2. [llmClient[c] EXCEPT !.at = "claimed", !.gen = llmGen + 1] \in Caller
    <3>1. llmGen + 1 \in 0 .. MaxClaims
      BY GatewayConstants, <1>3
    <3> QED
      BY <1>1, <3>1, Zenon DEF Caller
  <2>3. llmClient[c] \in Caller
    BY <1>1, Zenon
  <2>4. /\ [llmClient[c] EXCEPT !.at = "claimed", !.gen = llmGen + 1].at = "claimed"
        /\ [llmClient[c] EXCEPT !.at = "claimed", !.gen = llmGen + 1].gen = llmGen + 1
    BY <2>3, Zenon DEF Caller
  <2> QED
    BY <1>1, <1>3, <2>1, <2>2, <2>4, Zenon
<1>5. UNCHANGED <<llmTask, llmWorker, llmFaults>> /\ llmAge' \in {"fresh", "orphan", "stale"}
  BY Zenon DEF ClaimStarted, WriteRow
<1>6. TaskInv'
  BY GatewayConstants, <1>1, <1>2, <1>3, <1>4, <1>5 DEF GatewayInv, TaskInv, GatewayTypes, Busy, Holds, Gens
<1>7. llmTask[llmGen'].state = "none" /\ (llmGen' = 1 => ~llmRow.tried /\ \A w \in LlmWorkers : ~Busy(w))
  BY <1>3 DEF GatewayInv, TaskInv
<1>8. OwnerInv'
  BY <1>2, <1>3, <1>4, <1>5, <1>7, Zenon DEF GatewayInv, OwnerInv, Busy
<1>9. RetryInv'
  <2>1. llmTask \in [Gens -> Task] /\ llmWorker \in [LlmWorkers -> Slot]
    BY <1>1, Zenon DEF GatewayTypes
  <2>2. /\ \A g \in Gens : llmTask[g].retried \in Nat
        /\ \A w \in LlmWorkers : llmWorker[w].retried \in Nat
    BY GatewayConstants, <2>1 DEF Task, Slot
  <2> QED
    BY <1>2, <1>3, <1>5, <2>2 DEF GatewayInv, RetryInv, Busy, Ended
<1> QED
  BY <1>6, <1>8, <1>9, Zenon DEF GatewayInv

\* The task of a waiting client is enqueued, or, after a fault, is not; the client
\* goes on.
LEMMA EnqueueMoves ==
    ASSUME GatewayInv, NEW c \in Clients, Waiting(c),
           Queued(llmClient[c].gen) \/ (UNCHANGED llmTask /\ llmFaults' > 0),
           llmFaults' \in 0 .. MaxLlmFaults, llmFaults' >= llmFaults,
           UNCHANGED <<llmRow, llmAge, llmGen, llmWorker>>,
           llmClient' \in [Clients -> Caller], llmClient'[c].at \notin {"claimed", "rescuing"},
           \A d \in Clients \ {c} : llmClient'[d] = llmClient[d]
    PROVE  GatewayInv'
<1>1. TaskInv /\ GatewayTypes
  BY Zenon DEF GatewayInv, TaskInv
<1>2. llmClient[c].gen \in Gens /\ llmClient[c].gen <= llmGen
  BY GatewayConstants, <1>1 DEF TaskInv, GatewayTypes, Waiting, Gens
<1>3. /\ llmTask' \in [Gens -> Task]
      /\ \A h \in Gens : /\ llmTask'[h].retried = llmTask[h].retried
                         /\ llmTask'[h].state # llmTask[h].state =>
                              /\ h = llmClient[c].gen /\ llmTask[h].state = "none"
                              /\ llmTask'[h].state = "pending"
  <2>1. CASE Queued(llmClient[c].gen)
    BY <1>1, <1>2, <2>1, QueuedEffects, Zenon
  <2>2. CASE UNCHANGED llmTask
    BY <1>1, <2>2, Zenon DEF GatewayTypes
  <2> QED
    BY <2>1, <2>2, Zenon
<1>4. llmFaults' = 0 =>
         /\ llmFaults = 0
         /\ llmTask'[llmClient[c].gen].state # "none"
  <2>1. ASSUME llmFaults' = 0 PROVE llmFaults = 0 /\ Queued(llmClient[c].gen)
    BY GatewayConstants, <1>1, <2>1 DEF GatewayTypes
  <2>2. ASSUME Queued(llmClient[c].gen) PROVE llmTask'[llmClient[c].gen].state # "none"
    BY <1>1, <1>2, <2>2, QueuedEffects, Zenon
  <2> QED
    BY <2>1, <2>2, Zenon
<1>5. TaskInv'
  <2>1. GatewayTypes'
    BY <1>1, <1>3, Zenon DEF GatewayTypes
  <2>2. \A w \in LlmWorkers : Holds(w) =>
           /\ llmTask'[llmWorker[w].gen].state = "active"
           /\ llmTask'[llmWorker[w].gen].retried = llmWorker[w].retried
    <3>1. ASSUME NEW w \in LlmWorkers, Holds(w) PROVE llmWorker[w].gen \in Gens
      BY GatewayConstants, <1>1, <3>1 DEF TaskInv, GatewayTypes, Holds, Gens
    <3> QED
      BY <1>1, <1>3, <3>1 DEF TaskInv
  <2>3. \A g \in Gens : /\ g > llmGen => llmTask'[g].state = "none"
                        /\ llmTask'[g].state = "none" => llmTask'[g].retried = 0
    <3>1. ASSUME NEW g \in Gens, g > llmGen PROVE g # llmClient[c].gen
      BY GatewayConstants, <1>1, <1>2, <3>1 DEF GatewayTypes, Gens
    <3> QED
      BY <1>1, <1>3, <3>1 DEF TaskInv
  <2> QED
    BY <1>1, <2>1, <2>2, <2>3 DEF TaskInv, Busy, Holds
<1>6. llmRow.status = "IN_PROGRESS" => llmGen \in Gens
  BY GatewayConstants, <1>1 DEF TaskInv, GatewayTypes, Gens
<1>7. OwnerInv'
  BY <1>2, <1>3, <1>4, <1>6, ZenonT(60) DEF GatewayInv, OwnerInv, Busy
<1>8. RetryInv'
  BY <1>1, <1>3, <1>4 DEF GatewayInv, TaskInv, RetryInv, Busy, Ended
<1> QED
  BY <1>5, <1>7, <1>8, Zenon DEF GatewayInv

\* A failing enqueue turns the row FAILED.
LEMMA EnqueueFailureMoves ==
    ASSUME GatewayInv, NEW c \in Clients, Waiting(c), llmRow' = MarkFailed, llmAge' = "fresh",
           llmFaults' \in 0 .. MaxLlmFaults, llmFaults' > 0,
           UNCHANGED <<llmGen, llmTask, llmWorker>>,
           llmClient' \in [Clients -> Caller], llmClient'[c].at \notin {"claimed", "rescuing"},
           \A d \in Clients \ {c} : llmClient'[d] = llmClient[d]
    PROVE  GatewayInv'
<1>1. TaskInv /\ GatewayTypes
  BY Zenon DEF GatewayInv, TaskInv
<1>2. llmRow' \in Row /\ llmRow'.status = "FAILED" /\ llmRow'.payload = llmRow.payload
  BY <1>1, RowWrites, Zenon
<1>3. llmGen # 0
  BY GatewayConstants, <1>1 DEF TaskInv, GatewayTypes, Waiting
<1>4. TaskInv'
  BY <1>1, <1>2, <1>3 DEF TaskInv, GatewayTypes, Busy, Holds
<1>5. OwnerInv' /\ RetryInv'
  BY <1>2 DEF OwnerInv, RetryInv
<1> QED
  BY <1>4, <1>5, Zenon DEF GatewayInv

\* A busy worker goes on with its call: it may flush what it has into a row that
\* is IN_PROGRESS, and fails on one that is not, or after a fault.
LEMMA WorkerGoesOn ==
    ASSUME GatewayInv, NEW w \in LlmWorkers, Busy(w), NEW at \in {"calling", "answered", "failed"},
           llmWorker' = [llmWorker EXCEPT ![w].at = at],
           llmRow' \in Row, llmRow'.status = llmRow.status, llmRow'.payload = llmRow.payload,
           llmRow'.tried = llmRow.tried, llmRow.status # "IN_PROGRESS" => llmRow' = llmRow,
           llmAge' \in {"fresh", "orphan", "stale"},
           llmFaults' \in 0 .. MaxLlmFaults, llmFaults' >= llmFaults,
           at = "failed" => llmRow.status # "IN_PROGRESS" \/ llmFaults' > 0,
           UNCHANGED <<llmGen, llmTask, llmClient>>
    PROVE  GatewayInv'
<1>1. TaskInv /\ GatewayTypes /\ llmWorker \in [LlmWorkers -> Slot]
  BY Zenon DEF GatewayInv, TaskInv, GatewayTypes
<1>2. /\ llmWorker' \in [LlmWorkers -> Slot] /\ llmWorker'[w].at = at
      /\ \A v \in LlmWorkers : /\ llmWorker'[v].gen = llmWorker[v].gen
                               /\ llmWorker'[v].payload = llmWorker[v].payload
                               /\ llmWorker'[v].retried = llmWorker[v].retried
                               /\ llmWorker'[v].lost = llmWorker[v].lost
      /\ \A v \in LlmWorkers \ {w} : llmWorker'[v] = llmWorker[v]
  BY <1>1, ZenonT(60) DEF Slot
<1>3. \A v \in LlmWorkers : (Busy(v)' <=> Busy(v)) /\ (Holds(v)' <=> Holds(v))
  BY <1>2, Zenon DEF Busy, Holds
<1>4. TaskInv'
  <2>1. GatewayTypes'
    BY <1>1, <1>2, Zenon DEF GatewayTypes
  <2>2. \A v \in LlmWorkers : ~Busy(v)' => llmWorker'[v] = Idle
    BY <1>1, <1>2, <1>3 DEF TaskInv
  <2> QED
    BY <1>1, <1>2, <1>3, <2>1, <2>2 DEF TaskInv
<1>5. llmGen \in 1 .. MaxClaims /\ llmRow.status # "ABSENT"
  BY GatewayConstants, <1>1 DEF TaskInv, GatewayTypes
<1>6. OwnerInv'
  <2>1. llmFaults' = 0 => llmFaults = 0
    BY GatewayConstants, <1>1 DEF GatewayTypes
  <2> QED
    BY <1>2, <1>3, <2>1, Zenon DEF GatewayInv, OwnerInv
<1>7. RetryInv'
  <2>1. llmFaults' = 0 => llmFaults = 0 /\ (at = "failed" => Ended)
    BY GatewayConstants, <1>1, <1>5 DEF GatewayTypes, Ended, Row
  <2>2. Ended' <=> Ended
    BY Zenon DEF Ended
  <2>3. ASSUME llmFaults = 0, Ended PROVE llmGen >= 2
    BY <1>5, <2>3 DEF GatewayInv, RetryInv
  <2>4. llmWorker[w].retried \in Nat
    BY GatewayConstants, <1>1 DEF Slot
  <2>5. ASSUME llmFaults' = 0
        PROVE  /\ llmWorker[w].retried = 0 \/ llmGen >= llmWorker[w].retried + 2
               /\ at = "failed" => llmGen >= llmWorker[w].retried + 2 /\ Ended
    BY <2>1, <2>3, <2>4, <2>5 DEF GatewayInv, RetryInv
  <2> QED
    BY <1>2, <1>3, <2>1, <2>2, <2>5, Zenon DEF GatewayInv, RetryInv
<1> QED
  BY <1>4, <1>6, <1>7, Zenon DEF GatewayInv

\* A free worker takes a task: one whose row has ended is dropped or archived.
LEMMA TakeMoves ==
    ASSUME GatewayInv, NEW w \in LlmWorkers, NEW g \in Gens, TakeCompletion(w, g)
    PROVE  GatewayInv'
<1>1. TaskInv /\ GatewayTypes /\ llmTask \in [Gens -> Task] /\ llmWorker \in [LlmWorkers -> Slot]
  BY Zenon DEF GatewayInv, TaskInv, GatewayTypes
<1>2. /\ g <= llmGen /\ llmGen \in 1 .. MaxClaims /\ llmRow.status # "ABSENT" /\ llmTask[g].state = "pending"
      /\ ~Busy(w)
  BY GatewayConstants, <1>1 DEF TakeCompletion, TaskInv, GatewayTypes, Gens, Busy, Idle
<1>3. \A v \in LlmWorkers : Holds(v) => llmWorker[v].gen \in Gens /\ llmWorker[v].gen # g
  BY GatewayConstants, <1>1, <1>2 DEF TaskInv, GatewayTypes, Holds, Gens
<1>4. CASE Ended
  <2>1. /\ llmTask' \in [Gens -> Task] /\ UNCHANGED <<llmWorker, llmRow, llmAge, llmGen, llmClient, llmFaults>>
        /\ llmTask'[g].state \in {"none", "archived"} /\ (llmTask'[g].state = "none" => llmTask'[g].retried = 0)
        /\ \A h \in Gens \ {g} : llmTask'[h] = llmTask[h]
    BY GatewayConstants, <1>1, <1>4, SMTT(30) DEF TakeCompletion, Ended, Forgotten, Task, TaskStates
  <2>2. TaskInv'
    <3>1. GatewayTypes'
      BY <1>1, <2>1, Zenon DEF GatewayTypes
    <3>2. \A h \in Gens : /\ h > llmGen => llmTask'[h].state = "none"
                          /\ llmTask'[h].state = "none" => llmTask'[h].retried = 0
      BY <1>1, <1>2, <2>1 DEF TaskInv, Gens
    <3> QED
      BY <1>1, <1>3, <2>1, <3>1, <3>2 DEF TaskInv, Busy, Holds
  <2>3. OwnerInv'
    BY <1>4, <2>1, Zenon DEF GatewayInv, OwnerInv, Ended
  <2>4. RetryInv'
    BY <2>1, Zenon DEF GatewayInv, RetryInv, Busy, Ended
  <2> QED
    BY <2>2, <2>3, <2>4, Zenon DEF GatewayInv
<1>5. CASE ~Ended
  <2>1. llmRow.status = "IN_PROGRESS"
    BY <1>1, <1>2, <1>5, Zenon DEF Ended, GatewayTypes, Row
  <2>2. UNCHANGED <<llmRow, llmAge, llmGen, llmClient, llmFaults>>
    BY Zenon DEF TakeCompletion
  <2>3. /\ llmTask' \in [Gens -> Task] /\ llmTask'[g].state = "active" /\ llmTask'[g].retried = llmTask[g].retried
        /\ \A h \in Gens \ {g} : llmTask'[h] = llmTask[h]
    BY <1>1, <2>1 DEF TakeCompletion, Task, TaskStates
  <2>4. llmRow.payload \in Payloads /\ llmTask[g].retried \in 0 .. MaxRetry /\ g \in 0 .. MaxClaims
    BY <1>1, <1>2 DEF TaskInv, Task, Gens
  <2>5. /\ llmWorker' \in [LlmWorkers -> Slot]
        /\ llmWorker'[w] = [at |-> "calling", gen |-> g, payload |-> llmRow.payload,
                            retried |-> llmTask[g].retried, lost |-> FALSE]
        /\ \A v \in LlmWorkers \ {w} : llmWorker'[v] = llmWorker[v]
    <3>1. [at |-> "calling", gen |-> g, payload |-> llmRow.payload,
           retried |-> llmTask[g].retried, lost |-> FALSE] \in Slot
      BY <2>4, Zenon DEF Slot, Bodies
    <3>2. llmWorker' = [llmWorker EXCEPT ![w] =
                          [at |-> "calling", gen |-> g, payload |-> llmRow.payload,
                           retried |-> llmTask[g].retried, lost |-> FALSE]]
      BY <2>1, Zenon DEF TakeCompletion
    <3> QED
      BY <1>1, <3>1, <3>2, Zenon
  <2>6. TaskInv'
    <3>1. GatewayTypes'
      BY <1>1, <2>2, <2>3, <2>5, Zenon DEF GatewayTypes
    <3>2. \A h \in Gens : /\ h > llmGen => llmTask'[h].state = "none"
                          /\ llmTask'[h].state = "none" => llmTask'[h].retried = 0
      BY <1>1, <1>2, <2>3 DEF TaskInv, Gens
    <3>3. \A v \in LlmWorkers \ {w} : (Busy(v)' <=> Busy(v)) /\ (Holds(v)' <=> Holds(v))
      BY <2>5, Zenon DEF Busy, Holds
    <3>4. Busy(w)' /\ Holds(w)' /\ llmWorker'[w].gen = g /\ llmWorker'[w].retried = llmTask'[g].retried
      BY <2>3, <2>5 DEF Busy, Holds
    <3>5. \A v \in LlmWorkers :
             /\ ~Busy(v)' => llmWorker'[v] = Idle
             /\ Busy(v)' => llmWorker'[v].gen \in 1 .. llmGen /\ llmWorker'[v].payload \in Payloads
             /\ Holds(v)' => /\ llmTask'[llmWorker'[v].gen].state = "active"
                             /\ llmTask'[llmWorker'[v].gen].retried = llmWorker'[v].retried
      <4> TAKE v \in LlmWorkers
      <4>1. CASE v = w
        BY <1>2, <2>3, <2>4, <2>5, <3>4, <4>1, SMTT(30) DEF Gens
      <4>2. CASE v # w
        BY <1>1, <1>3, <2>3, <2>5, <3>3, <4>2, SMTT(30) DEF TaskInv
      <4> QED
        BY <4>1, <4>2, Zenon
    <3>6. \A u, v \in LlmWorkers : u # v /\ Holds(u)' /\ Holds(v)' => llmWorker'[u].gen # llmWorker'[v].gen
      BY <1>1, <1>3, <2>5, <3>3, <3>4, SMTT(30) DEF TaskInv
    <3> QED
      BY <1>1, <2>2, <3>1, <3>2, <3>5, <3>6, Zenon DEF TaskInv
  <2>7. OwnerInv'
    BY <1>2, <2>2, <2>3, <2>5 DEF GatewayInv, OwnerInv, Busy, Gens
  <2>8. RetryInv'
    BY <1>2, <1>5, <2>2, <2>3, <2>5 DEF GatewayInv, RetryInv, Busy, Ended
  <2> QED
    BY <2>6, <2>7, <2>8, Zenon DEF GatewayInv
<1> QED
  BY <1>4, <1>5, Zenon

\* A handler returns and writes the row, or not.  Its task is done only when the
\* row has ended; it is pending again after a failure.
LEMMA HandlerReturns ==
    ASSUME GatewayInv, NEW w \in LlmWorkers, Busy(w), NEW t \in Task, Settle(w, t),
           t.state # "active", t.state = "none" => t.retried = 0,
           llmRow' \in Row, llmRow'.status # "ABSENT", llmRow'.payload = llmRow.payload,
           llmRow'.status = "SUCCEEDED" => llmRow'.answer.payload \in Payloads /\ ~llmRow'.answer.partial,
           llmAge' \in {"fresh", "orphan", "stale"},
           llmFaults' \in 0 .. MaxLlmFaults, llmFaults' >= llmFaults,
           UNCHANGED <<llmGen, llmClient>>,
           ~Ended' => llmRow.status = "IN_PROGRESS" /\ t.state # "none",
           llmFaults' = 0 /\ ~Ended' => t.state = "pending",
           llmFaults' = 0 /\ t.state = "pending" =>
              llmGen >= t.retried + 2 \/ (llmGen >= t.retried + 1 /\ Ended')
    PROVE  GatewayInv'
<1>1. TaskInv /\ GatewayTypes /\ llmTask \in [Gens -> Task] /\ llmWorker \in [LlmWorkers -> Slot]
  BY Zenon DEF GatewayInv, TaskInv, GatewayTypes
<1>2. /\ llmTask' \in [Gens -> Task]
      /\ llmWorker[w].gen \in Gens
      /\ \A h \in Gens : llmTask'[h] = IF ~llmWorker[w].lost /\ h = llmWorker[w].gen THEN t ELSE llmTask[h]
      /\ llmWorker' \in [LlmWorkers -> Slot]
      /\ llmWorker'[w] = Idle
      /\ \A v \in LlmWorkers \ {w} : llmWorker'[v] = llmWorker[v]
  BY <1>1, SettleEffects, Zenon
<1>3. ~Busy(w)' /\ ~Holds(w)' /\ \A v \in LlmWorkers \ {w} : (Busy(v)' <=> Busy(v)) /\ (Holds(v)' <=> Holds(v))
  BY <1>2 DEF Busy, Holds, Idle
<1>4. llmGen \in 1 .. MaxClaims /\ llmGen \in Gens /\ llmWorker[w].gen <= llmGen /\ llmRow.status # "ABSENT"
  BY GatewayConstants, <1>1 DEF TaskInv, GatewayTypes, Gens
<1>5. TaskInv'
  <2>1. GatewayTypes'
    BY <1>1, <1>2, Zenon DEF GatewayTypes
  <2>2. \A v \in LlmWorkers \ {w} : Holds(v) =>
           /\ llmTask'[llmWorker[v].gen].state = "active"
           /\ llmTask'[llmWorker[v].gen].retried = llmWorker[v].retried
    <3>1. ASSUME NEW v \in LlmWorkers \ {w}, Holds(v)
          PROVE  llmWorker[v].gen \in Gens /\ (~llmWorker[w].lost => llmWorker[v].gen # llmWorker[w].gen)
      BY GatewayConstants, <1>1, <3>1, SMTT(30) DEF TaskInv, GatewayTypes, Holds, Gens
    <3> QED
      BY <1>1, <1>2, <3>1, SMTT(30) DEF TaskInv
  <2>3. \A g \in Gens : /\ g > llmGen => llmTask'[g].state = "none"
                        /\ llmTask'[g].state = "none" => llmTask'[g].retried = 0
    <3>1. ASSUME NEW g \in Gens, g > llmGen PROVE g # llmWorker[w].gen
      BY <1>4, <3>1, SMTT(30) DEF Gens
    <3> QED
      BY <1>1, <1>2, <3>1 DEF TaskInv
  <2>4. \A v \in LlmWorkers :
           /\ ~Busy(v)' => llmWorker'[v] = Idle
           /\ Busy(v)' => llmWorker'[v].gen \in 1 .. llmGen /\ llmWorker'[v].payload \in Payloads
           /\ Holds(v)' => /\ llmTask'[llmWorker'[v].gen].state = "active"
                           /\ llmTask'[llmWorker'[v].gen].retried = llmWorker'[v].retried
    BY <1>1, <1>2, <1>3, <2>2, SMTT(30) DEF TaskInv
  <2>5. \A u, v \in LlmWorkers : u # v /\ Holds(u)' /\ Holds(v)' => llmWorker'[u].gen # llmWorker'[v].gen
    BY <1>1, <1>2, <1>3 DEF TaskInv
  <2> QED
    BY <1>1, <1>4, <2>1, <2>3, <2>4, <2>5, Zenon DEF TaskInv
<1>6. llmFaults' = 0 => llmFaults = 0
  BY GatewayConstants, <1>1 DEF GatewayTypes
<1>7. OwnerInv'
  <2>1. CASE Ended'
    BY <1>2, <1>6, <2>1 DEF GatewayInv, OwnerInv, Ended, Idle
  <2>2. CASE ~Ended'
    <3>1. ~(llmGen = 1 /\ llmTask'[1].state = "none")
      <4>1. llmGen = 1 => llmTask[1].state # "none" /\ llmWorker[w].gen = 1
        BY <1>1, <2>2 DEF GatewayInv, OwnerInv, TaskInv
      <4> QED
        BY <1>2, <1>4, <2>2, <4>1, ZenonT(60)
    <3>2. llmFaults' = 0 => /\ \A v \in LlmWorkers : ~llmWorker'[v].lost
                            /\ llmTask'[llmGen].state # "archived"
                            /\ \/ llmTask'[llmGen].state # "none"
                               \/ \E c \in Clients : llmClient[c].at = "claimed" /\ llmClient[c].gen = llmGen
      BY <1>2, <1>4, <1>6, <2>2 DEF GatewayInv, OwnerInv, Idle
    <3> QED
      BY <3>1, <3>2, Zenon DEF OwnerInv
  <2> QED
    BY <2>1, <2>2, Zenon
<1>8. RetryInv'
  <2> SUFFICES ASSUME llmFaults' = 0 PROVE RetryInv'
    BY Zenon DEF RetryInv
  <2>1. llmFaults = 0 /\ (Ended => Ended') /\ ~llmWorker[w].lost
    BY <1>4, <1>6, Zenon DEF GatewayInv, OwnerInv, Ended
  <2>2. \A v \in LlmWorkers : Busy(v)' =>
           /\ llmWorker'[v].retried = 0 \/ llmGen >= llmWorker'[v].retried + 2
           /\ llmWorker'[v].at = "failed" =>
                 llmGen >= llmWorker'[v].retried + 3 \/ (llmGen >= llmWorker'[v].retried + 2 /\ Ended')
    BY <1>2, <1>3, <2>1 DEF GatewayInv, RetryInv
  <2>3. \A g \in Gens : llmTask'[g].state = "pending" =>
           \/ llmTask'[g].retried = 0
           \/ llmGen >= llmTask'[g].retried + 2
           \/ llmGen >= llmTask'[g].retried + 1 /\ Ended'
    BY <1>2, <2>1, Zenon DEF GatewayInv, RetryInv
  <2>4. llmGen = 1 /\ Ended' => \A v \in LlmWorkers : ~Busy(v)'
    <3> SUFFICES ASSUME llmGen = 1, Ended', NEW v \in LlmWorkers, Busy(v)' PROVE FALSE
      OBVIOUS
    <3>1. ~Ended
      BY <2>1, Zenon DEF GatewayInv, RetryInv
    <3>2. v # w /\ Busy(v) /\ Holds(v) /\ Holds(w)
      BY <1>3, <2>1, ZenonT(60) DEF Holds, GatewayInv, OwnerInv
    <3>3. llmWorker[v].gen = 1 /\ llmWorker[w].gen = 1
      BY <1>1, <3>2 DEF TaskInv
    <3> QED
      BY <1>1, <3>2, <3>3, ZenonT(60) DEF TaskInv
  <2> QED
    BY <2>2, <2>3, <2>4, Zenon DEF RetryInv
<1> QED
  BY <1>5, <1>7, <1>8, Zenon DEF GatewayInv

\* A task goes back to asynq after a fault, and its worker has lost it or is gone.
LEMMA TaskGoesBack ==
    ASSUME GatewayInv, NEW g \in Gens, llmTask[g].state \in {"pending", "active"},
           llmTask' = [llmTask EXCEPT ![g] = Returned(@)],
           llmFaults' \in 0 .. MaxLlmFaults, llmFaults' > 0,
           llmWorker' \in [LlmWorkers -> Slot],
           \A w \in LlmWorkers :
              \/ llmWorker'[w] = llmWorker[w] /\ (Holds(w) => llmWorker[w].gen # g)
              \/ llmWorker'[w] = Idle
              \/ Busy(w) /\ llmWorker'[w] = [llmWorker[w] EXCEPT !.lost = TRUE],
           UNCHANGED <<llmRow, llmAge, llmGen, llmClient>>
    PROVE  GatewayInv'
<1>1. TaskInv /\ GatewayTypes /\ llmTask \in [Gens -> Task] /\ llmWorker \in [LlmWorkers -> Slot]
  BY Zenon DEF GatewayInv, TaskInv, GatewayTypes
<1>2. /\ llmTask' \in [Gens -> Task] /\ llmTask'[g].state # "none"
      /\ \A h \in Gens \ {g} : llmTask'[h] = llmTask[h]
  <2>1. llmTask[g] \in Task
    BY <1>1, Zenon
  <2>2. Returned(llmTask[g]) \in Task /\ Returned(llmTask[g]).state # "none"
    BY <2>1, ReturnedEffects, Zenon
  <2> QED
    BY <1>1, <2>2, Zenon
<1>3. \A w \in LlmWorkers :
         /\ Busy(w)' => /\ Busy(w) /\ llmWorker'[w].gen = llmWorker[w].gen
                        /\ llmWorker'[w].payload = llmWorker[w].payload
         /\ ~Busy(w)' => llmWorker'[w] = Idle
         /\ Holds(w)' => Holds(w) /\ llmWorker'[w] = llmWorker[w] /\ llmWorker[w].gen # g
  <2> TAKE w \in LlmWorkers
  <2>1. CASE llmWorker'[w] = llmWorker[w] /\ (Holds(w) => llmWorker[w].gen # g)
    BY <1>1, <2>1, Zenon DEF TaskInv, Busy, Holds
  <2>2. CASE llmWorker'[w] = Idle
    BY <2>2 DEF Idle, Busy, Holds
  <2>3. CASE Busy(w) /\ llmWorker'[w] = [llmWorker[w] EXCEPT !.lost = TRUE]
    BY <1>1, <2>3 DEF Slot, Busy, Holds
  <2> QED
    BY <2>1, <2>2, <2>3, Zenon
<1>4. g <= llmGen
  BY GatewayConstants, <1>1 DEF TaskInv, GatewayTypes, Gens
<1>5. TaskInv'
  <2>1. GatewayTypes'
    BY <1>1, <1>2, Zenon DEF GatewayTypes
  <2>2. \A h \in Gens : /\ h > llmGen => llmTask'[h].state = "none"
                        /\ llmTask'[h].state = "none" => llmTask'[h].retried = 0
    <3>1. ASSUME NEW h \in Gens, h > llmGen PROVE h # g
      BY GatewayConstants, <1>1, <1>4, <3>1 DEF GatewayTypes, Gens
    <3> QED
      BY <1>1, <1>2, <3>1, Zenon DEF TaskInv
  <2>3. \A w \in LlmWorkers : Holds(w)' =>
           /\ llmTask'[llmWorker'[w].gen].state = "active"
           /\ llmTask'[llmWorker'[w].gen].retried = llmWorker'[w].retried
    <3>1. ASSUME NEW w \in LlmWorkers, Holds(w) PROVE llmWorker[w].gen \in Gens
      BY GatewayConstants, <1>1, <3>1 DEF TaskInv, GatewayTypes, Holds, Gens
    <3> QED
      BY <1>1, <1>2, <1>3, <3>1 DEF TaskInv
  <2>4. \A u, v \in LlmWorkers : u # v /\ Holds(u)' /\ Holds(v)' => llmWorker'[u].gen # llmWorker'[v].gen
    BY <1>1, <1>3 DEF TaskInv
  <2> QED
    BY <1>1, <1>3, <2>1, <2>2, <2>3, <2>4, Zenon DEF TaskInv
<1>6. OwnerInv'
  <2>1. llmFaults' # 0
    BY GatewayConstants
  <2>2. ASSUME llmGen = 1, llmTask'[1].state = "none" PROVE llmTask[1].state = "none"
    BY GatewayConstants, <1>2, <2>2 DEF Gens
  <2> QED
    BY <1>3, <2>1, <2>2, Zenon DEF GatewayInv, OwnerInv
<1>7. RetryInv'
  BY GatewayConstants DEF RetryInv
<1> QED
  BY <1>5, <1>6, <1>7, Zenon DEF GatewayInv

-----------------------------------------------------------------------------
\* Every step of the gateway keeps the invariant.
LEMMA StepGateway ==
    ASSUME GatewayInv, [LLMNext]_llmVars
    PROVE  GatewayInv'
<1>1. TaskInv /\ GatewayTypes /\ llmRow \in Row /\ llmFaults \in 0 .. MaxLlmFaults
  BY Zenon DEF GatewayInv, TaskInv, GatewayTypes
<1>2. Fault => llmFaults' \in 0 .. MaxLlmFaults /\ llmFaults' > 0 /\ llmFaults' >= llmFaults
  BY GatewayConstants, <1>1 DEF Fault
<1>3. llmRow.answer.payload \in Bodies /\ llmAge \in {"fresh", "orphan", "stale"}
      /\ llmClient \in [Clients -> Caller]
  BY <1>1, Zenon DEF Row, GatewayTypes
<1>4. ASSUME NEW c \in Clients, ClientStep(c) PROVE GatewayInv'
  <2>1. CASE ClaimStarted(c)
    BY <2>1, ClaimMoves, Zenon
  <2>2. CASE ClaimRefused(c) \/ ReplyExisting(c) \/ PollChat(c)
    <3>1. llmClient[c].at # "claimed" /\ UNCHANGED <<llmRow, llmAge, llmGen, llmTask, llmWorker, llmFaults>>
      BY <2>2, Zenon DEF ClaimRefused, ReplyExisting, PollChat
    <3>2. \/ \E at \in {"existing", "polling"} : Goto(c, at)
          \/ \E told \in Bodies \cup {"FAILED"} : Tell(c, told)
          \/ UNCHANGED llmClient
      BY <1>3, <2>2, Zenon DEF ClaimRefused, ReplyExisting, PollChat
    <3>3. CASE UNCHANGED llmClient
      BY <1>1, <1>3, <3>1, <3>3, ClientsMove, Zenon DEF TaskInv
    <3>4. CASE \/ \E at \in {"existing", "polling"} : Goto(c, at)
               \/ \E told \in Bodies \cup {"FAILED"} : Tell(c, told)
      <4>1. /\ llmClient' \in [Clients -> Caller]
            /\ llmClient'[c].at \notin {"claimed", "rescuing"}
            /\ \A d \in Clients \ {c} : llmClient'[d] = llmClient[d]
        BY <1>1, <3>4, ClientEffects, Zenon
      <4>2. \A d \in Clients : /\ llmClient[d].at = "claimed" => llmClient'[d] = llmClient[d]
                               /\ llmClient'[d].at \in {"claimed", "rescuing"} => llmClient'[d].gen \in 1 .. llmGen
        BY <1>1, <3>1, <4>1, ZenonT(60) DEF TaskInv
      <4> QED
        BY <1>3, <3>1, <4>1, <4>2, ClientsMove, Zenon
    <3> QED
      BY <3>2, <3>3, <3>4, Zenon
  <2>3. CASE PollOrphan(c)
    <3>1. UNCHANGED <<llmRow, llmAge, llmGen, llmTask, llmWorker, llmFaults>>
      BY <2>3, Zenon DEF PollOrphan
    <3>2. llmGen \in 1 .. MaxClaims
      BY GatewayConstants, <1>1, <2>3 DEF PollOrphan, Orphaned, TaskInv, GatewayTypes
    <3>3. llmClient' = [llmClient EXCEPT ![c] = [llmClient[c] EXCEPT !.at = "rescuing", !.gen = llmGen]]
      BY <1>3, <2>3, Zenon DEF PollOrphan, Caller
    <3>4. /\ [llmClient[c] EXCEPT !.at = "rescuing", !.gen = llmGen] \in Caller
          /\ [llmClient[c] EXCEPT !.at = "rescuing", !.gen = llmGen].gen = llmGen
      <4>1. llmGen \in 0 .. MaxClaims /\ llmClient[c] \in Caller
        BY <1>1, <1>3, Zenon DEF GatewayTypes
      <4> QED
        BY <4>1, Zenon DEF Caller
    <3>5. \A d \in Clients : /\ llmClient[d].at = "claimed" => llmClient'[d] = llmClient[d]
                             /\ llmClient'[d].at \in {"claimed", "rescuing"} => llmClient'[d].gen \in 1 .. llmGen
      <4>1. llmClient[c].at # "claimed"
        BY <2>3, Zenon DEF PollOrphan
      <4>2. llmClient'[c].gen \in 1 .. llmGen /\ \A d \in Clients \ {c} : llmClient'[d] = llmClient[d]
        BY <1>3, <3>2, <3>3, <3>4
      <4> QED
        BY <1>1, <4>1, <4>2, Zenon DEF TaskInv
    <3>6. llmClient' \in [Clients -> Caller]
      BY <1>3, <3>3, <3>4, Zenon
    <3> QED
      BY <1>3, <3>1, <3>5, <3>6, ClientsMove, Zenon
  <2>4. CASE EnqueueChatCompletion(c) \/ RescueOrphan(c)
    <3>1. /\ Waiting(c) /\ Queued(llmClient[c].gen) /\ Goto(c, "polling")
          /\ UNCHANGED <<llmRow, llmAge, llmGen, llmWorker>>
      BY <2>4, Zenon DEF EnqueueChatCompletion, RescueOrphan, Waiting
    <3>2. llmFaults' \in 0 .. MaxLlmFaults /\ llmFaults' >= llmFaults
      BY GatewayConstants, <1>1, <2>4 DEF EnqueueChatCompletion, RescueOrphan
    <3>3. /\ llmClient' \in [Clients -> Caller]
          /\ llmClient'[c].at \notin {"claimed", "rescuing"}
          /\ \A d \in Clients \ {c} : llmClient'[d] = llmClient[d]
      BY <1>1, <3>1, ClientEffects, Zenon
    <3> QED
      BY <3>1, <3>2, <3>3, EnqueueMoves, Zenon
  <2> QED
    BY <1>4, <2>1, <2>2, <2>3, <2>4, Zenon DEF ClientStep
<1>5. ASSUME NEW w \in LlmWorkers, CompletionStep(w) PROVE GatewayInv'
  <2>1. ASSUME NEW g \in Gens, TakeCompletion(w, g) PROVE GatewayInv'
    BY <2>1, TakeMoves, Zenon
  <2>2. CASE StreamDelta(w) \/ ModelAnswers(w)
    <3>1. /\ llmWorker[w].at = "calling" /\ UNCHANGED <<llmGen, llmTask, llmClient, llmFaults>>
          /\ \/ \E next \in {"calling", "answered"} : FlushPartial(w, next)
             \/ /\ llmWorker' = [llmWorker EXCEPT ![w].at = "answered"]
                /\ UNCHANGED <<llmRow, llmAge>>
      BY <2>2, Zenon DEF StreamDelta, ModelAnswers
    <3>2. Busy(w)
      BY <3>1, Zenon DEF Busy
    <3>3. llmFaults' \in 0 .. MaxLlmFaults /\ llmFaults' >= llmFaults
      BY GatewayConstants, <1>1, <3>1
    <3>4. CASE llmRow.status = "IN_PROGRESS" /\ \E next \in {"calling", "answered"} : FlushPartial(w, next)
      <4>1. PICK next \in {"calling", "answered"} : FlushPartial(w, next)
        BY <3>4, Zenon
      <4>2. llmWorker' = [llmWorker EXCEPT ![w].at = next] /\ llmAge' = "fresh"
            /\ llmRow' = [llmRow EXCEPT !.answer = [partial |-> TRUE, payload |-> llmWorker[w].payload]]
        BY <3>4, <4>1, Zenon DEF FlushPartial, WriteRow
      <4>3. llmWorker[w].payload \in Bodies
        BY <1>1, Zenon DEF GatewayTypes, Slot
      <4>4. /\ llmRow' \in Row /\ llmRow'.status = llmRow.status /\ llmRow'.payload = llmRow.payload
            /\ llmRow'.tried = llmRow.tried
        BY <1>1, <4>2, <4>3, Zenon DEF Row
      <4> QED
        BY <3>1, <3>2, <3>3, <3>4, <4>2, <4>4, WorkerGoesOn, Zenon
    <3>5. CASE llmRow.status # "IN_PROGRESS" /\ \E next \in {"calling", "answered"} : FlushPartial(w, next)
      <4>1. llmWorker' = [llmWorker EXCEPT ![w].at = "failed"] /\ UNCHANGED <<llmRow, llmAge>>
        BY <3>5, Zenon DEF FlushPartial
      <4> QED
        BY <1>1, <1>3, <3>1, <3>2, <3>3, <3>5, <4>1, WorkerGoesOn, Zenon
    <3>6. CASE llmWorker' = [llmWorker EXCEPT ![w].at = "answered"] /\ UNCHANGED <<llmRow, llmAge>>
      BY <1>1, <1>3, <3>1, <3>2, <3>3, <3>6, WorkerGoesOn, Zenon
    <3> QED
      BY <3>1, <3>4, <3>5, <3>6, Zenon
  <2>3. CASE Succeed(w)
    <3>1. /\ Busy(w) /\ Settle(w, Forgotten) /\ llmRow' = MarkSucceeded(w) /\ llmAge' = "fresh"
          /\ UNCHANGED <<llmGen, llmClient>>
      BY <2>3, Zenon DEF Succeed, Busy, WriteRow
    <3>2. llmFaults' \in 0 .. MaxLlmFaults /\ llmFaults' >= llmFaults
      BY GatewayConstants, <1>1, <2>3 DEF Succeed
    <3>3. Forgotten \in Task /\ Forgotten.state = "none" /\ Forgotten.retried = 0
      BY GatewayConstants DEF Forgotten, Task, TaskStates
    <3>4. /\ llmRow' \in Row /\ llmRow'.status = "SUCCEEDED" /\ llmRow'.payload = llmRow.payload
          /\ llmRow'.answer.payload \in Payloads /\ ~llmRow'.answer.partial
      <4>1. llmWorker[w].payload \in Payloads
        BY <1>1, <3>1, Zenon DEF TaskInv
      <4> QED
        BY <1>1, <3>1, <4>1, RowWrites, Zenon
    <3>5. Ended'
      BY <3>4, Zenon DEF Ended
    <3> QED
      BY <3>1, <3>2, <3>3, <3>4, <3>5, HandlerReturns, Zenon
  <2>4. CASE RecordFailure(w)
    <3>1. Busy(w) /\ llmWorker[w].at = "failed" /\ llmWorker[w].gen \in Gens /\ UNCHANGED <<llmGen, llmClient>>
          /\ llmRow.status # "ABSENT"
      BY GatewayConstants, <1>1, <2>4 DEF RecordFailure, Busy, TaskInv, GatewayTypes, Gens
    <3>2. llmFaults' \in 0 .. MaxLlmFaults /\ llmFaults' >= llmFaults /\ llmFaults' = llmFaults
      BY GatewayConstants, <1>1, <2>4 DEF RecordFailure
    <3>3. PICK t \in Task : t = OwnTask(w)
      BY <1>1, <3>1, Zenon DEF OwnTask, GatewayTypes
    <3>4. PICK r \in Task : r = Returned(t)
      BY <3>3, ReturnedEffects, Zenon
    <3>5. Settle(w, r)
      BY <2>4, <3>3, <3>4, Zenon DEF RecordFailure
    <3>6. /\ r.state \in {"pending", "archived"}
          /\ r.state = "pending" => r.retried = t.retried + 1 /\ t.retried < MaxRetry
          /\ r.state = "archived" => t.retried >= MaxRetry
      BY <3>4, ReturnedEffects, Zenon
    <3>7. llmFaults = 0 => t.retried = llmWorker[w].retried
      <4>1. llmFaults = 0 => Holds(w)
        BY <3>1, Zenon DEF Holds, GatewayInv, OwnerInv
      <4> QED
        BY <1>1, <3>3, <4>1, Zenon DEF TaskInv, OwnTask
    <3>8. /\ llmRow' \in Row /\ llmRow'.payload = llmRow.payload /\ llmAge' \in {"fresh", "orphan", "stale"}
          /\ \/ llmRow'.status = "FAILED" /\ llmWorker[w].retried >= MaxRetry
             \/ /\ llmRow'.status = llmRow.status /\ llmRow'.answer = llmRow.answer
                /\ ~(llmWorker[w].retried >= MaxRetry)
      BY <1>1, <1>3, <2>4, RowWrites, Zenon DEF RecordFailure, WriteRow
    <3>9. /\ llmRow'.status # "ABSENT"
          /\ llmRow'.status = "SUCCEEDED" => llmRow'.answer.payload \in Payloads /\ ~llmRow'.answer.partial
      BY <1>1, <3>1, <3>8, Zenon DEF TaskInv
    <3>10. ~Ended' => llmRow.status = "IN_PROGRESS" /\ ~(llmWorker[w].retried >= MaxRetry)
      BY <1>1, <3>1, <3>8, Zenon DEF Ended, Row
    <3>11. llmFaults' = 0 /\ ~Ended' => r.state = "pending"
      BY <3>2, <3>6, <3>7, <3>10, Zenon
    <3>12. llmFaults' = 0 /\ r.state = "pending" =>
              llmGen >= r.retried + 2 \/ (llmGen >= r.retried + 1 /\ Ended')
      <4>1. llmFaults = 0 => llmGen >= llmWorker[w].retried + 3 \/ (llmGen >= llmWorker[w].retried + 2 /\ Ended)
        BY <3>1, Zenon DEF GatewayInv, RetryInv
      <4>2. Ended => Ended'
        BY <3>8, Zenon DEF Ended
      <4>3. llmGen \in Nat /\ t.retried \in Nat
        BY GatewayConstants, <1>1, <3>3 DEF GatewayTypes, Task
      <4> QED
        BY <3>2, <3>6, <3>7, <4>1, <4>2, <4>3
    <3> QED
      BY <3>1, <3>2, <3>5, <3>6, <3>8, <3>9, <3>10, <3>11, <3>12, HandlerReturns, ZenonT(60)
  <2> QED
    BY <1>5, <2>1, <2>2, <2>3, <2>4, Zenon DEF CompletionStep
<1>6. ASSUME NEW c \in Clients, EnqueueChatFails(c) \/ RescueFails(c) PROVE GatewayInv'
  <2>1. /\ Waiting(c) /\ Fault /\ llmRow' = MarkFailed /\ llmAge' = "fresh" /\ Tell(c, "FAILED")
        /\ UNCHANGED <<llmGen, llmTask, llmWorker>>
    BY <1>6, Zenon DEF EnqueueChatFails, RescueFails, Waiting, WriteRow
  <2>2. /\ llmClient' \in [Clients -> Caller]
        /\ llmClient'[c].at \notin {"claimed", "rescuing"}
        /\ \A d \in Clients \ {c} : llmClient'[d] = llmClient[d]
    BY <1>1, <2>1, ClientEffects, Zenon
  <2> QED
    BY <1>2, <2>1, <2>2, EnqueueFailureMoves, Zenon
<1>7. ASSUME NEW c \in Clients, PostLost(c) PROVE GatewayInv'
  <2>1. /\ Waiting(c) /\ Fault /\ Goto(c, "polling") /\ UNCHANGED <<llmRow, llmAge, llmGen, llmWorker>>
        /\ Queued(llmClient[c].gen) \/ UNCHANGED llmTask
    BY <1>7, Zenon DEF PostLost, Waiting
  <2>2. /\ llmClient' \in [Clients -> Caller]
        /\ llmClient'[c].at \notin {"claimed", "rescuing"}
        /\ \A d \in Clients \ {c} : llmClient'[d] = llmClient[d]
    BY <1>1, <2>1, ClientEffects, Zenon
  <2> QED
    BY <1>2, <2>1, <2>2, EnqueueMoves, Zenon
<1>8. ASSUME NEW g \in Gens, ReadRowFails(g) PROVE GatewayInv'
  <2>1. /\ llmTask[g].state = "pending" /\ Fault /\ llmTask' = [llmTask EXCEPT ![g] = Returned(@)]
        /\ UNCHANGED <<llmRow, llmAge, llmGen, llmWorker, llmClient>>
    BY <1>8, Zenon DEF ReadRowFails
  <2>2. llmWorker' \in [LlmWorkers -> Slot]
    BY <1>1, <2>1, Zenon DEF GatewayTypes
  <2>3. \A w \in LlmWorkers : Holds(w) => llmWorker[w].gen # g
    BY <1>1, <2>1, Zenon DEF TaskInv
  <2> QED
    BY <1>2, <2>1, <2>2, <2>3, TaskGoesBack, Zenon
<1>9. ASSUME NEW w \in LlmWorkers, ModelFails(w) PROVE GatewayInv'
  <2>1. /\ Busy(w) /\ Fault /\ llmWorker' = [llmWorker EXCEPT ![w].at = "failed"]
        /\ UNCHANGED <<llmRow, llmAge, llmGen, llmTask, llmClient>>
    BY <1>9, Zenon DEF ModelFails, Busy
  <2> QED
    BY <1>1, <1>2, <1>3, <2>1, WorkerGoesOn, Zenon
<1>10. ASSUME NEW w \in LlmWorkers, SucceedFails(w) PROVE GatewayInv'
  <2>1. Busy(w) /\ Fault /\ UNCHANGED <<llmRow, llmAge, llmGen, llmClient>> /\ llmWorker[w].gen \in Gens
        /\ llmRow.status # "ABSENT"
    BY GatewayConstants, <1>1, <1>10 DEF SucceedFails, Busy, TaskInv, GatewayTypes, Gens
  <2>2. PICK t \in Task : t = OwnTask(w)
    BY <1>1, <2>1, Zenon DEF OwnTask, GatewayTypes
  <2>3. PICK r \in Task : r = Returned(t)
    BY <2>2, ReturnedEffects, Zenon
  <2>4. Settle(w, r)
    BY <1>10, <2>2, <2>3, Zenon DEF SucceedFails
  <2>5. r.state # "active" /\ r.state # "none"
    BY <2>3, ReturnedEffects, Zenon
  <2>6. ~Ended' => llmRow.status = "IN_PROGRESS"
    BY <1>1, <2>1, Zenon DEF Ended, Row
  <2>7. llmRow'.status = "SUCCEEDED" => llmRow'.answer.payload \in Payloads /\ ~llmRow'.answer.partial
    BY <1>1, <2>1, Zenon DEF TaskInv
  <2>8. llmFaults' \in 0 .. MaxLlmFaults /\ llmFaults' # 0 /\ llmFaults' >= llmFaults
    BY GatewayConstants, <1>2, <2>1
  <2> QED
    BY <1>1, <1>3, <2>1, <2>4, <2>5, <2>6, <2>7, <2>8, HandlerReturns, ZenonT(60)
<1>11. ASSUME NEW w \in LlmWorkers, LoseTask(w) PROVE GatewayInv'
  <2>1. /\ llmWorker[w] # Idle /\ ~llmWorker[w].lost /\ Fault
        /\ llmTask' = [llmTask EXCEPT ![llmWorker[w].gen] = Returned(@)]
        /\ UNCHANGED <<llmRow, llmAge, llmGen, llmClient>>
    BY <1>11, Zenon DEF LoseTask
  <2>2. Busy(w) /\ Holds(w)
    BY <1>1, <2>1, Zenon DEF TaskInv, Holds
  <2>3. PICK g \in Gens : g = llmWorker[w].gen
    BY GatewayConstants, <1>1, <2>2 DEF TaskInv, GatewayTypes, Gens
  <2>4. llmTask[g].state = "active" /\ llmTask' = [llmTask EXCEPT ![g] = Returned(@)]
    BY <1>1, <2>1, <2>2, <2>3, Zenon DEF TaskInv
  <2>5. llmWorker \in [LlmWorkers -> Slot]
    BY <1>1, Zenon DEF GatewayTypes
  <2>6. Idle \in Slot /\ [llmWorker[w] EXCEPT !.lost = TRUE] \in Slot
    <3>1. Idle \in Slot
      BY GatewayConstants DEF Idle, Slot, Bodies
    <3>2. llmWorker[w] \in Slot
      BY <2>5, Zenon
    <3> QED
      BY <3>1, <3>2, Zenon DEF Slot
  <2>7. /\ llmWorker' \in [LlmWorkers -> Slot]
        /\ llmWorker'[w] = Idle \/ llmWorker'[w] = [llmWorker[w] EXCEPT !.lost = TRUE]
        /\ \A v \in LlmWorkers \ {w} : llmWorker'[v] = llmWorker[v]
    BY <1>11, <2>5, <2>6, Zenon DEF LoseTask
  <2>8. \A v \in LlmWorkers \ {w} : Holds(v) => llmWorker[v].gen # g
    BY <1>1, <2>2, <2>3, Zenon DEF TaskInv
  <2>9. \A v \in LlmWorkers :
           \/ llmWorker'[v] = llmWorker[v] /\ (Holds(v) => llmWorker[v].gen # g)
           \/ llmWorker'[v] = Idle
           \/ Busy(v) /\ llmWorker'[v] = [llmWorker[v] EXCEPT !.lost = TRUE]
    BY <2>2, <2>7, <2>8, Zenon
  <2> QED
    BY <1>2, <2>1, <2>4, <2>7, <2>9, TaskGoesBack, Zenon
<1>12. CASE TimePasses
  <2>1. llmAge' \in {"fresh", "orphan", "stale"} /\ UNCHANGED <<llmRow, llmGen, llmTask, llmWorker, llmClient, llmFaults>>
    BY <1>12, Zenon DEF TimePasses
  <2> QED
    BY <1>1, <1>3, <2>1, ClientsMove, Zenon DEF TaskInv
<1>13. CASE UNCHANGED llmVars
  <2>1. UNCHANGED <<llmRow, llmAge, llmGen, llmTask, llmWorker, llmClient, llmFaults>>
    BY <1>13, Zenon DEF llmVars
  <2> QED
    BY <1>1, <1>3, <2>1, ClientsMove, Zenon DEF TaskInv
<1> QED
  BY <1>4, <1>5, <1>6, <1>7, <1>8, <1>9, <1>10, <1>11, <1>12, <1>13, Zenon DEF LLMNext, LLMFault

\* At first there is no row, no task and nobody at work.
LEMMA InitGateway == LLMInit => GatewayInv
<1> SUFFICES ASSUME LLMInit PROVE GatewayInv
  OBVIOUS
<1>1. GatewayTypes
  BY GatewayConstants DEF LLMInit, GatewayTypes, Row, Bodies, NoAnswer, Gens, Task, TaskStates, Idle, Slot, Caller
<1>2. \A w \in LlmWorkers : llmWorker[w] = Idle /\ ~Busy(w) /\ ~llmWorker[w].lost
  BY Zenon DEF LLMInit, Busy, Idle
<1>3. \A g \in Gens : llmTask[g].state = "none" /\ llmTask[g].retried = 0
  BY Zenon DEF LLMInit
<1>4. llmGen = 0 /\ llmRow.status = "ABSENT" /\ ~llmRow.tried /\ \A c \in Clients : llmClient[c].at = "start"
  BY Zenon DEF LLMInit
<1>5. TaskInv
  BY <1>1, <1>2, <1>3, <1>4, Zenon DEF TaskInv, Holds
<1>6. OwnerInv /\ RetryInv
  BY <1>2, <1>3, <1>4, Zenon DEF OwnerInv, RetryInv, Ended
<1> QED
  BY <1>5, <1>6, Zenon DEF GatewayInv

\* The invariant holds of every behaviour of the gateway.
THEOREM GatewayInvHolds == LLMSpec => []GatewayInv
<1>1. GatewayInv /\ [LLMNext]_llmVars => GatewayInv'
  BY StepGateway, Zenon
<1> QED
  BY InitGateway, <1>1, PTL DEF LLMSpec

\* The row, the tasks and the workers of the gateway have their types; two workers
\* that have not lost their tasks never run the same one.
THEOREM GatewayTypesHold == LLMSpec => []LLMTypeOK
<1>1. GatewayInv => LLMTypeOK
  <2> SUFFICES ASSUME GatewayInv PROVE LLMTypeOK
    OBVIOUS
  <2>1. TaskInv /\ GatewayTypes
    BY Zenon DEF GatewayInv, TaskInv
  <2>2. /\ llmRow.status \in {"ABSENT", "IN_PROGRESS", "SUCCEEDED", "FAILED"}
        /\ \A g \in Gens : llmTask[g].state \in TaskStates /\ llmTask[g].retried \in 0 .. MaxRetry
    BY <2>1, SMTT(30) DEF GatewayTypes, Row, Task
  <2>3. llmRow.status = "SUCCEEDED" => llmRow.answer # NoAnswer /\ ~llmRow.answer.partial
    BY <2>1, GatewayConstants DEF TaskInv, NoAnswer
  <2>4. ASSUME NEW v \in LlmWorkers, NEW w \in LlmWorkers,
               v # w, llmWorker[v] # Idle, ~llmWorker[v].lost, ~llmWorker[w].lost
        PROVE  llmWorker[v].gen # llmWorker[w].gen
    <3>1. Busy(v) /\ Holds(v)
      BY <2>1, <2>4, Zenon DEF TaskInv, Holds
    <3>2. CASE Busy(w)
      BY <2>1, <2>4, <3>1, <3>2, Zenon DEF TaskInv, Holds
    <3>3. CASE ~Busy(w)
      <4>1. llmWorker[w] = Idle
        BY <2>1, <3>3, Zenon DEF TaskInv
      <4>2. llmWorker[w].gen = 0
        BY <4>1 DEF Idle
      <4>3. llmWorker[v].gen \in 1 .. llmGen /\ llmGen \in 0 .. MaxClaims
        BY <2>1, <3>1, Zenon DEF TaskInv, GatewayTypes
      <4> QED
        BY <4>2, <4>3, GatewayConstants
    <3> QED
      BY <3>2, <3>3
  <2>5. /\ llmAge \in {"fresh", "orphan", "stale"} /\ llmGen \in 0 .. MaxClaims
        /\ \A g \in Gens : g > llmGen => llmTask[g].state = "none"
    BY <2>1, Zenon DEF TaskInv, GatewayTypes
  <2> QED
    BY <2>2, <2>3, <2>4, <2>5, Zenon DEF LLMTypeOK, TaskStates
<1> QED
  BY <1>1, GatewayInvHolds, PTL

\* A request is never answered by nobody: an IN_PROGRESS row has its task, a
\* caller about to enqueue it or, after a fault, a poll that will.
THEOREM RequestsHaveOwners == LLMSpec => []InProgressHasOwner
<1>1. GatewayInv => InProgressHasOwner
  <2> SUFFICES ASSUME GatewayInv, llmRow.status = "IN_PROGRESS" PROVE InProgressHasOwner
    BY Zenon DEF InProgressHasOwner
  <2>1. llmGen \in Gens /\ llmTask[llmGen].state \in TaskStates /\ llmFaults \in Nat
    BY GatewayConstants DEF GatewayInv, TaskInv, GatewayTypes, Gens, Task
  <2>2. CASE llmFaults = 0
    BY <2>1, <2>2, Zenon DEF GatewayInv, OwnerInv, InProgressHasOwner, TaskStates
  <2>3. CASE llmFaults > 0
    BY <2>1, <2>3 DEF GatewayInv, OwnerInv, InProgressHasOwner, TaskStates, Gens
  <2> QED
    BY <2>1, <2>2, <2>3
<1> QED
  BY <1>1, GatewayInvHolds, PTL

\* An answer that is stored stays, when nothing fails, until a claim replaces the
\* request or it has been claimed more often than a task is retried.
THEOREM AnswersStay == LLMSpec => SucceededStays
<1>1. ASSUME GatewayInv, [LLMNext]_llmVars, llmRow.status = "SUCCEEDED", llmRow'.status # "SUCCEEDED",
             llmGen' = llmGen, llmFaults = 0, llmFaults' = 0
      PROVE  llmGen > MaxRetry + 1
  <2>1. PICK w \in LlmWorkers : RecordFailure(w)
    <3>1. ~Fault
      BY GatewayConstants, <1>1 DEF Fault
    <3>2. ~(\E c \in Clients : ClaimStarted(c))
      <4>1. llmGen \in Nat
        BY GatewayConstants, <1>1 DEF GatewayInv, TaskInv, GatewayTypes
      <4>2. ASSUME NEW c \in Clients, ClaimStarted(c) PROVE llmGen' = llmGen + 1
        BY <4>2, Zenon DEF ClaimStarted
      <4>3. llmGen' = llmGen
        BY <1>1, Zenon
      <4> QED
        BY <4>1, <4>2, <4>3, SMTT(30)
    <3>3. \A w \in LlmWorkers : ~Succeed(w)
      BY <1>1, RowWrites DEF Succeed, WriteRow, GatewayInv, TaskInv
    <3>4. llmRow' # llmRow
      BY <1>1, Zenon
    <3> QED
      BY <1>1, <3>1, <3>2, <3>3, <3>4, Zenon
         DEF LLMNext, ClientStep, CompletionStep, LLMFault, ClaimRefused, ReplyExisting,
             EnqueueChatCompletion, PollChat, PollOrphan, RescueOrphan, TakeCompletion, StreamDelta,
             ModelAnswers, FlushPartial, EnqueueChatFails, PostLost, RescueFails, ReadRowFails,
             ModelFails, SucceedFails, LoseTask, TimePasses, llmVars
  <2>2. llmWorker[w].at = "failed" /\ llmWorker[w].retried >= MaxRetry
    BY <1>1, <2>1, ZenonT(60) DEF RecordFailure
  <2>3. llmGen >= llmWorker[w].retried + 2 /\ llmGen \in Nat /\ llmWorker[w].retried \in Nat
    BY GatewayConstants, <1>1, <2>2 DEF GatewayInv, RetryInv, Busy, TaskInv, GatewayTypes, Slot
  <2> QED
    BY GatewayConstants, <2>2, <2>3
<1>2. GatewayInv /\ [LLMNext]_llmVars =>
        [(llmRow.status = "SUCCEEDED" /\ llmRow'.status # "SUCCEEDED") =>
            llmGen' # llmGen \/ llmFaults > 0 \/ llmFaults' > 0 \/ llmGen > MaxRetry + 1]_llmVars
  <2> SUFFICES ASSUME GatewayInv, [LLMNext]_llmVars, llmRow.status = "SUCCEEDED", llmRow'.status # "SUCCEEDED",
                      llmGen' = llmGen, ~(llmFaults > 0), ~(llmFaults' > 0)
               PROVE  llmGen > MaxRetry + 1
    OBVIOUS
  <2>1. llmFaults \in Nat /\ llmFaults' \in Nat
    <3>1. GatewayInv'
      BY StepGateway, Zenon
    <3>2. llmFaults \in 0 .. MaxLlmFaults /\ llmFaults' \in 0 .. MaxLlmFaults
      BY <3>1, Zenon DEF GatewayInv, TaskInv, GatewayTypes
    <3> QED
      BY GatewayConstants, <3>2
  <2> QED
    BY <1>1, <2>1
<1> QED
  BY <1>2, GatewayInvHolds, PTL DEF LLMSpec, SucceededStays

-----------------------------------------------------------------------------
(***************************************************************************)
(* The chat.  The property is carried by every list that is, or is about   *)
(* to be, stored: the chat and the messages each call has read.            *)
(***************************************************************************)
Message == [role : {"user", "assistant"}, of : Questions]
Turn == [at : {"new", "asking", "fetching", "saving", "replied"}, kind : {"create", "turn", "result"},
         q : Questions, base : Seq(Message), code : Nat]

\* An answer that is not the first of its question follows the question.
Asked(list) ==
    \A q \in Questions : \A i, j \in 1 .. Len(list) :
        i < j /\ list[i] = Assistant(q) /\ list[j] = Assistant(q) => list[j - 1] = User(q)

AnswerIn(list, q) == \E i \in 1 .. Len(list) : list[i] = Assistant(q)

\* What a call is about to write: its list ends with its own question, or has no
\* answer to it yet.
ChatInv ==
    /\ chat \in Seq(Message) /\ Asked(chat)
    /\ turn \in [ChatCalls -> Turn]
    /\ \A c \in ChatCalls :
          /\ Asked(turn[c].base)
          /\ turn[c].at = "fetching" => turn[c].kind = "result"
          /\ turn[c].at \in {"asking", "saving"} =>
                \/ turn[c].base # <<>> /\ turn[c].base[Len(turn[c].base)] = User(turn[c].q)
                \/ turn[c].at = "saving" /\ ~AnswerIn(turn[c].base, turn[c].q)

\* A list that ends with the question, or has no answer yet, takes the answer.
LEMMA AnswerAppends ==
    ASSUME NEW list \in Seq(Message), Asked(list), NEW q \in Questions,
           \/ list # <<>> /\ list[Len(list)] = User(q)
           \/ ~AnswerIn(list, q)
    PROVE  Append(list, Assistant(q)) \in Seq(Message) /\ Asked(Append(list, Assistant(q)))
<1>1. PICK new \in Seq(Message) : new = Append(list, Assistant(q))
  <2>1. Assistant(q) \in Message
    BY Zenon DEF Message, Assistant
  <2>2. Append(list, Assistant(q)) \in Seq(Message)
    BY <2>1
  <2> QED
    BY <2>2, Zenon
<1>2. /\ Len(new) = Len(list) + 1 /\ Len(list) \in Nat /\ new[Len(list) + 1] = Assistant(q)
      /\ \A i \in 1 .. Len(list) : new[i] = list[i]
  BY <1>1
<1>3. ASSUME NEW p \in Questions, NEW i \in 1 .. Len(new), NEW j \in 1 .. Len(new),
             i < j, new[i] = Assistant(p), new[j] = Assistant(p)
      PROVE  new[j - 1] = User(p)
  <2>1. i \in 1 .. Len(list) /\ j - 1 \in 1 .. Len(list) /\ new[i] = list[i] /\ new[j - 1] = list[j - 1]
    BY <1>2, <1>3
  <2>2. CASE j \in 1 .. Len(list)
    BY <1>2, <1>3, <2>1, <2>2, Zenon DEF Asked
  <2>3. CASE j = Len(list) + 1
    <3>1. p = q
      BY <1>2, <1>3, <2>3 DEF Assistant
    <3>2. AnswerIn(list, q)
      BY <1>3, <2>1, <3>1, Zenon DEF AnswerIn
    <3>3. list[Len(list)] = User(q) /\ j - 1 = Len(list)
      BY <1>2, <2>3, <3>2
    <3> QED
      BY <2>1, <3>1, <3>3, Zenon
  <2> QED
    BY <1>2, <2>2, <2>3
<1> QED
  BY <1>1, <1>3, Zenon DEF Asked

\* A question can always be added.
LEMMA QuestionAppends ==
    ASSUME NEW list \in Seq(Message), Asked(list), NEW q \in Questions
    PROVE  /\ Append(list, User(q)) \in Seq(Message) /\ Asked(Append(list, User(q)))
           /\ Append(list, User(q)) # <<>>
           /\ Append(list, User(q))[Len(Append(list, User(q)))] = User(q)
<1>1. PICK new \in Seq(Message) : new = Append(list, User(q))
  <2>1. User(q) \in Message
    BY Zenon DEF Message, User
  <2>2. Append(list, User(q)) \in Seq(Message)
    BY <2>1
  <2> QED
    BY <2>2, Zenon
<1>2. /\ Len(new) = Len(list) + 1 /\ Len(list) \in Nat /\ new[Len(list) + 1] = User(q)
      /\ \A i \in 1 .. Len(list) : new[i] = list[i]
  BY <1>1
<1>3. ASSUME NEW p \in Questions, NEW i \in 1 .. Len(new), NEW j \in 1 .. Len(new),
             i < j, new[i] = Assistant(p), new[j] = Assistant(p)
      PROVE  new[j - 1] = User(p)
  <2>1. User(q) # Assistant(p)
    BY Zenon DEF User, Assistant
  <2>2. j \in 1 .. Len(list) /\ i \in 1 .. Len(list)
    BY <1>2, <1>3, <2>1
  <2>3. j - 1 \in 1 .. Len(list)
    BY <1>2, <1>3, <2>2
  <2> QED
    BY <1>2, <1>3, <2>2, <2>3, Zenon DEF Asked
<1> QED
  BY <1>1, <1>2, <1>3 DEF Asked

\* A call that goes on keeps its question and the messages it read.
LEMMA TurnGoesOn ==
    ASSUME NEW t \in Turn, NEW at \in {"saving", "replied"}, NEW code \in Nat
    PROVE  /\ [t EXCEPT !.at = at, !.code = code] \in Turn
           /\ [t EXCEPT !.at = at, !.code = code].at = at
           /\ [t EXCEPT !.at = at, !.code = code].base = t.base
           /\ [t EXCEPT !.at = at, !.code = code].q = t.q
BY Zenon DEF Turn

\* A step of one call: it stores a list that is in order, or none.
LEMMA TurnMoves ==
    ASSUME ChatInv, NEW c \in ChatCalls,
           NEW t \in Turn,
           turn' = [turn EXCEPT ![c] = t], chat' \in Seq(Message), Asked(chat'), Asked(t.base),
           t.at = "fetching" => t.kind = "result",
           t.at \in {"asking", "saving"} =>
              \/ t.base # <<>> /\ t.base[Len(t.base)] = User(t.q)
              \/ t.at = "saving" /\ ~AnswerIn(t.base, t.q)
    PROVE  ChatInv'
<1>1. /\ turn'[c] = t /\ \A d \in ChatCalls \ {c} : turn'[d] = turn[d]
      /\ turn' \in [ChatCalls -> Turn]
  BY Zenon DEF ChatInv
<1>2. \A d \in ChatCalls :
         /\ Asked(turn'[d].base)
         /\ turn'[d].at = "fetching" => turn'[d].kind = "result"
         /\ turn'[d].at \in {"asking", "saving"} =>
               \/ turn'[d].base # <<>> /\ turn'[d].base[Len(turn'[d].base)] = User(turn'[d].q)
               \/ turn'[d].at = "saving" /\ ~AnswerIn(turn'[d].base, turn'[d].q)
  BY <1>1, Zenon DEF ChatInv
<1> QED
  BY <1>1, <1>2, Zenon DEF ChatInv, Asked, AnswerIn, Assistant, User

\* Every step of the chat keeps its invariant.
LEMMA StepChat ==
    ASSUME ChatInv, [ChatNext]_chatVars
    PROVE  ChatInv'
<1>1. chat \in Seq(Message) /\ Asked(chat) /\ turn \in [ChatCalls -> Turn]
  BY Zenon DEF ChatInv
<1>2. ASSUME NEW c \in ChatCalls, NEW code \in Nat, AnswerTo(c, code), chat' \in Seq(Message), Asked(chat')
      PROVE  ChatInv'
  <2>1. PICK t \in Turn : /\ t = [turn[c] EXCEPT !.at = "replied", !.code = code]
                          /\ t.at = "replied" /\ t.base = turn[c].base
    <3>1. turn[c] \in Turn
      BY <1>1, Zenon
    <3>2. /\ [turn[c] EXCEPT !.at = "replied", !.code = code] \in Turn
          /\ [turn[c] EXCEPT !.at = "replied", !.code = code].at = "replied"
          /\ [turn[c] EXCEPT !.at = "replied", !.code = code].base = turn[c].base
          /\ [turn[c] EXCEPT !.at = "replied", !.code = code].q = turn[c].q
      BY <1>2, <3>1, TurnGoesOn, Zenon
    <3> QED
      BY <3>2, Zenon
  <2>2. turn' = [turn EXCEPT ![c] = t]
    BY <1>1, <1>2, <2>1, Zenon DEF AnswerTo, Turn
  <2>3. Asked(t.base)
    BY <2>1, Zenon DEF ChatInv
  <2> QED
    BY <1>2, <2>1, <2>2, <2>3, TurnMoves, Zenon
<1>3. ASSUME NEW c \in ChatCalls, CreateChat(c) PROVE ChatInv'
  <2>1. PICK q \in Questions : /\ chat' = <<User(q)>>
                               /\ turn' = [turn EXCEPT ![c] = [at |-> "asking", kind |-> "create", q |-> q,
                                                              base |-> <<User(q)>>, code |-> 0]]
    BY <1>3, Zenon DEF CreateChat
  <2>2. <<User(q)>> \in Seq(Message) /\ Len(<<User(q)>>) = 1 /\ <<User(q)>>[1] = User(q)
    BY DEF Message, User
  <2>3. Asked(<<User(q)>>)
    BY <2>2 DEF Asked
  <2>4. PICK t \in Turn : t = [at |-> "asking", kind |-> "create", q |-> q, base |-> <<User(q)>>, code |-> 0]
    BY <2>2, Zenon DEF Turn
  <2>5. turn' = [turn EXCEPT ![c] = t] /\ t.at = "asking" /\ t.base = <<User(q)>> /\ t.q = q
    BY <2>1, <2>4, Zenon
  <2>6. t.base # <<>> /\ t.base[Len(t.base)] = User(t.q)
    BY <2>2, <2>5
  <2>7. Asked(t.base) /\ chat' \in Seq(Message) /\ Asked(chat')
    BY <2>1, <2>2, <2>3, <2>5, Zenon
  <2> QED
    BY <2>5, <2>6, <2>7, TurnMoves, Zenon
<1>4. ASSUME NEW c \in ChatCalls, ReadForTurn(c) PROVE ChatInv'
  <2>1. chat' = chat
    BY <1>4, Zenon DEF ReadForTurn
  <2>2. PICK q \in Questions :
           \/ AnswerTo(c, 404) \/ AnswerTo(c, 403)
           \/ turn' = [turn EXCEPT ![c] = [at |-> "asking", kind |-> "turn", q |-> q,
                                           base |-> Append(chat, User(q)), code |-> 0]]
    BY <1>4 DEF ReadForTurn
  <2>3. CASE AnswerTo(c, 404) \/ AnswerTo(c, 403)
    BY <1>1, <1>2, <2>1, <2>3
  <2>4. CASE turn' = [turn EXCEPT ![c] = [at |-> "asking", kind |-> "turn", q |-> q,
                                          base |-> Append(chat, User(q)), code |-> 0]]
    <3>1. PICK list \in Seq(Message) :
             list = Append(chat, User(q)) /\ Asked(list) /\ list # <<>> /\ list[Len(list)] = User(q)
      BY <1>1, QuestionAppends, Zenon
    <3>2. PICK t \in Turn : t = [at |-> "asking", kind |-> "turn", q |-> q, base |-> list, code |-> 0]
      BY Zenon DEF Turn
    <3>3. turn' = [turn EXCEPT ![c] = t] /\ t.at = "asking" /\ t.base = list /\ t.q = q
      BY <2>4, <3>1, <3>2, Zenon
    <3> QED
      BY <1>1, <2>1, <3>1, <3>3, TurnMoves, Zenon
  <2> QED
    BY <2>2, <2>3, <2>4, ZenonT(60)
<1>5. ASSUME NEW c \in ChatCalls, Ask(c) PROVE ChatInv'
  <2>1. chat' = chat /\ turn[c].at = "asking"
    BY <1>5, Zenon DEF Ask
  <2>2. PICK code \in Nat : turn' = [turn EXCEPT ![c].at = "saving", ![c].code = code]
    <3>1. \A status : ChatHTTPStatus(status) \in Nat
      BY DEF ChatHTTPStatus
    <3> QED
      BY <1>5, <3>1, Zenon DEF Ask
  <2>3. PICK t \in Turn : /\ t = [turn[c] EXCEPT !.at = "saving", !.code = code]
                          /\ t.at = "saving" /\ t.base = turn[c].base /\ t.q = turn[c].q
    <3>1. turn[c] \in Turn
      BY <1>1, Zenon
    <3>2. /\ [turn[c] EXCEPT !.at = "saving", !.code = code] \in Turn
          /\ [turn[c] EXCEPT !.at = "saving", !.code = code].at = "saving"
          /\ [turn[c] EXCEPT !.at = "saving", !.code = code].base = turn[c].base
          /\ [turn[c] EXCEPT !.at = "saving", !.code = code].q = turn[c].q
      BY <3>1, TurnGoesOn, Zenon
    <3> QED
      BY <3>2, Zenon
  <2>4. turn' = [turn EXCEPT ![c] = t]
    BY <1>1, <2>2, <2>3, Zenon DEF Turn
  <2>5. Asked(t.base) /\ t.base # <<>> /\ t.base[Len(t.base)] = User(t.q)
    BY <2>1, <2>3, Zenon DEF ChatInv
  <2> QED
    BY <1>1, <2>1, <2>3, <2>4, <2>5, TurnMoves, Zenon
<1>6. ASSUME NEW c \in ChatCalls, AskFails(c) \/ UpdateFails(c) PROVE ChatInv'
  BY <1>1, <1>2, <1>6 DEF AskFails, UpdateFails
<1>7. ASSUME NEW c \in ChatCalls, ReadForResult(c) PROVE ChatInv'
  <2>1. chat' = chat
    BY <1>7, Zenon DEF ReadForResult
  <2>2. PICK q \in Questions :
           \/ AnswerTo(c, 404) \/ AnswerTo(c, 403)
           \/ turn' = [turn EXCEPT ![c] = [at |-> "fetching", kind |-> "result", q |-> q,
                                           base |-> chat, code |-> 0]]
    BY <1>7 DEF ReadForResult
  <2>3. CASE AnswerTo(c, 404) \/ AnswerTo(c, 403)
    BY <1>1, <1>2, <2>1, <2>3
  <2>4. CASE turn' = [turn EXCEPT ![c] = [at |-> "fetching", kind |-> "result", q |-> q,
                                          base |-> chat, code |-> 0]]
    <3>1. PICK t \in Turn : t = [at |-> "fetching", kind |-> "result", q |-> q, base |-> chat, code |-> 0]
      BY <1>1, Zenon DEF Turn
    <3>2. turn' = [turn EXCEPT ![c] = t] /\ t.at = "fetching" /\ t.kind = "result" /\ t.base = chat
      BY <2>4, <3>1, Zenon
    <3> QED
      BY <1>1, <2>1, <3>2, TurnMoves, Zenon
  <2> QED
    BY <2>2, <2>3, <2>4, ZenonT(60)
<1>8. ASSUME NEW c \in ChatCalls, FetchResult(c) PROVE ChatInv'
  <2>1. chat' = chat
    BY <1>8, Zenon DEF FetchResult
  <2>2. CASE /\ turn' = [turn EXCEPT ![c].at = "saving", ![c].code = 200]
             /\ ~ChatMessagesContainSession(turn[c].base, turn[c].q)
    <3>1. PICK code \in Nat : code = 200
      OBVIOUS
    <3>2. PICK t \in Turn : /\ t = [turn[c] EXCEPT !.at = "saving", !.code = code]
                            /\ t.at = "saving" /\ t.base = turn[c].base /\ t.q = turn[c].q
      <4>1. turn[c] \in Turn
        BY <1>1, Zenon
      <4>2. /\ [turn[c] EXCEPT !.at = "saving", !.code = code] \in Turn
            /\ [turn[c] EXCEPT !.at = "saving", !.code = code].at = "saving"
            /\ [turn[c] EXCEPT !.at = "saving", !.code = code].base = turn[c].base
            /\ [turn[c] EXCEPT !.at = "saving", !.code = code].q = turn[c].q
        BY <4>1, TurnGoesOn, Zenon
      <4> QED
        BY <4>2, Zenon
    <3>3. turn' = [turn EXCEPT ![c] = t]
      BY <1>1, <2>2, <3>1, <3>2, ZenonT(60) DEF Turn
    <3>4. ~AnswerIn(t.base, t.q)
      BY <2>2, <3>2 DEF AnswerIn, ChatMessagesContainSession, Turn
    <3>5. Asked(t.base)
      BY <3>2, Zenon DEF ChatInv
    <3> QED
      BY <1>1, <2>1, <3>2, <3>3, <3>4, <3>5, TurnMoves, Zenon
  <2>3. CASE \E code \in Nat : AnswerTo(c, code)
    BY <1>1, <1>2, <2>1, <2>3, Zenon
  <2> QED
    BY <1>8, <2>2, <2>3 DEF FetchResult, ChatHTTPStatus
<1>9. ASSUME NEW c \in ChatCalls, UpdateChatMessages(c) PROVE ChatInv'
  <2>1. turn[c].at = "saving" /\ turn[c] \in Turn /\ AnswerTo(c, turn[c].code)
    BY <1>1, <1>9, Zenon DEF UpdateChatMessages
  <2>2. turn[c].base \in Seq(Message) /\ turn[c].q \in Questions /\ turn[c].code \in Nat
    BY <2>1, Zenon DEF Turn
  <2>3. /\ Asked(turn[c].base)
        /\ \/ turn[c].base # <<>> /\ turn[c].base[Len(turn[c].base)] = User(turn[c].q)
           \/ ~AnswerIn(turn[c].base, turn[c].q)
    BY <2>1, Zenon DEF ChatInv
  <2>4. /\ Append(turn[c].base, Assistant(turn[c].q)) \in Seq(Message)
        /\ Asked(Append(turn[c].base, Assistant(turn[c].q)))
    BY <2>2, <2>3, AnswerAppends, Zenon
  <2>5. chat' \in Seq(Message) /\ Asked(chat')
    BY <1>1, <1>9, <2>2, <2>3, <2>4, ZenonT(60) DEF UpdateChatMessages, SaveMessages
  <2> QED
    BY <1>2, <2>1, <2>2, <2>5, Zenon
<1>10. ASSUME UNCHANGED <<chat, turn>> PROVE ChatInv'
  BY <1>10 DEF ChatInv, Asked, AnswerIn, Assistant, User
<1> QED
  BY <1>3, <1>4, <1>5, <1>6, <1>7, <1>8, <1>9, <1>10, Zenon DEF ChatNext, SessionEnds, chatVars

\* An answer is stored a second time only right behind its question, asked again.
THEOREM AnswersWereAsked == ChatSpec => []RepeatedAnswerWasAsked
<1>1. ChatInit => ChatInv
  <2> SUFFICES ASSUME ChatInit PROVE ChatInv
    OBVIOUS
  <2>1. (CHOOSE q \in Questions : TRUE) \in Questions
    BY ChatConstants, Zenon
  <2>2. <<>> \in Seq(Message) /\ Asked(<<>>)
    BY DEF Asked
  <2>3. turn \in [ChatCalls -> Turn] /\ \A c \in ChatCalls : turn[c].at = "new" /\ turn[c].base = <<>>
    BY <2>1, <2>2, Zenon DEF ChatInit, Turn
  <2> QED
    BY <2>2, <2>3, Zenon DEF ChatInit, ChatInv
<1>2. ChatInv /\ [ChatNext]_chatVars => ChatInv'
  BY StepChat, Zenon
<1>3. ChatInv => RepeatedAnswerWasAsked
  BY DEF ChatInv, Asked, RepeatedAnswerWasAsked
<1> QED
  BY <1>1, <1>2, <1>3, PTL DEF ChatSpec

-----------------------------------------------------------------------------
(***************************************************************************)
(* The traversal of a graph inspection.                                    *)
(***************************************************************************)

\* One step further from a set of vertices.
Onward(c, ws, V) ==
    V \union UNION {{e.src, e.dst} :
        e \in {f \in Walkable(c, ws) : RenderDirectionClause(c.plan.direction, f) \cap V # {}}}

\* Ball is what its definition says: the depth is at most 6, so seven sets are a
\* function that satisfies it.
LEMMA BallUnfolds ==
    ASSUME NEW c, NEW ws
    PROVE  /\ Ball(c, ws)[0] = c.groups[ws]
           /\ \A k \in 1..6 : Ball(c, ws)[k] = Onward(c, ws, Ball(c, ws)[k - 1])
<1> DEFINE On(V) == Onward(c, ws, V)
           F(f) == [k \in 0..6 |-> IF k = 0 THEN c.groups[ws] ELSE On(f[k - 1])]
           n0 == c.groups[ws]
           n1 == On(n0)
           n2 == On(n1)
           n3 == On(n2)
           n4 == On(n3)
           n5 == On(n4)
           n6 == On(n5)
           fix == [k \in 0..6 |-> IF k = 0 THEN n0 ELSE IF k = 1 THEN n1 ELSE IF k = 2 THEN n2
                                  ELSE IF k = 3 THEN n3 ELSE IF k = 4 THEN n4 ELSE IF k = 5 THEN n5 ELSE n6]
<1>1. Ball(c, ws) = CHOOSE f : f = F(f)
  BY Zenon DEF Ball, Onward
<1> HIDE DEF On
<1>2. fix = F(fix)
  <2> SUFFICES ASSUME NEW k \in 0..6 PROVE fix[k] = F(fix)[k]
    BY SMTT(30)
  <2>1. /\ fix[0] = n0 /\ fix[1] = n1 /\ fix[2] = n2 /\ fix[3] = n3 /\ fix[4] = n4 /\ fix[5] = n5 /\ fix[6] = n6
    OBVIOUS
  <2> HIDE DEF fix, n1, n2, n3, n4, n5, n6
  <2>2. F(fix)[k] = IF k = 0 THEN c.groups[ws] ELSE On(fix[k - 1])
    OBVIOUS
  <2>3. k = 0 \/ k = 1 \/ k = 2 \/ k = 3 \/ k = 4 \/ k = 5 \/ k = 6
    OBVIOUS
  <2>4. CASE k = 0
    BY <2>1, <2>2, <2>4, Zenon
  <2>5. CASE k = 1
    BY <2>1, <2>2, <2>5 DEF n1
  <2>6. CASE k = 2
    BY <2>1, <2>2, <2>6 DEF n2
  <2>7. CASE k = 3
    BY <2>1, <2>2, <2>7 DEF n3
  <2>8. CASE k = 4
    BY <2>1, <2>2, <2>8 DEF n4
  <2>9. CASE k = 5
    BY <2>1, <2>2, <2>9 DEF n5
  <2>10. CASE k = 6
    BY <2>1, <2>2, <2>10 DEF n6
  <2> QED
    BY <2>3, <2>4, <2>5, <2>6, <2>7, <2>8, <2>9, <2>10, ZenonT(60)
<1> HIDE DEF fix
<1>3. Ball(c, ws) = F(Ball(c, ws))
  <2>1. \E f : f = F(f)
    BY <1>2, Zenon
  <2> HIDE DEF F
  <2> QED
    BY <1>1, <2>1, Zenon
<1>4. PICK b : b = Ball(c, ws)
  OBVIOUS
<1>5. b = [k \in 0..6 |-> IF k = 0 THEN c.groups[ws] ELSE On(b[k - 1])]
  BY <1>3, <1>4, Zenon
<1>6. b[0] = c.groups[ws] /\ \A k \in 1..6 : b[k] = On(b[k - 1])
  BY <1>5
<1> QED
  BY <1>4, <1>6, Zenon DEF On

\* The ball of a workspace grows with the depth.
LEMMA BallGrows ==
    ASSUME NEW c, NEW ws, NEW k \in 1..6
    PROVE  Ball(c, ws)[k - 1] \subseteq Ball(c, ws)[k]
  BY BallUnfolds DEF Onward

\* Where a step adds nothing, no later step does.
LEMMA BallStops ==
    ASSUME NEW c, NEW ws, NEW k \in 1..6, NEW m \in k..6, Ball(c, ws)[k] = Ball(c, ws)[k - 1]
    PROVE  Ball(c, ws)[m - 1] = Ball(c, ws)[k - 1] /\ Ball(c, ws)[m] = Ball(c, ws)[k - 1]
<1>1. PICK b : b = Ball(c, ws)
  OBVIOUS
<1> DEFINE On(V) == Onward(c, ws, V)
<1>2. \A j \in 1..6 : b[j] = On(b[j - 1])
  BY <1>1, BallUnfolds
<1>3. b[k] = b[k - 1]
  BY <1>1, Zenon
<1> HIDE DEF On
<1>4. k + 1 \in 1..6 => b[k + 1] = b[k]
  BY <1>2, <1>3
<1>5. k + 2 \in 1..6 => b[k + 2] = b[k + 1]
  BY <1>2, <1>4
<1>6. k + 3 \in 1..6 => b[k + 3] = b[k + 2]
  BY <1>2, <1>5
<1>7. k + 4 \in 1..6 => b[k + 4] = b[k + 3]
  BY <1>2, <1>6
<1>8. k + 5 \in 1..6 => b[k + 5] = b[k + 4]
  BY <1>2, <1>7
<1>9. m = k \/ m = k + 1 \/ m = k + 2 \/ m = k + 3 \/ m = k + 4 \/ m = k + 5
  OBVIOUS
<1>10. b[m - 1] = b[k - 1] /\ b[m] = b[k - 1]
  <2> USE <1>3, <1>4, <1>5, <1>6, <1>7, <1>8
  <2>1. CASE m = k
    BY <2>1, Zenon
  <2>2. CASE m = k + 1
    BY <2>2
  <2>3. CASE m = k + 2
    BY <2>3
  <2>4. CASE m = k + 3
    BY <2>4
  <2>5. CASE m = k + 4
    BY <2>5
  <2>6. CASE m = k + 5
    BY <2>6
  <2> QED
    BY <1>9, <2>1, <2>2, <2>3, <2>4, <2>5, <2>6, Zenon
<1> QED
  BY <1>1, <1>10, Zenon

\* A workspace without seeds leads nowhere.
LEMMA BallEmpty ==
    ASSUME NEW c, NEW ws, c.groups[ws] = {}, NEW k \in 0..6
    PROVE  Ball(c, ws)[k] = {}
<1>1. Ball(c, ws)[0] = {}
  BY BallUnfolds, Zenon
<1>2. Onward(c, ws, {}) = {}
  BY Zenon DEF Onward
<1>3. Ball(c, ws)[1] = {}
  <2>1. 1 \in 1..6 /\ 1 - 1 = 0
    OBVIOUS
  <2>2. Ball(c, ws)[1] = Onward(c, ws, Ball(c, ws)[1 - 1])
    BY <2>1, BallUnfolds
  <2> QED
    BY <1>1, <1>2, <2>1, <2>2, Zenon
<1>4. CASE k = 0
  BY <1>1, <1>4, Zenon
<1>5. CASE k # 0
  <2>1. Ball(c, ws)[1] = Ball(c, ws)[1 - 1]
    BY <1>1, <1>3
  <2>2. Ball(c, ws)[k] = Ball(c, ws)[1 - 1]
    BY <1>5, <2>1, BallStops
  <2> QED
    BY <1>1, <2>2
<1> QED
  BY <1>4, <1>5, Zenon

\* What a ball depends on.
Same(c, d) == /\ d.graph = c.graph /\ d.req = c.req /\ d.plan = c.plan /\ d.groups = c.groups

\* Calls that agree on these have the same balls.
LEMMA BallIsSame ==
    ASSUME NEW c, NEW d, Same(c, d), NEW ws
    PROVE  Walkable(d, ws) = Walkable(c, ws) /\ \A k \in 0..6 : Ball(d, ws)[k] = Ball(c, ws)[k]
<1>1. Walkable(d, ws) = Walkable(c, ws)
  BY Zenon DEF Same, Walkable
<1>2. ASSUME NEW V PROVE Onward(d, ws, V) = Onward(c, ws, V)
  BY <1>1, Zenon DEF Same, Onward
<1>3. PICK b : b = Ball(c, ws)
  OBVIOUS
<1>4. PICK e : e = Ball(d, ws)
  OBVIOUS
<1> DEFINE On(V) == Onward(c, ws, V)
<1>5. b[0] = e[0] /\ \A k \in 1..6 : b[k] = On(b[k - 1]) /\ e[k] = On(e[k - 1])
  BY <1>2, <1>3, <1>4, BallUnfolds, SMTT(30) DEF Same
<1> HIDE DEF On
<1>6. b[1] = e[1]
  BY <1>5
<1>7. b[2] = e[2]
  BY <1>5, <1>6
<1>8. b[3] = e[3]
  BY <1>5, <1>7
<1>9. b[4] = e[4]
  BY <1>5, <1>8
<1>10. b[5] = e[5]
  BY <1>5, <1>9
<1>11. b[6] = e[6]
  BY <1>5, <1>10
<1>12. \A k \in 0..6 : k = 0 \/ k = 1 \/ k = 2 \/ k = 3 \/ k = 4 \/ k = 5 \/ k = 6
  OBVIOUS
<1> QED
  BY <1>1, <1>3, <1>4, <1>5, <1>6, <1>7, <1>8, <1>9, <1>10, <1>11, <1>12, Zenon

-----------------------------------------------------------------------------
CallFields == {"pc", "graph", "req", "plan", "lookups", "groups", "queue", "ws", "current", "visited",
               "depth", "found", "kept", "answer", "failed", "cut", "outcome"}

\* The edge was walked from a vertex at the distance its depth says.
WalkedAt(c, f) ==
    \E v \in RenderDirectionClause(c.plan.direction, f.edge) :
        /\ v \in Ball(c, f.edge.ws)[f.depth - 1]
        /\ f.depth > 1 => v \notin Ball(c, f.edge.ws)[f.depth - 2]

\* The edges that can be walked from the vertices within distance k are found.
Covered(c, w, k) ==
    \A e \in Walkable(c, w) : RenderDirectionClause(c.plan.direction, e) \cap Ball(c, w)[k] # {}
        => \E f \in c.found : f.edge = e

CallFits(c) ==
    /\ c = [f \in CallFields |-> c[f]]
    /\ c.graph \in NativeGraphs /\ c.plan.maxDepth \in 1..6
    /\ ~c.cut => \A f \in c.found : f.depth \in 1..6 /\ WalkedAt(c, f)

Left(c, w) == w \in c.queue \/ Covered(c, w, c.plan.maxDepth - 1)

\* Between two workspaces, in the middle of one, and at the end.
Between(c) ==
    /\ CallFits(c)
    /\ ~c.cut /\ ~c.failed /\ ~Full(c) => \A w \in DOMAIN c.groups : Left(c, w)

OnTheWay(c) ==
    /\ CallFits(c)
    /\ c.depth \in 1..c.plan.maxDepth
    /\ ~c.cut => /\ c.visited = Ball(c, c.ws)[c.depth - 1]
                 /\ c.depth = 1 => c.current = Ball(c, c.ws)[0]
                 /\ c.depth > 1 => /\ c.current = Ball(c, c.ws)[c.depth - 1] \ Ball(c, c.ws)[c.depth - 2]
                                   /\ Covered(c, c.ws, c.depth - 2)
    /\ ~c.cut /\ ~c.failed => \A w \in DOMAIN c.groups : w = c.ws \/ Left(c, w)

Finished(c) ==
    /\ CallFits(c)
    /\ ~c.cut /\ ~c.failed /\ c.outcome = "ok" /\ ~Full(c) =>
          \A w \in DOMAIN c.groups : Covered(c, w, c.plan.maxDepth - 1)

CallInv(c) ==
    \/ c.pc = "idle"
    \/ c.pc = "lookup" /\ CallFits(c) /\ c.found = {}
    \/ c.pc = "step" /\ OnTheWay(c)
    \/ c.pc = "done" /\ Finished(c)

InspectInv == CallInv(inspection)

\* Neither is disturbed by what the rest of a call's record says.
LEMMA Transports ==
    ASSUME NEW c, NEW d, Same(c, d), d.found = c.found
    PROVE  /\ Full(d) <=> Full(c)
           /\ \A w : \A k \in 0..6 : Covered(d, w, k) <=> Covered(c, w, k)
           /\ \A f \in c.found : f.depth \in 1..6 => (WalkedAt(d, f) <=> WalkedAt(c, f))
<1>1. Full(d) <=> Full(c)
  BY Zenon DEF Full, Same
<1>2. ASSUME NEW w, NEW k \in 0..6 PROVE Covered(d, w, k) <=> Covered(c, w, k)
  <2>1. Walkable(d, w) = Walkable(c, w) /\ Ball(d, w)[k] = Ball(c, w)[k] /\ d.plan = c.plan
    BY BallIsSame DEF Same
  <2> QED
    BY <2>1, Zenon DEF Covered
<1>3. ASSUME NEW f \in c.found, f.depth \in 1..6 PROVE WalkedAt(d, f) <=> WalkedAt(c, f)
  <2>1. Ball(d, f.edge.ws)[f.depth - 1] = Ball(c, f.edge.ws)[f.depth - 1] /\ d.plan = c.plan
    BY <1>3, BallIsSame, SMTT(30) DEF Same
  <2>2. f.depth > 1 => Ball(d, f.edge.ws)[f.depth - 2] = Ball(c, f.edge.ws)[f.depth - 2]
    BY <1>3, BallIsSame
  <2> QED
    BY <2>1, <2>2, Zenon DEF WalkedAt
<1> QED
  BY <1>1, <1>2, <1>3, Zenon

\* A call whose edges are the same fits as before.
LEMMA FitsStill ==
    ASSUME NEW c, NEW d, CallFits(c), Same(c, d), d.found = c.found, ~d.cut => ~c.cut,
           d = [f \in CallFields |-> d[f]]
    PROVE  CallFits(d)
<1>1. d.graph \in NativeGraphs /\ d.plan.maxDepth \in 1..6
  BY Zenon DEF CallFits, Same
<1>2. ~d.cut => \A f \in d.found : f.depth \in 1..6 /\ WalkedAt(d, f)
  BY Transports, Zenon DEF CallFits
<1> QED
  BY <1>1, <1>2, Zenon DEF CallFits

\* Making the answer leaves the walk alone.
LEMMA AnsweredFields ==
    ASSUME NEW c, c = [f \in CallFields |-> c[f]]
    PROVE  LET d == Answered(c) IN
           /\ d = [f \in CallFields |-> d[f]] /\ Same(c, d) /\ d.found = c.found
           /\ d.cut = c.cut /\ d.failed = c.failed /\ d.pc = "done"
  BY Zenon DEF Answered, CallFields, Same

\* So does giving up.
LEMMA GivesUpFields ==
    ASSUME NEW c, c = [f \in CallFields |-> c[f]]
    PROVE  LET d == GivesUp(c) IN
           /\ d = [f \in CallFields |-> d[f]] /\ Same(c, d) /\ d.found = c.found
           /\ d.cut = c.cut /\ d.failed = c.failed /\ d.pc = "done"
           /\ c.req.strict => d.outcome = "error"
  BY Zenon DEF GivesUp, CallFields, Same

\* A workspace without seeds has nothing to walk.
LEMMA EmptyIsCovered ==
    ASSUME NEW c, NEW w, c.groups[w] = {}, NEW k \in 0..6
    PROVE  Covered(c, w, k)
  BY BallEmpty, Zenon DEF Covered

\* The next workspace is taken up, or the answer is made.
LEMMA NextWorkspaceKeeps ==
    ASSUME NEW c, Between(c)
    PROVE  CallInv(NextWorkspace(c))
<1>0. c = [f \in CallFields |-> c[f]] /\ c.plan.maxDepth \in 1..6
  BY Zenon DEF Between, CallFits
<1>1. CASE c.queue = {} \/ Full(c)
  <2>1. PICK d : d = Answered(c)
    OBVIOUS
  <2>2. /\ d = [f \in CallFields |-> d[f]] /\ Same(c, d) /\ d.found = c.found
        /\ d.cut = c.cut /\ d.failed = c.failed /\ d.pc = "done"
    BY <1>0, <2>1, AnsweredFields, Zenon
  <2>3. CallFits(d)
    BY <2>2, FitsStill, Zenon DEF Between
  <2>4. ASSUME ~d.cut, ~d.failed, ~Full(d), NEW w \in DOMAIN d.groups
        PROVE  Covered(d, w, d.plan.maxDepth - 1)
    <3>1. ~Full(c) /\ w \in DOMAIN c.groups /\ d.plan = c.plan
      BY <2>2, <2>4, Transports, Zenon DEF Same
    <3>2. Covered(c, w, c.plan.maxDepth - 1)
      BY <1>1, <2>2, <2>4, <3>1, Zenon DEF Between, Left
    <3>3. c.plan.maxDepth - 1 \in 0..6
      BY <1>0
    <3> QED
      BY <2>2, <3>1, <3>2, <3>3, Transports
  <2>5. Finished(d)
    BY <2>3, <2>4, Zenon DEF Finished
  <2>6. NextWorkspace(c) = d
    BY <1>1, <2>1, Zenon DEF NextWorkspace
  <2> QED
    BY <2>2, <2>5, <2>6, Zenon DEF CallInv
<1>2. CASE ~(c.queue = {} \/ Full(c))
  <2>1. PICK ws : ws = Min(c.queue)
    OBVIOUS
  <2>2. PICK d : d = NextWorkspace(c)
    OBVIOUS
  <2>3. d = [c EXCEPT !.pc = "step", !.ws = ws, !.queue = c.queue \ {ws}, !.depth = 1,
                      !.current = c.groups[ws], !.visited = c.groups[ws]]
    BY <1>2, <2>1, <2>2, Zenon DEF NextWorkspace
  <2>4. /\ d = [f \in CallFields |-> d[f]] /\ Same(c, d) /\ d.found = c.found
        /\ d.cut = c.cut /\ d.failed = c.failed /\ d.pc = "step" /\ d.ws = ws /\ d.depth = 1
        /\ d.queue = c.queue \ {ws} /\ d.current = c.groups[ws] /\ d.visited = c.groups[ws]
    BY <1>0, <2>3, Zenon DEF CallFields, Same
  <2>5. CallFits(d)
    BY <2>4, FitsStill, Zenon DEF Between
  <2>6. d.visited = Ball(d, d.ws)[0]
    BY <2>4, BallUnfolds DEF Same
  <2>7. ASSUME ~d.cut, ~d.failed, NEW w \in DOMAIN d.groups, w # d.ws
        PROVE  Left(d, w)
    <3>1. w \in DOMAIN c.groups /\ d.plan = c.plan /\ c.plan.maxDepth - 1 \in 0..6
      BY <1>0, <2>4 DEF Same
    <3>2. w \in c.queue \/ Covered(c, w, c.plan.maxDepth - 1)
      BY <1>2, <2>4, <2>7, <3>1, Zenon DEF Between, Left
    <3>3. w \in d.queue \/ Covered(d, w, c.plan.maxDepth - 1)
      BY <2>4, <2>7, <3>1, <3>2, Transports
    <3> QED
      BY <3>1, <3>3, Zenon DEF Left
  <2>8. d.depth \in 1..d.plan.maxDepth /\ d.depth - 1 = 0 /\ d.current = d.visited
    BY <1>0, <2>4, SMTT(30) DEF Same
  <2>9. OnTheWay(d)
    BY <2>4, <2>5, <2>6, <2>7, <2>8 DEF OnTheWay
  <2> QED
    BY <2>2, <2>4, <2>9, Zenon DEF CallInv
<1> QED
  BY <1>1, <1>2, Zenon

\* The traversal starts, or there are no seeds at all.
LEMMA StartTraversalKeeps ==
    ASSUME NEW c, CallFits(c), c.found = {}
    PROVE  CallInv(StartTraversal(c))
<1>0. c = [f \in CallFields |-> c[f]] /\ c.plan.maxDepth \in 1..6 /\ c.plan.maxDepth - 1 \in 0..6
  BY DEF CallFits
<1>1. PICK queue : queue = SortedSeedWorkspaceIDs(c.groups)
  OBVIOUS
<1>2. \A w \in DOMAIN c.groups : w \in queue \/ Covered(c, w, c.plan.maxDepth - 1)
  BY <1>0, <1>1, EmptyIsCovered, Zenon DEF SortedSeedWorkspaceIDs
<1>3. CASE queue = {}
  <2>1. PICK d : d = GivesUp(c)
    OBVIOUS
  <2>2. /\ d = [f \in CallFields |-> d[f]] /\ Same(c, d) /\ d.found = c.found
        /\ d.cut = c.cut /\ d.failed = c.failed /\ d.pc = "done"
    BY <1>0, <2>1, GivesUpFields, Zenon
  <2>3. CallFits(d)
    BY <2>2, FitsStill, Zenon
  <2>4. \A w \in DOMAIN d.groups : Covered(d, w, d.plan.maxDepth - 1)
    <3> SUFFICES ASSUME NEW w \in DOMAIN d.groups PROVE Covered(d, w, d.plan.maxDepth - 1)
      OBVIOUS
    <3>1. d.groups = c.groups /\ d.plan = c.plan
      BY <2>2, Zenon DEF Same
    <3>2. Covered(c, w, c.plan.maxDepth - 1)
      BY <1>2, <1>3, <3>1, Zenon
    <3> QED
      BY <1>0, <2>2, <3>1, <3>2, Transports, SMTT(30)
  <2>5. StartTraversal(c) = d
    BY <1>1, <1>3, <2>1, Zenon DEF StartTraversal
  <2> QED
    BY <2>2, <2>3, <2>4, <2>5, Zenon DEF CallInv, Finished
<1>4. CASE queue # {}
  <2>1. PICK d : d = [c EXCEPT !.queue = queue]
    BY Zenon
  <2>2. /\ d = [f \in CallFields |-> d[f]] /\ Same(c, d) /\ d.found = c.found
        /\ d.cut = c.cut /\ d.failed = c.failed /\ d.queue = queue
    BY <1>0, <2>1, Zenon DEF CallFields, Same
  <2>3. CallFits(d)
    BY <2>2, FitsStill, Zenon
  <2>4. \A w \in DOMAIN d.groups : Left(d, w)
    <3>1. d.groups = c.groups /\ d.plan = c.plan
      BY <2>2, Zenon DEF Same
    <3> QED
      BY <1>0, <1>2, <2>2, <3>1, Transports DEF Left
  <2>5. StartTraversal(c) = NextWorkspace(d)
    BY <1>1, <1>4, <2>1, Zenon DEF StartTraversal
  <2> QED
    BY <2>3, <2>4, <2>5, NextWorkspaceKeeps, Zenon DEF Between
<1> QED
  BY <1>3, <1>4, Zenon

\* A strict caller gets the error.
LEMMA StrictGivesUp ==
    ASSUME NEW c, CallFits(c), c.req.strict
    PROVE  CallInv(GivesUp(c))
<1>1. PICK d : d = GivesUp(c)
  OBVIOUS
<1>2. /\ d = [f \in CallFields |-> d[f]] /\ Same(c, d) /\ d.found = c.found
      /\ d.cut = c.cut /\ d.pc = "done" /\ d.outcome = "error"
  BY <1>1, GivesUpFields, Zenon DEF CallFits
<1>3. CallFits(d)
  BY <1>2, FitsStill, Zenon
<1> QED
  BY <1>1, <1>2, <1>3, Zenon DEF CallInv, Finished

-----------------------------------------------------------------------------
(***************************************************************************)
(* A step of the walk.                                                     *)
(***************************************************************************)

\* The vertices at an accepted edge.
EndsOf(edges) == UNION {{e.src, e.dst} : e \in edges}

\* What a statement that was not cut returns, as far as it is kept.
LEMMA AcceptedIsWalkable ==
    ASSUME NEW c, CallFits(c), NEW V
    PROVE  LET rows == RenderTraversalStepStatement(c.graph, c.req, c.plan, c.ws, V) IN
           /\ {e \in rows : Admits(c.req, e)}
              = {e \in Walkable(c, c.ws) : RenderDirectionClause(c.plan.direction, e) \cap V # {}}
           /\ \A e \in rows : e.ws = c.ws
<1>1. ASSUME NEW e \in c.graph PROVE RenderDirectionClause(c.plan.direction, e) \cap DOMAIN VertexOf # {}
  <2>1. e.src \in DOMAIN VertexOf /\ e.dst \in DOMAIN VertexOf
    BY InspectConstants, Zenon DEF CallFits
  <2> QED
    BY <2>1, Zenon DEF RenderDirectionClause
<1> QED
  BY <1>1, Zenon DEF RenderTraversalStepStatement, Walkable

\* A step that was not cut takes the walk from one ball to the next.
LEMMA StepWalks ==
    ASSUME NEW c, OnTheWay(c), ~c.cut, NEW d, Same(c, d), d = [f \in CallFields |-> d[f]],
           NEW accepted,
           accepted = {e \in Walkable(c, c.ws) : RenderDirectionClause(c.plan.direction, e) \cap c.current # {}},
           d.found = c.found \union {[edge |-> e, depth |-> c.depth] : e \in accepted},
           d.current = NextFrontier(c, accepted), d.visited = c.visited \union NextFrontier(c, accepted),
           d.ws = c.ws, \A e \in accepted : e.ws = c.ws
    PROVE  /\ CallFits(d)
           /\ Covered(d, d.ws, c.depth - 1)
           /\ d.visited = Ball(d, d.ws)[c.depth]
           /\ d.current = Ball(d, d.ws)[c.depth] \ Ball(d, d.ws)[c.depth - 1]
<1> DEFINE Dir(e) == RenderDirectionClause(c.plan.direction, e)
<1>0. /\ c.plan.maxDepth \in 1..6 /\ c.depth \in 1..6 /\ c.depth - 1 \in 0..6 /\ d.plan = c.plan
      /\ c.depth > 1 => c.depth - 1 \in 1..6 /\ c.depth - 2 \in 0..6 /\ (c.depth - 1) - 1 = c.depth - 2
  BY DEF OnTheWay, CallFits, Same
<1>1. PICK b : b = Ball(c, c.ws)
  OBVIOUS
<1>2. PICK k : k = c.depth
  OBVIOUS
<1>3. /\ c.visited = b[k - 1]
      /\ k = 1 => c.current = b[0]
      /\ k > 1 => c.current = b[k - 1] \ b[k - 2] /\ Covered(c, c.ws, k - 2)
  BY <1>1, <1>2, Zenon DEF OnTheWay
<1>4. /\ b[k] = Onward(c, c.ws, b[k - 1])
      /\ k > 1 => b[k - 1] = Onward(c, c.ws, b[k - 2]) /\ b[k - 2] \subseteq b[k - 1]
  BY <1>0, <1>1, <1>2, BallUnfolds, BallGrows
<1>5. \A e \in Walkable(c, c.ws) : Dir(e) \cap b[k - 1] # {} =>
         \/ e \in accepted
         \/ k > 1 /\ Dir(e) \cap b[k - 2] # {}
  <2> SUFFICES ASSUME NEW e \in Walkable(c, c.ws), NEW v \in Dir(e), v \in b[k - 1], e \notin accepted
               PROVE  k > 1 /\ Dir(e) \cap b[k - 2] # {}
    OBVIOUS
  <2>1. v \notin c.current
    OBVIOUS
  <2>2. k # 1
    BY <1>3, <2>1, SMTT(30)
  <2>3. k > 1
    BY <1>0, <1>2, <2>2
  <2> QED
    BY <1>3, <2>1, <2>3, Zenon
<1>6. b[k] = b[k - 1] \union EndsOf(accepted)
  <2>1. ASSUME NEW v \in b[k], v \notin b[k - 1] PROVE v \in EndsOf(accepted)
    <3>1. PICK e \in Walkable(c, c.ws) : Dir(e) \cap b[k - 1] # {} /\ v \in {e.src, e.dst}
      BY <1>4, <2>1 DEF Onward
    <3>2. ASSUME k > 1, Dir(e) \cap b[k - 2] # {} PROVE FALSE
      <4>1. v \in Onward(c, c.ws, b[k - 2])
        BY <3>1, <3>2, Zenon DEF Onward
      <4> QED
        BY <1>4, <2>1, <3>2, <4>1, Zenon
    <3>3. e \in accepted
      BY <1>5, <3>1, <3>2, Zenon
    <3> QED
      BY <3>1, <3>3, Zenon DEF EndsOf
  <2>2. ASSUME NEW v \in EndsOf(accepted) PROVE v \in b[k]
    <3>1. PICK e \in accepted : v \in {e.src, e.dst}
      BY <2>2, Zenon DEF EndsOf
    <3>2. c.current \subseteq b[k - 1]
      BY <1>0, <1>2, <1>3
    <3>3. e \in Walkable(c, c.ws) /\ Dir(e) \cap b[k - 1] # {}
      BY <3>1, <3>2, Zenon
    <3> QED
      BY <1>4, <3>1, <3>3 DEF Onward
  <2>3. b[k - 1] \subseteq b[k]
    BY <1>4, Zenon DEF Onward
  <2> QED
    BY <2>1, <2>2, <2>3, Zenon
<1>7. d.current = b[k] \ b[k - 1] /\ d.visited = b[k]
  BY <1>3, <1>6, Zenon DEF NextFrontier, EndsOf
<1>8. \A j \in 0..6 : Ball(d, d.ws)[j] = b[j]
  BY <1>1, BallIsSame
<1>9. Covered(d, d.ws, k - 1)
  <2> SUFFICES ASSUME NEW e \in Walkable(d, d.ws),
                      RenderDirectionClause(d.plan.direction, e) \cap Ball(d, d.ws)[k - 1] # {}
               PROVE  \E f \in d.found : f.edge = e
    BY Zenon DEF Covered
  <2>1. e \in Walkable(c, c.ws) /\ Dir(e) \cap b[k - 1] # {}
    BY <1>0, <1>2, <1>8, BallIsSame
  <2>2. CASE e \in accepted
    <3>1. [edge |-> e, depth |-> c.depth] \in d.found
      BY <2>2, Zenon
    <3> QED
      BY <3>1, Zenon
  <2>3. CASE k > 1 /\ Dir(e) \cap b[k - 2] # {}
    <3>1. Covered(c, c.ws, k - 2)
      BY <1>3, <2>3, Zenon
    <3>2. \E f \in c.found : f.edge = e
      BY <1>1, <2>1, <2>3, <3>1, Zenon DEF Covered
    <3> QED
      BY <3>2, Zenon
  <2> QED
    BY <1>5, <2>1, <2>2, <2>3, Zenon
<1>10. ASSUME NEW f \in d.found PROVE f.depth \in 1..6 /\ WalkedAt(d, f)
  <2>1. CASE f \in c.found
    <3>1. f.depth \in 1..6 /\ WalkedAt(c, f)
      BY <2>1, Zenon DEF OnTheWay, CallFits
    <3>2. Ball(d, f.edge.ws)[f.depth - 1] = Ball(c, f.edge.ws)[f.depth - 1]
      BY <3>1, BallIsSame
    <3>3. f.depth > 1 => Ball(d, f.edge.ws)[f.depth - 2] = Ball(c, f.edge.ws)[f.depth - 2]
      BY <3>1, BallIsSame
    <3> QED
      BY <1>0, <3>1, <3>2, <3>3, Zenon DEF WalkedAt
  <2>2. CASE f \notin c.found
    <3>1. PICK e \in accepted : f = [edge |-> e, depth |-> c.depth]
      BY <1>10, <2>2
    <3>2. f.edge = e /\ f.depth = k /\ f.edge.ws = d.ws
      BY <1>2, <3>1, Zenon
    <3>3. PICK v \in Dir(e) : v \in c.current
      OBVIOUS
    <3>4. v \in b[k - 1] /\ (k > 1 => v \notin b[k - 2])
      BY <1>0, <1>2, <1>3, <3>3
    <3>5. v \in Ball(d, d.ws)[k - 1] /\ (k > 1 => v \notin Ball(d, d.ws)[k - 2])
      BY <1>0, <1>2, <1>8, <3>4, Zenon
    <3>6. WalkedAt(d, f)
      BY <1>0, <3>2, <3>3, <3>5, Zenon DEF WalkedAt
    <3> QED
      BY <1>0, <1>2, <3>2, <3>6, Zenon
  <2> QED
    BY <2>1, <2>2, Zenon
<1>11. CallFits(d)
  BY <1>0, <1>10, Zenon DEF CallFits, OnTheWay, Same
<1> QED
  BY <1>0, <1>2, <1>7, <1>8, <1>9, <1>11, SMTT(30)

\* A step of the traversal keeps the invariant: it goes on, or it leaves its workspace
\* covered (a step that added nothing will never add anything).
LEMMA TraversalStepKeeps ==
    ASSUME InspectInv, TraversalStep
    PROVE  InspectInv'
<1>1. PICK c : c = inspection
  OBVIOUS
<1>2. c.pc = "step" /\ OnTheWay(c)
  BY <1>1, Zenon DEF InspectInv, CallInv, TraversalStep
<1>3. PICK vids, rows, got : /\ rows = RenderTraversalStepStatement(c.graph, c.req, c.plan, c.ws, vids)
                             /\ inspection' = StepOn(Walked(c, vids, rows, got))
  BY <1>1, Zenon DEF TraversalStep
<1>4. rows = RenderTraversalStepStatement(c.graph, c.req, c.plan, c.ws, vids)
  BY <1>3, Zenon
<1>5. PICK accepted : accepted = {e \in got : Admits(c.req, e)}
  BY Zenon
<1>6. PICK new : new = NextFrontier(c, accepted)
  OBVIOUS
<1>7. PICK cut \in BOOLEAN : cut = (c.cut \/ vids # c.current \/ got # rows)
  BY Zenon
<1>8. PICK d : d = Walked(c, vids, rows, got)
  OBVIOUS
<1>9. d = [c EXCEPT !.found = c.found \union {[edge |-> e, depth |-> c.depth] : e \in accepted},
                    !.visited = c.visited \union new, !.current = new, !.depth = c.depth + 1,
                    !.cut = cut]
  BY <1>8, <1>5, <1>6, <1>7, Zenon DEF Walked
<1>10. inspection' = IF d.current = {} \/ d.depth > d.plan.maxDepth \/ Full(d) THEN NextWorkspace(d) ELSE d
  BY <1>3, <1>8, Zenon DEF StepOn
<1>11. c = [f \in CallFields |-> c[f]] /\ c.plan.maxDepth \in 1..6 /\ c.depth \in 1..c.plan.maxDepth
  BY <1>2, Zenon DEF OnTheWay, CallFits
<1>12. /\ d = [f \in CallFields |-> d[f]] /\ Same(c, d)
       /\ d.found = c.found \union {[edge |-> e, depth |-> c.depth] : e \in accepted}
       /\ d.visited = c.visited \union new /\ d.current = new /\ d.depth = c.depth + 1
       /\ d.cut = cut /\ d.failed = c.failed /\ d.queue = c.queue /\ d.ws = c.ws /\ d.pc = "step"
  BY <1>2, <1>9, <1>11, Zenon DEF CallFields, Same
<1>13. d.plan = c.plan /\ d.groups = c.groups /\ d.graph = c.graph
  BY <1>12, Zenon DEF Same
<1>14. ASSUME ~d.cut
       PROVE  /\ CallFits(d) /\ Covered(d, d.ws, c.depth - 1)
              /\ d.visited = Ball(d, d.ws)[c.depth]
              /\ d.current = Ball(d, d.ws)[c.depth] \ Ball(d, d.ws)[c.depth - 1]
  <2>1. ~c.cut /\ vids = c.current /\ got = rows
    BY <1>7, <1>12, <1>14, Zenon
  <2>2. CallFits(c)
    BY <1>2, Zenon DEF OnTheWay
  <2>3. accepted = {e \in Walkable(c, c.ws) : RenderDirectionClause(c.plan.direction, e) \cap c.current # {}}
    BY <1>4, <1>5, <2>1, <2>2, AcceptedIsWalkable, Zenon
  <2>4. \A e \in accepted : e.ws = c.ws
    BY <1>4, <1>5, <2>1, <2>2, AcceptedIsWalkable, ZenonT(60)
  <2>5. d.current = NextFrontier(c, accepted) /\ d.visited = c.visited \union NextFrontier(c, accepted)
    BY <1>6, <1>12, Zenon
  <2>6. /\ OnTheWay(c) /\ ~c.cut /\ Same(c, d) /\ d = [f \in CallFields |-> d[f]] /\ d.ws = c.ws
        /\ d.found = c.found \union {[edge |-> e, depth |-> c.depth] : e \in accepted}
    BY <1>2, <1>12, <2>1, Zenon
  <2> QED
    BY <2>3, <2>4, <2>5, <2>6, StepWalks, ZenonT(60)
<1>15. CallFits(d)
  <2>1. CASE d.cut
    BY <1>2, <1>12, <1>13, <2>1, Zenon DEF CallFits, OnTheWay
  <2> QED
    BY <1>14, <2>1, Zenon
<1>16. ASSUME ~d.cut, ~d.failed, NEW w \in DOMAIN d.groups, w # d.ws PROVE Left(d, w)
  <2>1. Left(c, w)
    BY <1>2, <1>7, <1>12, <1>13, <1>16, Zenon DEF OnTheWay
  <2>2. ASSUME Covered(c, w, c.plan.maxDepth - 1) PROVE Covered(d, w, d.plan.maxDepth - 1)
    <3>1. c.plan.maxDepth - 1 \in 0..6
      BY <1>11
    <3>2. Walkable(d, w) = Walkable(c, w) /\ Ball(d, w)[c.plan.maxDepth - 1] = Ball(c, w)[c.plan.maxDepth - 1]
      BY <1>12, <3>1, BallIsSame
    <3> QED
      BY <1>12, <1>13, <2>2, <3>2, Zenon DEF Covered
  <2> QED
    BY <1>12, <2>1, <2>2, Zenon DEF Left
<1>17. CASE new = {} \/ d.depth > c.plan.maxDepth \/ Full(d)
  <2>1. ASSUME ~d.cut, ~Full(d) PROVE Covered(d, d.ws, d.plan.maxDepth - 1)
    <3>1. CASE new = {}
      <4>1. Ball(d, d.ws)[c.depth] \ Ball(d, d.ws)[c.depth - 1] = {}
        BY <1>12, <1>14, <2>1, <3>1, Zenon
      <4>2. c.depth \in 1..6 /\ c.plan.maxDepth \in c.depth..6
        BY <1>11
      <4>3. Ball(d, d.ws)[c.depth] = Ball(d, d.ws)[c.depth - 1]
        BY <4>1, <4>2, BallGrows, ZenonT(60)
      <4>4. Ball(d, d.ws)[c.plan.maxDepth - 1] = Ball(d, d.ws)[c.depth - 1]
        BY <4>2, <4>3, BallStops
      <4> QED
        BY <1>13, <1>14, <2>1, <4>4, Zenon DEF Covered
    <3>2. CASE d.depth > c.plan.maxDepth
      <4>1. c.depth = c.plan.maxDepth
        BY <1>11, <1>12, <3>2
      <4> QED
        BY <1>13, <1>14, <2>1, <4>1, Zenon
    <3> QED
      BY <1>17, <2>1, <3>1, <3>2, Zenon
  <2>2. Between(d)
    BY <1>15, <1>16, <2>1, Zenon DEF Between, Left
  <2> QED
    BY <1>10, <1>12, <1>13, <1>17, <2>2, NextWorkspaceKeeps, Zenon DEF InspectInv
<1>18. CASE ~(new = {} \/ d.depth > c.plan.maxDepth \/ Full(d))
  <2>1. d.depth \in 1..d.plan.maxDepth /\ d.depth - 1 = c.depth /\ d.depth - 2 = c.depth - 1 /\ d.depth # 1
    BY <1>11, <1>12, <1>13, <1>18
  <2>2. OnTheWay(d)
    BY <1>14, <1>15, <1>16, <2>1, Zenon DEF OnTheWay
  <2>3. inspection' = d
    BY <1>10, <1>12, <1>13, <1>18, Zenon
  <2> QED
    BY <1>12, <2>2, <2>3, Zenon DEF InspectInv, CallInv
<1> QED
  BY <1>17, <1>18, Zenon

\* A failed step ends the walk of its workspace, and the call says so.
LEMMA TraversalStepFailsKeeps ==
    ASSUME InspectInv, TraversalStepFails
    PROVE  InspectInv'
<1>1. PICK c : c = inspection
  OBVIOUS
<1>2. OnTheWay(c) /\ inspection' = StepFails(c)
  BY <1>1, Zenon DEF InspectInv, CallInv, TraversalStepFails
<1>3. PICK d : d = [c EXCEPT !.failed = TRUE]
  BY Zenon
<1>4. CallFits(c) /\ c = [f \in CallFields |-> c[f]]
  BY <1>2, Zenon DEF OnTheWay, CallFits
<1>5. /\ d = [f \in CallFields |-> d[f]] /\ Same(c, d) /\ d.found = c.found
      /\ d.cut = c.cut /\ d.failed = TRUE /\ d.req = c.req
  BY <1>3, <1>4, Zenon DEF CallFields, Same
<1>6. CallFits(d)
  BY <1>4, <1>5, FitsStill, Zenon
<1>7. Between(d)
  BY <1>5, <1>6, Zenon DEF Between
<1>8. inspection' = IF c.req.strict THEN GivesUp(d) ELSE NextWorkspace(d)
  BY <1>2, <1>3, Zenon DEF StepFails
<1> QED
  BY <1>5, <1>6, <1>7, <1>8, StrictGivesUp, NextWorkspaceKeeps, Zenon DEF InspectInv

\* Looking up seeds, or failing to, leaves nothing found and starts the walk at the end.
LEMMA SeedLookupKeeps ==
    ASSUME InspectInv, NEW ws, SeedLookup(ws) \/ SeedLookupFails(ws)
    PROVE  InspectInv'
<1>1. PICK c : c = inspection
  OBVIOUS
<1>2. CallFits(c) /\ c.found = {} /\ c.pc = "lookup" /\ c = [f \in CallFields |-> c[f]]
  BY <1>1, Zenon DEF InspectInv, CallInv, SeedLookup, SeedLookupFails, CallFits
<1>3. ASSUME NEW d, d = [f \in CallFields |-> d[f]], d.graph = c.graph, d.plan = c.plan, d.found = {}, d.pc = "lookup"
      PROVE  CallFits(d) /\ CallInv(d) /\ CallInv(StartTraversal(d))
  <2>1. CallFits(d)
    BY <1>2, <1>3, Zenon DEF CallFits
  <2> QED
    BY <1>3, <2>1, StartTraversalKeeps, Zenon DEF CallInv
<1>4. CASE SeedLookup(ws)
  <2>1. PICK rows : rows = RenderSeedLookupStatement(c.req, ws, SeedKindsForPlan(c.plan))
    OBVIOUS
  <2>2. PICK got : inspection' = LookOn(LookedUp(c, ws, rows, got))
    BY <1>1, <1>4, <2>1, Zenon DEF SeedLookup
  <2>3. PICK groups : groups = [w \in DOMAIN c.groups \union {ws} |-> IF w = ws THEN got ELSE c.groups[w]]
    BY Zenon
  <2>4. PICK d : d = LookedUp(c, ws, rows, got)
    OBVIOUS
  <2>5. d = [c EXCEPT !.lookups = c.lookups \ {ws}, !.cut = c.cut \/ got # rows, !.groups = groups]
    BY <2>3, <2>4, Zenon DEF LookedUp
  <2>6. inspection' = IF d.lookups = {} THEN StartTraversal(d) ELSE d
    BY <2>2, <2>4, Zenon DEF LookOn
  <2>7. d = [f \in CallFields |-> d[f]] /\ d.graph = c.graph /\ d.plan = c.plan /\ d.found = {} /\ d.pc = "lookup"
    BY <1>2, <2>5, Zenon DEF CallFields
  <2> QED
    BY <1>3, <2>6, <2>7, Zenon DEF InspectInv
<1>5. CASE SeedLookupFails(ws)
  <2>1. PICK d : d = [c EXCEPT !.lookups = c.lookups \ {ws}, !.failed = TRUE]
    OBVIOUS
  <2>2. inspection' = IF c.req.strict THEN GivesUp(d)
                      ELSE IF d.lookups = {} THEN StartTraversal(d) ELSE d
    BY <1>1, <1>5, <2>1, Zenon DEF SeedLookupFails, LookOn
  <2>3. /\ d = [f \in CallFields |-> d[f]] /\ d.graph = c.graph /\ d.plan = c.plan /\ d.found = {} /\ d.pc = "lookup"
        /\ d.req = c.req
    BY <1>2, <2>1, Zenon DEF CallFields
  <2> QED
    BY <1>3, <2>2, <2>3, StrictGivesUp, Zenon DEF InspectInv
<1> QED
  BY <1>4, <1>5, Zenon

\* The plan never goes deeper than six steps, whatever the caller asks for.
LEMMA PlanDepth ==
    ASSUME NEW req \in InspectRequests, NEW plan, plan = BuildQueryPlan(req.words), NEW q,
           q = IF req.depth > 0 THEN [plan EXCEPT !.maxDepth = Clamp(req.depth, 1, 6)] ELSE plan
    PROVE  q.maxDepth \in 1..6
<1>1. \A i, d, k, w : \A n \in 3..5 : Plan(i, d, n, k, w).maxDepth \in 3..5
                                      /\ "maxDepth" \in DOMAIN Plan(i, d, n, k, w)
  BY Zenon DEF Plan
<1>2. plan.maxDepth \in 3..5 /\ "maxDepth" \in DOMAIN plan
  BY <1>1 DEF BuildQueryPlan
<1>3. req.depth \in Int
  BY InspectConstants, Zenon
<1>4. Clamp(req.depth, 1, 6) \in 1..6
  BY <1>3 DEF Clamp
<1> QED
  BY <1>2, <1>4

\* A call begins with its seeds, or looks them up, or has nothing to walk from.
LEMMA BeginInspectKeeps ==
    ASSUME NEW req \in InspectRequests, NEW graph \in NativeGraphs, BeginInspect(req, graph)
    PROVE  InspectInv'
<1>1. PICK plan : plan = BuildQueryPlan(req.words)
  OBVIOUS
<1>2. PICK q : q = IF req.depth > 0 THEN [plan EXCEPT !.maxDepth = Clamp(req.depth, 1, 6)] ELSE plan
  BY Zenon
<1>3. PICK c : c = NewCall(req, graph)
  OBVIOUS
<1>4. inspection' = IF \E w \in DOMAIN req.seeds : req.seeds[w] # {} THEN StartTraversal(c)
                    ELSE IF req.matching = {} \/ req.workspaces = {} THEN GivesUp(c)
                    ELSE c
  BY <1>3, Zenon DEF BeginInspect
<1>5. /\ c = [f \in CallFields |-> c[f]] /\ c.graph = graph /\ c.plan = q /\ c.found = {}
      /\ c.pc = "lookup" /\ c.groups = req.seeds
  BY <1>1, <1>2, <1>3, ZenonT(60) DEF CallFields, NewCall
<1>6. q.maxDepth \in 1..6
  BY <1>1, <1>2, PlanDepth, Zenon
<1>7. CallFits(c)
  BY <1>5, <1>6, Zenon DEF CallFits
<1>8. CASE \E w \in DOMAIN req.seeds : req.seeds[w] # {}
  BY <1>4, <1>5, <1>7, <1>8, StartTraversalKeeps, Zenon DEF InspectInv
<1>9. CASE ~(\E w \in DOMAIN req.seeds : req.seeds[w] # {})
  <2>1. PICK d : d = GivesUp(c)
    OBVIOUS
  <2>2. /\ d = [f \in CallFields |-> d[f]] /\ Same(c, d) /\ d.found = c.found
        /\ d.cut = c.cut /\ d.failed = c.failed /\ d.pc = "done"
    BY <1>5, <2>1, GivesUpFields, Zenon
  <2>3. CallFits(d)
    BY <1>7, <2>2, FitsStill, Zenon
  <2>4. \A w \in DOMAIN d.groups : d.groups[w] = {}
    BY <1>5, <1>9, <2>2, Zenon DEF Same
  <2>5. d.plan.maxDepth - 1 \in 0..6
    BY <1>5, <1>6, <2>2 DEF Same
  <2>6. \A w \in DOMAIN d.groups : Covered(d, w, d.plan.maxDepth - 1)
    BY <2>4, <2>5, EmptyIsCovered, Zenon
  <2>7. CallInv(d)
    BY <2>2, <2>3, <2>6, Zenon DEF CallInv, Finished
  <2>8. CallInv(c)
    BY <1>5, <1>7, Zenon DEF CallInv
  <2> QED
    BY <1>4, <1>9, <2>1, <2>7, <2>8, Zenon DEF InspectInv
<1> QED
  BY <1>8, <1>9, Zenon

\* Every step of a call keeps the invariant.
LEMMA InspectStepKeeps ==
    ASSUME InspectInv, [InspectNext]_inspectVars
    PROVE  InspectInv'
<1>1. CASE UNCHANGED inspectVars
  BY <1>1, Zenon DEF inspectVars, InspectInv
<1>2. ASSUME NEW req \in InspectRequests, NEW graph \in NativeGraphs, BeginInspect(req, graph)
      PROVE  InspectInv'
  BY <1>2, BeginInspectKeeps, Zenon
<1>3. ASSUME NEW ws, SeedLookup(ws) \/ SeedLookupFails(ws)
      PROVE  InspectInv'
  BY <1>3, SeedLookupKeeps, Zenon
<1>4. CASE TraversalStep
  BY <1>4, TraversalStepKeeps, Zenon
<1>5. CASE TraversalStepFails
  BY <1>5, TraversalStepFailsKeeps, Zenon
<1>6. CASE InspectReturns
  BY <1>6, Zenon DEF InspectReturns, NoInspection, InspectInv, CallInv
<1> QED
  BY <1>1, <1>2, <1>3, <1>4, <1>5, <1>6, Zenon DEF InspectNext

\* The invariant of a graph inspection: what is visited is the ball of its depth, the
\* frontier is what the last step added to it, every edge at the ball before is found
\* (the loop over depth in Inspect).
THEOREM InspectInvHolds == InspectSpec => []InspectInv
<1>1. InspectInit => InspectInv
  BY DEF InspectInit, NoInspection, InspectInv, CallInv
<1> QED
  BY <1>1, InspectStepKeeps, PTL DEF InspectSpec

\* For every graph, every query and every set of seeds, the traversal of Inspect is
\* breadth-first search: the depths it reports are distances from the seeds, and a call
\* that met no failure and no budget misses no edge within its depth.
THEOREM WalksAreExact == InspectSpec => []WalkIsExact
<1>1. InspectInv => WalkIsExact
  <2> SUFFICES ASSUME InspectInv, Done, ~inspection.cut PROVE WalkIsExact
    BY Zenon DEF WalkIsExact
  <2>1. Finished(inspection)
    BY Zenon DEF InspectInv, CallInv, Done
  <2>2. \A f \in inspection.found : WalkedAt(inspection, f)
    BY <2>1, Zenon DEF Finished, CallFits
  <2>3. ~inspection.failed /\ inspection.outcome = "ok" /\ ~Full(inspection) =>
           \A w \in DOMAIN inspection.groups : Covered(inspection, w, inspection.plan.maxDepth - 1)
    BY <2>1, Zenon DEF Finished
  <2> QED
    BY <2>2, <2>3, Zenon DEF WalkIsExact, WalkedAt, Covered
<1> QED
  BY <1>1, InspectInvHolds, PTL
=============================================================================
