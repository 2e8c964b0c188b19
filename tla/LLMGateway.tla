------------------------------ MODULE LLMGateway ------------------------------
(***************************************************************************)
(* The durable language-model gateway: one LLMRequest row (one request     *)
(* id), the HTTP server that claims it and reports on it                   *)
(* (backend/llmgateway/server.go, store.go), its asynq tasks (task.go),    *)
(* the workers that call the model (processor.go, pkg/llmproxy/openai.go)  *)
(* and the clients that post and poll (pkg/llmproxy/client.go).            *)
(*                                                                         *)
(* ask_codebase derives the request id from the question and its scope, not *)
(* from the conversation: two payloads can carry one id.                   *)
(***************************************************************************)
EXTENDS Naturals, FiniteSets

CONSTANTS
    Clients,     \* callers of CompleteChat, or of StartChat and GetChat
    Payload,     \* Payload[c]: the request body client c sends under the id
    Streamed,    \* the payloads with stream = true
    LlmWorkers,  \* worker slots
    MaxRetry,    \* asynq.MaxRetry of a task
    MaxClaims,   \* bound on the claims of a behaviour
    MaxLlmFaults \* bound on its faults

Payloads == {Payload[c] : c \in Clients}
NoAnswer == [partial |-> FALSE, payload |-> "none"]

ASSUME GatewayConstants ==
    /\ Streamed \subseteq Payloads /\ "none" \notin Payloads
    /\ MaxRetry \in Nat /\ MaxClaims \in Nat \ {0} /\ MaxLlmFaults \in Nat

VARIABLES
    llmRow,     \* the row: status, request, response, tried (attempts > 0)
    llmAge,     \* since updatedAt: "fresh", "orphan" (> 15 s), "stale" (> 390 s)
    llmGen,     \* the claim that set updatedAt last: part of the task id
    llmTask,    \* the task of each claim: [state, retried]
    llmWorker,  \* what each worker slot does
    llmClient,  \* where each client is, and what it was told
    llmFaults

llmVars == <<llmRow, llmAge, llmGen, llmTask, llmWorker, llmClient, llmFaults>>

Gens == 1 .. MaxClaims
Idle == [at |-> "idle", gen |-> 0, payload |-> "none", retried |-> 0, lost |-> FALSE]

\* Every UPDATE of the row sets updatedAt.
WriteRow(row) == llmRow' = row /\ llmAge' = "fresh"

Tell(c, told) == llmClient' = [llmClient EXCEPT ![c].at = "done", ![c].told = told]
Goto(c, at) == llmClient' = [llmClient EXCEPT ![c].at = at]
Fault == llmFaults < MaxLlmFaults /\ llmFaults' = llmFaults + 1

\* MarkFailed has no condition on the status and leaves the response alone.
MarkFailed == [llmRow EXCEPT !.status = "FAILED", !.tried = TRUE]

-----------------------------------------------------------------------------
(***************************************************************************)
(* POST /internal/llm/chat.                                                *)
(***************************************************************************)
\* The ON CONFLICT condition of ClaimStarted.
Claimable(p) ==
    \/ llmRow.status \in {"ABSENT", "FAILED"}
    \/ llmRow.payload # p
    \/ llmRow.status = "IN_PROGRESS" /\ llmAge = "stale"

\* The upsert: attempts survive, the response does not.
ClaimStarted(c) ==
    /\ llmClient[c].at = "start"
    /\ Claimable(Payload[c])
    /\ llmGen < MaxClaims
    /\ WriteRow([llmRow EXCEPT !.status = "IN_PROGRESS", !.payload = Payload[c],
                               !.answer = NoAnswer])
    /\ llmGen' = llmGen + 1
    /\ llmClient' = [llmClient EXCEPT ![c].at = "claimed", ![c].gen = llmGen + 1]
    /\ UNCHANGED <<llmTask, llmWorker, llmFaults>>

ClaimRefused(c) ==
    /\ llmClient[c].at = "start"
    /\ ~Claimable(Payload[c])
    /\ Goto(c, "existing")
    /\ UNCHANGED <<llmRow, llmAge, llmGen, llmTask, llmWorker, llmFaults>>

\* The Get that follows: 200 with the answer, 502, or 202 and the client polls.
ReplyExisting(c) ==
    /\ llmClient[c].at = "existing"
    /\ CASE llmRow.status = "SUCCEEDED" -> Tell(c, llmRow.answer.payload)
         [] llmRow.status = "FAILED" -> Tell(c, "FAILED")
         [] OTHER -> Goto(c, "polling")
    /\ UNCHANGED <<llmRow, llmAge, llmGen, llmTask, llmWorker, llmFaults>>

Queued_OnePerRequest(g) ==
    llmTask' = [llmTask EXCEPT ![g].state =
                   IF \E h \in Gens : llmTask[h].state # "none" THEN @ ELSE "pending"]

\* The task id names the claim; a conflict counts as enqueued, whatever became
\* of the task that has the id.
Queued(g) ==
    llmTask' = [llmTask EXCEPT ![g].state = IF @ = "none" THEN "pending" ELSE @]

EnqueueChatCompletion(c) ==
    /\ llmClient[c].at = "claimed"
    /\ Queued(llmClient[c].gen)
    /\ Goto(c, "polling")
    /\ UNCHANGED <<llmRow, llmAge, llmGen, llmWorker, llmFaults>>

EnqueueChatFails(c) ==
    /\ llmClient[c].at = "claimed"
    /\ Fault
    /\ WriteRow(MarkFailed)
    /\ Tell(c, "FAILED")
    /\ UNCHANGED <<llmGen, llmTask, llmWorker>>

\* The gateway dies before the enqueue, or the reply is lost after it: the
\* client polls the id it chose.
PostLost(c) ==
    /\ llmClient[c].at = "claimed"
    /\ Fault
    /\ \/ UNCHANGED llmTask
       \/ Queued(llmClient[c].gen)
    /\ Goto(c, "polling")
    /\ UNCHANGED <<llmRow, llmAge, llmGen, llmWorker>>

-----------------------------------------------------------------------------
(***************************************************************************)
(* GET /internal/llm/chat/{id}.                                            *)
(***************************************************************************)
\* chatResponseFromRow: a stored response brings its own status.
PolledStatus ==
    IF llmRow.answer # NoAnswer
    THEN IF llmRow.answer.partial THEN "IN_PROGRESS" ELSE "SUCCEEDED"
    ELSE llmRow.status

Orphaned_Never == FALSE

Orphaned ==
    /\ llmRow.answer = NoAnswer
    /\ llmRow.status = "IN_PROGRESS"
    /\ ~llmRow.tried
    /\ llmAge # "fresh"

PollChat(c) ==
    /\ llmClient[c].at = "polling"
    /\ ~Orphaned
    /\ CASE PolledStatus = "SUCCEEDED" -> Tell(c, llmRow.answer.payload)
         [] PolledStatus \in {"FAILED", "ABSENT"} -> Tell(c, "FAILED")
         [] OTHER -> UNCHANGED llmClient
    /\ UNCHANGED <<llmRow, llmAge, llmGen, llmTask, llmWorker, llmFaults>>

\* A row nobody has tried for 15 seconds is enqueued again, under the same id.
PollOrphan(c) ==
    /\ llmClient[c].at = "polling"
    /\ Orphaned
    /\ llmClient' = [llmClient EXCEPT ![c].at = "rescuing", ![c].gen = llmGen]
    /\ UNCHANGED <<llmRow, llmAge, llmGen, llmTask, llmWorker, llmFaults>>

RescueOrphan(c) ==
    /\ llmClient[c].at = "rescuing"
    /\ Queued(llmClient[c].gen)
    /\ Goto(c, "polling")
    /\ UNCHANGED <<llmRow, llmAge, llmGen, llmWorker, llmFaults>>

RescueFails(c) ==
    /\ llmClient[c].at = "rescuing"
    /\ Fault
    /\ WriteRow(MarkFailed)
    /\ Tell(c, "FAILED")
    /\ UNCHANGED <<llmGen, llmTask, llmWorker>>

-----------------------------------------------------------------------------
(***************************************************************************)
(* The worker: Processor.Handle.                                           *)
(***************************************************************************)
\* asynq after an error: again, or archived once the retries are used up.
Returned(t) == IF t.retried >= MaxRetry THEN [t EXCEPT !.state = "archived"]
               ELSE [state |-> "pending", retried |-> t.retried + 1]

\* What the handler's return does to its task, unless asynq has given the task
\* to somebody else since.
Settle(w, t) ==
    /\ llmTask' = IF llmWorker[w].lost THEN llmTask
                  ELSE [llmTask EXCEPT ![llmWorker[w].gen] = t]
    /\ llmWorker' = [llmWorker EXCEPT ![w] = Idle]

OwnTask(w) == llmTask[llmWorker[w].gen]

\* asynq forgets a task that is done: the next one under its id starts afresh.
Forgotten == [state |-> "none", retried |-> 0]

TakeCompletion(w, g) ==
    /\ llmWorker[w] = Idle
    /\ llmTask[g].state = "pending"
    /\ CASE llmRow.status = "SUCCEEDED" ->
              /\ llmTask' = [llmTask EXCEPT ![g] = Forgotten]
              /\ UNCHANGED llmWorker
         [] llmRow.status = "FAILED" ->
              /\ llmTask' = [llmTask EXCEPT ![g].state = "archived"]
              /\ UNCHANGED llmWorker
         [] OTHER ->
              /\ llmTask' = [llmTask EXCEPT ![g].state = "active"]
              /\ llmWorker' = [llmWorker EXCEPT ![w] =
                    [at |-> "calling", gen |-> g, payload |-> llmRow.payload,
                     retried |-> llmTask[g].retried, lost |-> FALSE]]
    /\ UNCHANGED <<llmRow, llmAge, llmGen, llmClient, llmFaults>>

\* The row cannot be read: the task goes back, and the row is not touched.
ReadRowFails(g) ==
    /\ llmTask[g].state = "pending"
    /\ Fault
    /\ llmTask' = [llmTask EXCEPT ![g] = Returned(@)]
    /\ UNCHANGED <<llmRow, llmAge, llmGen, llmWorker, llmClient>>

\* MarkPartial, only while IN_PROGRESS; otherwise its error ends the stream.
FlushPartial(w, next) ==
    IF llmRow.status = "IN_PROGRESS"
    THEN /\ WriteRow([llmRow EXCEPT !.answer = [partial |-> TRUE,
                                                payload |-> llmWorker[w].payload]])
         /\ llmWorker' = [llmWorker EXCEPT ![w].at = next]
    ELSE /\ llmWorker' = [llmWorker EXCEPT ![w].at = "failed"]
         /\ UNCHANGED <<llmRow, llmAge>>

StreamDelta(w) ==
    /\ llmWorker[w].at = "calling"
    /\ llmWorker[w].payload \in Streamed
    /\ FlushPartial(w, "calling")
    /\ UNCHANGED <<llmGen, llmTask, llmClient, llmFaults>>

\* The model answers; a streamed answer is flushed once more.
ModelAnswers(w) ==
    /\ llmWorker[w].at = "calling"
    /\ IF llmWorker[w].payload \in Streamed
       THEN FlushPartial(w, "answered")
       ELSE /\ llmWorker' = [llmWorker EXCEPT ![w].at = "answered"]
            /\ UNCHANGED <<llmRow, llmAge>>
    /\ UNCHANGED <<llmGen, llmTask, llmClient, llmFaults>>

\* Every attempt of the retry loop failed, perhaps after some deltas.
ModelFails(w) ==
    /\ llmWorker[w].at = "calling"
    /\ Fault
    /\ llmWorker' = [llmWorker EXCEPT ![w].at = "failed"]
    /\ UNCHANGED <<llmRow, llmAge, llmGen, llmTask, llmClient>>

MarkSucceeded_KeepsPartial(w) ==
    [llmRow EXCEPT !.status = "SUCCEEDED", !.tried = TRUE]

\* MarkSucceeded has no condition on the status either.
MarkSucceeded(w) ==
    [llmRow EXCEPT !.status = "SUCCEEDED", !.tried = TRUE,
                   !.answer = [partial |-> FALSE, payload |-> llmWorker[w].payload]]

Succeed(w) ==
    /\ llmWorker[w].at = "answered"
    /\ WriteRow(MarkSucceeded(w))
    /\ Settle(w, Forgotten)
    /\ UNCHANGED <<llmGen, llmClient, llmFaults>>

\* That UPDATE fails: the task is retried, the row stays as it is.
SucceedFails(w) ==
    /\ llmWorker[w].at = "answered"
    /\ Fault
    /\ Settle(w, Returned(OwnTask(w)))
    /\ UNCHANGED <<llmRow, llmAge, llmGen, llmClient>>

MarkRetryableError == [llmRow EXCEPT !.tried = TRUE]

RecordFailure_AlwaysFinal(w) ==
    /\ llmWorker[w].at = "failed"
    /\ WriteRow(MarkFailed)
    /\ Settle(w, Returned(OwnTask(w)))
    /\ UNCHANGED <<llmGen, llmClient, llmFaults>>

\* shouldMarkFinalFailure: FAILED with the last retry, else the error is noted.
RecordFailure(w) ==
    /\ llmWorker[w].at = "failed"
    /\ IF llmWorker[w].retried >= MaxRetry
       THEN WriteRow(MarkFailed)
       ELSE IF llmRow.status = "IN_PROGRESS"
            THEN WriteRow(MarkRetryableError)
            ELSE UNCHANGED <<llmRow, llmAge>>
    /\ Settle(w, Returned(OwnTask(w)))
    /\ UNCHANGED <<llmGen, llmClient, llmFaults>>

\* asynq's recoverer takes the task of a worker whose lease ran out; the worker
\* may be dead, or slow and still writing.
LoseTask(w) ==
    /\ llmWorker[w] # Idle
    /\ ~llmWorker[w].lost
    /\ Fault
    /\ llmTask' = [llmTask EXCEPT ![llmWorker[w].gen] = Returned(@)]
    /\ \/ llmWorker' = [llmWorker EXCEPT ![w] = Idle]
       \/ llmWorker' = [llmWorker EXCEPT ![w].lost = TRUE]
    /\ UNCHANGED <<llmRow, llmAge, llmGen, llmClient>>

TimePasses ==
    /\ llmRow.status = "IN_PROGRESS"
    /\ llmAge' = CASE llmAge = "fresh" -> "orphan" [] OTHER -> "stale"
    /\ llmAge # "stale"
    /\ UNCHANGED <<llmRow, llmGen, llmTask, llmWorker, llmClient, llmFaults>>

-----------------------------------------------------------------------------
LLMInit ==
    /\ llmRow = [status |-> "ABSENT", payload |-> "none", answer |-> NoAnswer,
                 tried |-> FALSE]
    /\ llmAge = "fresh"
    /\ llmGen = 0
    /\ llmTask = [g \in Gens |-> [state |-> "none", retried |-> 0]]
    /\ llmWorker = [w \in LlmWorkers |-> Idle]
    /\ llmClient = [c \in Clients |-> [at |-> "start", gen |-> 0, told |-> "nothing"]]
    /\ llmFaults = 0

ClientStep(c) ==
    \/ ClaimStarted(c) \/ ClaimRefused(c) \/ ReplyExisting(c)
    \/ EnqueueChatCompletion(c) \/ PollChat(c) \/ PollOrphan(c) \/ RescueOrphan(c)

CompletionStep(w) ==
    \/ \E g \in Gens : TakeCompletion(w, g)
    \/ StreamDelta(w) \/ ModelAnswers(w) \/ Succeed(w) \/ RecordFailure(w)

LLMFault ==
    \/ \E c \in Clients : EnqueueChatFails(c) \/ PostLost(c) \/ RescueFails(c)
    \/ \E g \in Gens : ReadRowFails(g)
    \/ \E w \in LlmWorkers : ModelFails(w) \/ SucceedFails(w) \/ LoseTask(w)

LLMNext ==
    \/ \E c \in Clients : ClientStep(c)
    \/ \E w \in LlmWorkers : CompletionStep(w)
    \/ LLMFault
    \/ TimePasses

LLMSpec == LLMInit /\ [][LLMNext]_llmVars

-----------------------------------------------------------------------------
\* Every variable has its type, and the row agrees with itself: SUCCEEDED only
\* with a final answer, and one worker at most has a task without having lost it.
LLMTypeOK ==
    /\ llmRow.status \in {"ABSENT", "IN_PROGRESS", "SUCCEEDED", "FAILED"}
    /\ llmRow.status = "SUCCEEDED" => llmRow.answer # NoAnswer /\ ~llmRow.answer.partial
    /\ llmAge \in {"fresh", "orphan", "stale"}
    /\ llmGen \in 0 .. MaxClaims
    /\ \A g \in Gens :
          /\ llmTask[g].state \in {"none", "pending", "active", "archived"}
          /\ llmTask[g].retried \in 0 .. MaxRetry
          /\ g > llmGen => llmTask[g].state = "none"
    /\ \A v, w \in LlmWorkers :
          (v # w /\ llmWorker[v] # Idle /\ ~llmWorker[v].lost /\ ~llmWorker[w].lost)
             => llmWorker[v].gen # llmWorker[w].gen

\* When nothing fails, an answer that is stored stays until a claim replaces the
\* request: a second worker on the same request, whose flush finds the row no
\* longer IN_PROGRESS, does not turn SUCCEEDED into FAILED.  Its last retry does,
\* and for each retry it has to find the row claimed again: the request was then
\* claimed more than MaxRetry + 1 times.
SucceededStays ==
    [][(llmRow.status = "SUCCEEDED" /\ llmRow'.status # "SUCCEEDED") =>
          llmGen' # llmGen \/ llmFaults > 0 \/ llmFaults' > 0 \/ llmGen > MaxRetry + 1]_llmVars

\* A request is never answered by nobody: a row that is IN_PROGRESS has the task of
\* its last claim, a caller about to enqueue it or, after a fault, a poll that will.
\* The exceptions need a fault too: a task that was given up, and a re-claimed row,
\* whose attempts no rescue looks past.
InProgressHasOwner ==
    llmRow.status = "IN_PROGRESS" =>
        \/ llmTask[llmGen].state \in {"pending", "active"}
        \/ \E c \in Clients : /\ llmClient[c].at \in {"claimed", "rescuing"}
                             /\ llmClient[c].gen = llmGen
        \/ /\ llmFaults > 0
           /\ \/ llmTask[llmGen].state = "archived"
              \/ llmTask[llmGen].state = "none" /\ ~llmRow.tried /\ llmRow.answer = NoAnswer
              \/ llmGen > 1

\* A client that has posted keeps polling, a free worker takes what is queued, the
\* model answers and time passes; no fault is ever required to happen.
LLMFairness ==
    /\ \A c \in Clients : WF_llmVars(llmClient[c].at # "start" /\ ClientStep(c))
    /\ \A w \in LlmWorkers : WF_llmVars(\/ \E g \in Gens : TakeCompletion(w, g)
                                        \/ ModelAnswers(w) \/ Succeed(w) \/ RecordFailure(w))
    /\ WF_llmVars(TimePasses)

LLMFairSpec == LLMSpec /\ LLMFairness

\* A gateway that dies between claim and enqueue does not lose the request: a
\* client that polls is answered in the end, when nothing else goes wrong.
PollerIsAnswered == \A c \in Clients : llmClient[c].at = "polling" ~> llmClient[c].at = "done"
=============================================================================
