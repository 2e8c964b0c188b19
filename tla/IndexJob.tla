-------------------------------- MODULE IndexJob --------------------------------
(***************************************************************************)
(* What an indexing job promises to whoever asked for it, without rows,    *)
(* leases, queues or attempts.  A revision is planned, then built, then    *)
(* served: search and the MCP tools read it.  IndexSubjobs implements this *)
(* specification.                                                          *)
(***************************************************************************)
CONSTANT Revisions   \* the revisions the index policy selects

VARIABLES
    phase,    \* RepoIndexingJob.status
    planned,  \* revisions whose activation is planned
    built,    \* planned revisions everything else of which is done
    served    \* revisions with a READY manifest

promiseVars == <<phase, planned, built, served>>

\* No revision has been looked at.
PromiseInit == phase = "PENDING" /\ planned = {} /\ built = {} /\ served = {}

Start ==
    /\ phase \in {"PENDING", "IN_PROGRESS"}
    /\ phase' = "IN_PROGRESS"
    /\ UNCHANGED <<planned, built, served>>

\* Planning runs beside the workers: what a revision needs may be done before
\* its activation is planned.
Plan(r) ==
    /\ phase = "IN_PROGRESS"
    /\ planned' = planned \cup {r}
    /\ built' \in {built, built \cup {r}}
    /\ UNCHANGED <<phase, served>>

\* The last producers of some revisions end, perhaps with the job's failure,
\* which cancels what nobody waits for.
Build(S) ==
    /\ phase # "COMPLETED"
    /\ S \subseteq planned
    /\ built' = built \cup S
    /\ phase' = phase \/ (phase = "IN_PROGRESS" /\ phase' = "FAILED")
    /\ UNCHANGED <<planned, served>>

\* Only a built revision is served, and it stays served.  The job may have
\* failed meanwhile: activation does not look at it.
Serve(r) ==
    /\ r \in built
    /\ served' = served \cup {r}
    /\ UNCHANGED <<phase, planned, built>>

Fail ==
    /\ phase \in {"PENDING", "IN_PROGRESS"}
    /\ phase' = "FAILED"
    /\ UNCHANGED <<planned, built, served>>

\* A job completes when everything it planned is built.
Complete ==
    /\ phase \in {"PENDING", "IN_PROGRESS"}
    /\ planned \subseteq built
    /\ phase' = "COMPLETED"
    /\ UNCHANGED <<planned, built, served>>

PromiseNext ==
    \/ Start \/ Fail \/ Complete
    \/ \E r \in Revisions : Plan(r) \/ Serve(r)
    \/ \E S \in SUBSET Revisions : Build(S)

PromiseSpec == PromiseInit /\ [][PromiseNext]_promiseVars

-----------------------------------------------------------------------------
\* What the promise amounts to: nothing is served that is not built, and a
\* COMPLETED job leaves nothing it planned unbuilt, for ever.
PromiseKept ==
    /\ served \subseteq built /\ built \subseteq planned
    /\ phase = "COMPLETED" => planned \subseteq built
================================================================================
