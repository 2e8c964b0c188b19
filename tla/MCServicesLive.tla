--------------------------- MODULE MCServicesLive ---------------------------
(***************************************************************************)
(* Small instances of the parts that wait for a queue: the jobs of a       *)
(* repository, the requests of the LLM gateway and the syncs of a          *)
(* connection.  A behaviour follows the part in focus; the others stay in  *)
(* their initial states, where no fair action is enabled.                  *)
(***************************************************************************)
EXTENDS RepoLifecycle, LLMGateway, ConnectionSync

VARIABLE focus   \* the part this behaviour is about

liveVars == <<repoVars, llmVars, syncVars, focus>>

LiveInit ==
    /\ focus \in {"repo", "llm", "sync"}
    /\ RepoInit /\ LLMInit /\ SyncInit

\* What is left alone when the part in focus moves.
Apart(part) ==
    /\ focus = part
    /\ part # "repo" => UNCHANGED repoVars
    /\ part # "llm" => UNCHANGED llmVars
    /\ part # "sync" => UNCHANGED syncVars
    /\ UNCHANGED focus

LiveNext ==
    \/ Apart("repo") /\ RepoNext
    \/ Apart("llm") /\ LLMNext
    \/ Apart("sync") /\ SyncNext

LiveSpec == LiveInit /\ [][LiveNext]_liveVars /\ RepoFairness /\ LLMFairness /\ SyncFairness

-----------------------------------------------------------------------------
OneHead == [b \in {"main"} |-> "c1"]
OnePayload == [c \in Clients |-> "p"]
=============================================================================
