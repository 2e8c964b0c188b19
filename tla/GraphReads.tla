------------------------------ MODULE GraphReads ------------------------------
(***************************************************************************)
(* The code-graph tools of the MCP backend, their evidence queries and      *)
(* their caches, against an index that moves on while they run.             *)
(*                                                                          *)
(* One repository, one revision and one query; the snapshots of the         *)
(* repository are numbered in the order they are activated.  What a call    *)
(* has read is the set of [layer, snap] pairs its rows came from.  Every    *)
(* SQL statement, cache access and graph read is a step.                    *)
(***************************************************************************)
EXTENDS Integers, FiniteSets, Sequences

CONSTANTS GraphCalls,      \* tool calls
          ToolOf,          \* the tools each of them may run
          Direct,          \* the calls whose words match the graph's metadata
          MaxSnap,         \* snapshots that are indexed
          MaxReadFaults    \* statements, cache accesses and graph reads that fail

GraphTools == {"inspect", "focused", "context", "status", "symbols"}

ASSUME ReadConstants ==
    /\ ToolOf \in [GraphCalls -> SUBSET GraphTools] /\ Direct \subseteq GraphCalls
    /\ MaxSnap \in Nat \ {0} /\ MaxReadFaults \in Nat

VARIABLES index,           \* what the stores hold of the repository
          inspectCache,    \* Redis: graph inspections, by active scope
          contextCache,    \* Redis: codegraph_context results, by active scope
          readerCache,     \* Redis: native traversals, by scope and seeds
          reading,         \* the state of each call
          readFaults

readVars == <<index, inspectCache, contextCache, readerCache, reading, readFaults>>

Snaps == 1..MaxSnap
Miss == [hit |-> FALSE]
Entry(call) == [hit |-> TRUE, layers |-> call.layers, native |-> call.native, degraded |-> call.degraded,
                outcome |-> call.outcome]

-----------------------------------------------------------------------------
(* The index as the readers meet it.  The pipeline that moves it is modelled
   in IndexPipeline, GraphWrites and RepoLifecycle. *)

\* The calls under way are marked (only the properties look at the mark).
IndexMoves ==
    /\ reading' = [c \in GraphCalls |-> IF reading[c].pc \in {"idle", "done"} THEN reading[c]
                                        ELSE [reading[c] EXCEPT !.troubled = TRUE]]
    /\ UNCHANGED <<inspectCache, contextCache, readerCache, readFaults>>

\* The revision is switched to the next snapshot, whose rows and native
\* graph are complete.  Those of the old one stay behind.
SnapshotActivated ==
    LET s == index.top + 1
    IN /\ s \in Snaps /\ ~index.removing
       /\ index' = [index EXCEPT !.top = s, !.active = s, !.rows = @ \union {s}, !.native = @ \union {s},
                                 !.listed = TRUE]
       /\ IndexMoves

\* A removal blocks readers, drops the native graph and then the rows.
RemovalStarts ==
    /\ index.listed /\ ~index.removing
    /\ index' = [index EXCEPT !.removing = TRUE, !.native = {}]
    /\ IndexMoves

RemovalEnds ==
    /\ index.removing
    /\ index' = [index EXCEPT !.removing = FALSE, !.active = 0, !.rows = {}, !.listed = FALSE]
    /\ IndexMoves

\* An entry's time to live runs out, or Redis evicts it.
EntryExpires ==
    /\ \/ \E s \in Snaps : inspectCache[s].hit /\ inspectCache' = [inspectCache EXCEPT ![s] = Miss]
          /\ UNCHANGED <<contextCache, readerCache>>
       \/ \E s \in Snaps : contextCache[s].hit /\ contextCache' = [contextCache EXCEPT ![s] = Miss]
          /\ UNCHANGED <<inspectCache, readerCache>>
       \/ \E k \in DOMAIN readerCache : readerCache[k] # {} /\ readerCache' = [readerCache EXCEPT ![k] = {}]
          /\ UNCHANGED <<inspectCache, contextCache>>
    /\ UNCHANGED <<index, reading, readFaults>>

-----------------------------------------------------------------------------
(* The queries. *)

\* resolveReadableGitRef: no removal pending and the ref among the indexed ones.
ResolveReadableGitRef == index.listed /\ ~index.removing

ListActiveCodeGraphScopes == {index.active} \cap Snaps

\* The newest READY or PARTIAL SCIP index: that of the active snapshot, or of
\* the next one, whose SCIP rows are ingested before its graph is activated.
ActiveIndexes == {{index.active} \cap Snaps} \union {{s} : s \in {index.top + 1} \cap Snaps}
\* The rows of the active READY graph; each statement looks it up again.
ActiveGraphs == {index.active} \cap index.rows

\* What each statement may return: the snapshots its rows are of.
FindOrgSymbolOccurrences == ActiveIndexes
InspectGraphSymbols(call) == IF call.direct THEN ActiveIndexes ELSE {{}}
InspectGraphOccurrences(call) == IF call.direct THEN ActiveIndexes ELSE {{}}
\* The relationships of the symbols and occurrences found before.
InspectGraphRelationships(call) ==
    IF \E l \in call.layers : l.layer = "scip" THEN ActiveIndexes ELSE {{}}
InspectGraphAnchors(call) == {IF call.direct THEN ActiveGraphs ELSE {}}
InspectGraphSemanticFacts(call) == {IF call.direct THEN ActiveGraphs ELSE {}}
InspectGraphSemanticEdges(call) == {IF call.direct THEN ActiveGraphs ELSE {}}
InspectGraphSemanticHyperedges(call) == {IF call.direct THEN ActiveGraphs ELSE {}}
\* Edges of high confidence, whatever the query says.
InspectGraphSemanticEdgeSeeds == {ActiveGraphs}

RowsRead(call) ==
    CASE call.pc = "symbols"       -> InspectGraphSymbols(call)
      [] call.pc = "occurrences"   -> InspectGraphOccurrences(call)
      [] call.pc = "relationships" -> InspectGraphRelationships(call)
      [] call.pc = "anchors"       -> InspectGraphAnchors(call)
      [] call.pc = "facts"         -> InspectGraphSemanticFacts(call)
      [] call.pc = "edges"         -> InspectGraphSemanticEdges(call)
      [] call.pc = "hyperedges"    -> InspectGraphSemanticHyperedges(call)
      [] call.pc = "seedEdges"     -> InspectGraphSemanticEdgeSeeds

LayerOf(pc) == IF pc \in {"symbols", "occurrences", "relationships"} THEN "scip" ELSE "graph"
Evidence == {"symbols", "occurrences", "relationships", "anchors", "facts", "edges", "hyperedges", "seedEdges"}

\* graphSeedsFromEvidence: a SCIP row is a seed only in the active scope it
\* belongs to; a graph row carries its own vertex id.
GraphSeedsFromEvidence_Scopes(call) == call.scopes
GraphSeedsFromEvidence(call) ==
    {l.snap : l \in {m \in call.layers : m.layer = "scip" => m.snap \in call.scopes}}

GraphAllowedScopes(call) == call.scopes

\* graphreader.Inspect, strict: the edges of the allowed scopes that touch a
\* seed; without seeds they are looked up in the scopes by the query's words.
Traversed(call) ==
    LET seeds == GraphSeedsFromEvidence(call)
        from == IF seeds # {} THEN seeds ELSE IF call.direct THEN GraphAllowedScopes(call) ELSE {}
    IN from \cap GraphAllowedScopes(call) \cap index.native

-----------------------------------------------------------------------------
(* The calls. *)

Compact(call) == call.tool \in {"focused", "context"}

At(c, pc) == reading[c].pc = pc
\* A finished call keeps its answer only.
Finished(call) == [call EXCEPT !.key = 0, !.contextKey = 0, !.scopes = {}]
Moves(c, call) == reading' = [reading EXCEPT ![c] = IF call.pc = "done" THEN Finished(call) ELSE call]
ReadsOnly == UNCHANGED <<index, inspectCache, contextCache, readerCache, readFaults>>

Idling == [pc |-> "idle"]

Fails(call) ==
    [call EXCEPT !.outcome = "error", !.layers = {}, !.native = {},
                 !.pc = IF call.tool = "context" /\ call.pc \notin {"resolve", "contextPreflight", "contextGet"}
                        THEN "join" ELSE "done"]

Succeeds(call) == [call EXCEPT !.outcome = "ok", !.pc = IF call.tool = "context" THEN "join" ELSE "done"]

\* Nothing is read of a repository whose ref is not indexed.
ResolveGraphScope(call, next) == IF ResolveReadableGitRef THEN [call EXCEPT !.pc = next] ELSE Fails(call)
ResolveSemanticScopes(call, next) == IF ResolveReadableGitRef THEN [call EXCEPT !.pc = next] ELSE Fails(call)
IndexedRepoCoverage(call, next) == IF ResolveReadableGitRef THEN [call EXCEPT !.pc = next] ELSE Fails(call)

\* inspect_code_graph in full, without a cache of its own.
ToolInspectCodeGraph(call) == ResolveGraphScope(call, "scopes")
\* graph_callers, graph_callees, graph_impact, graph_path and
\* graph_minimal_context: a compact inspection.
ToolFocusedCodeGraph(call) == ResolveGraphScope(call, "preflight")
ToolGraphStatus(call) == ResolveGraphScope(call, "scopes")
\* codegraph_context, compact.
ToolCodegraphContext(call) == IndexedRepoCoverage(call, "contextPreflight")

Dispatched(call) ==
    CASE call.tool = "inspect" -> ToolInspectCodeGraph(call)
      [] call.tool = "focused" -> ToolFocusedCodeGraph(call)
      [] call.tool = "context" -> ToolCodegraphContext(call)
      [] call.tool = "status"  -> ToolGraphStatus(call)
      [] call.tool = "symbols" -> ResolveSemanticScopes(call, "occurrencesOf")

BeginCall(c) ==
    /\ At(c, "idle")
    /\ \E tool \in ToolOf[c] :
         Moves(c, Dispatched([pc |-> "resolve", tool |-> tool, direct |-> c \in Direct, key |-> 0, contextKey |-> 0,
                              scopes |-> {}, layers |-> {}, native |-> {}, degraded |-> FALSE, outcome |-> "none",
                              began |-> index.active, troubled |-> index.removing]))
    /\ ReadsOnly

\* find_symbol_definitions and find_symbol_references.
ToolFindSymbolOccurrences(c) ==
    /\ At(c, "occurrencesOf")
    /\ \E rows \in FindOrgSymbolOccurrences :
         Moves(c, Succeeds([reading[c] EXCEPT !.layers = {[layer |-> "scip", snap |-> s] : s \in rows}]))
    /\ ReadsOnly

\* The key of an inspection is the active scope (the query is fixed here).
GraphInspectionCacheKey_Query(scopes) == IF scopes = {} THEN 0 ELSE 1
GraphInspectionCacheKey(scopes) == IF scopes = {} THEN 0 ELSE CHOOSE s \in scopes : TRUE
CodegraphContextCacheKey(scopes) == IF scopes = {} THEN 0 ELSE CHOOSE s \in scopes : TRUE

\* The graph layers of codegraph_context share one compact inspection.
CodegraphContextGraphLayers(call) == [call EXCEPT !.pc = "preflight"]

\* The active scopes are read once for the key, before anything else.  The
\* graph layer of codegraph_context resolves its scope again first.
Preflight(c) ==
    /\ At(c, "preflight")
    /\ LET keyed == [reading[c] EXCEPT !.key = GraphInspectionCacheKey(ListActiveCodeGraphScopes)]
       IN Moves(c, IF keyed.tool = "context" THEN ResolveGraphScope(keyed, "get") ELSE [keyed EXCEPT !.pc = "get"])
    /\ ReadsOnly

ContextPreflight(c) ==
    /\ At(c, "contextPreflight")
    /\ Moves(c, IF ResolveReadableGitRef
                THEN [reading[c] EXCEPT !.pc = "contextGet",
                                        !.contextKey = CodegraphContextCacheKey(ListActiveCodeGraphScopes)]
                ELSE CodegraphContextGraphLayers(reading[c]))
    /\ ReadsOnly

GetGraphInspection(c) ==
    LET call == reading[c]
        cached == IF call.key = 0 THEN Miss ELSE inspectCache[call.key]
    IN /\ At(c, "get")
       /\ Moves(c, IF cached.hit
                   THEN Succeeds([call EXCEPT !.layers = @ \union cached.layers, !.native = cached.native,
                                              !.degraded = cached.degraded])
                   ELSE [call EXCEPT !.pc = "scopes"])
       /\ ReadsOnly

\* A hit is the whole answer; otherwise the layers start, the graph layer
\* with the steps of a compact inspection.
GetCodegraphContext(c) ==
    LET call == reading[c]
        cached == IF call.contextKey = 0 THEN Miss ELSE contextCache[call.contextKey]
    IN /\ At(c, "contextGet")
       /\ Moves(c, IF cached.hit
                   THEN [call EXCEPT !.pc = "done", !.outcome = cached.outcome, !.layers = cached.layers,
                                     !.native = cached.native, !.degraded = cached.degraded]
                   ELSE CodegraphContextGraphLayers(call))
       /\ ReadsOnly

\* InspectOrgCodeGraph: first the active scopes ...
InspectActiveScopes(c) ==
    LET call == reading[c]
        scopes == ListActiveCodeGraphScopes
    IN /\ At(c, "scopes")
       /\ Moves(c, IF call.tool = "status" THEN Succeeds([call EXCEPT !.scopes = scopes])
                   ELSE [call EXCEPT !.scopes = scopes,
                                     !.pc = IF scopes = {} THEN "readerGet"
                                            ELSE IF Compact(call) THEN "edges" ELSE "symbols"])
       /\ ReadsOnly

AfterEvidence(call, rows) ==
    CASE call.pc = "symbols"       -> "occurrences"
      [] call.pc = "occurrences"   -> "relationships"
      [] call.pc = "relationships" -> "anchors"
      [] call.pc = "anchors"       -> "facts"
      [] call.pc = "facts"         -> "edges"
      [] call.pc = "edges"         -> IF ~Compact(call) THEN "hyperedges"
                                      ELSE IF rows = {} THEN "seedEdges" ELSE "readerGet"
      [] OTHER                     -> "readerGet"

\* ... then one statement per kind of row, outside any transaction.
InspectOrgCodeGraph(c) ==
    LET call == reading[c]
    IN /\ call.pc \in Evidence
       /\ \E rows \in RowsRead(call) :
            Moves(c, [call EXCEPT !.layers = @ \union {[layer |-> LayerOf(call.pc), snap |-> s] : s \in rows},
                                  !.pc = AfterEvidence(call, rows)])
       /\ ReadsOnly

\* graphReaderCacheKey: the scopes and the seeds (query and limits are fixed).
GraphReaderCacheKey(call) == <<GraphAllowedScopes(call), GraphSeedsFromEvidence(call)>>

ReaderGet(c) ==
    LET call == reading[c]
        native == readerCache[GraphReaderCacheKey(call)]
    IN /\ At(c, "readerGet")
       /\ Moves(c, IF native # {} THEN [call EXCEPT !.native = native, !.pc = "put"]
                   ELSE [call EXCEPT !.pc = "traverse"])
       /\ ReadsOnly

\* A compact call answers from its rows when the traversal gave nothing, and
\* whatever it has when the traversal timed out.
WithoutNative(call, timedOut) ==
    IF Compact(call) /\ (timedOut \/ call.layers # {})
    THEN [call EXCEPT !.degraded = TRUE, !.pc = "put"] ELSE Fails(call)

Traverse(c) ==
    LET call == reading[c]
        native == Traversed(call)
    IN /\ At(c, "traverse")
       /\ Moves(c, IF native = {} THEN WithoutNative(call, FALSE)
                   ELSE [call EXCEPT !.native = native, !.pc = "readerPut"])
       /\ ReadsOnly

TraverseFails(c) ==
    /\ At(c, "traverse") /\ readFaults > 0
    /\ \E timedOut \in BOOLEAN :
         Moves(c, WithoutNative([reading[c] EXCEPT !.troubled = TRUE], timedOut))
    /\ readFaults' = readFaults - 1
    /\ UNCHANGED <<index, inspectCache, contextCache, readerCache>>

ReaderPut(c) ==
    /\ At(c, "readerPut")
    /\ readerCache' = [readerCache EXCEPT ![GraphReaderCacheKey(reading[c])] = reading[c].native]
    /\ Moves(c, [reading[c] EXCEPT !.pc = "put"])
    /\ UNCHANGED <<index, inspectCache, contextCache, readFaults>>

\* Every answer of a compact inspection is kept under the key of its
\* preflight, the degraded ones too.
SetGraphInspection(c) ==
    LET call == Succeeds(reading[c])
        keep == Compact(call) /\ call.key # 0
    IN /\ At(c, "put")
       /\ inspectCache' = IF keep THEN [inspectCache EXCEPT ![call.key] = Entry(call)] ELSE inspectCache
       /\ Moves(c, call)
       /\ UNCHANGED <<index, contextCache, readerCache, readFaults>>

\* codegraphContextLayersHaveASTEvidence: rows or native edges of the graph.
LayersHaveASTEvidence(call) == call.layers # {} \/ call.native # {}

RequiredLayerFailed(call, recall) ==
    recall = "failed" \/ call.outcome = "error" \/ ~LayersHaveASTEvidence(call)

CachesContext_Always(call) == call.contextKey # 0
CachesContext(call) == call.contextKey # 0 /\ call.outcome = "ok"

\* The join with the other layers, which ran beside the graph layer: text
\* recall, which is required, and symbols and source slices, which are not.
\* None of them is looked at again, so their outcome is chosen here.
CodegraphContextRunLayerTasks == {"ok", "failed"}
JoinLayers(c) ==
    \E recall \in CodegraphContextRunLayerTasks :
      LET joined == reading[c]
          call == [joined EXCEPT !.pc = "done", !.troubled = @ \/ recall = "failed",
                                 !.outcome = IF RequiredLayerFailed(joined, recall) THEN "error" ELSE "ok"]
      IN /\ At(c, "join") /\ (recall = "failed" => readFaults > 0)
         /\ contextCache' = IF CachesContext(call) THEN [contextCache EXCEPT ![call.contextKey] = Entry(call)]
                            ELSE contextCache
         /\ Moves(c, call)
         /\ readFaults' = IF recall = "failed" THEN readFaults - 1 ELSE readFaults
         /\ UNCHANGED <<index, inspectCache, readerCache>>

\* A failing cache access is a miss, or an entry that is not written; a
\* failing preflight leaves the call without a key; a failing statement is
\* the call's error.
AccessFails(c) ==
    LET call == [reading[c] EXCEPT !.troubled = TRUE]
    IN /\ readFaults > 0
       /\ \/ At(c, "preflight") /\ Moves(c, [call EXCEPT !.pc = "scopes"])
          \/ At(c, "contextPreflight") /\ Moves(c, CodegraphContextGraphLayers(call))
          \/ At(c, "get") /\ Moves(c, [call EXCEPT !.pc = "scopes"])
          \/ At(c, "contextGet") /\ Moves(c, CodegraphContextGraphLayers(call))
          \/ At(c, "readerGet") /\ Moves(c, [call EXCEPT !.pc = "traverse"])
          \/ At(c, "readerPut") /\ Moves(c, [call EXCEPT !.pc = "put"])
          \/ At(c, "put") /\ Moves(c, Succeeds(call))
          \/ reading[c].pc \in {"occurrencesOf", "scopes"} \union Evidence /\ Moves(c, Fails(call))
       /\ readFaults' = readFaults - 1
       /\ UNCHANGED <<index, inspectCache, contextCache, readerCache>>

ReadsInit ==
    /\ index = [top |-> 1, active |-> 1, rows |-> {1}, native |-> {1}, listed |-> TRUE, removing |-> FALSE]
    /\ inspectCache = [s \in Snaps |-> Miss]
    /\ contextCache = [s \in Snaps |-> Miss]
    /\ readerCache = [k \in (SUBSET Snaps) \X (SUBSET Snaps) |-> {}]
    /\ reading = [c \in GraphCalls |-> Idling]
    /\ readFaults = MaxReadFaults

ReadStep(c) ==
    \/ BeginCall(c) \/ ToolFindSymbolOccurrences(c)
    \/ Preflight(c) \/ ContextPreflight(c) \/ GetGraphInspection(c) \/ GetCodegraphContext(c)
    \/ InspectActiveScopes(c) \/ InspectOrgCodeGraph(c)
    \/ ReaderGet(c) \/ Traverse(c) \/ TraverseFails(c) \/ ReaderPut(c) \/ SetGraphInspection(c)
    \/ JoinLayers(c) \/ AccessFails(c)

ReadsNext ==
    \/ SnapshotActivated \/ RemovalStarts \/ RemovalEnds \/ EntryExpires
    \/ \E c \in GraphCalls : ReadStep(c)

ReadsSpec == ReadsInit /\ [][ReadsNext]_readVars

-----------------------------------------------------------------------------
(* Properties. *)

AnsweredCalls == {c \in GraphCalls : At(c, "done") /\ reading[c].outcome = "ok"}
GraphSnaps(call) == call.native \union {l.snap : l \in {m \in call.layers : m.layer = "graph"}}

\* Entries and calls are well formed, and an inspection is cached under the
\* scope of a snapshot that was activated (toolInspectCodeGraph).
ReadsTypeOK ==
    /\ readFaults \in 0..MaxReadFaults
    /\ \A s \in Snaps : (inspectCache[s].hit \/ contextCache[s].hit) => s <= index.top
    /\ \A k \in DOMAIN readerCache : readerCache[k] \subseteq k[1]
    /\ \A c \in GraphCalls : ~At(c, "idle") =>
          /\ reading[c].key \in 0..index.top /\ reading[c].contextKey \in 0..index.top
          /\ reading[c].native \subseteq Snaps
          /\ reading[c].outcome \in {"none", "ok", "error"}

\* No answer, cached or not, shows a graph older than the one that was active
\* when the call began: the keys hold the active scope, and it is read first.
NeverStale ==
    \A c \in AnsweredCalls : \A s \in GraphSnaps(reading[c]) : s >= reading[c].began

\* The rows and the native edges of a compact answer are of one snapshot,
\* although they are read by separate statements: a seed's vertex id names
\* its commit (graphSeedsFromEvidence, graphAllowedScopes).
CompactIsOneSnapshot ==
    \A c \in AnsweredCalls : Compact(reading[c]) => Cardinality(GraphSnaps(reading[c])) <= 1

\* No statement or access of the call failed and the index, which held an
\* active graph, did not move.
Untroubled(c) == ~reading[c].troubled /\ reading[c].began # 0

\* A compact call on an indexed repository that meets no trouble of its own
\* is answered, whatever happened to the calls that filled the caches
\* (errors are never cached: toolInspectCodeGraph, toolCodegraphContext).
HealthyCallSucceeds ==
    \A c \in GraphCalls :
        At(c, "done") /\ Compact(reading[c]) /\ Untroubled(c) => reading[c].outcome = "ok"
=============================================================================
