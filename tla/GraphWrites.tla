------------------------------- MODULE GraphWrites -------------------------------
(***************************************************************************)
(* The writers of one repository's code graph: the code-graph-write queue  *)
(* and the AST layer (internal/backend/codegraphwriter), the GRAPH_MERGE   *)
(* layer with its SCIP projection and ACTIVATE (internal/backend/          *)
(* indexcore), all through internal/backend/graphstore.                    *)
(*                                                                         *)
(* A snapshot is one CodeGraphIndex row for a commit, its semantic rows in *)
(* Postgres and its vertices and edges in Nebula.  Nothing but the status  *)
(* of the row keeps two writers apart: every statement is a step of its    *)
(* own, and any call may fail or its process die.                          *)
(*                                                                         *)
(* A vertex is [commit, kind, key], an edge [from, to, kind].  A rendered  *)
(* statement is [form, single, rows], a row of it carries what the         *)
(* validators look at.                                                     *)
(***************************************************************************)
EXTENDS Naturals, Sequences, FiniteSets

CONSTANTS
    GraphCommits,    \* commits of the branch, 1 .. n in the order of their manifests
    GraphPayloads,   \* payload -> [commit, mode, wellFormed, schema, statements, anchors]
    ScipRows,        \* commits with a GRAPH_MERGE subjob -> [symbols, relationships, occurrences]
    GraphDeliveries, \* deliveries of payloads and runs of GRAPH_MERGE, 1 .. n as they start
    Deployments,     \* graph stores of a deployment's pods: sets of "nebula", "unavailable",
                     \* or "unconfigured" alone
    GraphWorkers,    \* how many of them run at a time
    MaxStatementTries, \* SchemaRetryConfig.Attempts
    MaxGraphFaults

Statements(p) == {GraphPayloads[p].statements[k] : k \in DOMAIN GraphPayloads[p].statements}

ASSUME GraphConstants ==
    /\ GraphCommits \subseteq Nat \ {0} /\ DOMAIN ScipRows \subseteq GraphCommits
    /\ GraphDeliveries \subseteq Nat /\ GraphWorkers \in Nat
    /\ "merge" \notin DOMAIN GraphPayloads
    /\ \A p \in DOMAIN GraphPayloads : /\ GraphPayloads[p].commit \in GraphCommits
                                       /\ GraphPayloads[p].mode \in {"queue", "pending"}
                                       /\ GraphPayloads[p].statements \in Seq(Statements(p))
    /\ Deployments \subseteq (SUBSET {"nebula", "unavailable"}) \cup {{"unconfigured"}}
    /\ MaxStatementTries \in Nat \ {0} /\ MaxGraphFaults \in Nat

VARIABLES
    manifestOf,  \* commit -> RepoIndexManifest.status
    graphIndex,  \* commit -> CodeGraphIndex row: [status, anchorCount], and the writes
                 \* it stands for, by
    anchorRows,  \* commit -> CodeGraphAnchor rows
    factRows,    \* commit -> CodeGraphSemanticFact rows, one for a vertex
    edgeRows,    \* commit -> CodeGraphSemanticEdge rows
    vertices,    \* Nebula
    edges,
    revision,    \* commit CodeGraphRevision names, 0: none
    writer,      \* delivery -> [at, job, commit, next, try]
    stores,      \* the deployment: kinds of store its pods have
    crossed,     \* commits two writers were at work on at a time
    graphFaults

pgVars == <<manifestOf, graphIndex, anchorRows, factRows, edgeRows, revision>>
nebulaVars == <<vertices, edges, stores>>
graphVars == <<pgVars, nebulaVars, writer, crossed, graphFaults>>

Nowhere == {"new", "done", "retry", "skipped", "dead"}
AtWorkOn(c) == {d \in GraphDeliveries : writer[d].at \notin Nowhere /\ writer[d].commit = c}
GraphFault == graphFaults < MaxGraphFaults /\ graphFaults' = graphFaults + 1
WriterAt(d, at) == writer' = [writer EXCEPT ![d].at = at, ![d].next = 1, ![d].try = 1]

-----------------------------------------------------------------------------
\* internal/backend/graphstore/rendered.go: what a payload must satisfy before
\* anything is touched.  p is the payload.
EdgeRank(row) == <<row.from, row.to, row.kind>>

ValidateScopedVID(vid, expectedKind, p) ==
    vid.commit = p.commit /\ (expectedKind # "" => vid.kind = expectedKind)

ValidateVertexRowIdentity(row, p) == ValidateScopedVID(row.vid, row.kind, p)

ValidateEdgeRowIdentity(row, p) ==
    /\ row.rank = EdgeRank(row)
    /\ ValidateScopedVID(row.from, "", p) /\ ValidateScopedVID(row.to, "", p)

ValidateScopeValues(row, p) == row.scope = p.commit

ValidateRenderedStatements(p) ==
    /\ p.schema
    /\ \A k \in DOMAIN p.statements :
          LET stmt == p.statements[k] IN
          /\ stmt.single /\ stmt.rows # {}
          /\ stmt.form \in {"VERTEX", "EDGE"}
          /\ \A row \in stmt.rows :
                /\ IF stmt.form = "VERTEX" THEN ValidateVertexRowIdentity(row, p)
                   ELSE ValidateEdgeRowIdentity(row, p)
                /\ ValidateScopeValues(row, p)

RowsOf(p, form) == UNION {p.statements[k].rows : k \in {j \in DOMAIN p.statements : p.statements[j].form = form}}
EdgeOf(row) == [from |-> row.from, to |-> row.to, kind |-> row.kind]

ExtractRenderedRows ==
    [p \in DOMAIN GraphPayloads |->
        [vertices |-> {row.vid : row \in RowsOf(GraphPayloads[p], "VERTEX")},
         edges |-> {EdgeOf(row) : row \in RowsOf(GraphPayloads[p], "EDGE")}]]

\* Payload.Validate: the required fields, and anchors of this repository.
ValidAnchor(anchor) == anchor.wellFormed /\ anchor.inRepo

ValidPayload(p) == p.wellFormed /\ p.statements # <<>> /\ \A anchor \in p.anchors : ValidAnchor(anchor)

-----------------------------------------------------------------------------
\* The SCIP projection of GRAPH_MERGE: relationships and occurrences become edges,
\* and every end of an edge a vertex, known as a symbol or not.
SymbolVertex(c, s) == [commit |-> c, kind |-> "symbol", key |-> s]
FileVertex(c, f) == [commit |-> c, kind |-> "file", key |-> f]

ScipRelationKinds(rel) ==
    {k \in {"REFERENCES", "IMPLEMENTS", "TYPE_DEFINES", "DEFINES"} : k \in rel.flags}

ScipOccurrenceReferenceKind(occ) == IF occ.call THEN "CALLS" ELSE "REFERENCES"

\* An occurrence gives an edge from its file if it is or looks like an import, from the
\* symbol around it otherwise, and none from a symbol to itself.
OccurrenceEdges(c, occ) ==
    IF occ.role = "IMPORT" \/ occ.importLine
    THEN {[from |-> FileVertex(c, occ.file), to |-> SymbolVertex(c, occ.symbol), kind |-> "IMPORTS"]}
    ELSE {[from |-> SymbolVertex(c, s), to |-> SymbolVertex(c, occ.symbol),
           kind |-> ScipOccurrenceReferenceKind(occ)] : s \in occ.enclosing \ {occ.symbol}}

\* The rows the three queries select: an occurrence counts with an enclosing symbol or
\* as an import.
LoadSCIPProjectionRows(c) ==
    [ScipRows[c] EXCEPT !.occurrences = {o \in @ : o.role = "IMPORT" \/ o.enclosing # {}}]

\* What the projection of a commit's rows holds.
BuildSCIPSnapshot ==
    [c \in DOMAIN ScipRows |->
        LET r == LoadSCIPProjectionRows(c)
            es == (UNION {{[from |-> SymbolVertex(c, rel.source), to |-> SymbolVertex(c, rel.target), kind |-> k]
                            : k \in ScipRelationKinds(rel)} : rel \in r.relationships})
                  \cup (UNION {OccurrenceEdges(c, o) : o \in r.occurrences})
        IN [vertices |-> {SymbolVertex(c, s) : s \in r.symbols}
                         \cup {SymbolVertex(c, rel.source) : rel \in r.relationships}
                         \cup {SymbolVertex(c, rel.target) : rel \in r.relationships}
                         \cup {SymbolVertex(c, o.symbol) : o \in r.occurrences}
                         \cup {e.from : e \in es},
            edges |-> es]]

Projected(c) == BuildSCIPSnapshot[c] # [vertices |-> {}, edges |-> {}]

-----------------------------------------------------------------------------
\* GRAPH_MERGE waits for the AST subjob of its revision if there is one; that is DONE
\* after an ingestion that succeeded, and the lease check of Ingest lets none in later.
RunsOf(c, mode) ==
    {d \in GraphDeliveries : /\ writer[d].commit = c
                             /\ IF writer[d].job = "merge" THEN mode = "merge"
                                ELSE GraphPayloads[writer[d].job].mode = mode}
AstDone(c) == \E d \in RunsOf(c, "pending") : writer[d].at = "done"
LayerOrder(c, mode) ==
    /\ mode = "merge" => RunsOf(c, "pending") = {} \/ AstDone(c)
    /\ mode = "pending" => RunsOf(c, "merge") = {} /\ ~AstDone(c)

Starts(d) ==
    /\ {e \in GraphDeliveries : e <= d /\ writer[e].at = "new"} = {d}
    /\ Cardinality({e \in GraphDeliveries : writer[e].at \notin Nowhere}) < GraphWorkers

Crossing(c) == crossed' = IF AtWorkOn(c) = {} THEN crossed ELSE crossed \cup {c}

\* A payload that fails validation is dropped before anything is read or written.
AcceptPayload(d, p) ==
    LET job == GraphPayloads[p] IN
    /\ writer' = [writer EXCEPT ![d] =
          [at |-> IF ValidPayload(job) /\ ValidateRenderedStatements(job) THEN "manifest" ELSE "skipped",
           job |-> p, commit |-> job.commit, next |-> 1, try |-> 1]]
    /\ Crossing(job.commit)
    /\ UNCHANGED <<pgVars, nebulaVars, graphFaults>>

\* A delivery of the code-graph-write queue.
TakePayload(d, p) == GraphPayloads[p].mode = "queue" /\ AcceptPayload(d, p)

\* An AST artifact, under a live lease and for a PENDING manifest; refused artifacts
\* leave no trace here (IndexPipeline has the subjob's side).
Ingest(d, p) ==
    /\ GraphPayloads[p].mode = "pending" /\ LayerOrder(GraphPayloads[p].commit, "pending")
    /\ manifestOf[GraphPayloads[p].commit] = "PENDING"
    /\ AcceptPayload(d, p)

Job(d) == GraphPayloads[writer[d].job]

CheckManifest(d) ==
    /\ writer[d].at = "manifest"
    /\ LET status == manifestOf[writer[d].commit] IN
       WriterAt(d, CASE status = "READY" -> "build"
                     [] status = "PENDING" -> IF Job(d).mode = "pending" THEN "build" ELSE "retry"
                     [] OTHER -> "skipped")
    /\ UNCHANGED <<pgVars, nebulaVars, crossed, graphFaults>>

MarkBuilding_Always(c) == [status |-> "BUILDING", anchorCount |-> 0, by |-> {}]

\* INSERT ... ON CONFLICT DO UPDATE: READY and SKIPPED are kept as they are.
MarkBuilding(c) ==
    IF graphIndex[c].status \in {"READY", "SKIPPED"} THEN graphIndex[c]
    ELSE [status |-> "BUILDING", anchorCount |-> 0, by |-> {}]

BeginBuild(d) ==
    /\ writer[d].at = "build"
    /\ LET row == MarkBuilding(writer[d].commit) IN
       /\ graphIndex' = [graphIndex EXCEPT ![writer[d].commit] = row]
       /\ WriterAt(d, CASE row.status = "READY" -> IF Job(d).mode = "queue" THEN "revision" ELSE "repair"
                        [] row.status = "SKIPPED" -> "done"
                        [] OTHER -> "store")
    /\ UNCHANGED <<manifestOf, anchorRows, factRows, edgeRows, revision, nebulaVars, crossed, graphFaults>>

\* WriteRenderedStatements of the pod's store: the no-op store skips, the store of a
\* pod that lost Nebula fails, the real one makes sure of the schema first.
ChooseStore(d, kind) ==
    /\ writer[d].at = "store"
    /\ WriterAt(d, CASE kind = "unconfigured" -> "skip"
                     [] kind = "unavailable" -> "fail"
                     [] OTHER -> "schema")
    /\ UNCHANGED <<pgVars, nebulaVars, crossed, graphFaults>>

EnsureSchema(d) ==
    /\ writer[d].at = "schema" /\ WriterAt(d, "insert")
    /\ UNCHANGED <<pgVars, nebulaVars, crossed, graphFaults>>

\* One statement is executed; Nebula upserts.
ExecuteStatement(d) ==
    /\ writer[d].at = "insert"
    /\ LET stmt == Job(d).statements[writer[d].next] IN
       /\ vertices' = vertices \cup (IF stmt.form = "VERTEX" THEN {row.vid : row \in stmt.rows} ELSE {})
       /\ edges' = edges \cup (IF stmt.form = "EDGE" THEN {EdgeOf(row) : row \in stmt.rows} ELSE {})
       /\ UNCHANGED stores
    /\ IF writer[d].next = Len(Job(d).statements) THEN WriterAt(d, "dropAnchors")
       ELSE writer' = [writer EXCEPT ![d].next = @ + 1, ![d].try = 1]
    /\ UNCHANGED <<pgVars, crossed, graphFaults>>

\* A schema that has not reached every storage node is retried, Attempts times.
ExecuteWithSchemaRetry(d) ==
    /\ writer[d].at = "insert"
    /\ IF writer[d].try < MaxStatementTries THEN writer' = [writer EXCEPT ![d].try = @ + 1]
       ELSE WriterAt(d, "fail")
    /\ UNCHANGED <<pgVars, nebulaVars, crossed, graphFaults>>

-----------------------------------------------------------------------------
\* persistRenderedSemanticRows: three DELETEs, three kinds of INSERT.
Statement(d, at, next) == writer[d].at = at /\ WriterAt(d, next) /\ UNCHANGED <<nebulaVars, crossed, graphFaults>>

DeleteAnchorRows(d) ==
    /\ Statement(d, "dropAnchors", "dropEdges")
    /\ anchorRows' = [anchorRows EXCEPT ![writer[d].commit] = {}]
    /\ UNCHANGED <<manifestOf, graphIndex, factRows, edgeRows, revision>>

DeleteEdgeRows(d) ==
    /\ Statement(d, "dropEdges", "dropFacts")
    /\ edgeRows' = [edgeRows EXCEPT ![writer[d].commit] = {}]
    /\ UNCHANGED <<manifestOf, graphIndex, factRows, anchorRows, revision>>

DeleteFactRows(d) ==
    /\ Statement(d, "dropFacts", "anchors")
    /\ factRows' = [factRows EXCEPT ![writer[d].commit] = {}]
    /\ UNCHANGED <<manifestOf, graphIndex, edgeRows, anchorRows, revision>>

InsertRenderedAnchors(d) ==
    /\ Statement(d, "anchors", "facts")
    /\ anchorRows' = [anchorRows EXCEPT ![writer[d].commit] = @ \cup Job(d).anchors]
    /\ UNCHANGED <<manifestOf, graphIndex, factRows, edgeRows, revision>>

InsertRenderedSemanticFacts(d) ==
    /\ Statement(d, "facts", "edges")
    /\ factRows' = [factRows EXCEPT ![writer[d].commit] = @ \cup ExtractRenderedRows[writer[d].job].vertices]
    /\ UNCHANGED <<manifestOf, graphIndex, anchorRows, edgeRows, revision>>

InsertRenderedSemanticEdges(d) ==
    /\ Statement(d, "edges", IF Job(d).mode = "queue" THEN "ready" ELSE "partial")
    /\ edgeRows' = [edgeRows EXCEPT ![writer[d].commit] = @ \cup ExtractRenderedRows[writer[d].job].edges]
    /\ UNCHANGED <<manifestOf, graphIndex, anchorRows, factRows, revision>>

SetIndex(d, row) ==
    /\ graphIndex' = [graphIndex EXCEPT ![writer[d].commit] = row]
    /\ UNCHANGED <<manifestOf, anchorRows, factRows, edgeRows, revision>>

\* No status in the WHERE clause of these three.
MarkReady(d) ==
    /\ Statement(d, "ready", "activate")
    /\ SetIndex(d, [status |-> "READY", anchorCount |-> Cardinality(Job(d).anchors),
                    by |-> {writer[d].job}])

MarkPartial(d) ==
    /\ Statement(d, "partial", "done")
    /\ SetIndex(d, [status |-> "PARTIAL", anchorCount |-> Cardinality(Job(d).anchors),
                    by |-> {writer[d].job}])

MarkSkipped(d) ==
    /\ Statement(d, "skip", "done")
    /\ SetIndex(d, [status |-> "SKIPPED", anchorCount |-> 0, by |-> {}])

\* WHERE status NOT IN ('READY', 'SKIPPED'); the delivery then ends in an error.
MarkGraphFailed(d) ==
    /\ Statement(d, "fail", "retry")
    /\ SetIndex(d, LET row == graphIndex[writer[d].commit] IN
                   IF row.status \in {"READY", "SKIPPED"} THEN row
                   ELSE [status |-> "FAILED", anchorCount |-> 0, by |-> {}])

\* INSERT ... SELECT ... WHERE EXISTS a READY manifest; otherwise the write is stale and
\* the delivery done.
UpsertRevisionIfManifestReady(d) ==
    LET current == manifestOf[writer[d].commit] = "READY" IN
    /\ \/ Statement(d, "revision", IF current THEN "repair" ELSE "done")
       \/ Statement(d, "activate", "done")
    /\ revision' = IF current THEN writer[d].commit ELSE revision
    /\ UNCHANGED <<manifestOf, graphIndex, anchorRows, factRows, edgeRows>>

\* Of a duplicate delivery.
RepairReadyGraphCounts(d) ==
    /\ Statement(d, "repair", "done")
    /\ SetIndex(d, LET c == writer[d].commit IN
                   IF graphIndex[c].status = "READY"
                   THEN [graphIndex[c] EXCEPT !.anchorCount = Cardinality(anchorRows[c])]
                   ELSE graphIndex[c])

WriterFails_Swallowed(d) ==
    /\ writer[d].at \notin Nowhere /\ GraphFault
    /\ WriterAt(d, CASE writer[d].at \in {"anchors", "facts", "edges"} ->
                          IF Job(d).mode = "queue" THEN "ready" ELSE "partial"
                     [] OTHER -> "retry")
    /\ UNCHANGED <<pgVars, nebulaVars, crossed>>

\* A statement fails: a failed write or persist goes through markFailed, any other one
\* ends the delivery with an error.  Or the process dies.
WriterFails(d) ==
    /\ writer[d].at \notin Nowhere /\ GraphFault
    /\ \/ WriterAt(d, IF writer[d].at \in {"schema", "insert", "dropAnchors", "dropEdges", "dropFacts",
                                           "anchors", "facts", "edges"} THEN "fail" ELSE "retry")
       \/ WriterAt(d, "dead")
    /\ UNCHANGED <<pgVars, nebulaVars, crossed>>

-----------------------------------------------------------------------------
\* mergeGraph, run as a delivery of its own.
TakeMerge(d, c) ==
    /\ manifestOf[c] = "PENDING" /\ LayerOrder(c, "merge")
    /\ writer' = [writer EXCEPT ![d] = [at |-> "resolve", job |-> "merge", commit |-> c, next |-> 1, try |-> 1]]
    /\ Crossing(c)
    /\ UNCHANGED <<pgVars, nebulaVars, graphFaults>>

\* The PARTIAL or READY row; without one, a row of its own if SCIP has evidence.
ResolvePartialGraphIndex(d) ==
    /\ writer[d].at = "resolve"
    /\ WriterAt(d, IF graphIndex[writer[d].commit].status \in {"PARTIAL", "READY"}
                   THEN IF Projected(writer[d].commit) THEN "mergeVertices" ELSE "promote"
                   ELSE IF Projected(writer[d].commit) THEN "create" ELSE "done")
    /\ UNCHANGED <<pgVars, nebulaVars, crossed, graphFaults>>

CreatePartialGraphIndexForSCIPOnly(d) ==
    /\ Statement(d, "create", "mergeVertices")
    /\ SetIndex(d, LET row == graphIndex[writer[d].commit] IN
                   IF row.status = "READY" THEN row
                   ELSE [status |-> "PARTIAL", anchorCount |-> row.anchorCount, by |-> row.by])

\* A store that is not Nebula answers SKIPPED or an error: the merge fails.
StoreRefuses(d) ==
    /\ stores # {"nebula"}
    /\ Statement(d, "mergeVertices", "retry")
    /\ UNCHANGED pgVars

\* writeSCIPSnapshotToGraph: the vertices in chunks, then the edges.
WriteSCIPVertices(d) ==
    /\ "nebula" \in stores
    /\ writer[d].at = "mergeVertices" /\ WriterAt(d, "mergeEdges")
    /\ vertices' = vertices \cup BuildSCIPSnapshot[writer[d].commit].vertices
    /\ UNCHANGED <<pgVars, edges, stores, crossed, graphFaults>>

WriteSCIPEdges(d) ==
    /\ writer[d].at = "mergeEdges" /\ WriterAt(d, "mergeFactRows")
    /\ edges' = edges \cup BuildSCIPSnapshot[writer[d].commit].edges
    /\ UNCHANGED <<pgVars, vertices, stores, crossed, graphFaults>>

InsertSCIPSemanticFacts(d) ==
    /\ Statement(d, "mergeFactRows", "mergeEdgeRows")
    /\ factRows' = [factRows EXCEPT ![writer[d].commit] = @ \cup BuildSCIPSnapshot[writer[d].commit].vertices]
    /\ UNCHANGED <<manifestOf, graphIndex, anchorRows, edgeRows, revision>>

InsertSCIPSemanticEdges(d) ==
    /\ Statement(d, "mergeEdgeRows", "promote")
    /\ edgeRows' = [edgeRows EXCEPT ![writer[d].commit] = @ \cup BuildSCIPSnapshot[writer[d].commit].edges]
    /\ UNCHANGED <<manifestOf, graphIndex, anchorRows, factRows, revision>>

\* PARTIAL becomes READY; a READY row is taken for a merge done before.
PromotePartialGraph(d) ==
    /\ writer[d].at = "promote"
    /\ LET c == writer[d].commit IN
       IF graphIndex[c].status = "PARTIAL"
       THEN /\ graphIndex' = [graphIndex EXCEPT ![c].status = "READY", ![c].by = @ \cup {"merge"}]
            /\ WriterAt(d, "done")
       ELSE /\ WriterAt(d, IF graphIndex[c].status = "READY" THEN "done" ELSE "retry")
            /\ UNCHANGED graphIndex
    /\ UNCHANGED <<manifestOf, anchorRows, factRows, edgeRows, revision, nebulaVars, crossed, graphFaults>>

-----------------------------------------------------------------------------
\* The manifest of c becomes READY, those before it SUPERSEDED.
Superseding(c) ==
    [x \in GraphCommits |->
        CASE x = c -> "READY"
          [] x # c /\ manifestOf[x] = "READY" -> "SUPERSEDED"
          [] x < c /\ manifestOf[x] = "PENDING" -> "SUPERSEDED"
          [] OTHER -> manifestOf[x]]

\* The ACTIVATE transaction of indexcore.
ActivateManifest(c) ==
    /\ manifestOf[c] = "PENDING" /\ graphIndex[c].status = "READY"
    /\ manifestOf' = Superseding(c)
    /\ revision' = c
    /\ UNCHANGED <<graphIndex, anchorRows, factRows, edgeRows, nebulaVars, writer, crossed, graphFaults>>

\* The indexer that feeds the queue marks its manifest itself, before the graph is
\* written (external: the handler only retries while the manifest is PENDING).
IndexerMarksManifest(c) ==
    /\ manifestOf[c] = "PENDING"
    /\ manifestOf' = Superseding(c)
    /\ UNCHANGED <<graphIndex, anchorRows, factRows, edgeRows, revision, nebulaVars, writer, crossed, graphFaults>>

-----------------------------------------------------------------------------
GraphInit ==
    /\ manifestOf = [c \in GraphCommits |-> "PENDING"]
    /\ graphIndex = [c \in GraphCommits |-> [status |-> "none", anchorCount |-> 0, by |-> {}]]
    /\ anchorRows = [c \in GraphCommits |-> {}]
    /\ factRows = [c \in GraphCommits |-> {}]
    /\ edgeRows = [c \in GraphCommits |-> {}]
    /\ vertices = {} /\ edges = {} /\ revision = 0 /\ stores \in Deployments
    /\ writer = [d \in GraphDeliveries |-> [at |-> "new", job |-> "", commit |-> 0, next |-> 1, try |-> 1]]
    /\ crossed = {} /\ graphFaults = 0

WriterStep(d) ==
    \/ Starts(d) /\ \/ \E p \in DOMAIN GraphPayloads : TakePayload(d, p) \/ Ingest(d, p)
                    \/ \E c \in DOMAIN ScipRows : TakeMerge(d, c)
    \/ \E kind \in stores : ChooseStore(d, kind)
    \/ CheckManifest(d) \/ BeginBuild(d) \/ EnsureSchema(d) \/ ExecuteStatement(d)
    \/ ExecuteWithSchemaRetry(d) \/ DeleteAnchorRows(d) \/ DeleteEdgeRows(d) \/ DeleteFactRows(d)
    \/ InsertRenderedAnchors(d) \/ InsertRenderedSemanticFacts(d) \/ InsertRenderedSemanticEdges(d)
    \/ MarkReady(d) \/ MarkPartial(d) \/ MarkSkipped(d) \/ MarkGraphFailed(d)
    \/ UpsertRevisionIfManifestReady(d) \/ RepairReadyGraphCounts(d) \/ WriterFails(d)
    \/ ResolvePartialGraphIndex(d) \/ CreatePartialGraphIndexForSCIPOnly(d) \/ WriteSCIPVertices(d) \/ StoreRefuses(d)
    \/ WriteSCIPEdges(d) \/ InsertSCIPSemanticFacts(d) \/ InsertSCIPSemanticEdges(d)
    \/ PromotePartialGraph(d)

GraphNext ==
    \/ \E d \in GraphDeliveries : WriterStep(d)
    \/ \E c \in GraphCommits : ActivateManifest(c) \/ IndexerMarksManifest(c)

GraphSpec == GraphInit /\ [][GraphNext]_graphVars

-----------------------------------------------------------------------------
\* One row, one status for a commit; what is stored is of known shape.
GraphTypeOK ==
    /\ \A c \in GraphCommits :
          /\ manifestOf[c] \in {"PENDING", "READY", "SUPERSEDED"}
          /\ graphIndex[c].status \in {"none", "BUILDING", "PARTIAL", "READY", "FAILED", "SKIPPED"}
    /\ revision \in GraphCommits \cup {0}
    /\ \A d \in GraphDeliveries : writer[d].try \in 1 .. MaxStatementTries

\* A snapshot that is READY is whole: when no two writers were at work on it at a time,
\* all that its writers meant to store is in Postgres and in Nebula, and its anchors
\* are counted, after any failure, crash, retry or duplicate.
ReadyIsWhole ==
    \A c \in GraphCommits \ crossed :
        graphIndex[c].status = "READY" =>
            /\ \A w \in graphIndex[c].by :
                  LET rows == IF w = "merge" THEN BuildSCIPSnapshot[c] ELSE ExtractRenderedRows[w] IN
                  /\ rows.vertices \subseteq factRows[c] \cap vertices
                  /\ rows.edges \subseteq edgeRows[c] \cap edges
            /\ graphIndex[c].anchorCount = Cardinality(anchorRows[c])

\* "a poison payload cannot downgrade an existing graph index", and no delivery alone
\* can: a snapshot stops being READY only if two writers crossed on it.
ReadyStays ==
    [][\A c \in GraphCommits : graphIndex[c].status = "READY" /\ graphIndex'[c].status # "READY" => c \in crossed]_graphVars

================================================================================
