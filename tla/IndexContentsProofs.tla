--------------------------- MODULE IndexContentsProofs ---------------------------
(***************************************************************************)
(* What the indexes are said to hold is there, for every history, payload  *)
(* and number of writers: the commit a repository is said to be indexed at *)
(* has the contents that are served (IndexPlanning), and a graph snapshot  *)
(* that is READY is whole and stays READY (GraphWrites).                   *)
(***************************************************************************)
EXTENDS IndexPlanning, GraphWrites, TLAPS

-----------------------------------------------------------------------------
(***************************************************************************)
(* The plan of an INDEX job.                                               *)
(***************************************************************************)

\* A tree gives the files of a commit, some of the paths, their blobs.
Trees == UNION {[files -> Blobs] : files \in SUBSET Paths}

PlanFields == {"phase", "commit", "plan", "subjobs", "skipped"}
PlanFits ==
    planning.phase = "planned" => DOMAIN planning = PlanFields /\ planning.commit \in 1..HeadCommit

\* Only commits that were pushed are planned or indexed, and the files of the
\* READY manifest are a tree or none.
PlanningInv ==
    /\ treeOf \in Seq(Trees) /\ HeadCommit >= 1
    /\ indexedCommit \in 0..HeadCommit
    /\ DOMAIN readyManifest.files = {} \/ readyManifest.files \in Trees
    /\ PlanFits
    /\ IndexedCommitIsServed

\* The files of a commit are known and have blobs.
LEMMA TreeFiles ==
    ASSUME NEW tree
    PROVE  tree \in Trees <=> DOMAIN tree \subseteq Paths /\ tree \in [DOMAIN tree -> Blobs]
  BY Zenon DEF Trees

\* What a push leaves is a tree again.
LEMMA EditsAreTrees ==
    ASSUME NEW tree \in Trees, NEW edited \in Edits(tree)
    PROVE  edited \in Trees
<1>0. DOMAIN tree \subseteq Paths /\ tree \in [DOMAIN tree -> Blobs]
  BY TreeFiles, Zenon
<1>1. ASSUME NEW p \in Paths, NEW b \in Blobs PROVE WithFile(tree, p, b) \in Trees
  <2>1. WithFile(tree, p, b) \in [DOMAIN tree \union {p} -> Blobs]
    BY <1>0, Zenon DEF WithFile
  <2> QED BY <1>0, <2>1, TreeFiles, Zenon
<1>2. ASSUME NEW p \in DOMAIN tree PROVE WithoutFile(tree, p) \in Trees
  <2>1. WithoutFile(tree, p) \in [DOMAIN tree \ {p} -> Blobs]
    BY <1>0, Zenon DEF WithoutFile
  <2> QED BY <1>0, <2>1, TreeFiles, Zenon
<1>3. \/ edited = tree
      \/ \E p \in Paths, b \in Blobs : edited = WithFile(tree, p, b)
      \/ \E p \in DOMAIN tree : edited = WithoutFile(tree, p)
  <2> DEFINE written == UNION {{WithFile(tree, p, b) : b \in Blobs} : p \in Paths}
             deleted == {WithoutFile(tree, p) :
                           p \in IF Cardinality(DOMAIN tree) = 1 THEN {} ELSE DOMAIN tree}
  <2>1. \A e \in written : \E p \in Paths, b \in Blobs : e = WithFile(tree, p, b)
    OBVIOUS
  <2>2. \A e \in deleted : \E p \in DOMAIN tree : e = WithoutFile(tree, p)
    OBVIOUS
  <2>3. edited \in ({tree} \union written) \union deleted
    BY Zenon DEF Edits
  <2> HIDE DEF written, deleted
  <2> QED BY <2>1, <2>2, <2>3, Zenon
<1> QED BY <1>1, <1>2, <1>3, Zenon

\* A plan that has nothing to do finds the contents of the READY manifest.
LEMMA NothingToDo ==
    ASSUME NEW previous, DOMAIN previous = {} \/ previous \in Trees, NEW current \in Trees,
           BuildManifestDeltaPlan(previous, current).mode = "NOOP"
    PROVE  previous = current
<1> DEFINE touched == Added(previous, current) \union Changed(previous, current)
<1>1. DOMAIN previous # {} /\ touched \union Deleted(previous, current) = {}
  BY Zenon DEF BuildManifestDeltaPlan, Strategies
<1>2. /\ previous \in [DOMAIN previous -> Blobs] /\ current \in [DOMAIN current -> Blobs]
  BY <1>1, TreeFiles, Zenon
<1>3. DOMAIN previous = DOMAIN current
  BY <1>1, Zenon DEF Added, Deleted
<1>4. \A f \in DOMAIN current : current[f] = previous[f]
  BY <1>1, <1>3, Zenon DEF Changed
<1> QED BY <1>2, <1>3, <1>4

\* A repair is not a plan with nothing to do.
LEMMA NothingToRepair ==
    ASSUME NEW commit, NEW files, NEW plan,
           WithSemanticRepair(commit, files, plan).mode = "NOOP"
    PROVE  /\ plan.mode = "NOOP"
           /\ ManifestHasSemanticCandidates(DOMAIN files) => commit \in graphOf
<1>1. ForceSemanticRepairPlan(DOMAIN files).mode # "NOOP"
  BY Zenon DEF ForceSemanticRepairPlan, Strategies
<1> QED BY <1>1, Zenon DEF WithSemanticRepair, NeedsRepair

\* A push adds a commit behind the others.
LEMMA PushKeeps ==
    ASSUME PlanningInv, Push
    PROVE  PlanningInv'
<1>0. treeOf[HeadCommit] \in Trees /\ HeadCommit \in Nat
  BY DEF PlanningInv, HeadCommit
<1>1. PICK edited \in Edits(treeOf[HeadCommit]) : treeOf' = Append(treeOf, edited)
  BY Zenon DEF Push
<1>2. edited \in Trees
  BY <1>0, EditsAreTrees, Zenon
<1>3. /\ treeOf' \in Seq(Trees) /\ HeadCommit' = HeadCommit + 1
      /\ \A c \in 1..HeadCommit : treeOf'[c] = treeOf[c]
  BY <1>1, <1>2 DEF PlanningInv, HeadCommit
<1>4. UNCHANGED <<readyManifest, graphOf, indexedCommit, planning>>
  BY Zenon DEF Push
<1>5. PlanFits'
  BY <1>0, <1>3, <1>4 DEF PlanningInv, PlanFits
<1>6. IndexedCommitIsServed'
  BY <1>0, <1>3, <1>4 DEF PlanningInv, IndexedCommitIsServed
<1> QED BY <1>0, <1>3, <1>4, <1>5, <1>6 DEF PlanningInv

\* An INDEX task plans the newest commit, or records it as indexed.
LEMMA PlanKeeps ==
    ASSUME PlanningInv, PlanSplitIndex
    PROVE  PlanningInv'
<1> DEFINE tree == treeOf[HeadCommit]
           delta == BuildManifestDeltaPlan(readyManifest.files, tree)
           plan == WithSemanticRepair(HeadCommit, tree, delta)
<1>0. tree \in Trees /\ HeadCommit \in Nat /\ HeadCommit \in 1..HeadCommit /\ HeadCommit # 0
  BY DEF PlanningInv, HeadCommit
<1>1. UNCHANGED <<treeOf, readyManifest, graphOf>> /\ UNCHANGED HeadCommit
  BY Zenon DEF PlanSplitIndex, HeadCommit
<1>2. CASE plan.mode = "NOOP"
  <2>1. indexedCommit' = HeadCommit /\ UNCHANGED planning
    BY <1>2, Zenon DEF PlanSplitIndex, RecordUsableIndexedRevision
  <2>2. delta.mode = "NOOP" /\ (ManifestHasSemanticCandidates(DOMAIN tree) => HeadCommit \in graphOf)
    BY <1>2, NothingToRepair, Zenon
  <2>3. readyManifest.files = tree
    BY <1>0, <2>2, NothingToDo, Zenon DEF PlanningInv
  <2>4. IndexedCommitIsServed'
    BY <1>1, <2>1, <2>2, <2>3, Zenon DEF IndexedCommitIsServed
  <2> QED BY <1>0, <1>1, <2>1, <2>4 DEF PlanningInv, PlanFits
<1>3. CASE plan.mode # "NOOP"
  <2>1. UNCHANGED indexedCommit
    BY <1>3, Zenon DEF PlanSplitIndex
  <2>2. PICK subjobs, skipped :
          planning' = [phase |-> "planned", commit |-> HeadCommit, plan |-> plan,
                       subjobs |-> subjobs, skipped |-> skipped]
    BY <1>3, Zenon DEF PlanSplitIndex
  <2>3. DOMAIN planning' = PlanFields /\ planning'.commit = HeadCommit
    BY <2>2, Zenon DEF PlanFields
  <2>4. PlanFits'
    BY <1>0, <1>1, <2>3, Zenon DEF PlanFits
  <2> QED BY <1>1, <2>1, <2>4, Zenon DEF PlanningInv, IndexedCommitIsServed
<1> QED BY <1>2, <1>3, Zenon

\* The subjobs run, or one of them fails.
LEMMA RunKeeps ==
    ASSUME PlanningInv, WritePlan \/ SubjobsComplete \/ PlanFails
    PROVE  PlanningInv'
<1>0. /\ planning.phase = "planned" /\ DOMAIN planning = PlanFields
      /\ planning.commit \in 1..HeadCommit /\ HeadCommit \in Nat
  BY DEF PlanningInv, PlanFits, HeadCommit, WritePlan, SubjobsComplete, PlanFails
<1>1. UNCHANGED treeOf /\ UNCHANGED HeadCommit
  BY Zenon DEF WritePlan, SubjobsComplete, PlanFails, HeadCommit
<1>2. CASE WritePlan
  <2>1. UNCHANGED <<readyManifest, graphOf, indexedCommit>>
    BY <1>2, Zenon DEF WritePlan
  <2>2. PICK subjobs : planning' = [planning EXCEPT !.subjobs = subjobs]
    BY <1>2, Zenon DEF WritePlan
  <2>3. DOMAIN planning' = PlanFields /\ planning'.commit = planning.commit
    BY <1>0, <2>2, Zenon DEF PlanFields
  <2>4. PlanFits'
    BY <1>0, <1>1, <2>3, Zenon DEF PlanFits
  <2> QED BY <1>1, <2>1, <2>4, Zenon DEF PlanningInv, IndexedCommitIsServed
<1>3. CASE SubjobsComplete
  <2>1. /\ readyManifest' = [commit |-> planning.commit, files |-> treeOf[planning.commit]]
        /\ graphOf' = graphOf \union {planning.commit}
        /\ indexedCommit' = planning.commit /\ planning' = NoPlan
    BY <1>3, Zenon DEF SubjobsComplete, GraphAfter
  <2>2. readyManifest'.files = treeOf[planning.commit] /\ readyManifest'.files \in Trees
    BY <1>0, <2>1 DEF PlanningInv, HeadCommit
  <2>3. PlanFits' /\ indexedCommit' \in 0..HeadCommit
    BY <1>0, <2>1 DEF PlanFits, NoPlan
  <2>4. IndexedCommitIsServed'
    BY <1>1, <2>1, <2>2, Zenon DEF IndexedCommitIsServed
  <2> QED BY <1>1, <2>2, <2>3, <2>4, Zenon DEF PlanningInv
<1>4. CASE PlanFails
  <2>1. UNCHANGED <<readyManifest, graphOf, indexedCommit>> /\ planning' = NoPlan
    BY <1>4, Zenon DEF PlanFails
  <2>2. PlanFits'
    BY <2>1, Zenon DEF PlanFits, NoPlan
  <2> QED BY <1>1, <2>1, <2>2, Zenon DEF PlanningInv, IndexedCommitIsServed
<1> QED BY <1>2, <1>3, <1>4, Zenon

\* The commit a repository is said to be indexed at has the contents that are
\* served, and a graph of its own where it has source files, through every
\* history of pushes, skipped runs, repairs and failures.
THEOREM IndexedCommitsAreServed == PlanningSpec => []IndexedCommitIsServed
<1>1. PlanningInit => PlanningInv
  <2> SUFFICES ASSUME PlanningInit PROVE PlanningInv
    OBVIOUS
  <2>1. PICK tree \in FirstTrees : treeOf = <<tree>>
    BY Zenon DEF PlanningInit
  <2>2. tree \in Trees
    BY PlanningConstants, TreeFiles, Zenon
  <2>3. treeOf \in Seq(Trees) /\ Len(treeOf) = 1
    BY <2>1, <2>2
  <2>4. DOMAIN readyManifest.files = {}
    BY DEF PlanningInit, NoManifest
  <2> QED BY <2>3, <2>4 DEF PlanningInit, PlanningInv, HeadCommit, PlanFits, NoPlan,
                            IndexedCommitIsServed
<1>2. PlanningInv /\ [PlanningNext]_planVars => PlanningInv'
  <2> SUFFICES ASSUME PlanningInv, [PlanningNext]_planVars PROVE PlanningInv'
    OBVIOUS
  <2>1. CASE PlanningNext
    BY <2>1, PushKeeps, PlanKeeps, RunKeeps, Zenon DEF PlanningNext
  <2>2. CASE UNCHANGED planVars
    BY <2>2, Zenon DEF planVars, PlanningInv, HeadCommit, PlanFits, IndexedCommitIsServed
  <2> QED BY <2>1, <2>2, Zenon
<1>3. PlanningInv => IndexedCommitIsServed
  BY Zenon DEF PlanningInv
<1> QED BY <1>1, <1>2, <1>3, PTL DEF PlanningSpec

-----------------------------------------------------------------------------
(***************************************************************************)
(* The writers of the graph.  A snapshot is whole because one writer at a  *)
(* time is at work on it (or the commit is in crossed), because its row    *)
(* says BUILDING while rows are replaced, and because the merge starts     *)
(* only where the AST layer left a settled row.                            *)
(***************************************************************************)

Building == {"store", "skip", "schema", "insert", "dropAnchors", "dropEdges", "dropFacts",
             "anchors", "facts", "edges", "ready", "partial", "fail"}
PayloadPcs == {"manifest", "build", "revision", "activate", "repair"} \cup Building
MergePcs == {"resolve", "create", "mergeVertices", "mergeEdges", "mergeFactRows",
             "mergeEdgeRows", "promote"}
WriterPcs == PayloadPcs \cup MergePcs \cup Nowhere
Busy == PayloadPcs \cup MergePcs
Writers == [at : WriterPcs, job : DOMAIN GraphPayloads \cup {"", "merge"},
            commit : GraphCommits \cup {0}, next : Nat, try : Nat]

RowFields == {"status", "anchorCount", "by"}
Settled == {"none", "PARTIAL", "READY", "SKIPPED"}
IndexStatuses == Settled \cup {"BUILDING", "FAILED"}

\* The rows a write stands for, and that they are stored.
RowsMeant(c, w) == IF w = "merge" THEN BuildSCIPSnapshot[c] ELSE ExtractRenderedRows[w]
Stored(c, w) ==
    /\ RowsMeant(c, w).vertices \subseteq factRows[c] \cap vertices
    /\ RowsMeant(c, w).edges \subseteq edgeRows[c] \cap edges
Counted(c) == graphIndex[c].anchorCount = Cardinality(anchorRows[c])
Sent(stmt, vs, es) ==
    /\ stmt.form = "VERTEX" => \A row \in stmt.rows : row.vid \in vs
    /\ stmt.form = "EDGE" => \A row \in stmt.rows : EdgeOf(row) \in es

\* An AST run for c, and that one is done.
PendingRun(w, c) == w.commit = c /\ w.job # "merge" /\ GraphPayloads[w.job].mode = "pending"
AstRun(ws, c) == \E d \in GraphDeliveries : PendingRun(ws[d], c)
AstEnded(ws, c) == \E d \in GraphDeliveries : PendingRun(ws[d], c) /\ ws[d].at = "done"

\* A writer has a commit and a job, and a store its step can use.
JobFits(w, kinds) ==
    /\ w.at = "new" => w.commit = 0
    /\ w.at # "new" => w.commit \in GraphCommits
    /\ w.at \in PayloadPcs => /\ w.job \in DOMAIN GraphPayloads
                              /\ GraphPayloads[w.job].commit = w.commit
                              /\ Len(GraphPayloads[w.job].statements) >= 1
    /\ w.at \in MergePcs => w.job = "merge" /\ w.commit \in DOMAIN ScipRows
    /\ w.at = "skip" => "nebula" \notin kinds
    /\ w.at \in Building \ {"store", "skip", "fail"} => "nebula" \in kinds

\* What its step says is in Nebula is there.
SentFits(w, vs, es) ==
    /\ w.at = "insert" =>
          /\ w.next \in 1..Len(GraphPayloads[w.job].statements)
          /\ \A k \in 1..(w.next - 1) : Sent(GraphPayloads[w.job].statements[k], vs, es)
    /\ w.at \in {"dropAnchors", "dropEdges", "dropFacts", "anchors", "facts", "edges", "ready",
                 "partial"} =>
          \A k \in 1..Len(GraphPayloads[w.job].statements) :
              Sent(GraphPayloads[w.job].statements[k], vs, es)
    /\ w.at \in {"mergeEdges", "mergeFactRows", "mergeEdgeRows", "promote"} =>
          BuildSCIPSnapshot[w.commit].vertices \subseteq vs
    /\ w.at \in {"mergeFactRows", "mergeEdgeRows", "promote"} =>
          BuildSCIPSnapshot[w.commit].edges \subseteq es

\* A queued payload is written for a READY manifest.
ManifestFits(w, manifests) ==
    w.at \in PayloadPcs \ {"manifest"} /\ GraphPayloads[w.job].mode = "queue" =>
        manifests[w.commit] # "PENDING"

\* The row and the rows of a commit that no two writers were at work on.
RowFits(w, row, ws) ==
    /\ w.at \in Building => row.status = "BUILDING"
    /\ w.at \in {"revision", "activate", "repair"} => row.status = "READY"
    /\ w.at \in MergePcs => row.status \in Settled
    /\ w.at \in PayloadPcs /\ GraphPayloads[w.job].mode = "pending" => ~AstEnded(ws, w.commit)
RowsFit(w, anchors, facts, es) ==
    /\ w.at \in {"dropEdges", "dropFacts", "anchors"} => anchors = {}
    /\ w.at \in {"facts", "edges", "ready", "partial"} => anchors = GraphPayloads[w.job].anchors
    /\ w.at \in {"edges", "ready", "partial"} => ExtractRenderedRows[w.job].vertices \subseteq facts
    /\ w.at \in {"ready", "partial"} => ExtractRenderedRows[w.job].edges \subseteq es
    /\ w.at \in {"mergeEdgeRows", "promote"} => BuildSCIPSnapshot[w.commit].vertices \subseteq facts
    /\ w.at = "promote" => BuildSCIPSnapshot[w.commit].edges \subseteq es

WriterFits(d) ==
    /\ JobFits(writer[d], stores)
    /\ SentFits(writer[d], vertices, edges)
    /\ ManifestFits(writer[d], manifestOf)
    /\ writer[d].at \in Busy /\ writer[d].commit \notin crossed =>
          /\ RowFits(writer[d], graphIndex[writer[d].commit], writer)
          /\ RowsFit(writer[d], anchorRows[writer[d].commit], factRows[writer[d].commit],
                     edgeRows[writer[d].commit])

\* A settled row has its rows; an unsettled one of a PENDING manifest is that
\* of an AST layer that is not done.
CommitFits(c) ==
    /\ "nebula" \notin stores => anchorRows[c] = {}
    /\ c \notin crossed =>
          /\ graphIndex[c].status \in Settled =>
                (\A w \in graphIndex[c].by : Stored(c, w)) /\ Counted(c)
          /\ manifestOf[c] = "PENDING" /\ graphIndex[c].status \notin Settled =>
                AstRun(writer, c) /\ ~AstEnded(writer, c)

GraphTypes ==
    /\ writer \in [GraphDeliveries -> Writers]
    /\ DOMAIN graphIndex = GraphCommits /\ DOMAIN manifestOf = GraphCommits
    /\ DOMAIN anchorRows = GraphCommits /\ DOMAIN factRows = GraphCommits
    /\ DOMAIN edgeRows = GraphCommits
    /\ stores \in Deployments
    /\ \A c \in GraphCommits : /\ DOMAIN graphIndex[c] = RowFields
                               /\ graphIndex[c].status \in IndexStatuses

OneWriter ==
    \A d, e \in GraphDeliveries :
        /\ writer[d].at \in Busy /\ writer[e].at \in Busy
        /\ writer[d].commit = writer[e].commit /\ writer[d].commit \notin crossed
        => d = e

GraphInv ==
    /\ GraphTypes
    /\ OneWriter
    /\ \A d \in GraphDeliveries : WriterFits(d)
    /\ \A c \in GraphCommits : CommitFits(c)

\* The AST runs of a commit, as the merge sees them.
LEMMA AstLinks ==
    ASSUME NEW c
    PROVE  /\ AstDone(c) <=> AstEnded(writer, c)
           /\ RunsOf(c, "pending") = {} <=> ~AstRun(writer, c)
  BY Zenon DEF AstDone, AstEnded, AstRun, RunsOf, PendingRun

\* A step of writer d, in its own record.
LEMMA MovesTo ==
    ASSUME GraphTypes, NEW d \in GraphDeliveries, NEW at \in WriterPcs, WriterAt(d, at)
    PROVE  \E w \in Writers : /\ writer' = [writer EXCEPT ![d] = w]
                              /\ w.at = at /\ w.job = writer[d].job
                              /\ w.commit = writer[d].commit /\ w.next = 1 /\ w.try = 1
<1>1. writer[d] \in Writers
  BY Zenon DEF GraphTypes
<1>2. PICK one \in Nat : one = 1
  OBVIOUS
<1>3. PICK w \in Writers : w = [writer[d] EXCEPT !.at = at, !.next = one, !.try = one]
  BY <1>1, Zenon DEF Writers
<1>4. /\ w.at = at /\ w.job = writer[d].job /\ w.commit = writer[d].commit
      /\ w.next = one /\ w.try = one
  BY <1>1, <1>3, Zenon DEF Writers
<1>5. writer' = [writer EXCEPT ![d] = [writer[d] EXCEPT !.at = at, !.next = one, !.try = one]]
  BY <1>2, Zenon DEF WriterAt, GraphTypes
<1> QED BY <1>2, <1>3, <1>4, <1>5, Zenon

\* It leaves the AST runs as they are, unless it ends one.
LEMMA AstUnmoved ==
    ASSUME writer \in [GraphDeliveries -> Writers], NEW d \in GraphDeliveries, NEW w \in Writers,
           w.job = writer[d].job, w.commit = writer[d].commit, writer[d].at # "done",
           writer' = [writer EXCEPT ![d] = w], NEW c
    PROVE  /\ AstRun(writer', c) <=> AstRun(writer, c)
           /\ w.at # "done" \/ ~PendingRun(w, c) => (AstEnded(writer', c) <=> AstEnded(writer, c))
<1>1. \A e \in GraphDeliveries : PendingRun(writer'[e], c) <=> PendingRun(writer[e], c)
  BY Zenon DEF PendingRun
<1>2. AstRun(writer', c) <=> AstRun(writer, c)
  BY <1>1, Zenon DEF AstRun
<1>3. ASSUME w.at # "done" \/ ~PendingRun(w, c), NEW e \in GraphDeliveries
      PROVE  PendingRun(writer'[e], c) /\ writer'[e].at = "done"
                <=> PendingRun(writer[e], c) /\ writer[e].at = "done"
  <2>1. CASE e = d
    BY <1>1, <1>3, <2>1, Zenon
  <2>2. CASE e # d
    BY <1>1, <2>2, Zenon
  <2> QED BY <2>1, <2>2, Zenon
<1> QED BY <1>2, <1>3, Zenon DEF AstEnded

\* What was sent stays in Nebula.
LEMMA SentStays ==
    ASSUME vertices \subseteq vertices', edges \subseteq edges', NEW w,
           SentFits(w, vertices, edges)
    PROVE  SentFits(w, vertices', edges')
<1>1. \A stmt : Sent(stmt, vertices, edges) => Sent(stmt, vertices', edges')
  BY Zenon DEF Sent
<1> QED BY <1>1, Zenon DEF SentFits

\* A writer changes the rows of its own commit only; the others are elsewhere,
\* or the commit is crossed.
LEMMA LocalKeeps ==
    ASSUME GraphInv, GraphTypes', NEW d \in GraphDeliveries, NEW w \in Writers,
           writer' = [writer EXCEPT ![d] = w], writer[d].at \in Busy, w.at # "new",
           w.job = writer[d].job, w.commit = writer[d].commit,
           UNCHANGED <<crossed, stores, manifestOf>>,
           vertices \subseteq vertices', edges \subseteq edges',
           \A c \in GraphCommits \ {w.commit} :
               /\ graphIndex'[c] = graphIndex[c] /\ anchorRows'[c] = anchorRows[c]
               /\ factRows'[c] = factRows[c] /\ edgeRows'[c] = edgeRows[c],
           JobFits(w, stores), SentFits(w, vertices', edges'), ManifestFits(w, manifestOf),
           w.at \in Busy /\ w.commit \notin crossed =>
               /\ RowFits(w, graphIndex'[w.commit], writer')
               /\ RowsFit(w, anchorRows'[w.commit], factRows'[w.commit], edgeRows'[w.commit]),
           \A c \in {w.commit} : CommitFits(c)'
    PROVE  GraphInv'
<1>1. /\ writer'[d] = w /\ \A e \in GraphDeliveries \ {d} : writer'[e] = writer[e]
      /\ writer \in [GraphDeliveries -> Writers]
  BY Zenon DEF GraphInv, GraphTypes
<1>2. writer[d].at # "done"
  BY Zenon DEF Busy, PayloadPcs, MergePcs, Building
<1>3. OneWriter'
  BY <1>1 DEF GraphInv, OneWriter
<1>4. WriterFits(d)'
  BY <1>1, Zenon DEF WriterFits
<1>5. ASSUME NEW e \in GraphDeliveries \ {d} PROVE WriterFits(e)'
  <2>1. /\ JobFits(writer[e], stores) /\ SentFits(writer[e], vertices', edges')
        /\ ManifestFits(writer[e], manifestOf)
    BY SentStays, Zenon DEF GraphInv, WriterFits
  <2>2. CASE writer[e].at \in Busy /\ writer[e].commit \notin crossed
    <3>1. writer[e].commit # w.commit
      BY <2>2, <1>5, Zenon DEF GraphInv, OneWriter
    <3>2. writer[e].commit \in GraphCommits
      BY <2>1, <2>2, Zenon DEF JobFits, Busy, PayloadPcs, MergePcs, Building
    <3>3. AstEnded(writer', writer[e].commit) <=> AstEnded(writer, writer[e].commit)
      BY <1>1, <1>2, <3>1, AstUnmoved, Zenon DEF PendingRun
    <3>4. /\ RowFits(writer[e], graphIndex[writer[e].commit], writer)
          /\ RowsFit(writer[e], anchorRows[writer[e].commit], factRows[writer[e].commit],
                     edgeRows[writer[e].commit])
      BY <1>5, <2>2, Zenon DEF GraphInv, WriterFits
    <3>5. RowFits(writer[e], graphIndex'[writer[e].commit], writer')
      BY <3>1, <3>2, <3>3, <3>4, Zenon DEF RowFits
    <3>6. RowsFit(writer[e], anchorRows'[writer[e].commit], factRows'[writer[e].commit],
                  edgeRows'[writer[e].commit])
      BY <3>1, <3>2, <3>4, Zenon
    <3> QED BY <1>1, <2>1, <3>5, <3>6, Zenon DEF WriterFits
  <2>3. CASE ~(writer[e].at \in Busy /\ writer[e].commit \notin crossed)
    BY <1>1, <2>1, <2>3, Zenon DEF WriterFits
  <2> QED BY <2>2, <2>3, Zenon
<1>6. ASSUME NEW c \in GraphCommits, c # w.commit PROVE CommitFits(c)'
  <2>1. CommitFits(c)
    BY Zenon DEF GraphInv
  <2>2. \A x : Stored(c, x) => Stored(c, x)'
    BY <1>6, Zenon DEF Stored
  <2>3. Counted(c)' <=> Counted(c)
    BY <1>6, Zenon DEF Counted
  <2>4. /\ AstEnded(writer', c) <=> AstEnded(writer, c)
        /\ AstRun(writer', c) <=> AstRun(writer, c)
    BY <1>1, <1>2, <1>6, AstUnmoved, Zenon DEF PendingRun
  <2> QED BY <1>6, <2>1, <2>2, <2>3, <2>4, Zenon DEF CommitFits
<1> QED BY <1>3, <1>4, <1>5, <1>6, Zenon DEF GraphInv

-----------------------------------------------------------------------------
\* A writer that moves on and changes no row.
LEMMA PcMoves ==
    ASSUME GraphInv, NEW d \in GraphDeliveries, NEW w \in Writers,
           writer' = [writer EXCEPT ![d] = w], writer[d].at \in Busy, w.at # "new",
           w.job = writer[d].job, w.commit = writer[d].commit,
           UNCHANGED <<crossed, stores, manifestOf, graphIndex, anchorRows, factRows, edgeRows>>,
           vertices \subseteq vertices', edges \subseteq edges',
           JobFits(w, stores), SentFits(w, vertices', edges'), ManifestFits(w, manifestOf),
           w.commit \notin crossed =>
               /\ w.at \in Busy =>
                     /\ RowFits(w, graphIndex[w.commit], writer)
                     /\ RowsFit(w, anchorRows[w.commit], factRows[w.commit], edgeRows[w.commit])
               /\ w.at = "done" /\ PendingRun(w, w.commit) => graphIndex[w.commit].status \in Settled
    PROVE  GraphInv'
<1>1. writer \in [GraphDeliveries -> Writers] /\ w.commit \in GraphCommits
  BY Zenon DEF GraphInv, GraphTypes, JobFits
<1>2. writer[d].at # "done"
  BY Zenon DEF Busy, PayloadPcs, MergePcs, Building
<1>3. PICK c \in GraphCommits : c = w.commit
  BY <1>1, Zenon
<1>4. /\ AstRun(writer', c) <=> AstRun(writer, c)
      /\ w.at # "done" \/ ~PendingRun(w, c) => (AstEnded(writer', c) <=> AstEnded(writer, c))
  BY <1>1, <1>2, AstUnmoved, Zenon
<1>5. ASSUME w.at \in Busy, w.commit \notin crossed
      PROVE  RowFits(w, graphIndex[w.commit], writer')
  <2>1. w.at # "done"
    BY <1>5, Zenon DEF Busy, PayloadPcs, MergePcs, Building
  <2> QED BY <1>3, <1>4, <1>5, <2>1, Zenon DEF RowFits
<1>6. CommitFits(c)'
  <2>1. CommitFits(c)
    BY Zenon DEF GraphInv
  <2>2. (\A x : Stored(c, x) => Stored(c, x)') /\ (Counted(c)' <=> Counted(c))
    BY Zenon DEF Stored, Counted
  <2> QED BY <1>3, <1>4, <2>1, <2>2, Zenon DEF CommitFits
<1>7. GraphTypes'
  BY <1>1, Zenon DEF GraphInv, GraphTypes
<1> QED BY <1>3, <1>5, <1>6, <1>7, LocalKeeps, Zenon

\* What holds of a writer at work.
LEMMA AtWorkFits ==
    ASSUME GraphInv, NEW d \in GraphDeliveries, writer[d].at \in Busy
    PROVE  /\ writer[d] \in Writers /\ writer[d].commit \in GraphCommits
           /\ JobFits(writer[d], stores) /\ SentFits(writer[d], vertices, edges)
           /\ ManifestFits(writer[d], manifestOf)
           /\ writer[d].commit \notin crossed =>
                 /\ RowFits(writer[d], graphIndex[writer[d].commit], writer)
                 /\ RowsFit(writer[d], anchorRows[writer[d].commit], factRows[writer[d].commit],
                            edgeRows[writer[d].commit])
  BY Zenon DEF GraphInv, GraphTypes, WriterFits, JobFits, Busy, PayloadPcs, MergePcs, Building

\* A writer that gives up or ends leaves its job.
LEMMA LeavesWork ==
    ASSUME GraphInv, NEW d \in GraphDeliveries, writer[d].at \in Busy,
           NEW at \in Nowhere \ {"new"}, WriterAt(d, at),
           UNCHANGED <<crossed, nebulaVars, manifestOf, graphIndex, anchorRows, factRows, edgeRows>>,
           at = "done" => \/ ~PendingRun(writer[d], writer[d].commit)
                          \/ writer[d].commit \in crossed
                          \/ graphIndex[writer[d].commit].status \in Settled
    PROVE  GraphInv'
<1>1. /\ GraphTypes /\ writer[d].commit \in GraphCommits /\ at \in WriterPcs
      /\ at \notin Busy
  BY AtWorkFits, Zenon DEF GraphInv, WriterPcs, Nowhere, Busy, PayloadPcs, MergePcs, Building
<1>2. PICK w \in Writers : /\ writer' = [writer EXCEPT ![d] = w]
                           /\ w.at = at /\ w.job = writer[d].job /\ w.commit = writer[d].commit
  BY <1>1, MovesTo
<1>3. JobFits(w, stores) /\ SentFits(w, vertices', edges') /\ ManifestFits(w, manifestOf)
  BY <1>1, <1>2, Zenon DEF JobFits, SentFits, ManifestFits, Nowhere, PayloadPcs, MergePcs, Building
<1>4. PendingRun(w, w.commit) => PendingRun(writer[d], writer[d].commit)
  BY <1>2, Zenon DEF PendingRun
<1> QED BY <1>1, <1>2, <1>3, <1>4, PcMoves, Zenon DEF nebulaVars

\* The manifest is looked up.
LEMMA ManifestChecked ==
    ASSUME GraphInv, NEW d \in GraphDeliveries, CheckManifest(d)
    PROVE  GraphInv'
<1>0. writer[d].at = "manifest" /\ writer[d].at \in Busy /\ "build" \in WriterPcs
      /\ "manifest" \in PayloadPcs
  BY Zenon DEF CheckManifest, Busy, PayloadPcs, WriterPcs
<1>u. UNCHANGED <<crossed, nebulaVars, manifestOf, graphIndex, anchorRows, factRows, edgeRows>>
  BY Zenon DEF CheckManifest, pgVars
<1>1. CASE WriterAt(d, "build") /\ (Job(d).mode = "queue" => manifestOf[writer[d].commit] # "PENDING")
  <2>1. PICK w \in Writers : /\ writer' = [writer EXCEPT ![d] = w]
                             /\ w.at = "build" /\ w.job = writer[d].job
                             /\ w.commit = writer[d].commit
    BY <1>0, <1>1, MovesTo DEF GraphInv
  <2>2. JobFits(w, stores) /\ SentFits(w, vertices', edges') /\ ManifestFits(w, manifestOf)
    BY <1>0, <1>1, <2>1, AtWorkFits, Zenon
       DEF JobFits, SentFits, ManifestFits, PayloadPcs, MergePcs, Building, Job
  <2>3. w.commit \notin crossed =>
           /\ RowFits(w, graphIndex[w.commit], writer)
           /\ RowsFit(w, anchorRows[w.commit], factRows[w.commit], edgeRows[w.commit])
    BY <1>0, <2>1, AtWorkFits, Zenon DEF RowFits, RowsFit, PayloadPcs, MergePcs, Building
  <2> QED BY <1>0, <1>u, <2>1, <2>2, <2>3, PcMoves, Zenon DEF nebulaVars
<1>2. CASE WriterAt(d, "retry") \/ WriterAt(d, "skipped")
  BY <1>0, <1>u, <1>2, LeavesWork, Zenon DEF Nowhere
<1> QED BY <1>1, <1>2, Zenon DEF CheckManifest

\* The pod's store is asked.
LEMMA StoreChosen ==
    ASSUME GraphInv, NEW d \in GraphDeliveries, NEW kind \in stores, ChooseStore(d, kind)
    PROVE  GraphInv'
<1>0. /\ writer[d].at = "store" /\ writer[d].at \in Busy
      /\ UNCHANGED <<crossed, nebulaVars, manifestOf, graphIndex, anchorRows, factRows, edgeRows>>
  BY Zenon DEF ChooseStore, Busy, PayloadPcs, Building, pgVars
<1>1. PICK at \in {"skip", "fail", "schema"} :
         /\ WriterAt(d, at)
         /\ at = "skip" => kind = "unconfigured"
         /\ at = "schema" => kind \notin {"unconfigured", "unavailable"}
  BY Zenon DEF ChooseStore
<1>2. /\ at = "skip" => "nebula" \notin stores
      /\ at = "schema" => "nebula" \in stores
  <2>1. stores \subseteq {"nebula", "unavailable"} \/ stores = {"unconfigured"}
    BY GraphConstants, Zenon DEF GraphInv, GraphTypes
  <2> QED BY <1>1, <2>1, Zenon
<1>3. PICK w \in Writers : /\ writer' = [writer EXCEPT ![d] = w]
                           /\ w.at = at /\ w.job = writer[d].job /\ w.commit = writer[d].commit
  BY <1>1, MovesTo DEF GraphInv, WriterPcs, PayloadPcs, Building
<1>4. JobFits(w, stores) /\ SentFits(w, vertices', edges') /\ ManifestFits(w, manifestOf)
  BY <1>0, <1>2, <1>3, AtWorkFits, Zenon
     DEF JobFits, SentFits, ManifestFits, PayloadPcs, MergePcs, Building
<1>5. w.commit \notin crossed =>
         /\ RowFits(w, graphIndex[w.commit], writer)
         /\ RowsFit(w, anchorRows[w.commit], factRows[w.commit], edgeRows[w.commit])
  BY <1>0, <1>3, AtWorkFits, Zenon DEF RowFits, RowsFit, PayloadPcs, MergePcs, Building
<1>6. w.at # "new" /\ w.at # "done"
  BY <1>3, Zenon
<1> QED BY <1>0, <1>3, <1>4, <1>5, <1>6, PcMoves, Zenon DEF nebulaVars

\* The schema is there.
LEMMA SchemaEnsured ==
    ASSUME GraphInv, NEW d \in GraphDeliveries, EnsureSchema(d)
    PROVE  GraphInv'
<1>0. /\ writer[d].at = "schema" /\ writer[d].at \in Busy /\ WriterAt(d, "insert")
      /\ UNCHANGED <<crossed, nebulaVars, manifestOf, graphIndex, anchorRows, factRows, edgeRows>>
  BY Zenon DEF EnsureSchema, Busy, PayloadPcs, Building, pgVars
<1>1. PICK w \in Writers : /\ writer' = [writer EXCEPT ![d] = w] /\ w.at = "insert"
                           /\ w.job = writer[d].job /\ w.commit = writer[d].commit /\ w.next = 1
  BY <1>0, MovesTo DEF GraphInv, WriterPcs, PayloadPcs, Building
<1>2. JobFits(w, stores) /\ ManifestFits(w, manifestOf)
  BY <1>0, <1>1, AtWorkFits, Zenon DEF JobFits, ManifestFits, PayloadPcs, MergePcs, Building
<1>3. SentFits(w, vertices', edges')
  <2>1. Len(GraphPayloads[w.job].statements) \in Nat /\ Len(GraphPayloads[w.job].statements) >= 1
    <3>1. w.job \in DOMAIN GraphPayloads /\ Len(GraphPayloads[w.job].statements) >= 1
      BY <1>1, <1>2, Zenon DEF JobFits, PayloadPcs, Building
    <3>2. GraphPayloads[w.job].statements \in Seq(Statements(w.job))
      BY <3>1, GraphConstants, Zenon
    <3> QED BY <3>1, <3>2
  <2> QED BY <1>1, <2>1 DEF SentFits
<1>4. w.commit \notin crossed =>
         /\ RowFits(w, graphIndex[w.commit], writer)
         /\ RowsFit(w, anchorRows[w.commit], factRows[w.commit], edgeRows[w.commit])
  BY <1>0, <1>1, AtWorkFits, Zenon DEF RowFits, RowsFit, PayloadPcs, MergePcs, Building
<1> QED BY <1>0, <1>1, <1>2, <1>3, <1>4, PcMoves, Zenon DEF nebulaVars

\* A writer that goes to markFailed had set the row to BUILDING.
LEMMA GoesToFail ==
    ASSUME GraphInv, NEW d \in GraphDeliveries, WriterAt(d, "fail"),
           writer[d].at \in Building,
           UNCHANGED <<crossed, nebulaVars, manifestOf, graphIndex, anchorRows, factRows, edgeRows>>
    PROVE  GraphInv'
<1>0. writer[d].at \in Busy
  BY Zenon DEF Busy, PayloadPcs
<1>1. PICK w \in Writers : /\ writer' = [writer EXCEPT ![d] = w] /\ w.at = "fail"
                           /\ w.job = writer[d].job /\ w.commit = writer[d].commit
  BY MovesTo DEF GraphInv, WriterPcs, PayloadPcs, Building
<1>2. JobFits(w, stores) /\ SentFits(w, vertices', edges') /\ ManifestFits(w, manifestOf)
  BY <1>0, <1>1, AtWorkFits, Zenon DEF JobFits, SentFits, ManifestFits, PayloadPcs, MergePcs, Building
<1>3. w.commit \notin crossed =>
         /\ RowFits(w, graphIndex[w.commit], writer)
         /\ RowsFit(w, anchorRows[w.commit], factRows[w.commit], edgeRows[w.commit])
  BY <1>0, <1>1, AtWorkFits, Zenon DEF RowFits, RowsFit, PayloadPcs, MergePcs, Building
<1> QED BY <1>0, <1>1, <1>2, <1>3, PcMoves, Zenon DEF nebulaVars

\* A statement fails, or the process dies.
LEMMA WriterFailed ==
    ASSUME GraphInv, NEW d \in GraphDeliveries, WriterFails(d)
    PROVE  GraphInv'
<1>0. /\ writer[d].at \notin Nowhere /\ writer[d] \in Writers
      /\ UNCHANGED <<crossed, nebulaVars, manifestOf, graphIndex, anchorRows, factRows, edgeRows>>
  BY Zenon DEF WriterFails, pgVars, GraphInv, GraphTypes
<1>1. writer[d].at \in Busy
  BY <1>0, Zenon DEF Writers, WriterPcs, Busy
<1>2. CASE WriterAt(d, "fail") /\ writer[d].at \in Building
  BY <1>0, <1>2, GoesToFail, Zenon
<1>3. CASE WriterAt(d, "retry") \/ WriterAt(d, "dead")
  BY <1>0, <1>1, <1>3, LeavesWork, Zenon DEF Nowhere
<1> QED BY <1>2, <1>3, Zenon DEF WriterFails, Building

\* A statement is tried again, or given up.
LEMMA StatementRetried ==
    ASSUME GraphInv, NEW d \in GraphDeliveries, ExecuteWithSchemaRetry(d)
    PROVE  GraphInv'
<1>0. /\ writer[d].at = "insert" /\ writer[d].at \in Busy /\ writer[d].at \in Building
      /\ UNCHANGED <<crossed, nebulaVars, manifestOf, graphIndex, anchorRows, factRows, edgeRows>>
      /\ writer[d] \in Writers
  BY Zenon DEF ExecuteWithSchemaRetry, Busy, PayloadPcs, Building, pgVars, GraphInv, GraphTypes
<1>1. CASE writer' = [writer EXCEPT ![d].try = @ + 1]
  <2>0. writer[d].try \in Nat
    BY <1>0, Zenon DEF Writers
  <2>1. PICK n \in Nat : n = writer[d].try + 1
    BY <2>0
  <2>2. PICK w \in Writers : w = [writer[d] EXCEPT !.try = n]
    BY <1>0, Zenon DEF Writers
  <2>3. /\ w.at = "insert" /\ w.job = writer[d].job /\ w.commit = writer[d].commit
        /\ w.next = writer[d].next
    BY <1>0, <2>2, Zenon DEF Writers
  <2>4. writer' = [writer EXCEPT ![d] = w]
    BY <1>1, <2>1, <2>2, Zenon
  <2>5. JobFits(w, stores) /\ ManifestFits(w, manifestOf)
    BY <1>0, <2>3, AtWorkFits, Zenon DEF JobFits, ManifestFits, PayloadPcs, MergePcs, Building
  <2>6. SentFits(w, vertices', edges')
    BY <1>0, <2>3, AtWorkFits, Zenon DEF SentFits, nebulaVars
  <2>7. w.commit \notin crossed =>
           /\ RowFits(w, graphIndex[w.commit], writer)
           /\ RowsFit(w, anchorRows[w.commit], factRows[w.commit], edgeRows[w.commit])
    BY <1>0, <2>3, AtWorkFits, Zenon DEF RowFits, RowsFit, PayloadPcs, MergePcs, Building
  <2> QED BY <1>0, <2>3, <2>4, <2>5, <2>6, <2>7, PcMoves, Zenon DEF nebulaVars
<1>2. CASE WriterAt(d, "fail")
  BY <1>0, <1>2, GoesToFail, Zenon
<1> QED BY <1>1, <1>2, Zenon DEF ExecuteWithSchemaRetry

\* One statement of the payload is executed.
LEMMA StatementExecuted ==
    ASSUME GraphInv, NEW d \in GraphDeliveries, ExecuteStatement(d)
    PROVE  GraphInv'
<1> DEFINE stmts == GraphPayloads[writer[d].job].statements
           n == writer[d].next
<1>0. /\ writer[d].at = "insert" /\ writer[d].at \in Busy /\ writer[d].at \in Building
      /\ UNCHANGED <<crossed, stores, manifestOf, graphIndex, anchorRows, factRows, edgeRows>>
      /\ writer[d] \in Writers
  BY Zenon DEF ExecuteStatement, Busy, PayloadPcs, Building, pgVars, GraphInv, GraphTypes
<1>1. /\ vertices' = vertices \cup (IF stmts[n].form = "VERTEX" THEN {row.vid : row \in stmts[n].rows} ELSE {})
      /\ edges' = edges \cup (IF stmts[n].form = "EDGE" THEN {EdgeOf(row) : row \in stmts[n].rows} ELSE {})
  BY Zenon DEF ExecuteStatement, Job
<1>2. vertices \subseteq vertices' /\ edges \subseteq edges'
  BY <1>1, Zenon
<1>3. Sent(stmts[n], vertices', edges')
  BY <1>1, Zenon DEF Sent
<1>4. Len(stmts) \in Nat /\ n \in Nat /\ n \in 1..Len(stmts)
  <2>1. writer[d].job \in DOMAIN GraphPayloads /\ n \in 1..Len(stmts)
    BY <1>0, AtWorkFits, Zenon DEF JobFits, SentFits, PayloadPcs, Building
  <2>2. stmts \in Seq(Statements(writer[d].job))
    BY <2>1, GraphConstants, Zenon
  <2>3. Len(stmts) \in Nat
    BY <2>2
  <2> QED BY <2>1, <2>3
<1>5. \A k \in 1..n : Sent(stmts[k], vertices', edges')
  <2>1. \A k \in 1..(n - 1) : Sent(stmts[k], vertices, edges)
    BY <1>0, AtWorkFits, Zenon DEF SentFits
  <2>2. \A k \in 1..(n - 1) : Sent(stmts[k], vertices', edges')
    BY <1>2, <2>1, Zenon DEF Sent
  <2>3. \A k \in 1..n : k = n \/ k \in 1..(n - 1)
    BY <1>4
  <2> QED BY <1>3, <2>2, <2>3, Zenon
<1>6. ASSUME NEW w \in Writers, writer' = [writer EXCEPT ![d] = w], w.job = writer[d].job,
             w.commit = writer[d].commit,
             \/ w.at = "insert" /\ w.next = n + 1 /\ n # Len(stmts)
             \/ w.at = "dropAnchors" /\ n = Len(stmts)
      PROVE  GraphInv'
  <2>1. JobFits(w, stores) /\ ManifestFits(w, manifestOf)
    BY <1>0, <1>6, AtWorkFits, Zenon DEF JobFits, ManifestFits, PayloadPcs, MergePcs, Building
  <2>2. SentFits(w, vertices', edges')
    <3>1. CASE w.at = "insert" /\ w.next = n + 1 /\ n # Len(stmts)
      <4>1. w.next \in 1..Len(stmts) /\ w.next - 1 = n
        BY <1>4, <3>1
      <4> QED BY <1>5, <1>6, <3>1, <4>1, Zenon DEF SentFits
    <3>2. CASE w.at = "dropAnchors" /\ n = Len(stmts)
      BY <1>5, <1>6, <3>2, Zenon DEF SentFits
    <3> QED BY <1>6, <3>1, <3>2, Zenon
  <2>3. w.commit \notin crossed =>
           /\ RowFits(w, graphIndex[w.commit], writer)
           /\ RowsFit(w, anchorRows[w.commit], factRows[w.commit], edgeRows[w.commit])
    BY <1>0, <1>6, AtWorkFits, Zenon DEF RowFits, RowsFit, PayloadPcs, MergePcs, Building
  <2>4. w.at # "new" /\ w.at # "done"
    BY <1>6, Zenon
  <2> QED BY <1>0, <1>2, <1>6, <2>1, <2>2, <2>3, <2>4, PcMoves, Zenon
<1>7. CASE n = Len(stmts)
  <2>1. WriterAt(d, "dropAnchors")
    BY <1>7, Zenon DEF ExecuteStatement, Job
  <2> QED BY <1>6, <1>7, <2>1, MovesTo, Zenon DEF GraphInv, WriterPcs, PayloadPcs, Building
<1>8. CASE n # Len(stmts)
  <2>1. writer' = [writer EXCEPT ![d].next = @ + 1, ![d].try = 1]
    BY <1>8, Zenon DEF ExecuteStatement, Job
  <2>2. PICK m \in Nat, one \in Nat : m = n + 1 /\ one = 1
    BY <1>4
  <2>3. PICK w \in Writers : w = [writer[d] EXCEPT !.next = m, !.try = one]
    BY <1>0, Zenon DEF Writers
  <2>4. /\ w.at = "insert" /\ w.job = writer[d].job /\ w.commit = writer[d].commit
        /\ w.next = m
    BY <1>0, <2>3, Zenon DEF Writers
  <2>5. writer' = [writer EXCEPT ![d] = w]
    BY <2>1, <2>2, <2>3, Zenon DEF GraphInv, GraphTypes
  <2> QED BY <1>6, <1>8, <2>2, <2>4, <2>5, Zenon
<1> QED BY <1>7, <1>8, Zenon

\* The revision is switched to the commit, if its manifest is READY.
LEMMA RevisionUpserted ==
    ASSUME GraphInv, NEW d \in GraphDeliveries, UpsertRevisionIfManifestReady(d)
    PROVE  GraphInv'
<1>0. /\ writer[d].at \in {"revision", "activate"} /\ writer[d].at \in Busy
      /\ UNCHANGED <<crossed, nebulaVars, manifestOf, graphIndex, anchorRows, factRows, edgeRows>>
  BY Zenon DEF UpsertRevisionIfManifestReady, Statement, Busy, PayloadPcs
<1>1. writer[d].commit \notin crossed => graphIndex[writer[d].commit].status = "READY"
  BY <1>0, AtWorkFits, Zenon DEF RowFits
<1>2. CASE WriterAt(d, "done")
  BY <1>0, <1>1, <1>2, LeavesWork, Zenon DEF Nowhere, Settled
<1>3. CASE WriterAt(d, "repair")
  <2>1. PICK w \in Writers : /\ writer' = [writer EXCEPT ![d] = w] /\ w.at = "repair"
                             /\ w.job = writer[d].job /\ w.commit = writer[d].commit
    BY <1>3, MovesTo DEF GraphInv, WriterPcs, PayloadPcs, Building
  <2>2. JobFits(w, stores) /\ SentFits(w, vertices', edges') /\ ManifestFits(w, manifestOf)
    BY <1>0, <2>1, AtWorkFits, Zenon DEF JobFits, SentFits, ManifestFits, PayloadPcs, MergePcs, Building
  <2>3. w.commit \notin crossed =>
           /\ RowFits(w, graphIndex[w.commit], writer)
           /\ RowsFit(w, anchorRows[w.commit], factRows[w.commit], edgeRows[w.commit])
    BY <1>0, <1>1, <2>1, AtWorkFits, Zenon DEF RowFits, RowsFit, PayloadPcs, MergePcs, Building
  <2> QED BY <1>0, <2>1, <2>2, <2>3, PcMoves, Zenon DEF nebulaVars
<1> QED BY <1>2, <1>3, Zenon DEF UpsertRevisionIfManifestReady, Statement

\* The merge looks for the row of its commit.
LEMMA RowResolved ==
    ASSUME GraphInv, NEW d \in GraphDeliveries, ResolvePartialGraphIndex(d)
    PROVE  GraphInv'
<1>0. /\ writer[d].at = "resolve" /\ writer[d].at \in Busy
      /\ UNCHANGED <<crossed, nebulaVars, manifestOf, graphIndex, anchorRows, factRows, edgeRows>>
      /\ writer[d].at \in MergePcs
  BY Zenon DEF ResolvePartialGraphIndex, Busy, MergePcs, pgVars
<1>1. writer[d].job = "merge" /\ ~PendingRun(writer[d], writer[d].commit)
  BY <1>0, AtWorkFits, Zenon DEF JobFits, PendingRun
<1>2. PICK at \in {"mergeVertices", "promote", "create", "done"} :
         /\ WriterAt(d, at)
         /\ at = "promote" => ~Projected(writer[d].commit)
  BY Zenon DEF ResolvePartialGraphIndex
<1>3. CASE at = "done"
  BY <1>0, <1>1, <1>2, <1>3, LeavesWork, Zenon DEF Nowhere
<1>4. CASE at # "done"
  <2>1. PICK w \in Writers : /\ writer' = [writer EXCEPT ![d] = w] /\ w.at = at
                             /\ w.job = writer[d].job /\ w.commit = writer[d].commit
    BY <1>2, MovesTo DEF GraphInv, WriterPcs, MergePcs, Nowhere
  <2>2. JobFits(w, stores) /\ ManifestFits(w, manifestOf)
    BY <1>0, <1>1, <1>4, <2>1, AtWorkFits, Zenon
       DEF JobFits, ManifestFits, PayloadPcs, MergePcs, Building
  <2>3. at = "promote" => /\ BuildSCIPSnapshot[w.commit].vertices = {}
                          /\ BuildSCIPSnapshot[w.commit].edges = {}
    BY <1>2, <2>1 DEF Projected
  <2>4. SentFits(w, vertices', edges')
    BY <1>4, <2>1, <2>3, Zenon DEF SentFits
  <2>5. w.commit \notin crossed =>
           /\ RowFits(w, graphIndex[w.commit], writer)
           /\ RowsFit(w, anchorRows[w.commit], factRows[w.commit], edgeRows[w.commit])
    BY <1>0, <1>4, <2>1, <2>3, AtWorkFits, Zenon DEF RowFits, RowsFit, PayloadPcs, MergePcs, Building
  <2>6. w.at # "new" /\ w.at # "done"
    BY <1>4, <2>1, Zenon
  <2> QED BY <1>0, <2>1, <2>2, <2>4, <2>5, <2>6, PcMoves, Zenon DEF nebulaVars
<1> QED BY <1>3, <1>4, Zenon

\* A store that is not Nebula refuses the merge.
LEMMA MergeRefused ==
    ASSUME GraphInv, NEW d \in GraphDeliveries, StoreRefuses(d)
    PROVE  GraphInv'
<1>1. /\ writer[d].at \in Busy /\ WriterAt(d, "retry")
      /\ UNCHANGED <<crossed, nebulaVars, manifestOf, graphIndex, anchorRows, factRows, edgeRows>>
  BY Zenon DEF StoreRefuses, Statement, Busy, MergePcs, pgVars
<1> QED BY <1>1, LeavesWork, Zenon DEF Nowhere

\* The projection goes to Nebula.
LEMMA ProjectionSent ==
    ASSUME GraphInv, NEW d \in GraphDeliveries, WriteSCIPVertices(d) \/ WriteSCIPEdges(d)
    PROVE  GraphInv'
<1>0. /\ writer[d].at \in {"mergeVertices", "mergeEdges"}
      /\ writer[d].at \in Busy /\ writer[d].at \in MergePcs
      /\ UNCHANGED <<crossed, stores, manifestOf, graphIndex, anchorRows, factRows, edgeRows>>
      /\ vertices \subseteq vertices' /\ edges \subseteq edges'
  BY Zenon DEF WriteSCIPVertices, WriteSCIPEdges, Busy, MergePcs, pgVars
<1>1. PICK at \in {"mergeEdges", "mergeFactRows"} :
         /\ WriterAt(d, at)
         /\ BuildSCIPSnapshot[writer[d].commit].vertices \subseteq vertices'
         /\ at = "mergeFactRows" => BuildSCIPSnapshot[writer[d].commit].edges \subseteq edges'
  <2>1. CASE WriteSCIPVertices(d)
    BY <2>1, Zenon DEF WriteSCIPVertices
  <2>2. CASE WriteSCIPEdges(d)
    <3>1. writer[d].at = "mergeEdges" /\ vertices' = vertices
      BY <2>2, Zenon DEF WriteSCIPEdges
    <3>2. BuildSCIPSnapshot[writer[d].commit].vertices \subseteq vertices
      BY <1>0, <3>1, AtWorkFits, Zenon DEF SentFits
    <3> QED BY <2>2, <3>1, <3>2, Zenon DEF WriteSCIPEdges
  <2> QED BY <2>1, <2>2, Zenon
<1>2. PICK w \in Writers : /\ writer' = [writer EXCEPT ![d] = w] /\ w.at = at
                           /\ w.job = writer[d].job /\ w.commit = writer[d].commit
  BY <1>1, MovesTo DEF GraphInv, WriterPcs, MergePcs
<1>3. JobFits(w, stores) /\ ManifestFits(w, manifestOf)
  BY <1>0, <1>2, AtWorkFits, Zenon DEF JobFits, ManifestFits, PayloadPcs, MergePcs, Building
<1>4. SentFits(w, vertices', edges')
  BY <1>1, <1>2, Zenon DEF SentFits
<1>5. w.commit \notin crossed =>
         /\ RowFits(w, graphIndex[w.commit], writer)
         /\ RowsFit(w, anchorRows[w.commit], factRows[w.commit], edgeRows[w.commit])
  BY <1>0, <1>2, AtWorkFits, Zenon DEF RowFits, RowsFit, PayloadPcs, MergePcs, Building
<1>6. w.at # "new" /\ w.at # "done"
  BY <1>2, Zenon
<1> QED BY <1>0, <1>2, <1>3, <1>4, <1>5, <1>6, PcMoves, Zenon

-----------------------------------------------------------------------------
\* A writer that changes the rows of its commit and not the row that counts
\* them: this one says BUILDING, or rows are only added.
LEMMA RowsMove ==
    ASSUME GraphInv, NEW d \in GraphDeliveries, NEW w \in Writers,
           writer' = [writer EXCEPT ![d] = w], writer[d].at \in Busy, w.at \in Busy,
           w.job = writer[d].job, w.commit = writer[d].commit,
           UNCHANGED <<crossed, stores, manifestOf, graphIndex, vertices, edges>>,
           DOMAIN anchorRows' = GraphCommits, DOMAIN factRows' = GraphCommits,
           DOMAIN edgeRows' = GraphCommits,
           \A c \in GraphCommits \ {w.commit} :
               /\ anchorRows'[c] = anchorRows[c] /\ factRows'[c] = factRows[c]
               /\ edgeRows'[c] = edgeRows[c],
           \/ graphIndex[w.commit].status = "BUILDING" \/ w.commit \in crossed
           \/ /\ anchorRows'[w.commit] = anchorRows[w.commit]
              /\ factRows[w.commit] \subseteq factRows'[w.commit]
              /\ edgeRows[w.commit] \subseteq edgeRows'[w.commit],
           "nebula" \in stores \/ anchorRows'[w.commit] = anchorRows[w.commit],
           JobFits(w, stores), SentFits(w, vertices, edges), ManifestFits(w, manifestOf),
           w.commit \notin crossed =>
               /\ RowFits(w, graphIndex[w.commit], writer)
               /\ RowsFit(w, anchorRows'[w.commit], factRows'[w.commit], edgeRows'[w.commit])
    PROVE  GraphInv'
<1>1. /\ writer \in [GraphDeliveries -> Writers] /\ w.at # "new" /\ w.at # "done"
      /\ writer[d].at # "done"
  BY Zenon DEF GraphInv, GraphTypes, Busy, PayloadPcs, MergePcs, Building
<1>2. PICK c \in GraphCommits : c = w.commit
  BY <1>1, Zenon DEF JobFits
<1>3. /\ AstRun(writer', c) <=> AstRun(writer, c)
      /\ AstEnded(writer', c) <=> AstEnded(writer, c)
  BY <1>1, AstUnmoved, Zenon
<1>4. w.commit \notin crossed => RowFits(w, graphIndex[w.commit], writer')
  BY <1>2, <1>3, Zenon DEF RowFits
<1>5. CommitFits(c)'
  <2>1. CommitFits(c)
    BY Zenon DEF GraphInv
  <2>2. CASE c \in crossed
    BY <1>2, <2>1, <2>2, Zenon DEF CommitFits
  <2>3. CASE graphIndex[c].status = "BUILDING"
    BY <1>2, <1>3, <2>1, <2>3, Zenon DEF CommitFits, Settled
  <2>4. CASE /\ anchorRows'[c] = anchorRows[c] /\ factRows[c] \subseteq factRows'[c]
             /\ edgeRows[c] \subseteq edgeRows'[c]
    <3>1. (\A x : Stored(c, x) => Stored(c, x)') /\ (Counted(c)' <=> Counted(c))
      BY <2>4, Zenon DEF Stored, Counted
    <3> QED BY <1>2, <1>3, <2>1, <2>4, <3>1, Zenon DEF CommitFits
  <2> QED BY <1>2, <2>2, <2>3, <2>4, Zenon
<1>6. GraphTypes'
  BY <1>1, Zenon DEF GraphInv, GraphTypes
<1>7. \A x \in {w.commit} : CommitFits(x)'
  BY <1>2, <1>5, Zenon
<1> QED BY <1>1, <1>4, <1>6, <1>7, LocalKeeps, Zenon

\* A statement of persistRenderedSemanticRows: the row says BUILDING.
LEMMA BuildingRows ==
    ASSUME GraphInv, NEW d \in GraphDeliveries,
           NEW at \in {"dropEdges", "dropFacts", "anchors", "facts", "edges", "ready", "partial"},
           writer[d].at \in {"dropAnchors", "dropEdges", "dropFacts", "anchors", "facts", "edges"},
           WriterAt(d, at), UNCHANGED <<crossed, nebulaVars, manifestOf, graphIndex>>,
           DOMAIN anchorRows' = GraphCommits, DOMAIN factRows' = GraphCommits,
           DOMAIN edgeRows' = GraphCommits,
           \A c \in GraphCommits \ {writer[d].commit} :
               /\ anchorRows'[c] = anchorRows[c] /\ factRows'[c] = factRows[c]
               /\ edgeRows'[c] = edgeRows[c],
           writer[d].commit \notin crossed =>
               \A w \in Writers : w.at = at /\ w.job = writer[d].job /\ w.commit = writer[d].commit
                   => RowsFit(w, anchorRows'[w.commit], factRows'[w.commit], edgeRows'[w.commit])
    PROVE  GraphInv'
<1>0. /\ writer[d].at \in Busy /\ writer[d].at \in PayloadPcs
      /\ writer[d].at \in Building \ {"store", "skip", "fail"}
  BY Zenon DEF Busy, PayloadPcs, Building
<1>1. PICK w \in Writers : /\ writer' = [writer EXCEPT ![d] = w] /\ w.at = at
                           /\ w.job = writer[d].job /\ w.commit = writer[d].commit
  BY MovesTo DEF GraphInv, WriterPcs, PayloadPcs, Building
<1>2. /\ w.at \in Busy /\ w.at \in PayloadPcs /\ w.at \notin MergePcs
      /\ w.at \in Building \ {"store", "skip", "fail"} /\ w.at # "insert" /\ w.at # "manifest"
      /\ writer[d].at # "manifest" /\ w.at \notin {"revision", "activate", "repair"}
  BY <1>1, Zenon DEF Busy, PayloadPcs, MergePcs, Building
<1>3. JobFits(w, stores) /\ ManifestFits(w, manifestOf) /\ "nebula" \in stores
  BY <1>0, <1>1, <1>2, AtWorkFits, ZenonT(60) DEF JobFits, ManifestFits
<1>4. SentFits(w, vertices, edges)
  BY <1>0, <1>1, AtWorkFits, Zenon DEF SentFits
<1>5. w.commit \notin crossed => /\ graphIndex[w.commit].status = "BUILDING"
                                 /\ RowFits(w, graphIndex[w.commit], writer)
  BY <1>0, <1>1, <1>2, AtWorkFits, ZenonT(60) DEF RowFits
<1> QED BY <1>0, <1>1, <1>2, <1>3, <1>4, <1>5, RowsMove, Zenon DEF nebulaVars

\* The rows of before are dropped.
LEMMA RowsDropped ==
    ASSUME GraphInv, NEW d \in GraphDeliveries,
           DeleteAnchorRows(d) \/ DeleteEdgeRows(d) \/ DeleteFactRows(d)
    PROVE  GraphInv'
<1>0. /\ GraphTypes
      /\ writer[d].at \in {"dropAnchors", "dropEdges", "dropFacts"}
      /\ UNCHANGED <<crossed, nebulaVars, manifestOf, graphIndex>>
  BY Zenon DEF GraphInv, DeleteAnchorRows, DeleteEdgeRows, DeleteFactRows, Statement
<1>1. writer[d].at \in Busy
  BY <1>0, Zenon DEF Busy, PayloadPcs, Building
<1>2. /\ writer[d].commit \in GraphCommits
      /\ writer[d].commit \notin crossed =>
            RowsFit(writer[d], anchorRows[writer[d].commit], factRows[writer[d].commit],
                    edgeRows[writer[d].commit])
  BY <1>1, AtWorkFits, Zenon
<1>3. CASE DeleteAnchorRows(d)
  <2>1. /\ anchorRows' = [anchorRows EXCEPT ![writer[d].commit] = {}]
        /\ factRows' = factRows /\ edgeRows' = edgeRows /\ WriterAt(d, "dropEdges")
    BY <1>3, Zenon DEF DeleteAnchorRows, Statement
  <2>2. \A w \in Writers : w.at = "dropEdges" /\ w.commit = writer[d].commit
            => RowsFit(w, anchorRows'[w.commit], factRows'[w.commit], edgeRows'[w.commit])
    BY <1>0, <1>2, <2>1, Zenon DEF RowsFit, GraphTypes
  <2> QED BY <1>0, <2>1, <2>2, BuildingRows, Zenon DEF GraphTypes
<1>4. CASE DeleteEdgeRows(d)
  <2>1. /\ edgeRows' = [edgeRows EXCEPT ![writer[d].commit] = {}] /\ writer[d].at = "dropEdges"
        /\ factRows' = factRows /\ anchorRows' = anchorRows /\ WriterAt(d, "dropFacts")
    BY <1>4, Zenon DEF DeleteEdgeRows, Statement
  <2>2. writer[d].commit \notin crossed =>
           \A w \in Writers : w.at = "dropFacts" /\ w.commit = writer[d].commit
               => RowsFit(w, anchorRows'[w.commit], factRows'[w.commit], edgeRows'[w.commit])
    BY <1>2, <2>1, Zenon DEF RowsFit
  <2> QED BY <1>0, <2>1, <2>2, BuildingRows, Zenon DEF GraphTypes
<1>5. CASE DeleteFactRows(d)
  <2>1. /\ factRows' = [factRows EXCEPT ![writer[d].commit] = {}] /\ writer[d].at = "dropFacts"
        /\ edgeRows' = edgeRows /\ anchorRows' = anchorRows /\ WriterAt(d, "anchors")
    BY <1>5, Zenon DEF DeleteFactRows, Statement
  <2>2. writer[d].commit \notin crossed =>
           \A w \in Writers : w.at = "anchors" /\ w.commit = writer[d].commit
               => RowsFit(w, anchorRows'[w.commit], factRows'[w.commit], edgeRows'[w.commit])
    BY <1>2, <2>1, Zenon DEF RowsFit
  <2> QED BY <1>0, <2>1, <2>2, BuildingRows, Zenon DEF GraphTypes
<1> QED BY <1>3, <1>4, <1>5, Zenon

\* The payload's rows are inserted.
LEMMA RowsInserted ==
    ASSUME GraphInv, NEW d \in GraphDeliveries,
           \/ InsertRenderedAnchors(d) \/ InsertRenderedSemanticFacts(d)
           \/ InsertRenderedSemanticEdges(d)
    PROVE  GraphInv'
<1>0. /\ GraphTypes
      /\ writer[d].at \in {"anchors", "facts", "edges"}
      /\ UNCHANGED <<crossed, nebulaVars, manifestOf, graphIndex>>
  BY Zenon DEF GraphInv, InsertRenderedAnchors, InsertRenderedSemanticFacts, InsertRenderedSemanticEdges,
         Statement
<1>1. writer[d].at \in Busy
  BY <1>0, Zenon DEF Busy, PayloadPcs, Building
<1>2. /\ writer[d].commit \in GraphCommits
      /\ writer[d].commit \notin crossed =>
            RowsFit(writer[d], anchorRows[writer[d].commit], factRows[writer[d].commit],
                    edgeRows[writer[d].commit])
  BY <1>1, AtWorkFits, Zenon
<1>3. CASE InsertRenderedAnchors(d)
  <2>1. /\ anchorRows' = [anchorRows EXCEPT ![writer[d].commit] = @ \cup GraphPayloads[writer[d].job].anchors]
        /\ factRows' = factRows /\ edgeRows' = edgeRows /\ WriterAt(d, "facts")
        /\ writer[d].at = "anchors"
    BY <1>3, Zenon DEF InsertRenderedAnchors, Statement, Job
  <2>2. writer[d].commit \notin crossed =>
           \A w \in Writers : w.at = "facts" /\ w.job = writer[d].job /\ w.commit = writer[d].commit
               => RowsFit(w, anchorRows'[w.commit], factRows'[w.commit], edgeRows'[w.commit])
    BY <1>0, <1>2, <2>1, Zenon DEF RowsFit, GraphTypes
  <2> QED BY <1>0, <2>1, <2>2, BuildingRows, Zenon DEF GraphTypes
<1>4. CASE InsertRenderedSemanticFacts(d)
  <2>1. /\ factRows' = [factRows EXCEPT ![writer[d].commit] = @ \cup ExtractRenderedRows[writer[d].job].vertices]
        /\ anchorRows' = anchorRows /\ edgeRows' = edgeRows /\ WriterAt(d, "edges")
        /\ writer[d].at = "facts"
    BY <1>4, Zenon DEF InsertRenderedSemanticFacts, Statement
  <2>2. writer[d].commit \notin crossed =>
           \A w \in Writers : w.at = "edges" /\ w.job = writer[d].job /\ w.commit = writer[d].commit
               => RowsFit(w, anchorRows'[w.commit], factRows'[w.commit], edgeRows'[w.commit])
    BY <1>0, <1>2, <2>1, Zenon DEF RowsFit, GraphTypes
  <2> QED BY <1>0, <2>1, <2>2, BuildingRows, Zenon DEF GraphTypes
<1>5. CASE InsertRenderedSemanticEdges(d)
  <2>1. /\ edgeRows' = [edgeRows EXCEPT ![writer[d].commit] = @ \cup ExtractRenderedRows[writer[d].job].edges]
        /\ anchorRows' = anchorRows /\ factRows' = factRows
        /\ writer[d].at = "edges"
    BY <1>5, Zenon DEF InsertRenderedSemanticEdges, Statement
  <2>2. PICK at \in {"ready", "partial"} : WriterAt(d, at)
    BY <1>5, Zenon DEF InsertRenderedSemanticEdges, Statement
  <2>3. writer[d].commit \notin crossed =>
           \A w \in Writers : w.at = at /\ w.job = writer[d].job /\ w.commit = writer[d].commit
               => RowsFit(w, anchorRows'[w.commit], factRows'[w.commit], edgeRows'[w.commit])
    BY <1>0, <1>2, <2>1, <2>2, Zenon DEF RowsFit, GraphTypes
  <2> QED BY <1>0, <2>1, <2>2, <2>3, BuildingRows, Zenon DEF GraphTypes
<1> QED BY <1>3, <1>4, <1>5, Zenon

\* The projection's rows are added to a settled row.
LEMMA ProjectionInserted ==
    ASSUME GraphInv, NEW d \in GraphDeliveries,
           InsertSCIPSemanticFacts(d) \/ InsertSCIPSemanticEdges(d)
    PROVE  GraphInv'
<1>0. /\ GraphTypes
      /\ writer[d].at \in {"mergeFactRows", "mergeEdgeRows"}
      /\ UNCHANGED <<crossed, nebulaVars, manifestOf, graphIndex, anchorRows>>
  BY Zenon DEF GraphInv, InsertSCIPSemanticFacts, InsertSCIPSemanticEdges, Statement
<1>1. writer[d].at \in Busy /\ writer[d].at \in MergePcs
  BY <1>0, Zenon DEF Busy, MergePcs
<1>2. writer[d].commit \in GraphCommits
  BY <1>1, AtWorkFits, Zenon
<1>3. PICK at \in {"mergeEdgeRows", "promote"} :
         /\ WriterAt(d, at)
         /\ \/ /\ at = "mergeEdgeRows" /\ edgeRows' = edgeRows
               /\ factRows' = [factRows EXCEPT ![writer[d].commit] = @ \cup BuildSCIPSnapshot[writer[d].commit].vertices]
            \/ /\ writer[d].at = "mergeEdgeRows" /\ factRows' = factRows
               /\ edgeRows' = [edgeRows EXCEPT ![writer[d].commit] = @ \cup BuildSCIPSnapshot[writer[d].commit].edges]
  BY Zenon DEF InsertSCIPSemanticFacts, InsertSCIPSemanticEdges, Statement
<1>4. PICK w \in Writers : /\ writer' = [writer EXCEPT ![d] = w] /\ w.at = at
                           /\ w.job = writer[d].job /\ w.commit = writer[d].commit
  BY <1>3, MovesTo DEF GraphInv, WriterPcs, MergePcs
<1>5. /\ w.at \in Busy /\ w.at \in MergePcs /\ w.at \notin PayloadPcs /\ w.at \notin Building
  BY <1>4, Zenon DEF Busy, PayloadPcs, MergePcs, Building
<1>6. JobFits(w, stores) /\ ManifestFits(w, manifestOf)
  BY <1>1, <1>4, <1>5, AtWorkFits, Zenon DEF JobFits, ManifestFits, Building
<1>7. SentFits(w, vertices, edges)
  BY <1>0, <1>1, <1>4, AtWorkFits, Zenon DEF SentFits
<1>8. w.commit \notin crossed => RowFits(w, graphIndex[w.commit], writer)
  BY <1>1, <1>4, <1>5, AtWorkFits, Zenon DEF RowFits
<1>9. w.commit \notin crossed =>
         RowsFit(w, anchorRows'[w.commit], factRows'[w.commit], edgeRows'[w.commit])
  <2> SUFFICES ASSUME w.commit \notin crossed
               PROVE  /\ BuildSCIPSnapshot[w.commit].vertices \subseteq factRows'[w.commit]
                      /\ w.at = "promote" => BuildSCIPSnapshot[w.commit].edges \subseteq edgeRows'[w.commit]
    BY <1>3, <1>4, Zenon DEF RowsFit
  <2>1. w.commit \in DOMAIN factRows /\ w.commit \in DOMAIN edgeRows
    BY <1>0, <1>2, <1>4, Zenon DEF GraphTypes
  <2>2. writer[d].at = "mergeEdgeRows" => BuildSCIPSnapshot[w.commit].vertices \subseteq factRows[w.commit]
    BY <1>1, <1>4, AtWorkFits, Zenon DEF RowsFit
  <2>3. CASE factRows' = factRows
    BY <1>3, <1>4, <2>1, <2>2, <2>3, Zenon
  <2>4. CASE factRows' # factRows
    BY <1>3, <1>4, <2>1, <2>4, Zenon
  <2> QED BY <2>3, <2>4, Zenon
<1>10. /\ DOMAIN anchorRows' = GraphCommits /\ DOMAIN factRows' = GraphCommits
       /\ DOMAIN edgeRows' = GraphCommits
       /\ \A c \in GraphCommits \ {w.commit} :
             /\ anchorRows'[c] = anchorRows[c] /\ factRows'[c] = factRows[c]
             /\ edgeRows'[c] = edgeRows[c]
       /\ anchorRows'[w.commit] = anchorRows[w.commit]
       /\ factRows[w.commit] \subseteq factRows'[w.commit]
       /\ edgeRows[w.commit] \subseteq edgeRows'[w.commit]
  BY <1>0, <1>2, <1>3, <1>4, ZenonT(60) DEF GraphTypes
<1> QED BY <1>0, <1>1, <1>4, <1>5, <1>6, <1>7, <1>8, <1>9, <1>10, RowsMove, Zenon DEF nebulaVars

-----------------------------------------------------------------------------
\* A writer that sets the row of its commit.
LEMMA StatusMoves ==
    ASSUME GraphInv, NEW d \in GraphDeliveries, NEW w \in Writers, NEW row,
           writer' = [writer EXCEPT ![d] = w], writer[d].at \in Busy, w.at # "new",
           w.job = writer[d].job, w.commit = writer[d].commit,
           graphIndex' = [graphIndex EXCEPT ![w.commit] = row],
           DOMAIN row = RowFields, row.status \in IndexStatuses,
           UNCHANGED <<crossed, nebulaVars, manifestOf, anchorRows, factRows, edgeRows>>,
           JobFits(w, stores), SentFits(w, vertices, edges), ManifestFits(w, manifestOf),
           w.commit \notin crossed =>
               /\ w.at \in Busy =>
                     /\ RowFits(w, row, writer)
                     /\ RowsFit(w, anchorRows[w.commit], factRows[w.commit], edgeRows[w.commit])
               /\ row.status \in Settled =>
                     /\ \A x \in row.by : Stored(w.commit, x)
                     /\ row.anchorCount = Cardinality(anchorRows[w.commit])
               /\ manifestOf[w.commit] = "PENDING" /\ row.status \notin Settled =>
                     AstRun(writer, w.commit) /\ ~AstEnded(writer, w.commit)
               /\ w.at = "done" /\ PendingRun(w, w.commit) => row.status \in Settled
    PROVE  GraphInv'
<1>1. /\ writer \in [GraphDeliveries -> Writers] /\ w.commit \in GraphCommits
      /\ DOMAIN graphIndex = GraphCommits /\ writer[d].at # "done"
  BY Zenon DEF GraphInv, GraphTypes, JobFits, Busy, PayloadPcs, MergePcs, Building
<1>2. PICK c \in GraphCommits : c = w.commit
  BY <1>1, Zenon
<1>3. graphIndex'[c] = row /\ \A x \in GraphCommits \ {c} : graphIndex'[x] = graphIndex[x]
  BY <1>1, <1>2, Zenon
<1>4. /\ AstRun(writer', c) <=> AstRun(writer, c)
      /\ w.at # "done" \/ ~PendingRun(w, c) => (AstEnded(writer', c) <=> AstEnded(writer, c))
  BY <1>1, AstUnmoved, Zenon
<1>5. ASSUME w.at \in Busy, w.commit \notin crossed
      PROVE  RowFits(w, row, writer')
  <2>1. w.at # "done"
    BY <1>5, Zenon DEF Busy, PayloadPcs, MergePcs, Building
  <2> QED BY <1>2, <1>4, <1>5, <2>1, Zenon DEF RowFits
<1>6. CommitFits(c)'
  <2>1. CommitFits(c)
    BY Zenon DEF GraphInv
  <2>2. /\ \A x : Stored(c, x)' <=> Stored(c, x)
        /\ Counted(c)' <=> row.anchorCount = Cardinality(anchorRows[c])
    BY <1>3, Zenon DEF Stored, Counted, nebulaVars
  <2> QED BY <1>2, <1>3, <1>4, <2>1, <2>2, Zenon DEF CommitFits, nebulaVars
<1>7. GraphTypes'
  BY <1>1, <1>2, <1>3, Zenon DEF GraphInv, GraphTypes, nebulaVars
<1>8. SentFits(w, vertices', edges')
  BY Zenon DEF nebulaVars
<1> QED BY <1>2, <1>3, <1>5, <1>6, <1>7, <1>8, LocalKeeps, Zenon DEF nebulaVars

\* All statements sent, all rows of the payload are in Nebula.
LEMMA SentAll ==
    ASSUME NEW p \in DOMAIN GraphPayloads, NEW vs, NEW es,
           \A k \in 1..Len(GraphPayloads[p].statements) : Sent(GraphPayloads[p].statements[k], vs, es)
    PROVE  /\ ExtractRenderedRows[p].vertices \subseteq vs
           /\ ExtractRenderedRows[p].edges \subseteq es
<1> DEFINE stmts == GraphPayloads[p].statements
<1>1. DOMAIN stmts = 1..Len(stmts)
  <2>1. stmts \in Seq(Statements(p))
    BY GraphConstants, Zenon
  <2> QED BY <2>1
<1>2. /\ ExtractRenderedRows[p].vertices = {row.vid : row \in RowsOf(GraphPayloads[p], "VERTEX")}
      /\ ExtractRenderedRows[p].edges = {EdgeOf(row) : row \in RowsOf(GraphPayloads[p], "EDGE")}
  BY Zenon DEF ExtractRenderedRows
<1>3. ASSUME NEW form, NEW row \in RowsOf(GraphPayloads[p], form)
      PROVE  \E k \in DOMAIN stmts : stmts[k].form = form /\ row \in stmts[k].rows
  BY <1>3, Zenon DEF RowsOf
<1>4. \A row \in RowsOf(GraphPayloads[p], "VERTEX") : row.vid \in vs
  BY <1>1, <1>3 DEF Sent
<1>5. \A row \in RowsOf(GraphPayloads[p], "EDGE") : EdgeOf(row) \in es
  BY <1>1, <1>3, Zenon DEF Sent
<1> QED BY <1>2, <1>4, <1>5, Zenon

\* An uncrossed AST run at work is a run that is not done.
LEMMA RunAtWork ==
    ASSUME GraphInv, NEW d \in GraphDeliveries, writer[d].at \in PayloadPcs \ {"manifest"},
           writer[d].commit \notin crossed, manifestOf[writer[d].commit] = "PENDING"
    PROVE  AstRun(writer, writer[d].commit) /\ ~AstEnded(writer, writer[d].commit)
<1>1. writer[d].at \in Busy
  BY Zenon DEF Busy
<1>2. /\ writer[d].job \in DOMAIN GraphPayloads
      /\ JobFits(writer[d], stores) /\ ManifestFits(writer[d], manifestOf)
      /\ RowFits(writer[d], graphIndex[writer[d].commit], writer)
  BY <1>1, AtWorkFits, Zenon DEF JobFits
<1>3. GraphPayloads[writer[d].job].mode = "pending" /\ writer[d].job # "merge"
  BY <1>2, GraphConstants, Zenon DEF ManifestFits
<1> QED BY <1>2, <1>3, Zenon DEF AstRun, PendingRun, RowFits

\* MarkBuilding: a READY or a SKIPPED row is kept.
LEMMA BuildBegun ==
    ASSUME GraphInv, NEW d \in GraphDeliveries, BeginBuild(d)
    PROVE  GraphInv'
<1> DEFINE c == writer[d].commit
           row == MarkBuilding(c)
<1>0. /\ writer[d].at = "build" /\ writer[d].at \in Busy /\ writer[d].at \in PayloadPcs \ {"manifest"}
      /\ UNCHANGED <<crossed, nebulaVars, manifestOf, anchorRows, factRows, edgeRows>>
      /\ graphIndex' = [graphIndex EXCEPT ![c] = row]
  BY Zenon DEF BeginBuild, Busy, PayloadPcs
<1>1. PICK at \in {"revision", "repair", "done", "store"} :
         /\ WriterAt(d, at)
         /\ at \in {"revision", "repair"} => row.status = "READY"
         /\ at = "done" => row.status = "SKIPPED"
         /\ at = "store" => row.status \notin {"READY", "SKIPPED"}
  BY Zenon DEF BeginBuild
<1>2. PICK w \in Writers : /\ writer' = [writer EXCEPT ![d] = w] /\ w.at = at
                           /\ w.job = writer[d].job /\ w.commit = c
  BY <1>1, MovesTo DEF GraphInv, WriterPcs, PayloadPcs, Building, Nowhere
<1>3. JobFits(w, stores) /\ SentFits(w, vertices, edges) /\ ManifestFits(w, manifestOf)
  BY <1>0, <1>2, AtWorkFits, Zenon DEF JobFits, SentFits, ManifestFits, PayloadPcs, MergePcs, Building
<1>4. c \in GraphCommits /\ CommitFits(c)
  BY <1>0, AtWorkFits, Zenon DEF GraphInv
<1>5. \/ row = graphIndex[c] /\ row.status \in {"READY", "SKIPPED"}
      \/ row = [status |-> "BUILDING", anchorCount |-> 0, by |-> {}]
  BY Zenon DEF MarkBuilding
<1>6. DOMAIN row = RowFields /\ row.status \in IndexStatuses
  <2>1. DOMAIN graphIndex[c] = RowFields /\ graphIndex[c].status \in IndexStatuses
    BY <1>4, Zenon DEF GraphInv, GraphTypes
  <2>2. CASE row = graphIndex[c]
    BY <2>1, <2>2, Zenon
  <2> HIDE DEF row
  <2>3. CASE row = [status |-> "BUILDING", anchorCount |-> 0, by |-> {}]
    BY <2>3, Zenon DEF RowFields, IndexStatuses
  <2> QED BY <1>5, <2>2, <2>3, Zenon
<1>7. at = "store" => row.status = "BUILDING"
  BY <1>1, <1>5
<1>8. ASSUME c \notin crossed
      PROVE  /\ w.at \in Busy =>
                   /\ RowFits(w, row, writer)
                   /\ RowsFit(w, anchorRows[c], factRows[c], edgeRows[c])
             /\ row.status \in Settled =>
                   (\A x \in row.by : Stored(c, x)) /\ row.anchorCount = Cardinality(anchorRows[c])
             /\ manifestOf[c] = "PENDING" /\ row.status \notin Settled =>
                   AstRun(writer, c) /\ ~AstEnded(writer, c)
             /\ w.at = "done" => row.status \in Settled
  <2>1. RowFits(w, row, writer)
    BY <1>0, <1>1, <1>2, <1>7, <1>8, AtWorkFits, Zenon
       DEF RowFits, PayloadPcs, MergePcs, Building
  <2>2. RowsFit(w, anchorRows[c], factRows[c], edgeRows[c])
    BY <1>2, Zenon DEF RowsFit
  <2>3. row.status \in Settled =>
           (\A x \in row.by : Stored(c, x)) /\ row.anchorCount = Cardinality(anchorRows[c])
    <3>1. CASE row = graphIndex[c]
      BY <1>4, <1>8, <3>1, Zenon DEF CommitFits, Counted
    <3> HIDE DEF row
    <3>2. CASE row = [status |-> "BUILDING", anchorCount |-> 0, by |-> {}]
      BY <3>2, Zenon DEF Settled
    <3> QED BY <1>5, <3>1, <3>2, Zenon
  <2>4. manifestOf[c] = "PENDING" => AstRun(writer, c) /\ ~AstEnded(writer, c)
    BY <1>0, <1>8, RunAtWork, Zenon
  <2>5. w.at = "done" => row.status \in Settled
    BY <1>1, <1>2, Zenon DEF Settled
  <2> QED BY <2>1, <2>2, <2>3, <2>4, <2>5, Zenon
<1>9. w.at # "new"
  BY <1>2, Zenon
<1> HIDE DEF row
<1> QED BY <1>0, <1>2, <1>3, <1>6, <1>8, <1>9, StatusMoves, Zenon

\* MarkReady and MarkPartial, after the last insert: all is stored and counted.
LEMMA BuildEnded ==
    ASSUME GraphInv, NEW d \in GraphDeliveries, MarkReady(d) \/ MarkPartial(d)
    PROVE  GraphInv'
<1> DEFINE c == writer[d].commit
<1>0. /\ writer[d].at \in {"ready", "partial"} /\ writer[d].at \in Busy /\ writer[d].at \in PayloadPcs
      /\ UNCHANGED <<crossed, nebulaVars, manifestOf, anchorRows, factRows, edgeRows>>
  BY Zenon DEF MarkReady, MarkPartial, Statement, SetIndex, Busy, PayloadPcs, Building
<1>1. PICK at \in {"activate", "done"}, status \in {"READY", "PARTIAL"} :
         /\ WriterAt(d, at)
         /\ at = "activate" => status = "READY"
         /\ graphIndex' = [graphIndex EXCEPT ![c] =
                [status |-> status, anchorCount |-> Cardinality(GraphPayloads[writer[d].job].anchors),
                 by |-> {writer[d].job}]]
  BY Zenon DEF MarkReady, MarkPartial, Statement, SetIndex, Job
<1>2. PICK w \in Writers : /\ writer' = [writer EXCEPT ![d] = w] /\ w.at = at
                           /\ w.job = writer[d].job /\ w.commit = c
  BY <1>1, MovesTo DEF GraphInv, WriterPcs, PayloadPcs, Nowhere
<1>3. JobFits(w, stores) /\ SentFits(w, vertices, edges) /\ ManifestFits(w, manifestOf)
  BY <1>0, <1>2, AtWorkFits, Zenon DEF JobFits, SentFits, ManifestFits, PayloadPcs, MergePcs, Building
<1>4. PICK row : row = [status |-> status, by |-> {writer[d].job},
                        anchorCount |-> Cardinality(GraphPayloads[writer[d].job].anchors)]
  BY Zenon
<1>5. /\ DOMAIN row = RowFields /\ row.status = status /\ row.by = {writer[d].job}
      /\ row.anchorCount = Cardinality(GraphPayloads[writer[d].job].anchors)
      /\ row.status \in IndexStatuses /\ row.status \in Settled
  BY <1>4, Zenon DEF RowFields, IndexStatuses, Settled
<1>6. graphIndex' = [graphIndex EXCEPT ![w.commit] = row]
  BY <1>1, <1>2, <1>4, Zenon
<1>7. ASSUME c \notin crossed
      PROVE  /\ w.at \in Busy =>
                   /\ RowFits(w, row, writer)
                   /\ RowsFit(w, anchorRows[c], factRows[c], edgeRows[c])
             /\ \A x \in row.by : Stored(c, x)
             /\ row.anchorCount = Cardinality(anchorRows[c])
  <2>0. RowsFit(writer[d], anchorRows[c], factRows[c], edgeRows[c]) /\ RowFits(writer[d], graphIndex[c], writer)
    BY <1>0, <1>7, AtWorkFits, Zenon
  <2>1. w.at \in Busy => RowFits(w, row, writer)
    BY <1>0, <1>1, <1>2, <1>5, <2>0, Zenon DEF RowFits, Busy, PayloadPcs, MergePcs, Building
  <2>2. RowsFit(w, anchorRows[c], factRows[c], edgeRows[c])
    BY <1>2, Zenon DEF RowsFit
  <2>3. row.anchorCount = Cardinality(anchorRows[c])
    BY <1>0, <1>5, <2>0, Zenon DEF RowsFit
  <2>4. writer[d].job \in DOMAIN GraphPayloads /\ writer[d].job # "merge"
    <3>1. writer[d].job \in DOMAIN GraphPayloads
      BY <1>0, AtWorkFits, Zenon DEF JobFits
    <3> QED BY <3>1, GraphConstants, Zenon
  <2>5. /\ ExtractRenderedRows[writer[d].job].vertices \subseteq vertices
        /\ ExtractRenderedRows[writer[d].job].edges \subseteq edges
    BY <1>0, <2>4, AtWorkFits, SentAll, Zenon DEF SentFits
  <2>6. Stored(c, writer[d].job)
    BY <1>0, <2>0, <2>4, <2>5, Zenon DEF Stored, RowsMeant, RowsFit
  <2> QED BY <1>5, <2>1, <2>2, <2>3, <2>6, Zenon
<1>8. w.at # "new"
  BY <1>2, Zenon
<1> QED BY <1>0, <1>2, <1>3, <1>5, <1>6, <1>7, <1>8, StatusMoves, Zenon

\* markFailed.
LEMMA BuildFailed ==
    ASSUME GraphInv, NEW d \in GraphDeliveries, MarkGraphFailed(d)
    PROVE  GraphInv'
<1> DEFINE c == writer[d].commit
<1>0. /\ writer[d].at = "fail" /\ writer[d].at \in Busy /\ WriterAt(d, "retry")
      /\ writer[d].at \in PayloadPcs \ {"manifest"}
      /\ UNCHANGED <<crossed, nebulaVars, manifestOf, anchorRows, factRows, edgeRows>>
  BY Zenon DEF MarkGraphFailed, Statement, SetIndex, Busy, PayloadPcs, Building
<1>1. PICK w \in Writers : /\ writer' = [writer EXCEPT ![d] = w] /\ w.at = "retry"
                           /\ w.job = writer[d].job /\ w.commit = c
  BY <1>0, MovesTo DEF GraphInv, WriterPcs, Nowhere
<1>2. JobFits(w, stores) /\ SentFits(w, vertices, edges) /\ ManifestFits(w, manifestOf)
  BY <1>0, <1>1, AtWorkFits, Zenon DEF JobFits, SentFits, ManifestFits, PayloadPcs, MergePcs, Building
<1>3. PICK row : row = IF graphIndex[c].status \in {"READY", "SKIPPED"} THEN graphIndex[c]
                       ELSE [status |-> "FAILED", anchorCount |-> 0, by |-> {}]
  BY Zenon
<1>4. graphIndex' = [graphIndex EXCEPT ![w.commit] = row]
  BY <1>1, <1>3, Zenon DEF MarkGraphFailed, SetIndex
<1>5. c \in GraphCommits /\ CommitFits(c)
  BY <1>0, AtWorkFits, Zenon DEF GraphInv
<1>6. DOMAIN row = RowFields /\ row.status \in IndexStatuses
  BY <1>3, <1>5, Zenon DEF RowFields, IndexStatuses, GraphInv, GraphTypes
<1>7. row.status \in Settled => row = graphIndex[c]
  BY <1>3, Zenon DEF Settled
<1>8. c \notin crossed /\ row.status \in Settled =>
         (\A x \in row.by : Stored(c, x)) /\ row.anchorCount = Cardinality(anchorRows[c])
  BY <1>5, <1>7, Zenon DEF CommitFits, Counted
<1>9. c \notin crossed /\ manifestOf[c] = "PENDING" => AstRun(writer, c) /\ ~AstEnded(writer, c)
  BY <1>0, RunAtWork, Zenon
<1>10. w.at # "new" /\ w.at # "done" /\ w.at \notin Busy
  BY <1>1, Zenon DEF Busy, PayloadPcs, MergePcs, Building
<1> QED BY <1>0, <1>1, <1>2, <1>4, <1>6, <1>8, <1>9, <1>10, StatusMoves, Zenon

\* A duplicate delivery counts the anchors again.
LEMMA CountsRepaired ==
    ASSUME GraphInv, NEW d \in GraphDeliveries, RepairReadyGraphCounts(d)
    PROVE  GraphInv'
<1> DEFINE c == writer[d].commit
<1>0. /\ writer[d].at = "repair" /\ writer[d].at \in Busy /\ WriterAt(d, "done")
      /\ UNCHANGED <<crossed, nebulaVars, manifestOf, anchorRows, factRows, edgeRows>>
  BY Zenon DEF RepairReadyGraphCounts, Statement, SetIndex, Busy, PayloadPcs, Building
<1>1. PICK w \in Writers : /\ writer' = [writer EXCEPT ![d] = w] /\ w.at = "done"
                           /\ w.job = writer[d].job /\ w.commit = c
  BY <1>0, MovesTo DEF GraphInv, WriterPcs, Nowhere
<1>2. JobFits(w, stores) /\ SentFits(w, vertices, edges) /\ ManifestFits(w, manifestOf)
  BY <1>0, <1>1, AtWorkFits, Zenon DEF JobFits, SentFits, ManifestFits, PayloadPcs, MergePcs, Building
<1>3. PICK row : row = IF graphIndex[c].status = "READY"
                       THEN [graphIndex[c] EXCEPT !.anchorCount = Cardinality(anchorRows[c])]
                       ELSE graphIndex[c]
  BY Zenon
<1>4. graphIndex' = [graphIndex EXCEPT ![w.commit] = row]
  BY <1>1, <1>3, Zenon DEF RepairReadyGraphCounts, SetIndex
<1>5. /\ c \in GraphCommits /\ CommitFits(c) /\ DOMAIN graphIndex[c] = RowFields
      /\ graphIndex[c].status \in IndexStatuses
  BY <1>0, AtWorkFits, Zenon DEF GraphInv, GraphTypes
<1>6. /\ DOMAIN row = RowFields /\ row.status = graphIndex[c].status /\ row.by = graphIndex[c].by
      /\ graphIndex[c].status = "READY" => row.anchorCount = Cardinality(anchorRows[c])
  BY <1>3, <1>5, Zenon DEF RowFields
<1>7. c \notin crossed => graphIndex[c].status = "READY"
  BY <1>0, AtWorkFits, Zenon DEF RowFits
<1>8. c \notin crossed =>
         /\ row.status \in Settled
         /\ (\A x \in row.by : Stored(c, x)) /\ row.anchorCount = Cardinality(anchorRows[c])
  BY <1>5, <1>6, <1>7, Zenon DEF CommitFits, Settled
<1>9. w.at # "new" /\ w.at \notin Busy
  BY <1>1, Zenon DEF Busy, PayloadPcs, MergePcs, Building
<1> QED BY <1>0, <1>1, <1>2, <1>4, <1>5, <1>6, <1>8, <1>9, StatusMoves, Zenon

\* The merge makes the row PARTIAL that the AST layer did not leave.
LEMMA PartialCreated ==
    ASSUME GraphInv, NEW d \in GraphDeliveries, CreatePartialGraphIndexForSCIPOnly(d)
    PROVE  GraphInv'
<1> DEFINE c == writer[d].commit
<1>0. /\ writer[d].at = "create" /\ writer[d].at \in Busy /\ WriterAt(d, "mergeVertices")
      /\ writer[d].at \in MergePcs
      /\ UNCHANGED <<crossed, nebulaVars, manifestOf, anchorRows, factRows, edgeRows>>
  BY Zenon DEF CreatePartialGraphIndexForSCIPOnly, Statement, SetIndex, Busy, MergePcs
<1>1. PICK w \in Writers : /\ writer' = [writer EXCEPT ![d] = w] /\ w.at = "mergeVertices"
                           /\ w.job = writer[d].job /\ w.commit = c
  BY <1>0, MovesTo DEF GraphInv, WriterPcs, MergePcs
<1>2. JobFits(w, stores) /\ SentFits(w, vertices, edges) /\ ManifestFits(w, manifestOf)
  BY <1>0, <1>1, AtWorkFits, Zenon DEF JobFits, SentFits, ManifestFits, PayloadPcs, MergePcs, Building
<1>3. PICK row : row = IF graphIndex[c].status = "READY" THEN graphIndex[c]
                       ELSE [status |-> "PARTIAL", anchorCount |-> graphIndex[c].anchorCount,
                             by |-> graphIndex[c].by]
  BY Zenon
<1>4. graphIndex' = [graphIndex EXCEPT ![w.commit] = row]
  BY <1>1, <1>3, Zenon DEF CreatePartialGraphIndexForSCIPOnly, SetIndex
<1>5. /\ c \in GraphCommits /\ CommitFits(c) /\ DOMAIN graphIndex[c] = RowFields
  BY <1>0, AtWorkFits, Zenon DEF GraphInv, GraphTypes
<1>6. /\ DOMAIN row = RowFields /\ row.status \in {"READY", "PARTIAL"} /\ row.by = graphIndex[c].by
      /\ row.anchorCount = graphIndex[c].anchorCount
  BY <1>3, <1>5, Zenon DEF RowFields
<1>7. row.status \in Settled /\ row.status \in IndexStatuses
  BY <1>6, Zenon DEF Settled, IndexStatuses
<1>8. c \notin crossed =>
         /\ RowFits(w, row, writer)
         /\ RowsFit(w, anchorRows[c], factRows[c], edgeRows[c])
         /\ (\A x \in row.by : Stored(c, x)) /\ row.anchorCount = Cardinality(anchorRows[c])
  <2>1. c \notin crossed => graphIndex[c].status \in Settled
    BY <1>0, AtWorkFits, Zenon DEF RowFits
  <2>2. RowFits(w, row, writer) /\ RowsFit(w, anchorRows[c], factRows[c], edgeRows[c])
    BY <1>1, <1>7, Zenon DEF RowFits, RowsFit, PayloadPcs, Building
  <2> QED BY <1>5, <1>6, <2>1, <2>2, Zenon DEF CommitFits, Counted
<1>9. w.at # "new" /\ w.at # "done"
  BY <1>1, Zenon
<1> QED BY <1>0, <1>1, <1>2, <1>4, <1>6, <1>7, <1>8, <1>9, StatusMoves, Zenon

\* The merge makes a PARTIAL row READY.
LEMMA PartialPromoted ==
    ASSUME GraphInv, NEW d \in GraphDeliveries, PromotePartialGraph(d)
    PROVE  GraphInv'
<1> DEFINE c == writer[d].commit
<1>0. /\ writer[d].at = "promote" /\ writer[d].at \in Busy /\ writer[d].at \in MergePcs
      /\ UNCHANGED <<crossed, nebulaVars, manifestOf, anchorRows, factRows, edgeRows>>
  BY Zenon DEF PromotePartialGraph, Busy, MergePcs
<1>1. writer[d].job = "merge" /\ ~PendingRun(writer[d], c)
  BY <1>0, AtWorkFits, Zenon DEF JobFits, PendingRun
<1>2. CASE graphIndex[c].status # "PARTIAL"
  <2>1. UNCHANGED graphIndex /\ (WriterAt(d, "done") \/ WriterAt(d, "retry"))
    BY <1>2, Zenon DEF PromotePartialGraph
  <2> QED BY <1>0, <1>1, <2>1, LeavesWork, Zenon DEF Nowhere
<1>3. CASE graphIndex[c].status = "PARTIAL"
  <2>0. WriterAt(d, "done")
    BY <1>3, Zenon DEF PromotePartialGraph
  <2>1. PICK w \in Writers : /\ writer' = [writer EXCEPT ![d] = w] /\ w.at = "done"
                             /\ w.job = writer[d].job /\ w.commit = c
    BY <2>0, MovesTo DEF GraphInv, WriterPcs, Nowhere
  <2>2. JobFits(w, stores) /\ SentFits(w, vertices, edges) /\ ManifestFits(w, manifestOf)
    BY <1>0, <2>1, AtWorkFits, Zenon DEF JobFits, SentFits, ManifestFits, PayloadPcs, MergePcs, Building
  <2>3. PICK row : row = [graphIndex[c] EXCEPT !.status = "READY", !.by = @ \cup {"merge"}]
    OBVIOUS
  <2>4. graphIndex' = [graphIndex EXCEPT ![w.commit] = row]
    BY <1>3, <2>1, <2>3, Zenon DEF PromotePartialGraph
  <2>5. /\ c \in GraphCommits /\ CommitFits(c) /\ DOMAIN graphIndex[c] = RowFields
    BY <1>0, AtWorkFits, Zenon DEF GraphInv, GraphTypes
  <2>6. /\ DOMAIN row = RowFields /\ row.status = "READY"
        /\ row.by = graphIndex[c].by \cup {"merge"}
        /\ row.anchorCount = graphIndex[c].anchorCount
    BY <2>3, <2>5, Zenon DEF RowFields
  <2>7. row.status \in Settled /\ row.status \in IndexStatuses /\ graphIndex[c].status \in Settled
    BY <1>3, <2>6, Zenon DEF Settled, IndexStatuses
  <2>8. c \notin crossed => Stored(c, "merge")
    BY <1>0, AtWorkFits, Zenon DEF Stored, RowsMeant, RowsFit, SentFits
  <2>9. c \notin crossed =>
           (\A x \in row.by : Stored(c, x)) /\ row.anchorCount = Cardinality(anchorRows[c])
    BY <2>5, <2>6, <2>7, <2>8, Zenon DEF CommitFits, Counted
  <2>10. w.at # "new" /\ w.at \notin Busy
    BY <2>1, Zenon DEF Busy, PayloadPcs, MergePcs, Building
  <2> QED BY <1>0, <2>1, <2>2, <2>4, <2>6, <2>7, <2>9, <2>10, StatusMoves, Zenon
<1> QED BY <1>2, <1>3, Zenon

-----------------------------------------------------------------------------
\* A writer that starts: if another one is at work on the commit, they cross.
LEMMA WriterStarts ==
    ASSUME GraphInv, NEW d \in GraphDeliveries, NEW w \in Writers, writer[d].at = "new",
           writer' = [writer EXCEPT ![d] = w], w.at \in Busy \cup {"skipped"},
           Crossing(w.commit), UNCHANGED <<pgVars, nebulaVars>>,
           JobFits(w, stores), SentFits(w, vertices, edges), ManifestFits(w, manifestOf),
           w.at \in Busy /\ w.commit \notin crossed =>
               /\ RowFits(w, graphIndex[w.commit], writer)
               /\ RowsFit(w, anchorRows[w.commit], factRows[w.commit], edgeRows[w.commit])
    PROVE  GraphInv'
<1>0. /\ writer'[d] = w /\ \A e \in GraphDeliveries \ {d} : writer'[e] = writer[e]
      /\ writer \in [GraphDeliveries -> Writers] /\ writer[d].commit = 0
      /\ w.at # "done" /\ w.at # "new"
  BY Zenon DEF GraphInv, GraphTypes, WriterFits, JobFits, Busy, PayloadPcs, MergePcs, Building
<1>u. UNCHANGED <<manifestOf, graphIndex, anchorRows, factRows, edgeRows, vertices, edges, stores>>
  BY Zenon DEF pgVars, nebulaVars
<1>1. crossed \subseteq crossed' /\ (w.commit \notin crossed' => AtWorkOn(w.commit) = {})
  BY Zenon DEF Crossing
<1>2. ASSUME NEW c \in GraphCommits
      PROVE  /\ AstEnded(writer', c) <=> AstEnded(writer, c)
             /\ AstRun(writer, c) => AstRun(writer', c)
  <2>1. \A e \in GraphDeliveries : PendingRun(writer[e], c) => PendingRun(writer'[e], c) /\ e # d
    BY <1>0, GraphConstants, Zenon DEF PendingRun
  <2>2. \A e \in GraphDeliveries : writer'[e].at = "done" => writer'[e] = writer[e]
    BY <1>0, Zenon
  <2>3. \A e \in GraphDeliveries : writer[e].at = "done" => writer'[e] = writer[e]
    BY <1>0, Zenon
  <2> QED BY <2>1, <2>2, <2>3, Zenon DEF AstEnded, AstRun
<1>3. GraphTypes'
  BY <1>0, <1>u, Zenon DEF GraphInv, GraphTypes
<1>4. OneWriter'
  <2>1. ASSUME NEW e \in GraphDeliveries \ {d}, writer[e].at \in Busy, writer[e].commit = w.commit
        PROVE  w.commit \in crossed'
    <3>1. writer[e].at \notin Nowhere
      BY <2>1, Zenon DEF Busy, PayloadPcs, MergePcs, Building, Nowhere
    <3>2. e \in AtWorkOn(w.commit)
      BY <2>1, <3>1, Zenon DEF AtWorkOn
    <3> QED BY <1>1, <3>2, Zenon
  <2> QED BY <1>0, <1>1, <2>1 DEF GraphInv, OneWriter
<1>5. WriterFits(d)'
  <2>1. w.at \in Busy /\ w.commit \notin crossed => RowFits(w, graphIndex[w.commit], writer')
    BY <1>0, <1>2, Zenon DEF RowFits, JobFits
  <2> QED BY <1>0, <1>u, <1>1, <2>1, Zenon DEF WriterFits
<1>6. ASSUME NEW e \in GraphDeliveries \ {d} PROVE WriterFits(e)'
  <2>1. WriterFits(e)
    BY Zenon DEF GraphInv
  <2>2. writer[e].at \in Busy /\ writer[e].commit \notin crossed =>
           RowFits(writer[e], graphIndex[writer[e].commit], writer')
    <3>1. writer[e].at \in Busy => writer[e].commit \in GraphCommits
      BY AtWorkFits, Zenon
    <3> QED BY <1>2, <2>1, <3>1, Zenon DEF WriterFits, RowFits
  <2> QED BY <1>0, <1>u, <1>1, <2>1, <2>2, Zenon DEF WriterFits
<1>7. ASSUME NEW c \in GraphCommits PROVE CommitFits(c)'
  <2>1. CommitFits(c)
    BY Zenon DEF GraphInv
  <2>2. (\A x : Stored(c, x) => Stored(c, x)') /\ (Counted(c) => Counted(c)')
    BY <1>u, Zenon DEF Stored, Counted
  <2> QED BY <1>u, <1>1, <1>2, <2>1, <2>2, Zenon DEF CommitFits
<1> QED BY <1>3, <1>4, <1>5, <1>6, <1>7, Zenon DEF GraphInv

\* A payload, of the queue or of the AST layer.
LEMMA PayloadTaken ==
    ASSUME GraphInv, NEW d \in GraphDeliveries, writer[d].at = "new",
           NEW p \in DOMAIN GraphPayloads, TakePayload(d, p) \/ Ingest(d, p)
    PROVE  GraphInv'
<1> DEFINE job == GraphPayloads[p]
<1>0. /\ AcceptPayload(d, p) /\ job.commit \in GraphCommits /\ p # "merge"
      /\ job.mode = "pending" => ~AstEnded(writer, job.commit)
  BY GraphConstants, AstLinks, Zenon DEF TakePayload, Ingest, LayerOrder
<1>1. PICK at \in {"manifest", "skipped"} :
         /\ writer' = [writer EXCEPT ![d] = [at |-> at, job |-> p, commit |-> job.commit,
                                             next |-> 1, try |-> 1]]
         /\ at = "manifest" => ValidPayload(job)
  BY <1>0, Zenon DEF AcceptPayload
<1>2. PICK one \in Nat : one = 1
  OBVIOUS
<1>3. at \in WriterPcs
  BY <1>1, Zenon DEF WriterPcs, PayloadPcs, Nowhere
<1>4. PICK w \in Writers : w = [at |-> at, job |-> p, commit |-> job.commit,
                                next |-> one, try |-> one]
  BY <1>0, <1>3, Zenon DEF Writers
<1>5. /\ w.at = at /\ w.job = p /\ w.commit = job.commit
      /\ writer' = [writer EXCEPT ![d] = w]
  BY <1>1, <1>2, <1>4, Zenon
<1>6. at = "manifest" => Len(job.statements) >= 1
  <2>1. job.statements \in Seq(Statements(p))
    BY GraphConstants, Zenon
  <2>2. at = "manifest" => job.statements # <<>>
    BY <1>1, Zenon DEF ValidPayload
  <2> QED BY <2>1, <2>2
<1>7. JobFits(w, stores) /\ SentFits(w, vertices, edges) /\ ManifestFits(w, manifestOf)
  BY <1>0, <1>1, <1>5, <1>6, Zenon DEF JobFits, SentFits, ManifestFits, PayloadPcs, MergePcs, Building
<1>8. w.at \in Busy => /\ RowFits(w, graphIndex[w.commit], writer)
                       /\ RowsFit(w, anchorRows[w.commit], factRows[w.commit], edgeRows[w.commit])
  BY <1>0, <1>1, <1>5, Zenon DEF RowFits, RowsFit, PayloadPcs, MergePcs, Building
<1>9. /\ w.at \in Busy \cup {"skipped"} /\ Crossing(w.commit)
      /\ UNCHANGED <<pgVars, nebulaVars>>
  BY <1>0, <1>1, <1>5, Zenon DEF AcceptPayload, Busy, PayloadPcs
<1> QED BY <1>5, <1>7, <1>8, <1>9, WriterStarts, Zenon

\* The merge, once the AST layer left a settled row.
LEMMA MergeTaken ==
    ASSUME GraphInv, NEW d \in GraphDeliveries, writer[d].at = "new",
           NEW c \in DOMAIN ScipRows, TakeMerge(d, c)
    PROVE  GraphInv'
<1>0. /\ c \in GraphCommits /\ manifestOf[c] = "PENDING"
      /\ ~AstRun(writer, c) \/ AstEnded(writer, c)
  BY GraphConstants, AstLinks, Zenon DEF TakeMerge, LayerOrder
<1>1. c \notin crossed => graphIndex[c].status \in Settled
  BY <1>0, Zenon DEF GraphInv, CommitFits
<1>2. PICK one \in Nat : one = 1
  OBVIOUS
<1>3. PICK w \in Writers : w = [at |-> "resolve", job |-> "merge", commit |-> c,
                                next |-> one, try |-> one]
  BY <1>0, Zenon DEF Writers, WriterPcs, MergePcs
<1>4. /\ w.at = "resolve" /\ w.job = "merge" /\ w.commit = c
      /\ writer' = [writer EXCEPT ![d] = w]
  BY <1>2, <1>3, Zenon DEF TakeMerge
<1>5. JobFits(w, stores) /\ SentFits(w, vertices, edges) /\ ManifestFits(w, manifestOf)
  BY <1>0, <1>4, Zenon DEF JobFits, SentFits, ManifestFits, PayloadPcs, MergePcs, Building
<1>6. w.commit \notin crossed =>
         /\ RowFits(w, graphIndex[w.commit], writer)
         /\ RowsFit(w, anchorRows[w.commit], factRows[w.commit], edgeRows[w.commit])
  BY <1>1, <1>4, Zenon DEF RowFits, RowsFit, PayloadPcs, MergePcs, Building
<1>7. /\ w.at \in Busy \cup {"skipped"} /\ Crossing(w.commit)
      /\ UNCHANGED <<pgVars, nebulaVars>>
  BY <1>4, Zenon DEF TakeMerge, Busy, MergePcs
<1> QED BY <1>4, <1>5, <1>6, <1>7, WriterStarts, Zenon

\* A manifest becomes READY, by ACTIVATE or by the indexer of the queue: no
\* manifest becomes PENDING again.
LEMMA ManifestMoved ==
    ASSUME GraphInv, NEW c \in GraphCommits, ActivateManifest(c) \/ IndexerMarksManifest(c)
    PROVE  GraphInv'
<1>0. /\ manifestOf' = Superseding(c)
      /\ UNCHANGED <<graphIndex, anchorRows, factRows, edgeRows, vertices, edges, stores,
                     writer, crossed>>
  BY Zenon DEF ActivateManifest, IndexerMarksManifest, nebulaVars
<1>1. DOMAIN manifestOf' = GraphCommits
  BY <1>0, Zenon DEF Superseding
<1>2. \A x \in GraphCommits : manifestOf'[x] = "PENDING" => manifestOf[x] = "PENDING"
  <2> SUFFICES ASSUME NEW x \in GraphCommits, manifestOf[x] # "PENDING"
               PROVE  manifestOf'[x] # "PENDING"
    OBVIOUS
  <2>1. manifestOf'[x] = CASE x = c -> "READY"
                           [] x # c /\ manifestOf[x] = "READY" -> "SUPERSEDED"
                           [] x < c /\ manifestOf[x] = "PENDING" -> "SUPERSEDED"
                           [] OTHER -> manifestOf[x]
    BY <1>0, Zenon DEF Superseding
  <2> QED BY <2>1, Zenon
<1>3. GraphTypes' /\ OneWriter'
  BY <1>0, <1>1, Zenon DEF GraphInv, GraphTypes, OneWriter
<1>4. ASSUME NEW d \in GraphDeliveries PROVE WriterFits(d)'
  <2>1. WriterFits(d)
    BY Zenon DEF GraphInv
  <2>2. ManifestFits(writer[d], manifestOf')
    <3>1. writer[d].at \in PayloadPcs => writer[d].commit \in GraphCommits
      BY AtWorkFits, Zenon DEF Busy
    <3> QED BY <1>2, <2>1, <3>1, Zenon DEF WriterFits, ManifestFits
  <2> QED BY <1>0, <2>1, <2>2, Zenon DEF WriterFits
<1>5. ASSUME NEW x \in GraphCommits PROVE CommitFits(x)'
  <2>1. CommitFits(x)
    BY Zenon DEF GraphInv
  <2>2. (\A y : Stored(x, y) => Stored(x, y)') /\ (Counted(x) => Counted(x)')
    BY <1>0, Zenon DEF Stored, Counted
  <2> QED BY <1>0, <1>2, <2>1, <2>2, Zenon DEF CommitFits
<1> QED BY <1>3, <1>4, <1>5, Zenon DEF GraphInv

\* The empty set has no elements.
LEMMA EmptyIsZero == Cardinality({}) = 0
<1> DEFINE Counts(CS) == CS = [T \in SUBSET {} |-> IF T = {} THEN 0 ELSE 1 + CS[T \ {CHOOSE x : x \in T}]]
           zero == [T \in SUBSET {} |-> 0]
<1>1. Counts(zero)
  OBVIOUS
<1>2. Counts(CHOOSE CS : Counts(CS))
  <2> HIDE DEF Counts, zero
  <2> QED
    BY <1>1, Zenon
<1>3. \A CS : Counts(CS) => CS[{}] = 0
  OBVIOUS
<1> HIDE DEF zero
<1>4. Cardinality({}) = (CHOOSE CS : Counts(CS))[{}]
  BY Zenon DEF Cardinality
<1> QED
  BY <1>2, <1>3, <1>4, Zenon

\* MarkSkipped: without Nebula no row was ever inserted.
LEMMA BuildSkipped ==
    ASSUME GraphInv, NEW d \in GraphDeliveries, MarkSkipped(d)
    PROVE  GraphInv'
<1> DEFINE c == writer[d].commit
<1>0. /\ writer[d].at = "skip" /\ writer[d].at \in Busy /\ WriterAt(d, "done")
      /\ UNCHANGED <<crossed, nebulaVars, manifestOf, anchorRows, factRows, edgeRows>>
  BY Zenon DEF MarkSkipped, Statement, SetIndex, Busy, PayloadPcs, Building
<1>1. PICK w \in Writers : /\ writer' = [writer EXCEPT ![d] = w] /\ w.at = "done"
                           /\ w.job = writer[d].job /\ w.commit = c
  BY <1>0, MovesTo DEF GraphInv, WriterPcs, Nowhere
<1>2. JobFits(w, stores) /\ SentFits(w, vertices, edges) /\ ManifestFits(w, manifestOf)
  BY <1>0, <1>1, AtWorkFits, Zenon DEF JobFits, SentFits, ManifestFits, PayloadPcs, MergePcs, Building
<1>3. PICK row : row = [status |-> "SKIPPED", anchorCount |-> 0, by |-> {}]
  BY Zenon
<1>4. /\ DOMAIN row = RowFields /\ row.status = "SKIPPED" /\ row.by = {} /\ row.anchorCount = 0
      /\ row.status \in IndexStatuses /\ row.status \in Settled
  BY <1>3, Zenon DEF RowFields, IndexStatuses, Settled
<1>5. graphIndex' = [graphIndex EXCEPT ![w.commit] = row]
  BY <1>1, <1>3, Zenon DEF MarkSkipped, SetIndex
<1>6. row.anchorCount = Cardinality(anchorRows[c])
  <2>1. c \in GraphCommits /\ "nebula" \notin stores
    BY <1>0, AtWorkFits, Zenon DEF JobFits
  <2>2. anchorRows[c] = {}
    BY <2>1, Zenon DEF GraphInv, CommitFits
  <2> QED BY <1>4, <2>2, EmptyIsZero, Zenon
<1>7. w.at # "new" /\ w.at \notin Busy
  BY <1>1, Zenon DEF Busy, PayloadPcs, MergePcs, Building
<1> QED BY <1>0, <1>1, <1>2, <1>4, <1>5, <1>6, <1>7, StatusMoves, Zenon

-----------------------------------------------------------------------------
\* Nothing is written, and nobody is at work.
LEMMA GraphStarts ==
    ASSUME GraphInit
    PROVE  GraphInv
<1>0. /\ \A d \in GraphDeliveries : /\ writer[d].at = "new" /\ writer[d].job = ""
                                    /\ writer[d].commit = 0
      /\ \A c \in GraphCommits : /\ graphIndex[c].status = "none" /\ graphIndex[c].by = {}
                                 /\ graphIndex[c].anchorCount = 0 /\ anchorRows[c] = {}
                                 /\ DOMAIN graphIndex[c] = RowFields
  BY Zenon DEF GraphInit, RowFields
<1>1. GraphTypes
  <2>1. PICK one \in Nat, zero \in GraphCommits \cup {0} : one = 1 /\ zero = 0
    OBVIOUS
  <2>2. [at |-> "new", job |-> "", commit |-> zero, next |-> one, try |-> one] \in Writers
    BY Zenon DEF Writers, WriterPcs, Nowhere
  <2>3. writer \in [GraphDeliveries -> Writers]
    BY <2>1, <2>2, Zenon DEF GraphInit
  <2> QED BY <1>0, <2>3, Zenon DEF GraphInit, GraphTypes, IndexStatuses, Settled
<1>2. "new" \notin Busy /\ "new" \notin PayloadPcs /\ "new" \notin MergePcs /\ "new" \notin Building
  BY Zenon DEF Busy, PayloadPcs, MergePcs, Building
<1>3. OneWriter
  BY <1>0, <1>2, Zenon DEF OneWriter
<1>4. \A d \in GraphDeliveries : WriterFits(d)
  BY <1>0, <1>2, Zenon DEF WriterFits, JobFits, SentFits, ManifestFits
<1>5. \A c \in GraphCommits : CommitFits(c)
  <2>1. Cardinality({}) = 0
    BY EmptyIsZero, Zenon
  <2> QED BY <1>0, <2>1, Zenon DEF CommitFits, Settled, Counted
<1> QED BY <1>1, <1>3, <1>4, <1>5, Zenon DEF GraphInv

\* Every step of every writer keeps the invariant.
LEMMA WriterKeeps ==
    ASSUME GraphInv, NEW d \in GraphDeliveries, WriterStep(d)
    PROVE  GraphInv'
<1>1. CASE Starts(d) /\ \/ \E p \in DOMAIN GraphPayloads : TakePayload(d, p) \/ Ingest(d, p)
                        \/ \E c \in DOMAIN ScipRows : TakeMerge(d, c)
  <2>1. writer[d].at = "new"
    <3>1. d \in {e \in GraphDeliveries : e <= d /\ writer[e].at = "new"}
      BY <1>1, Zenon DEF Starts
    <3> QED BY <3>1, Zenon
  <2> QED BY <1>1, <2>1, PayloadTaken, MergeTaken, Zenon
<1>2. CASE \E kind \in stores : ChooseStore(d, kind)
  BY <1>2, StoreChosen, Zenon
<1>3. CASE CheckManifest(d) \/ BeginBuild(d) \/ EnsureSchema(d) \/ ExecuteStatement(d)
  BY <1>3, ManifestChecked, BuildBegun, SchemaEnsured, StatementExecuted, Zenon
<1>4. CASE \/ ExecuteWithSchemaRetry(d) \/ DeleteAnchorRows(d) \/ DeleteEdgeRows(d)
           \/ DeleteFactRows(d)
  BY <1>4, StatementRetried, RowsDropped, Zenon
<1>5. CASE \/ InsertRenderedAnchors(d) \/ InsertRenderedSemanticFacts(d)
           \/ InsertRenderedSemanticEdges(d)
  BY <1>5, RowsInserted, Zenon
<1>6. CASE MarkReady(d) \/ MarkPartial(d) \/ MarkSkipped(d) \/ MarkGraphFailed(d)
  BY <1>6, BuildEnded, BuildSkipped, BuildFailed, Zenon
<1>7. CASE UpsertRevisionIfManifestReady(d) \/ RepairReadyGraphCounts(d) \/ WriterFails(d)
  BY <1>7, RevisionUpserted, CountsRepaired, WriterFailed, Zenon
<1>8. CASE \/ ResolvePartialGraphIndex(d) \/ CreatePartialGraphIndexForSCIPOnly(d)
           \/ WriteSCIPVertices(d) \/ StoreRefuses(d) \/ WriteSCIPEdges(d)
  BY <1>8, RowResolved, PartialCreated, ProjectionSent, MergeRefused, Zenon
<1>9. CASE InsertSCIPSemanticFacts(d) \/ InsertSCIPSemanticEdges(d) \/ PromotePartialGraph(d)
  BY <1>9, ProjectionInserted, PartialPromoted, Zenon
<1> QED BY <1>1, <1>2, <1>3, <1>4, <1>5, <1>6, <1>7, <1>8, <1>9, Zenon DEF WriterStep

LEMMA GraphStutters ==
    ASSUME GraphInv, UNCHANGED graphVars
    PROVE  GraphInv'
<1>0. UNCHANGED <<manifestOf, graphIndex, anchorRows, factRows, edgeRows, vertices, edges, stores,
                  writer, crossed>>
  BY Zenon DEF graphVars, pgVars, nebulaVars
<1>1. GraphTypes' /\ OneWriter'
  BY <1>0, Zenon DEF GraphInv, GraphTypes, OneWriter
<1>2. \A d \in GraphDeliveries : WriterFits(d)'
  BY <1>0, Zenon DEF GraphInv, WriterFits
<1>3. ASSUME NEW x \in GraphCommits PROVE CommitFits(x)'
  <2>1. CommitFits(x)
    BY Zenon DEF GraphInv
  <2>2. (\A y : Stored(x, y) => Stored(x, y)') /\ (Counted(x) => Counted(x)')
    BY <1>0, Zenon DEF Stored, Counted
  <2> QED BY <1>0, <2>1, <2>2, Zenon DEF CommitFits
<1> QED BY <1>1, <1>2, <1>3, Zenon DEF GraphInv

\* The inductive invariant of the graph's writers: of every commit on which no
\* two of them were at work at a time, the rows are as far as its writer is, a
\* settled row has all that its writers meant to store, and an AST layer that
\* is not done explains any other.
THEOREM GraphInvHolds == GraphSpec => []GraphInv
<1>1. GraphInit => GraphInv
  BY GraphStarts, Zenon
<1>2. GraphInv /\ [GraphNext]_graphVars => GraphInv'
  <2> SUFFICES ASSUME GraphInv, [GraphNext]_graphVars PROVE GraphInv'
    OBVIOUS
  <2>1. CASE GraphNext
    BY <2>1, WriterKeeps, ManifestMoved, Zenon DEF GraphNext
  <2>2. CASE UNCHANGED graphVars
    BY <2>2, GraphStutters, Zenon
  <2> QED BY <2>1, <2>2, Zenon
<1> QED BY <1>1, <1>2, PTL DEF GraphSpec

\* A READY snapshot that no two writers crossed on is whole, in Postgres and in
\* Nebula, and its anchors are counted: after any number of failed statements,
\* crashes, retries and duplicates, of any payloads (markReady and the promotion
\* of mergeGraph come last, and a rebuild first says BUILDING).
THEOREM ReadySnapshotsAreWhole == GraphSpec => []ReadyIsWhole
<1>1. ASSUME GraphInv PROVE ReadyIsWhole
  <2> SUFFICES ASSUME NEW c \in GraphCommits \ crossed, graphIndex[c].status = "READY"
               PROVE  /\ \A w \in graphIndex[c].by :
                            /\ RowsMeant(c, w).vertices \subseteq factRows[c] \cap vertices
                            /\ RowsMeant(c, w).edges \subseteq edgeRows[c] \cap edges
                      /\ graphIndex[c].anchorCount = Cardinality(anchorRows[c])
    BY Zenon DEF ReadyIsWhole, RowsMeant
  <2>1. CommitFits(c)
    BY <1>1, Zenon DEF GraphInv
  <2>2. (\A w \in graphIndex[c].by : Stored(c, w)) /\ Counted(c)
    BY <2>1, Zenon DEF CommitFits, Settled
  <2> QED BY <2>2, Zenon DEF Stored, Counted
<1> QED BY <1>1, GraphInvHolds, PTL

\* A writer alone on its commit leaves a READY row READY.
LEMMA WriterKeepsReady ==
    ASSUME GraphInv, NEW d \in GraphDeliveries, WriterStep(d),
           NEW c \in GraphCommits \ crossed, graphIndex[c].status = "READY"
    PROVE  graphIndex'[c].status = "READY"
<1> DEFINE x == writer[d].commit
<1>0. DOMAIN graphIndex = GraphCommits /\ DOMAIN graphIndex[c] = RowFields
  BY Zenon DEF GraphInv, GraphTypes
<1>1. CASE UNCHANGED graphIndex
  BY <1>1, Zenon
<1>2. CASE MarkPartial(d) \/ MarkSkipped(d)
  <2>1. writer[d].at \in Busy /\ writer[d].at \in Building
    BY <1>2, Zenon DEF MarkPartial, MarkSkipped, Statement, Busy, PayloadPcs, Building
  <2>2. x # c
    BY <2>1, AtWorkFits, Zenon DEF RowFits
  <2>3. \E row : graphIndex' = [graphIndex EXCEPT ![x] = row]
    BY <1>2, Zenon DEF MarkPartial, MarkSkipped, SetIndex
  <2> QED BY <1>0, <2>2, <2>3, Zenon
<1>3. CASE BeginBuild(d)
  BY <1>0, <1>3, Zenon DEF BeginBuild, MarkBuilding
<1>4. CASE MarkReady(d)
  BY <1>0, <1>4, Zenon DEF MarkReady, SetIndex
<1>5. CASE MarkGraphFailed(d)
  BY <1>0, <1>5, Zenon DEF MarkGraphFailed, SetIndex
<1>6. CASE RepairReadyGraphCounts(d)
  BY <1>0, <1>6, Zenon DEF RepairReadyGraphCounts, SetIndex, RowFields
<1>7. CASE CreatePartialGraphIndexForSCIPOnly(d)
  BY <1>0, <1>7, Zenon DEF CreatePartialGraphIndexForSCIPOnly, SetIndex
<1>8. CASE PromotePartialGraph(d)
  BY <1>0, <1>8, Zenon DEF PromotePartialGraph, RowFields
<1>9. \/ UNCHANGED graphIndex \/ MarkPartial(d) \/ MarkSkipped(d) \/ BeginBuild(d) \/ MarkReady(d)
      \/ MarkGraphFailed(d) \/ RepairReadyGraphCounts(d) \/ CreatePartialGraphIndexForSCIPOnly(d)
      \/ PromotePartialGraph(d)
  <2>1. CASE Starts(d) /\ \/ \E p \in DOMAIN GraphPayloads : TakePayload(d, p) \/ Ingest(d, p)
                          \/ \E y \in DOMAIN ScipRows : TakeMerge(d, y)
    BY <2>1, Zenon DEF TakePayload, Ingest, AcceptPayload, TakeMerge, pgVars
  <2>2. CASE \/ \E kind \in stores : ChooseStore(d, kind)
             \/ CheckManifest(d) \/ EnsureSchema(d) \/ ExecuteStatement(d) \/ ExecuteWithSchemaRetry(d)
             \/ WriterFails(d) \/ ResolvePartialGraphIndex(d) \/ WriteSCIPVertices(d)
             \/ StoreRefuses(d) \/ WriteSCIPEdges(d)
    BY <2>2, Zenon DEF ChooseStore, CheckManifest, EnsureSchema, ExecuteStatement, ExecuteWithSchemaRetry,
                WriterFails, ResolvePartialGraphIndex, WriteSCIPVertices, StoreRefuses,
                WriteSCIPEdges, pgVars
  <2>3. CASE \/ DeleteAnchorRows(d) \/ DeleteEdgeRows(d) \/ DeleteFactRows(d)
             \/ InsertRenderedAnchors(d) \/ InsertRenderedSemanticFacts(d)
             \/ InsertRenderedSemanticEdges(d) \/ UpsertRevisionIfManifestReady(d)
             \/ InsertSCIPSemanticFacts(d) \/ InsertSCIPSemanticEdges(d)
    BY <2>3, Zenon DEF DeleteAnchorRows, DeleteEdgeRows, DeleteFactRows, InsertRenderedAnchors,
                InsertRenderedSemanticFacts, InsertRenderedSemanticEdges,
                UpsertRevisionIfManifestReady, InsertSCIPSemanticFacts, InsertSCIPSemanticEdges
  <2> QED BY <2>1, <2>2, <2>3, Zenon DEF WriterStep
<1> QED BY <1>1, <1>2, <1>3, <1>4, <1>5, <1>6, <1>7, <1>8, <1>9, Zenon

\* A snapshot stops being READY only if two writers crossed on it: no delivery
\* alone, of whatever payload, downgrades one (markBuilding and markFailed leave
\* a READY row as it is).
THEOREM ReadySnapshotsStay == GraphSpec => ReadyStays
<1>1. ASSUME GraphInv, [GraphNext]_graphVars
      PROVE  [\A c \in GraphCommits :
                 graphIndex[c].status = "READY" /\ graphIndex'[c].status # "READY" => c \in crossed]_graphVars
  <2>1. CASE \E d \in GraphDeliveries : WriterStep(d)
    BY <1>1, <2>1, WriterKeepsReady, Zenon
  <2>2. CASE \E c \in GraphCommits : ActivateManifest(c) \/ IndexerMarksManifest(c)
    BY <2>2, Zenon DEF ActivateManifest, IndexerMarksManifest
  <2>3. CASE UNCHANGED graphVars
    BY <2>3, Zenon
  <2> QED BY <1>1, <2>1, <2>2, <2>3, Zenon DEF GraphNext
<1> QED BY <1>1, GraphInvHolds, PTL DEF GraphSpec, ReadyStays
=============================================================================
