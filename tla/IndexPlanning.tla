--------------------------- MODULE IndexPlanning ---------------------------
(***************************************************************************)
(* What an INDEX job plans for one revision of a repository, over a         *)
(* history of commits: the manifest of the commit, its difference from the  *)
(* last READY manifest, the SCIP projects of the snapshot, the subjobs and  *)
(* what is in the indexes once they have run.                               *)
(*                                                                          *)
(* A file is a name from a fixed set; its directory is the sequence of the  *)
(* path's segments and its other attributes say how the planner reads the   *)
(* name.  A tree maps the files of a commit to their blob hashes.  How the  *)
(* subjobs run is the subject of IndexSubjobs and IndexPipeline; here they  *)
(* run in one step.                                                         *)
(***************************************************************************)
EXTENDS Integers, FiniteSets, Sequences

CONSTANTS PathInfo,        \* file -> [dir, marks, rootMarker, language, ts]
          Blobs,           \* blob hashes
          FirstTrees,      \* what the repository may hold at first
          DirOrder,        \* the directories, in the order of their paths
          EnabledClasses,  \* SCIP worker classes of the deployment
          MaxProjects,     \* SCIP projects per revision
          MaxCommits, MaxPlanFaults

Paths == DOMAIN PathInfo
Dir(f) == PathInfo[f].dir
Elements(seq) == {seq[i] : i \in DOMAIN seq}
\* HasPrefix of the path and root + "/", in segments.
LiesUnder(dir, root) == Len(root) <= Len(dir) /\ SubSeq(dir, 1, Len(root)) = root
Languages == {"typescript", "go", "python", "java", "cpp", "dotnet", "ruby", "rust", "dart"}

ASSUME PlanningConstants ==
    /\ \A f \in Paths : /\ PathInfo[f].marks \subseteq Languages
                        /\ PathInfo[f].rootMarker \in BOOLEAN /\ PathInfo[f].ts \in BOOLEAN
                        /\ Dir(f) \in Elements(DirOrder)
    /\ \A tree \in FirstTrees : DOMAIN tree \subseteq Paths /\ tree \in [DOMAIN tree -> Blobs]
    /\ MaxProjects \in Nat \ {0} /\ MaxCommits \in Nat \ {0} /\ MaxPlanFaults \in Nat

VARIABLES treeOf,          \* the commits pushed so far, oldest first
          readyManifest,   \* files and commit of the last READY manifest
          scipOf,          \* commit -> the SCIP projects indexed for it
          graphOf,         \* commits with a READY graph
          indexedCommit,   \* Repo.indexedCommitHash; 0 when not set
          planning,        \* the INDEX run under way
          planFaults

planVars == <<treeOf, readyManifest, scipOf, graphOf, indexedCommit, planning, planFaults>>

HeadCommit == Len(treeOf)
NoManifest == [commit |-> 0, files |-> <<>>]
NoPlan == [phase |-> "idle"]

-----------------------------------------------------------------------------
(* The manifest. *)

DetectManifestProjectRoots(files) == {<<>>} \union {Dir(f) : f \in {g \in files : PathInfo[g].rootMarker}}

\* The deepest root the file lies under.
NearestManifestProjectRoot(f, roots) ==
    CHOOSE r \in roots : /\ LiesUnder(Dir(f), r)
                         /\ \A q \in roots : LiesUnder(Dir(f), q) => Len(q) <= Len(r)

ProjectRootOf(f, files) == NearestManifestProjectRoot(f, DetectManifestProjectRoots(files))

\* Languages of source files, by the extension.
InferManifestLanguage(f) == PathInfo[f].language
ManifestHasSemanticCandidates(files) == \E f \in files : InferManifestLanguage(f) \in Languages

-----------------------------------------------------------------------------
(* The difference from the last READY manifest. *)

Added(previous, current) == DOMAIN current \ DOMAIN previous
Changed(previous, current) == {f \in DOMAIN current \cap DOMAIN previous : current[f] # previous[f]}
Deleted(previous, current) == DOMAIN previous \ DOMAIN current

UniqueManifestProjectRoots(selected, files) == {ProjectRootOf(f, files) : f \in selected}

Strategies(mode, zoekt, scip, roots, graph) ==
    [mode |-> mode, zoekt |-> zoekt, scip |-> scip, roots |-> roots, graph |-> graph]

BuildManifestDeltaPlan_AddedOnly(previous, current) ==
    LET files == DOMAIN current
    IN IF DOMAIN previous = {}
       THEN Strategies("FULL", "FULL_REPO", "FULL_REPO", UniqueManifestProjectRoots(files, files), "DELTA_FILES")
       ELSE IF Added(previous, current) \union Changed(previous, current) = {}
       THEN Strategies("NOOP", "NOOP", "NOOP", {}, "NOOP")
       ELSE Strategies("DELTA", "DELTA_FILES", "PROJECT_ROOTS",
                       UniqueManifestProjectRoots(Added(previous, current), files), "DELTA_FILES")

\* A manifest without files counts as none.
BuildManifestDeltaPlan(previous, current) ==
    LET touched == Added(previous, current) \union Changed(previous, current)
        files == DOMAIN current
    IN IF DOMAIN previous = {}
       THEN Strategies("FULL", "FULL_REPO", "FULL_REPO", UniqueManifestProjectRoots(files, files), "DELTA_FILES")
       ELSE IF touched \union Deleted(previous, current) = {}
       THEN Strategies("NOOP", "NOOP", "NOOP", {}, "NOOP")
       ELSE Strategies("DELTA", "DELTA_FILES", "PROJECT_ROOTS", UniqueManifestProjectRoots(touched, files),
                       "DELTA_FILES")

\* The SCIP and graph layers of an unchanged revision are made again.
ForceSemanticRepairPlan(files) ==
    Strategies("SEMANTIC_REPAIR", "NOOP", "FULL_REPO", UniqueManifestProjectRoots(files, files), "DELTA_FILES")

\* FetchSemanticIndexHealth and NeedsRepair: both layers have rows for this
\* very commit.
NeedsRepair(commit) == scipOf[commit] = {} \/ commit \notin graphOf

-----------------------------------------------------------------------------
(* The SCIP projects of a snapshot. *)

IgnoredSegments == {".git", "node_modules", ".next", "dist", "build", "target", ".venv", "venv", "__pycache__", "vendor"}
PathIsIgnored(f) == Elements(Dir(f)) \cap IgnoredSegments # {}
SnapshotFiles(files) == {f \in files : ~PathIsIgnored(f)}

FileInRoot(f, root) == LiesUnder(Dir(f), root)
CoveredByRoot(f, roots) == \E r \in roots : FileInRoot(f, r)

TypeScriptMarkerRoots(files) == {Dir(f) : f \in {g \in files : "typescript" \in PathInfo[g].marks}}

ContainedByNestedRoot(f, root, markerRoots) ==
    \E child \in markerRoots \ {root, <<>>} : LiesUnder(child, root) /\ FileInRoot(f, child)

\* A source file that no project nested in the root takes.
HasTypeScriptInputInRoot(files, root) ==
    \E f \in files : /\ PathInfo[f].ts /\ FileInRoot(f, root)
                     /\ ~ContainedByNestedRoot(f, root, TypeScriptMarkerRoots(files))

HasJVMSourceSetInputInRoot(files, root) ==
    \E f \in files : /\ PathInfo[f].language = "java" /\ FileInRoot(f, root)
                     /\ "src" \in Elements(SubSeq(Dir(f), Len(root) + 1, Len(Dir(f))))

Project(language, root) == [language |-> language, root |-> root]

Detect(files) ==
    LET marked == UNION {{Project(l, Dir(f)) : l \in PathInfo[f].marks} : f \in files}
    IN {p \in marked : /\ p.language = "typescript" => HasTypeScriptInputInRoot(files, p.root)
                       /\ p.language = "java" => HasJVMSourceSetInputInRoot(files, p.root)}

\* The part of the path before its first "src", or the whole repository.
InferTypeScriptRoot(f) ==
    LET at == {i \in 2..Len(Dir(f)) : Dir(f)[i] = "src"}
    IN IF at = {} THEN <<>> ELSE SubSeq(Dir(f), 1, (CHOOSE i \in at : \A j \in at : i <= j) - 1)

AddInferredTypeScriptProjects(files, projects) ==
    LET roots == {p.root : p \in {q \in projects : q.language = "typescript"}}
    IN projects \union {Project("typescript", InferTypeScriptRoot(f)) :
                        f \in {g \in files : PathInfo[g].ts /\ ~CoveredByRoot(g, roots)}}

SupportedClass(language) ==
    CASE language = "typescript" -> "ts-js" [] language = "java" -> "jvm"
      [] language \in {"rust", "dart"} -> "rust-dart" [] OTHER -> language

SplitWorkerClasses(projects) == {p \in projects : SupportedClass(p.language) \in EnabledClasses}

\* sortProjects: by root, then by language.
LanguageRank(l) == CHOOSE i \in 1..9 :
    <<"cpp", "dart", "dotnet", "go", "java", "python", "ruby", "rust", "typescript">>[i] = l
DirRank(d) == CHOOSE i \in DOMAIN DirOrder : DirOrder[i] = d
Precedes(p, q) == \/ DirRank(p.root) < DirRank(q.root)
                  \/ p.root = q.root /\ LanguageRank(p.language) < LanguageRank(q.language)
FirstProjects(projects) == {p \in projects : Cardinality({q \in projects : Precedes(q, p)}) < MaxProjects}

DetectSnapshotPlan(tree) ==
    LET files == SnapshotFiles(DOMAIN tree)
        projects == AddInferredTypeScriptProjects(files, Detect(files))
        runnable == SplitWorkerClasses(projects)
    IN [runnable |-> FirstProjects(runnable), skipped |-> FirstProjects(projects \ runnable)]

FilterSCIPProjectsForDelta(projects, plan) ==
    CASE plan.scip = "FULL_REPO" -> projects
      [] plan.scip = "NOOP" -> {}
      [] OTHER -> {p \in projects : p.root \in plan.roots}

-----------------------------------------------------------------------------
(* The subjobs. *)

\* The executor class whose queue takes the projects of a SCIP worker class.
ForSCIPWorkerClass(scipClass) ==
    CASE scipClass \in {"ts-js", "python"} -> "scip-ts-python"
      [] scipClass = "go"                  -> "scip-go"
      [] scipClass = "jvm"                 -> "scip-jvm"
      [] scipClass = "dotnet"              -> "scip-dotnet"
      [] scipClass = "rust-dart"           -> "scip-rust-dart"
      [] scipClass = "cpp"                 -> "scip-cpp-x86"
      [] scipClass = "ruby"                -> "scip-ruby-x86"

CoreSubjob(layer) == [layer |-> layer, class |-> "core", project |-> Project("none", <<>>)]
ScipSubjob(p) == [layer |-> "SCIP", class |-> ForSCIPWorkerClass(SupportedClass(p.language)), project |-> p]

\* Build refuses a merge or an activation that nothing produces for.
Build(rev) ==
    LET graphProducer == rev.ast \/ rev.projects # {}
    IN IF \/ rev.merge /\ ~graphProducer
          \/ rev.activate /\ ~rev.zoekt /\ ~graphProducer /\ ~rev.merge
       THEN {}
       ELSE {CoreSubjob(l) : l \in {m \in {"ZOEKT", "AST_TREE_SITTER", "GRAPH_MERGE", "ACTIVATE"} :
                                       CASE m = "ZOEKT" -> rev.zoekt [] m = "AST_TREE_SITTER" -> rev.ast
                                         [] m = "GRAPH_MERGE" -> rev.merge [] OTHER -> rev.activate}}
            \union {ScipSubjob(p) : p \in rev.projects}

RevisionOf(plan, projects) ==
    [zoekt |-> plan.zoekt # "NOOP", ast |-> plan.graph # "NOOP", merge |-> TRUE, activate |-> TRUE,
     projects |-> projects]

-----------------------------------------------------------------------------
(* The history. *)

WithFile(tree, p, b) == [f \in DOMAIN tree \union {p} |-> IF f = p THEN b ELSE tree[f]]
WithoutFile(tree, p) == [f \in DOMAIN tree \ {p} |-> tree[f]]

\* A commit that adds, changes or deletes at most one file, and leaves one.
Edits(tree) ==
    {tree} \union (UNION {{WithFile(tree, p, b) : b \in Blobs} : p \in Paths})
           \union {WithoutFile(tree, p) : p \in IF Cardinality(DOMAIN tree) = 1 THEN {} ELSE DOMAIN tree}

Push ==
    /\ HeadCommit < MaxCommits
    /\ \E tree \in Edits(treeOf[HeadCommit]) : treeOf' = Append(treeOf, tree)
    /\ UNCHANGED <<readyManifest, scipOf, graphOf, indexedCommit, planning, planFaults>>

\* RecordUsableIndexedRevision: an unchanged revision is stamped with the
\* commit that was looked at.
RecordUsableIndexedRevision(commit) == indexedCommit' = commit

\* A NOOP plan of a repository with source files is checked for hollow
\* semantic layers.
WithSemanticRepair(commit, tree, plan) ==
    IF plan.mode = "NOOP" /\ ManifestHasSemanticCandidates(DOMAIN tree) /\ NeedsRepair(commit)
    THEN ForceSemanticRepairPlan(DOMAIN tree) ELSE plan

PlanSplitIndex ==
    LET commit == HeadCommit
        tree == treeOf[commit]
        plan == WithSemanticRepair(commit, tree, BuildManifestDeltaPlan(readyManifest.files, tree))
        detected == DetectSnapshotPlan(tree)
        projects == FilterSCIPProjectsForDelta(detected.runnable, plan)
    IN /\ planning.phase = "idle"
       /\ IF plan.mode = "NOOP"
          THEN RecordUsableIndexedRevision(commit) /\ UNCHANGED planning
          ELSE /\ planning' = [phase |-> "planned", commit |-> commit, plan |-> plan,
                               subjobs |-> Build(RevisionOf(plan, projects)),
                               skipped |-> {ScipSubjob(p) : p \in detected.skipped}]
               /\ UNCHANGED indexedCommit
       /\ UNCHANGED <<treeOf, readyManifest, scipOf, graphOf, planFaults>>

\* WritePlan: the indexer's RPC adds what it found to the plan of a job that
\* is in progress and whose manifest is PENDING.
ValidateRevision(rev) == rev.ast \/ rev.projects # {}

WritePlan ==
    /\ planning.phase = "planned" /\ planning.subjobs # {}
    /\ \E p \in DetectSnapshotPlan(treeOf[planning.commit]).runnable :
         LET rev == [zoekt |-> FALSE, ast |-> TRUE, merge |-> TRUE, activate |-> TRUE, projects |-> {p}]
         IN ValidateRevision(rev) /\ planning' = [planning EXCEPT !.subjobs = @ \union Build(rev)]
    /\ UNCHANGED <<treeOf, readyManifest, scipOf, graphOf, indexedCommit, planFaults>>

\* The graph of the commit, from its syntax trees and its SCIP rows.
GraphAfter(commit) == graphOf \union {commit}

ScipProjectsOf(subjobs) == {s.project : s \in {t \in subjobs : t.layer = "SCIP"}}

\* The subjobs run.  A SCIP project whose indexer fails does not stop the
\* others; the activation makes the manifest READY.
SubjobsComplete ==
    /\ planning.phase = "planned" /\ planning.subjobs # {}
    /\ \E failed \in {{}} \union {{p} : p \in IF planFaults = 0 THEN {} ELSE ScipProjectsOf(planning.subjobs)} :
         /\ scipOf' = [scipOf EXCEPT ![planning.commit] = @ \union (ScipProjectsOf(planning.subjobs) \ failed)]
         /\ planFaults' = planFaults - Cardinality(failed)
    /\ graphOf' = GraphAfter(planning.commit)
    /\ readyManifest' = [commit |-> planning.commit, files |-> treeOf[planning.commit]]
    /\ indexedCommit' = planning.commit
    /\ planning' = NoPlan /\ UNCHANGED treeOf

\* A required subjob fails: what the SCIP subjobs wrote stays behind.
PlanFails ==
    /\ planning.phase = "planned" /\ planFaults > 0
    /\ \E done \in SUBSET ScipProjectsOf(planning.subjobs) :
         scipOf' = [scipOf EXCEPT ![planning.commit] = @ \union done]
    /\ planFaults' = planFaults - 1
    /\ planning' = NoPlan
    /\ UNCHANGED <<treeOf, readyManifest, graphOf, indexedCommit>>

PlanningInit ==
    /\ \E tree \in FirstTrees : treeOf = <<tree>>
    /\ readyManifest = NoManifest
    /\ scipOf = [c \in 1..MaxCommits |-> {}]
    /\ graphOf = {} /\ indexedCommit = 0
    /\ planning = NoPlan /\ planFaults = MaxPlanFaults

PlanningNext == Push \/ PlanSplitIndex \/ WritePlan \/ SubjobsComplete \/ PlanFails

PlanningSpec == PlanningInit /\ [][PlanningNext]_planVars

-----------------------------------------------------------------------------
(* Properties. *)

PlanReady == planning.phase = "planned"

\* Rows belong to commits that were pushed, and a plan is for one of them.
PlanningTypeOK ==
    /\ \A c \in 1..MaxCommits : scipOf[c] # {} => c <= HeadCommit
    /\ graphOf \subseteq 1..HeadCommit /\ indexedCommit \in 0..HeadCommit
    /\ readyManifest.commit \in graphOf \union {0}
    /\ planFaults \in 0..MaxPlanFaults
    /\ PlanReady => planning.commit \in 1..HeadCommit /\ planning.plan.mode # "NOOP"

\* The commit a repository is said to be indexed at has the contents that
\* are served, and source files in it have a graph of that very commit:
\* an unchanged revision is skipped only when nothing would differ.
IndexedCommitIsServed ==
    indexedCommit # 0 =>
        /\ readyManifest.files = treeOf[indexedCommit]
        /\ ManifestHasSemanticCandidates(DOMAIN treeOf[indexedCommit]) => indexedCommit \in graphOf

=============================================================================
