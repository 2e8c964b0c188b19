-------------------------- MODULE RepoLifecycleProofs --------------------------
(***************************************************************************)
(* The jobs of a repository, for every number of requests, branches and    *)
(* faults: what searches may use has its graph, also behind removals of    *)
(* other branches of the same commit, and a removal takes what it was      *)
(* asked to take and nothing else.  A repository has one active job at a   *)
(* time until two overlap, and the invariant says, for each place of that  *)
(* job, what it has deleted so far and what its lists may name.            *)
(***************************************************************************)
EXTENDS RepoLifecycle, FiniteSetTheorems, TLAPS

RemoveSteps == {"list", "retire", "graphRows", "indexRows", "manifests", "repoRow", "shards",
                "dirs"}
IndexSteps == {"clear", "clone", "resolve", "plan", "subjobs"}
JobRequest == [kind : {"INDEX", "REMOVE_INDEX"}, ref : RequestRefs]
JobStatuses == {"ABSENT", "PENDING", "IN_PROGRESS", "COMPLETED", "FAILED"}

JobTypes ==
    /\ call \in [Requests -> {"idle", "loaded", "inserting", "inserted", "answered", "dead"}]
    /\ answer \in [Requests -> {0, 200, 404, 409, 502}]
    /\ request \in [Requests -> JobRequest]
    /\ jobRow \in [Requests -> JobStatuses]
    /\ task \in [Requests -> {"none", "queued", "taken", "done"}]
    /\ step \in [Requests -> RemoveSteps \cup IndexSteps \cup {"none"}]
    /\ found \in [Requests -> SUBSET (RepoBranches \cup Commits)]

\* The row is there once the request inserted it, its task once it was enqueued,
\* and who works on a job has its task and does what the request asks for.  The list
\* of an INDEX job has branches.
JobFits(r) ==
    /\ call[r] \in {"idle", "loaded", "inserting"} => jobRow[r] = "ABSENT"
    /\ call[r] \in {"idle", "loaded", "inserting", "inserted"} => task[r] = "none"
    /\ call[r] = "inserted" => jobRow[r] = "PENDING"
    /\ step[r] # "none" => jobRow[r] = "IN_PROGRESS" /\ task[r] = "taken"
    /\ step[r] \in RemoveSteps => Kind(r) = "REMOVE_INDEX"
    /\ step[r] \in IndexSteps => Kind(r) = "INDEX"
    /\ step[r] \in {"plan", "subjobs"} => found[r] \subseteq RepoBranches

JobsFit == JobTypes /\ \A r \in Requests : JobFits(r)

RowTypes ==
    /\ manifests \subseteq ManifestRow /\ IsFiniteSet(manifests)
    /\ \A m, n \in manifests :
          m.status = "READY" /\ n.status = "READY" /\ m.branch = n.branch => m = n
    /\ revisions \subseteq RepoBranches /\ indexes \subseteq RepoBranches
    /\ shards \subseteq RepoBranches /\ listed \subseteq RepoBranches
    /\ graphRow \in [Commits -> RepoBranches \cup {NoBranch}]
    /\ graphData \subseteq Commits /\ dirs \subseteq Commits
    /\ tree \in {"absent", "ready"}

\* Jobs that did not overlap were active one at a time.
OneActive == ~overlapped => \A r, s \in Requests : Active(r) /\ Active(s) => r = s

\* What removal r has deleted so far, and what it will not touch: no commit on its
\* list is the head of a revision it was not asked to remove.
RemovalFits(r) ==
    /\ step[r] \in RemoveSteps \ {"list"} =>
          \A b \in revisions \ Asked(r) : HeadOf[b] \notin found[r]
    /\ step[r] \in {"indexRows", "manifests", "repoRow", "shards", "dirs"} =>
          Asked(r) \cap revisions = {}
    /\ step[r] \in {"manifests", "repoRow", "shards", "dirs"} => Asked(r) \cap indexes = {}
    /\ step[r] \in {"repoRow", "shards", "dirs"} => \A m \in manifests : m.branch \notin Asked(r)
    /\ step[r] \in {"shards", "dirs"} => Asked(r) \cap listed = {}
    /\ step[r] = "dirs" => Asked(r) \cap shards = {}

RemovalsFit == ~overlapped => \A r \in Requests : RemovalFits(r)

\* A PENDING manifest is of a job that started; one whose producers are done is of
\* a job at its subjobs, and its graph is there.
PendingFits(m) ==
    m.status = "PENDING" =>
        /\ m.job \in Requests /\ jobRow[m.job] \notin {"ABSENT", "PENDING"}
        /\ m.built /\ jobRow[m.job] = "IN_PROGRESS" =>
              /\ step[m.job] = "subjobs"
              /\ ~overlapped => HeadOf[m.branch] \in graphData

ManifestsFit == \A m \in manifests : PendingFits(m)

\* The branches that a removal is at work on or gave up.
Touched ==
    UNION {Asked(r) : r \in {x \in Requests : /\ Kind(x) = "REMOVE_INDEX"
                                              /\ jobRow[x] \in {"IN_PROGRESS", "FAILED"}}}

GraphsFit ==
    ~overlapped => \A b \in revisions \ Touched :
                       HeadOf[b] \in graphData /\ graphRow[HeadOf[b]] # NoBranch

RepoInv ==
    /\ JobsFit
    /\ RowTypes
    /\ overlapped \in BOOLEAN
    /\ OneActive
    /\ RemovalsFit
    /\ ManifestsFit
    /\ GraphsFit

-----------------------------------------------------------------------------
(***************************************************************************)
(* Refs and rows.                                                          *)
(***************************************************************************)

\* However a client spells a ref, the rows of that branch are the ones a removal
\* deletes: cleanupRefCandidates has the full spelling.
LEMMA TargetsAreAsked ==
    ASSUME JobsFit, NEW r \in Requests
    PROVE  Targets(r) = Asked(r) /\ Asked(r) \subseteq RepoBranches
           /\ (Whole(r) => Asked(r) = RepoBranches)
<1>1. PICK ref \in RequestRefs : ref = RefOf(r)
  BY Zenon DEF JobsFit, JobTypes, JobRequest, RefOf
<1>2. CASE ref = NoRef
  BY <1>1, <1>2, Zenon DEF Targets, Asked, Whole
<1>3. CASE ref # NoRef
  <2>1. PICK f \in {"short", "full"}, b \in RepoBranches : ref = [form |-> f, branch |-> b]
    BY <1>3, LifecycleConstants, Zenon DEF RequestRefs
  <2>2. CleanupRefCandidates(ref) = {ref, [form |-> "short", branch |-> b], [form |-> "full", branch |-> b]}
    BY <1>3, <2>1 DEF CleanupRefCandidates
  <2>3. \A x \in RepoBranches : [form |-> "full", branch |-> x] \in CleanupRefCandidates(ref) <=> x = b
    BY <2>1, <2>2, Zenon
  <2>4. Targets(r) = {b}
    BY <1>1, <1>3, <2>3, Zenon DEF Targets
  <2>5. Asked(r) = {b}
    BY <1>1, <1>3, <2>1 DEF Asked
  <2> QED BY <1>1, <1>3, <2>4, <2>5, Zenon DEF Whole
<1> QED BY <1>2, <1>3, Zenon

\* Only heads of branches are commits.
LEMMA HeadsAreCommits == \A b \in RepoBranches : HeadOf[b] \in Commits
  BY Zenon DEF Commits

\* A set of at most one request, counted, has no two.
LEMMA AtMostOneActive ==
    ASSUME NEW S \in SUBSET Requests, ~(Cardinality(S) > 1)
    PROVE  \A x, y \in S : x = y
<1>0. IsFiniteSet(S)
  BY LifecycleConstants, FS_Subset, Zenon
<1>1. Cardinality(S) \in Nat
  BY <1>0, FS_CardinalityType, Zenon
<1>2. CASE Cardinality(S) = 0
  <2>1. S = {}
    BY <1>0, <1>2, FS_EmptySet, Zenon
  <2> QED BY <2>1, Zenon
<1>3. CASE Cardinality(S) = 1
  <2>1. \E x : S = {x}
    BY <1>0, <1>3, FS_Singleton, Zenon
  <2> QED BY <2>1, Zenon
<1> QED BY <1>1, <1>2, <1>3

\* The jobs that are active after a step did not overlap if the step noted none.
LEMMA OverlapNoted ==
    ASSUME RepoInv, NoteOverlap
    PROVE  /\ overlapped' \in BOOLEAN /\ (~overlapped' => ~overlapped)
           /\ OneActive'
<1>1. overlapped' \in BOOLEAN /\ (~overlapped' => ~overlapped)
  BY Zenon DEF NoteOverlap, RepoInv
<1>2. ASSUME ~overlapped' PROVE \A r, s \in Requests : Active(r)' /\ Active(s)' => r = s
  <2>1. ~(Cardinality({r \in Requests : jobRow'[r] \in ActiveRow}) > 1)
    BY <1>2, Zenon DEF NoteOverlap
  <2>2. {r \in Requests : jobRow'[r] \in ActiveRow} \in SUBSET Requests
    OBVIOUS
  <2>3. \A x, y \in {r \in Requests : jobRow'[r] \in ActiveRow} : x = y
    BY <2>1, <2>2, AtMostOneActive, Zenon
  <2> QED BY <2>3, Zenon DEF Active
<1> QED BY <1>1, <1>2, Zenon DEF OneActive

-----------------------------------------------------------------------------
(***************************************************************************)
(* What a step leaves to the others.                                       *)
(***************************************************************************)

\* The job somebody works on is the only active one, as long as none overlapped.
LEMMA WorkerIsAlone ==
    ASSUME RepoInv, ~overlapped, NEW r \in Requests, Active(r)
    PROVE  \A s \in Requests \ {r} : ~Active(s) /\ step[s] = "none"
<1>1. \A s \in Requests \ {r} : ~Active(s)
  BY Zenon DEF RepoInv, OneActive
<1>2. \A s \in Requests : step[s] # "none" => Active(s)
  BY Zenon DEF RepoInv, JobsFit, JobFits, Active, ActiveRow
<1> QED BY <1>1, <1>2, Zenon

\* A request that goes on, or ends before anybody took its task, touches nothing
\* that the jobs have.
LEMMA RequestKeeps ==
    ASSUME RepoInv, NoteOverlap, JobsFit', NEW r \in Requests, NEW x \in JobStatuses,
           UNCHANGED <<workVars, indexVars>>,
           jobRow' = [jobRow EXCEPT ![r] = x],
           \/ x = jobRow[r]
           \/ jobRow[r] = "ABSENT" /\ x = "PENDING"
           \/ jobRow[r] = "PENDING" /\ x = "FAILED",
           \A s \in Requests : request'[s] # request[s] => jobRow[s] = "ABSENT" /\ jobRow'[s] = "ABSENT"
    PROVE  RepoInv'
<1>1. OneActive' /\ overlapped' \in BOOLEAN /\ (~overlapped' => ~overlapped)
  BY OverlapNoted, Zenon
<1>2. RowTypes'
  BY Zenon DEF RepoInv, RowTypes, indexVars
<1>3. jobRow \in [Requests -> JobStatuses]
  BY ZenonT(60) DEF RepoInv, JobsFit, JobTypes
<1>4. RemovalsFit'
  <2> SUFFICES ASSUME ~overlapped', NEW s \in Requests
               PROVE  RemovalFits(s)'
    BY Zenon DEF RemovalsFit
  <2>1. RemovalFits(s)
    BY <1>1, Zenon DEF RepoInv, RemovalsFit
  <2>2. CASE step[s] = "none"
    BY <2>2, Zenon DEF RemovalFits, RemoveSteps, workVars
  <2>3. CASE step[s] # "none"
    <3>1. request'[s] = request[s]
      BY <2>3, Zenon DEF RepoInv, JobsFit, JobFits
    <3> QED BY <2>1, <3>1, Zenon DEF RemovalFits, Asked, RefOf, workVars, indexVars
  <2> QED BY <2>2, <2>3, Zenon
<1>5. ManifestsFit'
  <2> SUFFICES ASSUME NEW m \in manifests, m.status = "PENDING"
               PROVE  PendingFits(m)'
    BY Zenon DEF ManifestsFit, PendingFits, indexVars
  <2>1. PendingFits(m)
    BY Zenon DEF RepoInv, ManifestsFit
  <2>2. m.job \in Requests /\ jobRow[m.job] \notin {"ABSENT", "PENDING"}
    BY <2>1, Zenon DEF PendingFits
  <2>3. jobRow'[m.job] = jobRow[m.job]
    BY <1>3, <2>2, Zenon
  <2> QED BY <1>1, <2>1, <2>2, <2>3, Zenon DEF PendingFits, workVars, indexVars
<1>6. Touched \subseteq Touched'
  <2>1. ASSUME NEW s \in Requests, Kind(s) = "REMOVE_INDEX", jobRow[s] \in {"IN_PROGRESS", "FAILED"}
        PROVE  Kind(s)' = "REMOVE_INDEX" /\ jobRow'[s] \in {"IN_PROGRESS", "FAILED"} /\ Asked(s)' = Asked(s)
    <3>1. request'[s] = request[s]
      BY <2>1, Zenon
    <3>2. jobRow'[s] = jobRow[s]
      BY <1>3, <2>1, Zenon
    <3> QED BY <2>1, <3>1, <3>2, Zenon DEF Kind, Asked, RefOf
  <2> QED BY <2>1, Zenon DEF Touched
<1>7. GraphsFit'
  <2> SUFFICES ASSUME ~overlapped', NEW b \in revisions \ Touched
               PROVE  HeadOf[b] \in graphData /\ graphRow[HeadOf[b]] # NoBranch
    BY <1>6, Zenon DEF GraphsFit, indexVars
  <2> QED BY <1>1, Zenon DEF RepoInv, GraphsFit
<1> QED BY <1>1, <1>2, <1>4, <1>5, <1>7, Zenon DEF RepoInv

\* A step of INDEX job r adds rows and graphs only.
LEMMA IndexingKeeps ==
    ASSUME RepoInv, NoteOverlap, JobsFit', RowTypes', NEW r \in Requests,
           step[r] \in IndexSteps, UNCHANGED request,
           NEW s \in IndexSteps \cup {"none"}, step' = [step EXCEPT ![r] = s],
           NEW x \in {"IN_PROGRESS", "COMPLETED", "FAILED"}, jobRow' = [jobRow EXCEPT ![r] = x],
           graphData \subseteq graphData',
           \A c \in Commits : graphRow[c] # NoBranch => graphRow'[c] # NoBranch,
           ~overlapped => \A b \in revisions' \ revisions :
                              HeadOf[b] \in graphData' /\ graphRow'[HeadOf[b]] # NoBranch,
           ManifestsFit'
    PROVE  RepoInv'
<1>1. OneActive' /\ overlapped' \in BOOLEAN /\ (~overlapped' => ~overlapped)
  BY OverlapNoted, Zenon
<1>2. /\ jobRow \in [Requests -> JobStatuses] /\ jobRow[r] = "IN_PROGRESS"
      /\ step \in [Requests -> RemoveSteps \cup IndexSteps \cup {"none"}] /\ Kind(r) = "INDEX"
  BY DEF RepoInv, JobsFit, JobTypes, JobFits, IndexSteps
<1>3. RemovalsFit'
  <2> SUFFICES ASSUME ~overlapped', NEW t \in Requests
               PROVE  step'[t] \notin RemoveSteps
    BY Zenon DEF RemovalsFit, RemovalFits, RemoveSteps
  <2>1. CASE t = r
    BY <1>2, <2>1, Zenon DEF RemoveSteps, IndexSteps
  <2>2. CASE t # r
    BY <1>1, <1>2, <2>2, WorkerIsAlone, Zenon DEF RemoveSteps, Active, ActiveRow
  <2> QED BY <2>1, <2>2, Zenon
<1>4. Touched' = Touched
  <2>1. \A t \in Requests : Kind(t) = "REMOVE_INDEX" => jobRow'[t] = jobRow[t]
    BY <1>2, Zenon
  <2> QED BY <2>1 DEF Touched, Asked, RefOf, Kind
<1>5. GraphsFit'
  <2> SUFFICES ASSUME ~overlapped', NEW b \in revisions' \ Touched
               PROVE  HeadOf[b] \in graphData' /\ graphRow'[HeadOf[b]] # NoBranch
    BY <1>4, Zenon DEF GraphsFit
  <2>1. HeadOf[b] \in Commits
    BY HeadsAreCommits, Zenon DEF RowTypes
  <2>2. CASE b \in revisions
    BY <1>1, <2>1, <2>2, Zenon DEF RepoInv, GraphsFit
  <2> QED BY <1>1, <2>2, Zenon
<1> QED BY <1>1, <1>3, <1>5, Zenon DEF RepoInv

\* A step of removal r deletes, and nothing that a revision it was not asked to
\* remove needs.  When it completes, the revisions it was asked to remove are gone.
LEMMA RemovingKeeps ==
    ASSUME RepoInv, NoteOverlap, JobsFit', RowTypes', NEW r \in Requests,
           step[r] \in RemoveSteps, UNCHANGED request,
           NEW s \in RemoveSteps \cup {"none"}, step' = [step EXCEPT ![r] = s],
           NEW x \in {"IN_PROGRESS", "COMPLETED", "FAILED"}, jobRow' = [jobRow EXCEPT ![r] = x],
           revisions' \subseteq revisions, manifests' \subseteq manifests,
           ~overlapped => /\ \A b \in revisions' \ Asked(r) :
                                /\ HeadOf[b] \in graphData => HeadOf[b] \in graphData'
                                /\ graphRow[HeadOf[b]] # NoBranch => graphRow'[HeadOf[b]] # NoBranch
                          /\ RemovalFits(r)'
                          /\ x = "COMPLETED" => Asked(r) \cap revisions' = {}
    PROVE  RepoInv'
<1>1. OneActive' /\ overlapped' \in BOOLEAN /\ (~overlapped' => ~overlapped)
  BY OverlapNoted, Zenon
<1>2. /\ jobRow \in [Requests -> JobStatuses] /\ jobRow[r] = "IN_PROGRESS"
      /\ step \in [Requests -> RemoveSteps \cup IndexSteps \cup {"none"}]
      /\ Kind(r) = "REMOVE_INDEX" /\ Active(r) /\ step[r] # "subjobs" /\ s # "subjobs"
  BY DEF RepoInv, JobsFit, JobTypes, JobFits, RemoveSteps, Active, ActiveRow
<1>3. RemovalsFit'
  <2> SUFFICES ASSUME ~overlapped', NEW t \in Requests, t # r
               PROVE  RemovalFits(t)'
    BY <1>1, Zenon DEF RemovalsFit
  <2>1. step'[t] = "none"
    BY <1>1, <1>2, WorkerIsAlone, Zenon
  <2> QED BY <2>1, Zenon DEF RemovalFits, RemoveSteps
<1>4. ManifestsFit'
  <2> SUFFICES ASSUME NEW m \in manifests, m.status = "PENDING"
               PROVE  PendingFits(m)'
    BY Zenon DEF ManifestsFit, PendingFits
  <2>1. PendingFits(m)
    BY Zenon DEF RepoInv, ManifestsFit
  <2>2. m.job \in Requests /\ jobRow[m.job] \notin {"ABSENT", "PENDING"}
    BY <2>1, Zenon DEF PendingFits
  <2>3. CASE m.job = r
    BY <1>2, <2>1, <2>2, <2>3, Zenon DEF PendingFits
  <2>4. CASE m.job # r
    <3>1. jobRow'[m.job] = jobRow[m.job] /\ step'[m.job] = step[m.job]
      BY <1>2, <2>2, <2>4, Zenon
    <3>2. ~overlapped => jobRow[m.job] # "IN_PROGRESS"
      BY <1>2, <2>2, <2>4, WorkerIsAlone, Zenon DEF Active, ActiveRow
    <3> QED BY <1>1, <2>1, <2>2, <3>1, <3>2, Zenon DEF PendingFits
  <2> QED BY <2>3, <2>4, Zenon
<1>5. x # "COMPLETED" => Touched' = Touched
  <2> SUFFICES ASSUME x # "COMPLETED" PROVE Touched' = Touched
    OBVIOUS
  <2>1. \A t \in Requests : jobRow'[t] \in {"IN_PROGRESS", "FAILED"} <=> jobRow[t] \in {"IN_PROGRESS", "FAILED"}
    BY <1>2, Zenon
  <2> QED BY <2>1, Zenon DEF Touched, Asked, RefOf, Kind
<1>6. Touched \subseteq Touched' \cup Asked(r)
  <2>1. \A t \in Requests \ {r} : jobRow'[t] = jobRow[t]
    BY <1>2, Zenon
  <2> QED BY <2>1 DEF Touched, Asked, RefOf, Kind
<1>7. r \in {t \in Requests : Kind(t) = "REMOVE_INDEX" /\ jobRow[t] \in {"IN_PROGRESS", "FAILED"}}
  BY <1>2, Zenon
<1>8. Asked(r) \subseteq Touched
  BY <1>7, Zenon DEF Touched
<1>9. GraphsFit'
  <2> SUFFICES ASSUME ~overlapped', NEW b \in revisions', b \notin Touched'
               PROVE  HeadOf[b] \in graphData' /\ graphRow'[HeadOf[b]] # NoBranch
    BY Zenon DEF GraphsFit
  <2>1. b \notin Touched
    BY <1>1, <1>5, <1>6, Zenon
  <2>2. b \in revisions \ Touched /\ b \in revisions' \ Asked(r)
    BY <1>8, <2>1, Zenon
  <2> QED BY <1>1, <2>2, Zenon DEF RepoInv, GraphsFit
<1> QED BY <1>1, <1>3, <1>4, <1>9, Zenon DEF RepoInv

\* A worker that dies, fails or refuses leaves the rows and graphs as they are.
LEMMA GivingUpKeeps ==
    ASSUME RepoInv, NoteOverlap, JobsFit', NEW r \in Requests,
           step[r] # "none", UNCHANGED request, step' = [step EXCEPT ![r] = "none"],
           \/ UNCHANGED jobRow /\ step[r] # "subjobs"
           \/ jobRow' = [jobRow EXCEPT ![r] = "FAILED"],
           UNCHANGED <<manifests, revisions, graphRow, graphData, indexes, shards, listed, dirs>>,
           tree' \in {"absent", "ready"}
    PROVE  RepoInv'
<1>1. RowTypes'
  BY Zenon DEF RepoInv, RowTypes
<1>2. /\ jobRow \in [Requests -> JobStatuses] /\ jobRow[r] = "IN_PROGRESS"
      /\ step \in [Requests -> RemoveSteps \cup IndexSteps \cup {"none"}]
  BY DEF RepoInv, JobsFit, JobTypes, JobFits
<1>3. PICK x \in {"IN_PROGRESS", "FAILED"} : jobRow' = [jobRow EXCEPT ![r] = x] /\ (x = "FAILED" \/ step[r] # "subjobs")
  <2>1. CASE UNCHANGED jobRow /\ step[r] # "subjobs"
    <3>1. jobRow' = [jobRow EXCEPT ![r] = "IN_PROGRESS"]
      BY <1>2, <2>1, Zenon
    <3> QED BY <2>1, <3>1, Zenon
  <2> QED BY <2>1, Zenon
<1>4. CASE step[r] \in RemoveSteps
  <2>1. RemovalFits(r)'
    BY <1>2, Zenon DEF RemovalFits, RemoveSteps
  <2> QED BY <1>1, <1>3, <1>4, <2>1, RemovingKeeps, Zenon
<1>5. CASE step[r] \in IndexSteps
  <2>1. ManifestsFit'
    <3> SUFFICES ASSUME NEW m \in manifests, m.status = "PENDING"
                 PROVE  PendingFits(m)'
      BY Zenon DEF ManifestsFit, PendingFits
    <3>1. PendingFits(m)
      BY Zenon DEF RepoInv, ManifestsFit
    <3>2. m.job \in Requests /\ jobRow[m.job] \notin {"ABSENT", "PENDING"}
      BY <3>1, Zenon DEF PendingFits
    <3>3. overlapped' \in BOOLEAN /\ (~overlapped' => ~overlapped)
      BY OverlapNoted, Zenon
    <3>4. CASE m.job = r
      BY <1>2, <1>3, <3>1, <3>2, <3>4, Zenon DEF PendingFits
    <3>5. CASE m.job # r
      <4>1. jobRow'[m.job] = jobRow[m.job] /\ step'[m.job] = step[m.job]
        BY <1>2, <1>3, <3>2, <3>5, Zenon
      <4> QED BY <3>1, <3>2, <3>3, <4>1, Zenon DEF PendingFits
    <3> QED BY <3>4, <3>5, Zenon
  <2> QED BY <1>1, <1>3, <1>5, <2>1, IndexingKeeps, Zenon
<1> QED BY <1>2, <1>4, <1>5, Zenon

-----------------------------------------------------------------------------
(***************************************************************************)
(* Requests and tasks.                                                     *)
(***************************************************************************)

\* The worker of job r goes on to another step of the same kind of job.
LEMMA JobGoesOn ==
    ASSUME JobsFit, NEW r \in Requests, NEW s, UNCHANGED <<callVars, jobRow, task>>,
           step' = [step EXCEPT ![r] = s],
           \/ step[r] \in RemoveSteps /\ s \in RemoveSteps
           \/ step[r] \in IndexSteps /\ s \in IndexSteps,
           NEW f \in SUBSET (RepoBranches \cup Commits), found' = [found EXCEPT ![r] = f],
           s \in {"plan", "subjobs"} => f \subseteq RepoBranches
    PROVE  /\ JobsFit' /\ UNCHANGED request
           /\ jobRow' = [jobRow EXCEPT ![r] = "IN_PROGRESS"] /\ jobRow[r] = "IN_PROGRESS"
<1>1. /\ step \in [Requests -> RemoveSteps \cup IndexSteps \cup {"none"}]
      /\ found \in [Requests -> SUBSET (RepoBranches \cup Commits)]
      /\ jobRow \in [Requests -> JobStatuses] /\ step[r] # "none"
  BY Zenon DEF JobsFit, JobTypes, RemoveSteps, IndexSteps
<1>2. jobRow[r] = "IN_PROGRESS"
  BY <1>1, Zenon DEF JobsFit, JobFits
<1>3. JobTypes'
  BY <1>1, Zenon DEF JobsFit, JobTypes, callVars
<1>4. ASSUME NEW t \in Requests PROVE JobFits(t)'
  <2>1. JobFits(t)
    BY Zenon DEF JobsFit
  <2>2. CASE t = r
    BY <1>1, <2>1, <2>2, Zenon DEF JobFits, Kind, callVars, RemoveSteps, IndexSteps
  <2>3. CASE t # r
    BY <1>1, <2>1, <2>3, Zenon DEF JobFits, Kind, callVars
  <2> QED BY <2>2, <2>3, Zenon
<1> QED BY <1>1, <1>2, <1>3, <1>4, Zenon DEF JobsFit, callVars

\* The worker of job r ends it.
LEMMA JobEnds ==
    ASSUME JobsFit, NEW r \in Requests, NEW x \in {"COMPLETED", "FAILED"}, UNCHANGED callVars,
           step[r] # "none", EndJob(r, x)
    PROVE  /\ JobsFit' /\ UNCHANGED request /\ step' = [step EXCEPT ![r] = "none"]
           /\ jobRow' = [jobRow EXCEPT ![r] = x] /\ jobRow[r] = "IN_PROGRESS"
<1>1. /\ step \in [Requests -> RemoveSteps \cup IndexSteps \cup {"none"}]
      /\ jobRow \in [Requests -> JobStatuses]
      /\ task \in [Requests -> {"none", "queued", "taken", "done"}]
      /\ found \in [Requests -> SUBSET (RepoBranches \cup Commits)]
  BY DEF JobsFit, JobTypes
<1>2. jobRow[r] = "IN_PROGRESS" /\ call[r] \notin {"idle", "loaded", "inserting", "inserted"}
  BY Zenon DEF JobsFit, JobFits
<1>3. jobRow' = [jobRow EXCEPT ![r] = x] /\ step' = [step EXCEPT ![r] = "none"]
  BY <1>2, Zenon DEF EndJob, GoTo, ActiveRow
<1>4. task' = [task EXCEPT ![r] = "done"] /\ found' = [found EXCEPT ![r] = {}]
  BY Zenon DEF EndJob
<1>5. JobTypes'
  BY <1>1, <1>3, <1>4, Zenon DEF JobsFit, JobTypes, callVars, JobStatuses
<1>6. ASSUME NEW t \in Requests PROVE JobFits(t)'
  <2>1. JobFits(t)
    BY Zenon DEF JobsFit
  <2>2. CASE t = r
    BY <1>1, <1>2, <1>3, <1>4, <2>2, Zenon DEF JobFits, callVars, RemoveSteps, IndexSteps
  <2>3. CASE t # r
    BY <1>1, <1>3, <1>4, <2>1, <2>3, Zenon DEF JobFits, Kind, callVars
  <2> QED BY <2>2, <2>3, Zenon
<1> QED BY <1>2, <1>3, <1>5, <1>6, Zenon DEF JobsFit, callVars

\* Scheduling a job up to the insert and the enqueue, with its failures, and the
\* loss of the connection.
LEMMA Scheduling ==
    ASSUME RepoInv, NoteOverlap, NEW r \in Requests,
           RequestStep(r) \/ EnqueueFails(r) \/ SchedulerDies(r)
    PROVE  RepoInv'
<1> USE DEF callVars
<1>0. JobsFit /\ JobTypes /\ JobFits(r)
  BY Zenon DEF RepoInv, JobsFit
<1>1. ASSUME NEW kind \in {"INDEX", "REMOVE_INDEX"}, ScheduleRepoIndex(r, kind) PROVE RepoInv'
  <2>1. PICK q \in JobRequest : request' = [request EXCEPT ![r] = q]
    <3>1. PICK ref \in RequestRefs : request' = [request EXCEPT ![r] = [kind |-> kind, ref |-> ref]]
      BY <1>1, Zenon DEF ScheduleRepoIndex
    <3>2. [kind |-> kind, ref |-> ref] \in JobRequest
      BY Zenon DEF JobRequest
    <3> QED BY <3>1, <3>2, Zenon
  <2>2. PICK k \in {"loaded", "answered"} : call' = [call EXCEPT ![r] = k] /\ call[r] = "idle"
    BY <1>1, Zenon DEF ScheduleRepoIndex, Reply
  <2>a. answer' \in [Requests -> {0, 200, 404, 409, 502}]
    BY <1>0, <1>1 DEF ScheduleRepoIndex, Reply, MapSchedulerError, HandleRepoIndex, JobTypes
  <2>3. UNCHANGED <<jobRow, task, workVars, indexVars>>
    BY <1>1, Zenon DEF ScheduleRepoIndex
  <2>4. jobRow[r] = "ABSENT" /\ task[r] = "none" /\ step[r] = "none"
    BY <1>0, <2>2, Zenon DEF JobFits
  <2>5. JobTypes'
    BY <1>0, <2>1, <2>2, <2>a, <2>3, ZenonT(60) DEF JobTypes, workVars
  <2>6. ASSUME NEW t \in Requests PROVE JobFits(t)'
    <3>1. JobFits(t)
      BY <1>0, Zenon DEF JobsFit
    <3>2. CASE t = r
      BY <1>0, <2>2, <2>3, <2>4, <3>2 DEF JobFits, JobTypes, workVars, RemoveSteps, IndexSteps
    <3>3. CASE t # r
      BY <1>0, <2>1, <2>2, <2>3, <3>1, <3>3 DEF JobFits, JobTypes, Kind, workVars
    <3> QED BY <3>2, <3>3, Zenon
  <2>7. jobRow' = [jobRow EXCEPT ![r] = "ABSENT"]
    BY <1>0, <2>3, <2>4, ZenonT(60) DEF JobTypes
  <2>8. \A t \in Requests : request'[t] # request[t] => jobRow[t] = "ABSENT" /\ jobRow'[t] = "ABSENT"
    BY <1>0, <2>1, <2>3, <2>4 DEF JobTypes
  <2>9. JobsFit'
    BY <2>5, <2>6, Zenon DEF JobsFit
  <2> QED BY <2>3, <2>4, <2>7, <2>8, <2>9, RequestKeeps, Zenon DEF JobStatuses
<1>2. CASE StartInsert(r)
  <2>1. /\ call' = [call EXCEPT ![r] = "inserting"] /\ call[r] = "loaded"
        /\ UNCHANGED <<request, answer, jobRow, task, workVars, indexVars>>
    BY <1>2, Zenon DEF StartInsert
  <2>2. JobTypes'
    BY <1>0, <2>1 DEF JobTypes, workVars
  <2>3. \A t \in Requests : JobFits(t)'
    BY <1>0, <2>1 DEF JobTypes, JobsFit, JobFits, Kind, workVars
  <2>4. jobRow' = [jobRow EXCEPT ![r] = jobRow[r]] /\ jobRow[r] \in JobStatuses
    BY <1>0, <2>1 DEF JobTypes
  <2>5. JobsFit'
    BY <2>2, <2>3, Zenon DEF JobsFit
  <2> QED BY <2>1, <2>4, <2>5, RequestKeeps, Zenon
<1>3. CASE InsertPendingRepoIndexJob(r)
  <2>0. call[r] = "inserting" /\ jobRow[r] = "ABSENT"
    BY <1>0, <1>3, Zenon DEF InsertPendingRepoIndexJob, JobFits
  <2>1. PICK k \in {"inserted", "answered"}, x \in {"ABSENT", "PENDING"} :
            /\ call' = [call EXCEPT ![r] = k] /\ jobRow' = [jobRow EXCEPT ![r] = x]
            /\ k = "inserted" => x = "PENDING"
    <3>1. jobRow = [jobRow EXCEPT ![r] = "ABSENT"]
      BY <1>0, <2>0, ZenonT(60) DEF JobTypes
    <3> QED BY <1>3, <3>1, Zenon DEF InsertPendingRepoIndexJob, Reply
  <2>a. answer' \in [Requests -> {0, 200, 404, 409, 502}]
    BY <1>0, <1>3 DEF InsertPendingRepoIndexJob, Reply, MapSchedulerError, HandleRepoIndex, JobTypes
  <2>2. UNCHANGED <<request, task, workVars, indexVars>>
    BY <1>3, Zenon DEF InsertPendingRepoIndexJob
  <2>3. JobTypes'
    BY <1>0, <2>1, <2>a, <2>2, ZenonT(60) DEF JobTypes, workVars, JobStatuses
  <2>4. ASSUME NEW t \in Requests PROVE JobFits(t)'
    <3>1. JobFits(t)
      BY <1>0, Zenon DEF JobsFit
    <3>2. CASE t = r
      BY <1>0, <2>0, <2>1, <2>2, <3>1, <3>2 DEF JobFits, JobTypes, workVars, RemoveSteps, IndexSteps
    <3>3. CASE t # r
      BY <1>0, <2>1, <2>2, <3>1, <3>3 DEF JobFits, JobTypes, Kind, workVars
    <3> QED BY <3>2, <3>3, Zenon
  <2>5. JobsFit'
    BY <2>3, <2>4, Zenon DEF JobsFit
  <2> QED BY <2>0, <2>1, <2>2, <2>5, RequestKeeps, Zenon DEF JobStatuses
<1>4. CASE EnqueueTask(r) \/ EnqueueFails(r) \/ SchedulerDies(r)
  <2>0. call[r] = "inserted" /\ jobRow[r] = "PENDING" /\ task[r] = "none"
    BY <1>0, <1>4, Zenon DEF EnqueueTask, EnqueueFails, SchedulerDies, JobFits
  <2>1. PICK k \in {"dead", "answered"} : call' = [call EXCEPT ![r] = k]
    BY <1>4, Zenon DEF EnqueueTask, EnqueueFails, SchedulerDies, Reply
  <2>a. answer' \in [Requests -> {0, 200, 404, 409, 502}]
    BY <1>0, <1>4 DEF EnqueueTask, EnqueueFails, SchedulerDies, Reply, MapSchedulerError,
                      HandleRepoIndex, JobTypes
  <2>b. PICK x \in {"PENDING", "FAILED"} : jobRow' = [jobRow EXCEPT ![r] = x]
    <3>1. CASE UNCHANGED jobRow
      <4>1. jobRow' = [jobRow EXCEPT ![r] = "PENDING"]
        BY <1>0, <2>0, <3>1, Zenon DEF JobTypes
      <4> QED BY <4>1, Zenon
    <3>2. CASE EnqueueFails(r)
      BY <2>0, <3>2, Zenon DEF EnqueueFails
    <3> QED BY <1>4, <3>1, <3>2, Zenon DEF EnqueueTask, SchedulerDies
  <2>c. PICK y \in {"none", "queued"} : task' = [task EXCEPT ![r] = y]
    <3>1. CASE UNCHANGED task
      <4>1. task' = [task EXCEPT ![r] = "none"]
        BY <1>0, <2>0, <3>1, Zenon DEF JobTypes
      <4> QED BY <4>1, Zenon
    <3>2. CASE EnqueueFails(r)
      BY <2>0, <3>2, Zenon DEF EnqueueFails
    <3> QED BY <1>4, <3>1, <3>2, Zenon DEF EnqueueTask, SchedulerDies
  <2>2. UNCHANGED <<request, workVars, indexVars>>
    BY <1>4, Zenon DEF EnqueueTask, EnqueueFails, SchedulerDies
  <2>3. JobTypes'
    BY <1>0, <2>1, <2>a, <2>b, <2>c, <2>2 DEF JobTypes, workVars, JobStatuses
  <2>4. ASSUME NEW t \in Requests PROVE JobFits(t)'
    <3>1. JobFits(t)
      BY <1>0, Zenon DEF JobsFit
    <3>2. CASE t = r
      BY <1>0, <2>0, <2>1, <2>b, <2>c, <2>2, <3>1, <3>2, SMTT(30) DEF JobFits, JobTypes, workVars, RemoveSteps, IndexSteps
    <3>3. CASE t # r
      BY <1>0, <2>1, <2>b, <2>c, <2>2, <3>1, <3>3 DEF JobFits, JobTypes, Kind, workVars
    <3> QED BY <3>2, <3>3, Zenon
  <2>5. JobsFit'
    BY <2>3, <2>4, Zenon DEF JobsFit
  <2> QED BY <2>0, <2>b, <2>2, <2>5, RequestKeeps, Zenon DEF JobStatuses
<1> QED
  BY <1>1, <1>2, <1>3, <1>4, Zenon DEF RequestStep, HandlePostOrgRepoIndex, HandleDeleteOrgRepoIndex

\* The worker takes a task: a redelivered one finds what its first worker left.
LEMMA Taking ==
    ASSUME RepoInv, NoteOverlap, NEW r \in Requests, TakeTask(r)
    PROVE  RepoInv'
<1>0. /\ JobsFit /\ JobTypes /\ JobFits(r) /\ task[r] = "queued" /\ step[r] = "none"
      /\ UNCHANGED <<callVars, found, indexVars>>
  BY Zenon DEF RepoInv, JobsFit, JobFits, TakeTask
<1>1. JobTypes'
  <2>1. step' \in [Requests -> RemoveSteps \cup IndexSteps \cup {"none"}]
    BY <1>0 DEF TakeTask, GoTo, JobTypes, RemoveSteps, IndexSteps
  <2>2. jobRow' \in [Requests -> JobStatuses] /\ task' \in [Requests -> {"none", "queued", "taken", "done"}]
    BY <1>0 DEF TakeTask, JobTypes, JobStatuses
  <2> QED BY <1>0, <2>1, <2>2 DEF JobTypes, callVars
<1>2. CASE ~Active(r)
  <2>1. UNCHANGED <<request, jobRow, step, found, indexVars>> /\ task' = [task EXCEPT ![r] = "done"]
    BY <1>0, <1>2, Zenon DEF TakeTask, callVars
  <2>2. \A t \in Requests : JobFits(t)'
    BY <1>0, <2>1 DEF JobTypes, JobsFit, JobFits, Kind, callVars
  <2>3. jobRow' = [jobRow EXCEPT ![r] = jobRow[r]] /\ jobRow[r] \in JobStatuses
    BY <1>0, <2>1 DEF JobTypes
  <2>4. JobsFit'
    BY <1>1, <2>2, Zenon DEF JobsFit
  <2> QED BY <2>1, <2>3, <2>4, RequestKeeps, Zenon DEF workVars
<1>3. CASE Active(r)
  <2>1. PICK s \in {"clear", "list"} : /\ step' = [step EXCEPT ![r] = s]
                                       /\ s = (IF Kind(r) = "INDEX" THEN "clear" ELSE "list")
    BY <1>3, Zenon DEF TakeTask, GoTo
  <2>2. /\ jobRow' = [jobRow EXCEPT ![r] = "IN_PROGRESS"] /\ task' = [task EXCEPT ![r] = "taken"]
        /\ jobRow[r] \in {"PENDING", "IN_PROGRESS"}
    BY <1>3, Zenon DEF TakeTask, Active, ActiveRow
  <2>3. Kind(r) \in {"INDEX", "REMOVE_INDEX"}
    BY <1>0 DEF JobTypes, JobRequest, Kind
  <2>4. ASSUME NEW t \in Requests PROVE JobFits(t)'
    <3>1. JobFits(t)
      BY <1>0, Zenon DEF JobsFit
    <3>2. CASE t = r
      BY <1>0, <2>1, <2>2, <2>3, <3>1, <3>2 DEF JobTypes, JobFits, Kind, callVars, RemoveSteps, IndexSteps
    <3>3. CASE t # r
      BY <1>0, <2>1, <2>2, <3>1, <3>3 DEF JobTypes, JobFits, Kind, callVars
    <3> QED BY <3>2, <3>3, Zenon
  <2>5. OneActive' /\ overlapped' \in BOOLEAN /\ (~overlapped' => ~overlapped)
    BY OverlapNoted, Zenon
  <2>6. RowTypes'
    BY <1>0, Zenon DEF RepoInv, RowTypes, indexVars
  <2>7. RemovalsFit'
    <3> SUFFICES ASSUME ~overlapped', NEW t \in Requests PROVE RemovalFits(t)'
      BY Zenon DEF RemovalsFit
    <3>1. RemovalFits(t)
      BY <2>5, Zenon DEF RepoInv, RemovalsFit
    <3>2. CASE t = r
      BY <1>0, <2>1, <3>2 DEF JobTypes, RemovalFits, RemoveSteps
    <3>3. CASE t # r
      <4>1. step'[t] = step[t] /\ Asked(t)' = Asked(t)
        BY <1>0, <2>1, <3>3 DEF JobTypes, Asked, RefOf, callVars
      <4> QED BY <1>0, <3>1, <4>1, Zenon DEF RemovalFits, indexVars
    <3> QED BY <3>2, <3>3, Zenon
  <2>8. ManifestsFit'
    <3> SUFFICES ASSUME NEW m \in manifests, m.status = "PENDING" PROVE PendingFits(m)'
      BY <1>0, Zenon DEF ManifestsFit, PendingFits, indexVars
    <3>1. PendingFits(m)
      BY Zenon DEF RepoInv, ManifestsFit
    <3>2. m.job \in Requests /\ jobRow[m.job] \notin {"ABSENT", "PENDING"}
      BY <3>1, Zenon DEF PendingFits
    <3>3. CASE m.job = r
      <4>1. jobRow[r] = "IN_PROGRESS" /\ jobRow'[r] = "IN_PROGRESS"
        BY <1>0, <2>2, <3>2, <3>3 DEF JobTypes
      <4>2. ~m.built
        BY <1>0, <3>1, <3>3, <4>1, Zenon DEF PendingFits
      <4> QED BY <3>2, <3>3, <4>1, <4>2, Zenon DEF PendingFits
    <3>4. CASE m.job # r
      <4>1. jobRow'[m.job] = jobRow[m.job] /\ step'[m.job] = step[m.job]
        BY <1>0, <2>1, <2>2, <3>2, <3>4 DEF JobTypes
      <4> QED BY <1>0, <2>5, <3>1, <3>2, <4>1, Zenon DEF PendingFits, indexVars
    <3> QED BY <3>3, <3>4, Zenon
  <2>9. Touched \subseteq Touched'
    <3>1. \A t \in Requests : jobRow[t] \in {"IN_PROGRESS", "FAILED"} => jobRow'[t] \in {"IN_PROGRESS", "FAILED"}
      BY <1>0, <2>2 DEF JobTypes
    <3> QED BY <1>0, <3>1, Zenon DEF Touched, Asked, RefOf, Kind, callVars
  <2>10. GraphsFit'
    BY <1>0, <2>5, <2>9, Zenon DEF RepoInv, GraphsFit, indexVars
  <2> QED BY <1>1, <2>4, <2>5, <2>6, <2>7, <2>8, <2>10, Zenon DEF RepoInv, JobsFit
<1> QED BY <1>2, <1>3, Zenon

\* A step that fails, and a worker that dies.
LEMMA GivingUp ==
    ASSUME RepoInv, NoteOverlap, NEW r \in Requests, StepFails(r) \/ WorkerDies(r)
    PROVE  RepoInv'
<1>0. JobsFit /\ JobTypes /\ JobFits(r) /\ UNCHANGED callVars /\ tree \in {"absent", "ready"}
  BY Zenon DEF RepoInv, RowTypes, JobsFit, StepFails, WorkerDies
<1>1. CASE StepFails(r)
  <2>1. step[r] # "none" /\ EndJob(r, "FAILED") /\ tree' \in {"absent", "ready"}
    BY <1>0, <1>1, Zenon DEF StepFails
  <2>2. UNCHANGED <<manifests, revisions, graphRow, graphData, indexes, shards, listed, dirs>>
    BY <1>1, Zenon DEF StepFails
  <2>3. /\ JobsFit' /\ UNCHANGED request /\ step' = [step EXCEPT ![r] = "none"]
        /\ jobRow' = [jobRow EXCEPT ![r] = "FAILED"]
    BY <1>0, <2>1, JobEnds, Zenon
  <2> QED BY <2>1, <2>2, <2>3, GivingUpKeeps, Zenon
<1>2. CASE WorkerDies(r)
  <2>1. /\ step[r] \notin {"none", "subjobs"} /\ step' = [step EXCEPT ![r] = "none"]
        /\ task' = [task EXCEPT ![r] = "queued"] /\ found' = [found EXCEPT ![r] = {}]
        /\ UNCHANGED <<request, jobRow, manifests, revisions, graphRow, graphData, indexes, shards,
                       listed, dirs, tree>>
    BY <1>2, Zenon DEF WorkerDies, GoTo, callVars, indexVars
  <2>2. jobRow[r] = "IN_PROGRESS" /\ call[r] \notin {"idle", "loaded", "inserting", "inserted"}
    BY <1>0, <2>1, Zenon DEF JobFits
  <2>3. JobTypes'
    BY <1>0, <2>1 DEF JobTypes, callVars
  <2>4. ASSUME NEW t \in Requests PROVE JobFits(t)'
    <3>1. JobFits(t)
      BY <1>0, Zenon DEF JobsFit
    <3>2. CASE t = r
      BY <1>0, <2>1, <2>2, <3>2 DEF JobTypes, JobFits, callVars, RemoveSteps, IndexSteps
    <3>3. CASE t # r
      BY <1>0, <2>1, <3>1, <3>3 DEF JobTypes, JobFits, Kind, callVars
    <3> QED BY <3>2, <3>3, Zenon
  <2>5. JobsFit'
    BY <2>3, <2>4, Zenon DEF JobsFit
  <2> QED BY <1>0, <2>1, <2>5, GivingUpKeeps, Zenon
<1> QED BY <1>1, <1>2, Zenon

\* The last connection goes away, and nothing happens.
LEMMA Detaching ==
    ASSUME RepoInv, UNCHANGED <<callVars, jobRow, task, workVars, indexVars>>, NoteOverlap \/ UNCHANGED overlapped
    PROVE  RepoInv'
<1>1. UNCHANGED <<call, request, answer, jobRow, task, step, found>> /\ UNCHANGED indexVars
  BY Zenon DEF callVars, workVars
<1>2. JobsFit'
  BY <1>1 DEF RepoInv, JobsFit, JobTypes, JobFits, Kind
<1>3. RowTypes'
  BY <1>1, Zenon DEF RepoInv, RowTypes, indexVars
<1>4. OneActive' /\ overlapped' \in BOOLEAN /\ (~overlapped' => ~overlapped)
  <2>1. CASE UNCHANGED overlapped
    BY <1>1, <2>1, Zenon DEF RepoInv, OneActive, Active
  <2> QED BY <2>1, OverlapNoted, Zenon
<1>5. RemovalsFit'
  <2> SUFFICES ASSUME ~overlapped', NEW t \in Requests PROVE RemovalFits(t)'
    BY Zenon DEF RemovalsFit
  <2>1. RemovalFits(t)
    BY <1>4, Zenon DEF RepoInv, RemovalsFit
  <2> QED BY <1>1, <2>1, Zenon DEF RemovalFits, Asked, RefOf, indexVars
<1>6. ManifestsFit'
  BY <1>1, <1>4, Zenon DEF RepoInv, ManifestsFit, PendingFits, indexVars
<1>7. Touched' = Touched
  BY <1>1, Zenon DEF Touched, Asked, RefOf, Kind
<1>8. GraphsFit'
  BY <1>1, <1>4, <1>7, Zenon DEF RepoInv, GraphsFit, indexVars
<1> QED BY <1>2, <1>3, <1>4, <1>5, <1>6, <1>8, Zenon DEF RepoInv

-----------------------------------------------------------------------------
(***************************************************************************)
(* The steps of a removal.                                                 *)
(***************************************************************************)

\* The two lists, made before anything they name is deleted: no head of a revision
\* that stays.
LEMMA ListsSpareOthers ==
    ASSUME RepoInv, NEW r \in Requests
    PROVE  /\ ListGraphSnapshotsForCleanupRef(r) \subseteq Commits
           /\ ListSnapshotCommitsForCleanupRef(r) \subseteq Commits
           /\ \A b \in revisions \ Asked(r) : /\ HeadOf[b] \notin ListGraphSnapshotsForCleanupRef(r)
                                              /\ HeadOf[b] \notin ListSnapshotCommitsForCleanupRef(r)
<1>1. /\ Targets(r) = Asked(r) /\ Asked(r) \subseteq RepoBranches
      /\ (Whole(r) => Asked(r) = RepoBranches)
  BY TargetsAreAsked, Zenon DEF RepoInv
<1>2. revisions \subseteq RepoBranches /\ manifests \subseteq ManifestRow
  BY Zenon DEF RepoInv, RowTypes
<1>3. ListGraphSnapshotsForCleanupRef(r) \subseteq Commits
  BY <1>1, HeadsAreCommits, Zenon DEF ListGraphSnapshotsForCleanupRef, ListGraphSnapshotsForCleanup
<1>4. ListSnapshotCommitsForCleanupRef(r) \subseteq Commits
  BY <1>2, HeadsAreCommits, Zenon DEF ListSnapshotCommitsForCleanupRef, ManifestRow
<1>5. ASSUME NEW b \in revisions \ Asked(r)
      PROVE  /\ HeadOf[b] \notin ListGraphSnapshotsForCleanupRef(r)
             /\ HeadOf[b] \notin ListSnapshotCommitsForCleanupRef(r)
  <2>1. ~Whole(r) /\ b \in RepoBranches \ Targets(r)
    BY <1>1, <1>2, <1>5, Zenon
  <2>2. HeadOf[b] \notin ListGraphSnapshotsForCleanupRef(r)
    BY <1>1, <1>5, <2>1, Zenon DEF ListGraphSnapshotsForCleanupRef
  <2>3. HeadOf[b] \notin ListSnapshotCommitsForCleanupRef(r)
    BY <1>5, <2>1, Zenon DEF ListSnapshotCommitsForCleanupRef
  <2> QED BY <2>2, <2>3, Zenon
<1> QED BY <1>3, <1>4, <1>5, Zenon

\* Listing what to retire, retiring it, and listing the directories to delete.
LEMMA Listing ==
    ASSUME RepoInv, NoteOverlap, NEW r \in Requests,
           ListSnapshots(r) \/ RetireSnapshot(r) \/ ListCommits(r)
    PROVE  RepoInv'
<1>0. /\ JobsFit /\ JobTypes /\ found[r] \subseteq RepoBranches \cup Commits
      /\ ~overlapped => RemovalFits(r)
  BY DEF RepoInv, JobsFit, JobTypes, RemovalsFit
<1>1. PICK f \in SUBSET (RepoBranches \cup Commits), s \in {"retire", "graphRows"} :
          /\ found' = [found EXCEPT ![r] = f] /\ step' = [step EXCEPT ![r] = s]
          /\ step[r] \in {"list", "retire"}
          /\ ~overlapped => \A b \in revisions \ Asked(r) : HeadOf[b] \notin f
  <2>1. CASE ListSnapshots(r)
    <3>1. ListGraphSnapshotsForCleanupRef(r) \in SUBSET (RepoBranches \cup Commits)
      BY ListsSpareOthers, Zenon
    <3> QED BY <2>1, <3>1, ListsSpareOthers, Zenon DEF ListSnapshots, AtWork, Leaves, GoTo
  <2>2. CASE RetireSnapshot(r)
    <3>1. PICK c \in found[r] : found' = [found EXCEPT ![r] = @ \ {c}]
      BY <2>2, Zenon DEF RetireSnapshot
    <3>2. found' = [found EXCEPT ![r] = found[r] \ {c}] /\ found[r] \ {c} \in SUBSET (RepoBranches \cup Commits)
      BY <1>0, <3>1, Zenon
    <3>3. step[r] = "retire" /\ step' = [step EXCEPT ![r] = "retire"]
      BY <2>2, Zenon DEF RetireSnapshot, AtWork, Leaves, GoTo
    <3>4. ~overlapped => \A b \in revisions \ Asked(r) : HeadOf[b] \notin found[r] \ {c}
      BY <1>0, <3>3, Zenon DEF RemovalFits, RemoveSteps
    <3> QED BY <3>2, <3>3, <3>4, Zenon
  <2>3. CASE ListCommits(r)
    <3>1. ListSnapshotCommitsForCleanupRef(r) \in SUBSET (RepoBranches \cup Commits)
      BY ListsSpareOthers, Zenon
    <3> QED BY <2>3, <3>1, ListsSpareOthers, Zenon DEF ListCommits, AtWork, Leaves, GoTo
  <2> QED BY <2>1, <2>2, <2>3, Zenon
<1>2. /\ UNCHANGED <<callVars, jobRow, task, manifests, revisions, graphRow, indexes, shards, listed,
                     dirs, tree>>
      /\ graphData' \subseteq graphData
      /\ ~overlapped => \A b \in revisions \ Asked(r) : HeadOf[b] \in graphData => HeadOf[b] \in graphData'
  <2>1. CASE ListSnapshots(r) \/ ListCommits(r)
    BY <2>1, Zenon DEF ListSnapshots, ListCommits, AtWork, Leaves, indexVars
  <2>2. CASE RetireSnapshot(r)
    <3>1. step[r] = "retire"
      BY <2>2, Zenon DEF RetireSnapshot, AtWork
    <3>2. ~overlapped => \A b \in revisions \ Asked(r) : HeadOf[b] \notin found[r]
      BY <1>0, <3>1, Zenon DEF RemovalFits, RemoveSteps
    <3> QED BY <2>2, <3>2, Zenon DEF RetireSnapshot, AtWork, Leaves
  <2> QED BY <2>1, <2>2, Zenon
<1>4. step[r] \in RemoveSteps /\ s \in RemoveSteps
  BY <1>1, Zenon DEF RemoveSteps
<1>5. JobsFit' /\ UNCHANGED request /\ jobRow' = [jobRow EXCEPT ![r] = "IN_PROGRESS"]
  BY <1>0, <1>1, <1>2, <1>4, JobGoesOn, Zenon
<1>6. RowTypes'
  BY <1>2, Zenon DEF RepoInv, RowTypes
<1>7. ~overlapped => RemovalFits(r)'
  <2>1. step'[r] = s /\ found'[r] = f /\ Asked(r)' = Asked(r)
    BY <1>0, <1>1, <1>5, ZenonT(60) DEF JobTypes, Asked, RefOf
  <2> QED BY <1>1, <1>2, <2>1, Zenon DEF RemovalFits
<1> QED BY <1>1, <1>2, <1>4, <1>5, <1>6, <1>7, RemovingKeeps, Zenon

\* The statements of the cleanup and the shards.
LEMMA Deleting ==
    ASSUME RepoInv, NoteOverlap, NEW r \in Requests, CleanupStatement(r) \/ DeleteShards(r)
    PROVE  RepoInv'
<1>0. /\ JobsFit /\ JobTypes
      /\ ~overlapped => RemovalFits(r)
  BY Zenon DEF RepoInv, JobsFit, RemovalsFit
<1>1. /\ Targets(r) = Asked(r) /\ Asked(r) \subseteq RepoBranches
      /\ (Whole(r) => Asked(r) = RepoBranches)
  BY TargetsAreAsked, Zenon DEF RepoInv
<1>2. PICK s \in {"indexRows", "manifests", "repoRow", "shards", "dirs"} :
          /\ step' = [step EXCEPT ![r] = s]
          /\ <<step[r], s>> \in {<<"graphRows", "indexRows">>, <<"indexRows", "manifests">>,
                                 <<"manifests", "repoRow">>, <<"repoRow", "shards">>, <<"shards", "dirs">>}
          /\ revisions' = IF s = "indexRows" THEN revisions \ Asked(r) ELSE revisions
          /\ indexes' = IF s = "manifests" THEN indexes \ Asked(r) ELSE indexes
          /\ manifests' = IF s = "repoRow" THEN {m \in manifests : m.branch \notin Asked(r)} ELSE manifests
          /\ listed' = IF s = "shards" THEN listed \ Asked(r) ELSE listed
          /\ shards' = IF s = "dirs" THEN shards \ Asked(r) ELSE shards
          /\ s # "indexRows" => UNCHANGED graphRow
  <2>1. CASE DeleteGraphRows(r)
    BY <1>1, <2>1, Zenon DEF DeleteGraphRows, AtWork, Leaves, GoTo
  <2>2. CASE DeleteCodeIntelRows(r)
    BY <1>1, <2>2, Zenon DEF DeleteCodeIntelRows, AtWork, Leaves, GoTo
  <2>3. CASE DeleteManifestRows(r)
    BY <1>1, <2>3, Zenon DEF DeleteManifestRows, AtWork, Leaves, GoTo
  <2>4. CASE ClearIndexedRevisions(r)
    BY <1>1, <2>4, Zenon DEF ClearIndexedRevisions, AtWork, Leaves, GoTo
  <2>5. CASE DeleteShards(r)
    BY <1>1, <2>5, Zenon DEF DeleteShards, AtWork, Leaves, GoTo
  <2> QED BY <2>1, <2>2, <2>3, <2>4, <2>5, Zenon DEF CleanupStatement
<1>3. UNCHANGED <<callVars, jobRow, task, found, graphData, dirs>>
  BY Zenon DEF CleanupStatement, DeleteGraphRows, DeleteCodeIntelRows, DeleteManifestRows,
         ClearIndexedRevisions, DeleteShards, AtWork, Leaves
<1>4. tree' \in {"absent", "ready"}
  BY Zenon DEF CleanupStatement, DeleteGraphRows, DeleteCodeIntelRows, DeleteManifestRows,
         ClearIndexedRevisions, DeleteShards, Leaves, RepoInv, RowTypes
<1>5. /\ graphRow' \in [Commits -> RepoBranches \cup {NoBranch}]
      /\ \A b \in revisions' \ Asked(r) : graphRow[HeadOf[b]] # NoBranch => graphRow'[HeadOf[b]] # NoBranch
  <2>0. graphRow \in [Commits -> RepoBranches \cup {NoBranch}] /\ revisions \subseteq RepoBranches
    BY Zenon DEF RepoInv, RowTypes
  <2>1. CASE DeleteGraphRows(r)
    <3>1. graphRow' = [c \in Commits |-> IF Whole(r) \/ c \in OrphanedGraphRows(r)
                                         THEN NoBranch ELSE graphRow[c]]
      BY <2>1, Zenon DEF DeleteGraphRows
    <3>2. ASSUME NEW b \in revisions' \ Asked(r) PROVE graphRow'[HeadOf[b]] = graphRow[HeadOf[b]]
      <4>1. revisions' = revisions \ Asked(r)
        BY <1>1, <2>1, Zenon DEF DeleteGraphRows
      <4>2. b \in revisions /\ ~Whole(r) /\ HeadOf[b] \in Commits
        BY <1>1, <2>0, <4>1, HeadsAreCommits, Zenon
      <4>3. HeadOf[b] \notin OrphanedGraphRows(r)
        BY <4>2, Zenon DEF OrphanedGraphRows
      <4> QED BY <3>1, <4>2, <4>3, Zenon
    <3> QED BY <2>0, <3>1, <3>2, Zenon
  <2>2. CASE ~DeleteGraphRows(r)
    <3>1. UNCHANGED graphRow
      BY <2>2, Zenon DEF CleanupStatement, DeleteCodeIntelRows, DeleteManifestRows,
                  ClearIndexedRevisions, DeleteShards, Leaves
    <3> QED BY <2>0, <3>1, Zenon
  <2> QED BY <2>1, <2>2, Zenon
<1>6. step[r] \in RemoveSteps /\ s \in RemoveSteps
  BY <1>2, Zenon DEF RemoveSteps
<1>7. found' = [found EXCEPT ![r] = found[r]] /\ found[r] \in SUBSET (RepoBranches \cup Commits)
  BY <1>0, <1>3 DEF JobTypes
<1>8. JobsFit' /\ UNCHANGED request /\ jobRow' = [jobRow EXCEPT ![r] = "IN_PROGRESS"]
  BY <1>0, <1>2, <1>3, <1>6, <1>7, JobGoesOn, Zenon
<1>9. revisions' \subseteq revisions /\ manifests' \subseteq manifests
  BY <1>2, Zenon
<1>10. RowTypes'
  <2>1. IsFiniteSet(manifests')
    BY <1>9, FS_Subset, Zenon DEF RepoInv, RowTypes
  <2>2. indexes' \subseteq indexes /\ listed' \subseteq listed /\ shards' \subseteq shards
    BY <1>2, Zenon
  <2> QED BY <1>3, <1>4, <1>5, <1>9, <2>1, <2>2, Zenon DEF RepoInv, RowTypes
<1>11. ~overlapped => RemovalFits(r)'
  <2> SUFFICES ASSUME ~overlapped PROVE RemovalFits(r)'
    OBVIOUS
  <2>1. step'[r] = s /\ found'[r] = found[r] /\ Asked(r)' = Asked(r)
    <3>1. step'[r] = s
      BY <1>0, <1>2, ZenonT(60) DEF JobTypes
    <3>2. found'[r] = found[r]
      BY <1>3, Zenon
    <3>3. Asked(r)' = Asked(r)
      BY <1>8, Zenon DEF Asked, RefOf
    <3> QED BY <3>1, <3>2, <3>3, Zenon
  <2>2. RemovalFits(r) /\ step[r] \in RemoveSteps \ {"list"}
    BY <1>0, <1>2, Zenon DEF RemoveSteps
  <2>3. \A b \in revisions' \ Asked(r) : HeadOf[b] \notin found[r]
    BY <1>9, <2>2, Zenon DEF RemovalFits
  <2>4. Asked(r) \cap revisions' = {}
    BY <1>2, <2>2, Zenon DEF RemovalFits
  <2>5. s # "indexRows" => Asked(r) \cap indexes' = {}
    BY <1>2, <2>2, Zenon DEF RemovalFits
  <2>6. s \in {"repoRow", "shards", "dirs"} => \A m \in manifests' : m.branch \notin Asked(r)
    BY <1>2, <2>2, Zenon DEF RemovalFits
  <2>7. s \in {"shards", "dirs"} => Asked(r) \cap listed' = {}
    BY <1>2, <2>2, Zenon DEF RemovalFits
  <2>8. s = "dirs" => Asked(r) \cap shards' = {}
    BY <1>2, Zenon
  <2> QED BY <1>2, <2>1, <2>3, <2>4, <2>5, <2>6, <2>7, <2>8, Zenon DEF RemovalFits
<1> QED BY <1>2, <1>3, <1>5, <1>6, <1>8, <1>9, <1>10, <1>11, RemovingKeeps, Zenon

\* The directories, and the end of the job.
LEMMA DeletingDirs ==
    ASSUME RepoInv, NoteOverlap, NEW r \in Requests, DeleteSnapshotDirs(r)
    PROVE  RepoInv'
<1>0. /\ JobsFit
      /\ ~overlapped => RemovalFits(r)
  BY Zenon DEF RepoInv, RemovalsFit
<1>1. /\ step[r] = "dirs" /\ step[r] \in RemoveSteps /\ EndJob(r, "COMPLETED") /\ UNCHANGED callVars
      /\ UNCHANGED <<manifests, revisions, graphRow, graphData, indexes, shards, listed, tree>>
      /\ dirs' \subseteq dirs
  BY Zenon DEF DeleteSnapshotDirs, AtWork, RemoveSteps
<1>2. /\ JobsFit' /\ UNCHANGED request /\ step' = [step EXCEPT ![r] = "none"]
      /\ jobRow' = [jobRow EXCEPT ![r] = "COMPLETED"]
  BY <1>0, <1>1, JobEnds, Zenon
<1>3. RowTypes'
  BY <1>1, Zenon DEF RepoInv, RowTypes
<1>4. RemovalFits(r)'
  <2>1. step \in [Requests -> RemoveSteps \cup IndexSteps \cup {"none"}]
    BY <1>0 DEF JobsFit, JobTypes
  <2>2. step'[r] = "none" /\ "none" \notin RemoveSteps
    BY <1>2, <2>1, Zenon DEF RemoveSteps
  <2> QED BY <2>2, Zenon DEF RemovalFits
<1>5. ~overlapped => Asked(r) \cap revisions' = {}
  BY <1>0, <1>1, Zenon DEF RemovalFits
<1> QED BY <1>1, <1>2, <1>3, <1>4, <1>5, RemovingKeeps, Zenon

-----------------------------------------------------------------------------
(***************************************************************************)
(* The steps of an INDEX job.                                              *)
(***************************************************************************)

\* A PENDING manifest that a step leaves alone still fits: producers of job r are
\* done only while it is at its subjobs.
LEMMA PendingKept ==
    ASSUME RepoInv, NoteOverlap, NEW r \in Requests, step[r] \in IndexSteps,
           NEW s \in IndexSteps \cup {"none"}, step' = [step EXCEPT ![r] = s],
           NEW x \in {"IN_PROGRESS", "COMPLETED", "FAILED"}, jobRow' = [jobRow EXCEPT ![r] = x],
           step[r] # "subjobs" \/ s = "subjobs" \/ x # "IN_PROGRESS",
           graphData \subseteq graphData',
           NEW m \in manifests
    PROVE  PendingFits(m)'
<1> SUFFICES ASSUME m.status = "PENDING" PROVE PendingFits(m)'
  BY Zenon DEF PendingFits
<1>0. ~overlapped' => ~overlapped
  BY OverlapNoted, Zenon
<1>1. /\ jobRow \in [Requests -> JobStatuses] /\ jobRow[r] = "IN_PROGRESS"
      /\ step \in [Requests -> RemoveSteps \cup IndexSteps \cup {"none"}]
  BY DEF RepoInv, JobsFit, JobTypes, JobFits, IndexSteps
<1>2. PendingFits(m)
  BY Zenon DEF RepoInv, ManifestsFit
<1>3. m.job \in Requests /\ jobRow[m.job] \notin {"ABSENT", "PENDING"}
  BY <1>2, Zenon DEF PendingFits
<1>4. CASE m.job = r
  BY <1>0, <1>1, <1>2, <1>3, <1>4, Zenon DEF PendingFits
<1>5. CASE m.job # r
  <2>1. jobRow'[m.job] = jobRow[m.job] /\ step'[m.job] = step[m.job]
    BY <1>1, <1>3, <1>5, Zenon
  <2> QED BY <1>0, <1>2, <1>3, <2>1, Zenon DEF PendingFits
<1> QED BY <1>4, <1>5, Zenon

\* The clone and the list of revisions.
LEMMA Cloning ==
    ASSUME RepoInv, NoteOverlap, NEW r \in Requests,
           \/ ClearTree(r) \/ CloneTree(r) \/ ResolveIndexRevisions(r)
           \/ PlanDone(r) /\ Pending(r) # {}
    PROVE  RepoInv'
<1>0. /\ JobsFit /\ JobTypes /\ found[r] \in SUBSET (RepoBranches \cup Commits)
      /\ found = [found EXCEPT ![r] = found[r]] /\ tree \in {"absent", "ready"}
      /\ manifests \subseteq ManifestRow
  BY DEF RepoInv, JobsFit, JobTypes, RowTypes
<1>1. PICK s \in IndexSteps, f \in SUBSET (RepoBranches \cup Commits) :
          /\ step' = [step EXCEPT ![r] = s] /\ found' = [found EXCEPT ![r] = f]
          /\ step[r] \in IndexSteps \ {"subjobs"}
          /\ s \in {"plan", "subjobs"} => f \subseteq RepoBranches
  <2>1. CASE ClearTree(r)
    <3>1. /\ step[r] = "clear" /\ step' = [step EXCEPT ![r] = "clone"] /\ UNCHANGED found
      BY <2>1, Zenon DEF ClearTree, AtWork, Leaves, GoTo
    <3> QED BY <1>0, <3>1, Zenon DEF IndexSteps
  <2>2. CASE CloneTree(r)
    <3>1. /\ step[r] = "clone" /\ step' = [step EXCEPT ![r] = "resolve"] /\ UNCHANGED found
      BY <2>2, Zenon DEF CloneTree, AtWork, Leaves, GoTo
    <3> QED BY <1>0, <3>1, Zenon DEF IndexSteps
  <2>3. CASE ResolveIndexRevisions(r)
    <3>1. /\ step[r] = "resolve" /\ step' = [step EXCEPT ![r] = "plan"]
          /\ found' = [found EXCEPT ![r] = Selected]
      BY <2>3, Zenon DEF ResolveIndexRevisions, AtWork, Leaves, GoTo
    <3>2. Selected \in SUBSET (RepoBranches \cup Commits) /\ Selected \subseteq RepoBranches
      BY LifecycleConstants, Zenon
    <3> QED BY <3>1, <3>2, Zenon DEF IndexSteps
  <2>4. CASE PlanDone(r) /\ Pending(r) # {}
    <3>1. /\ step[r] = "plan" /\ step' = [step EXCEPT ![r] = "subjobs"]
          /\ found' = [found EXCEPT ![r] = {m.branch : m \in Pending(r)}]
      BY <2>4, Zenon DEF PlanDone, AtWork, Leaves, GoTo
    <3>2. {m.branch : m \in Pending(r)} \subseteq RepoBranches
      BY <1>0, Zenon DEF Pending, ManifestRow
    <3> QED BY <3>1, <3>2, Zenon DEF IndexSteps
  <2> QED BY <2>1, <2>2, <2>3, <2>4, Zenon
<1>2. /\ UNCHANGED <<callVars, jobRow, task, manifests, revisions, graphRow, graphData, indexes, shards,
                     listed, dirs>>
      /\ tree' \in {"absent", "ready"}
  <2>1. CASE ClearTree(r) \/ CloneTree(r)
    BY <2>1, Zenon DEF ClearTree, CloneTree, AtWork, Leaves
  <2>2. CASE ResolveIndexRevisions(r)
    BY <1>0, <2>2, Zenon DEF ResolveIndexRevisions, AtWork, Leaves, indexVars
  <2>3. CASE PlanDone(r) /\ Pending(r) # {}
    BY <1>0, <2>3, Zenon DEF PlanDone, AtWork, Leaves, indexVars
  <2> QED BY <2>1, <2>2, <2>3, Zenon
<1>3. JobsFit' /\ UNCHANGED request /\ jobRow' = [jobRow EXCEPT ![r] = "IN_PROGRESS"]
  BY <1>0, <1>1, <1>2, JobGoesOn, Zenon
<1>4. RowTypes'
  BY <1>2, Zenon DEF RepoInv, RowTypes
<1>5. ManifestsFit'
  BY <1>1, <1>2, <1>3, PendingKept, Zenon DEF ManifestsFit
<1> QED BY <1>1, <1>2, <1>3, <1>4, <1>5, IndexingKeeps, Zenon

\* The ends of an INDEX job.
LEMMA IndexEnds ==
    ASSUME RepoInv, NoteOverlap, NEW r \in Requests,
           \/ CloneRefused(r) \/ TreeMissing(r) \/ SubjobsDone(r) \/ SubjobsFail(r)
           \/ PlanDone(r) /\ Pending(r) = {}
    PROVE  RepoInv'
<1>0. JobsFit /\ tree \in {"absent", "ready"}
  BY Zenon DEF RepoInv, RowTypes
<1>1. PICK x \in {"COMPLETED", "FAILED"} : EndJob(r, x)
  BY Zenon DEF CloneRefused, TreeMissing, SubjobsDone, SubjobsFail, PlanDone
<1>2. step[r] \in IndexSteps /\ step[r] # "none" /\ UNCHANGED callVars
  BY Zenon DEF CloneRefused, TreeMissing, SubjobsDone, SubjobsFail, PlanDone, AtWork, IndexSteps
<1>3. /\ UNCHANGED <<manifests, revisions, graphRow, graphData, indexes, shards, listed, dirs>>
      /\ tree' \in {"absent", "ready"}
  BY <1>0, Zenon DEF CloneRefused, TreeMissing, SubjobsDone, SubjobsFail, PlanDone, indexVars
<1>4. /\ JobsFit' /\ UNCHANGED request /\ step' = [step EXCEPT ![r] = "none"]
      /\ jobRow' = [jobRow EXCEPT ![r] = x]
  BY <1>0, <1>1, <1>2, JobEnds, Zenon
<1>5. RowTypes'
  BY <1>3, Zenon DEF RepoInv, RowTypes
<1>6. ManifestsFit'
  BY <1>2, <1>3, <1>4, PendingKept, Zenon DEF ManifestsFit
<1> QED BY <1>2, <1>3, <1>4, <1>5, <1>6, IndexingKeeps, Zenon

\* A revision is planned.
LEMMA Planning ==
    ASSUME RepoInv, NoteOverlap, NEW r \in Requests, PlanRevision(r)
    PROVE  RepoInv'
<1>0. /\ JobsFit /\ JobTypes /\ JobFits(r) /\ RowTypes
      /\ step[r] = "plan" /\ step' = [step EXCEPT ![r] = "plan"]
      /\ UNCHANGED <<callVars, jobRow, task, revisions, graphRow, graphData, indexes, shards, tree>>
  BY Zenon DEF RepoInv, JobsFit, PlanRevision, AtWork, Leaves, GoTo
<1>1. found[r] \subseteq RepoBranches
  BY <1>0, Zenon DEF JobFits
<1>2. PICK b \in found[r] :
          /\ found' = [found EXCEPT ![r] = @ \ {b}]
          /\ dirs' = dirs \cup {HeadOf[b]}
          /\ IF Unchanged(b) /\ Healthy(b)
             THEN listed' = listed \cup {b} /\ UNCHANGED manifests
             ELSE InsertPendingManifest(r, b) /\ UNCHANGED listed
  BY Zenon DEF PlanRevision
<1>3. /\ found[r] \ {b} \in SUBSET (RepoBranches \cup Commits) /\ found[r] \ {b} \subseteq RepoBranches
      /\ found' = [found EXCEPT ![r] = found[r] \ {b}] /\ b \in RepoBranches /\ HeadOf[b] \in Commits
  BY <1>0, <1>1, <1>2, HeadsAreCommits, Zenon DEF JobTypes
<1>4. JobsFit' /\ UNCHANGED request /\ jobRow' = [jobRow EXCEPT ![r] = "IN_PROGRESS"]
  BY <1>0, <1>3, JobGoesOn, Zenon DEF IndexSteps
<1>5. /\ manifests' \subseteq ManifestRow /\ IsFiniteSet(manifests')
      /\ \A m, n \in manifests' :
            m.status = "READY" /\ n.status = "READY" /\ m.branch = n.branch => m = n
      /\ ManifestsFit'
  <2>1. ASSUME NEW m \in manifests PROVE PendingFits(m)'
    BY <1>0, <1>4, PendingKept, Zenon DEF IndexSteps
  <2>2. CASE UNCHANGED manifests
    BY <1>0, <2>1, <2>2, Zenon DEF RowTypes, ManifestsFit
  <2>3. CASE InsertPendingManifest(r, b)
    <3> DEFINE same == {m \in manifests : m.branch = b}
               kept == {m \in manifests : ~(m.job = r /\ m.branch = b)}
    <3>0. PICK row : row = [job |-> r, branch |-> b, status |-> "PENDING", built |-> FALSE,
                            full |-> ~Unchanged(b), at |-> Cardinality(same)]
      BY Zenon
    <3>1. manifests' = kept \cup {row}
      BY <2>3, <3>0, Zenon DEF InsertPendingManifest
    <3>2. same \subseteq manifests /\ kept \subseteq manifests
      OBVIOUS
    <3>3. IsFiniteSet(same) /\ IsFiniteSet(kept)
      BY <1>0, <3>2, FS_Subset, Zenon DEF RowTypes
    <3>4. Cardinality(same) \in Nat
      BY <3>3, FS_CardinalityType, Zenon
    <3>5. Unchanged(b) \in BOOLEAN
      BY Zenon DEF Unchanged
    <3> HIDE DEF same, kept
    <3>6. row \in ManifestRow /\ row.status = "PENDING" /\ row.job = r /\ ~row.built
      BY <1>3, <3>0, <3>4, <3>5, Zenon DEF ManifestRow
    <3>7. IsFiniteSet(manifests')
      BY <3>1, <3>3, FS_AddElement, Zenon
    <3>8. jobRow'[r] = "IN_PROGRESS"
      BY <1>0, <1>4 DEF JobTypes
    <3>9. PendingFits(row)'
      BY <3>6, <3>8, Zenon DEF PendingFits
    <3> QED BY <1>0, <2>1, <3>1, <3>2, <3>6, <3>7, <3>9, Zenon DEF RowTypes, ManifestsFit
  <2> QED BY <1>2, <2>2, <2>3, Zenon
<1>6. RowTypes'
  BY <1>0, <1>2, <1>3, <1>5, Zenon DEF RowTypes
<1> QED BY <1>0, <1>4, <1>5, <1>6, IndexingKeeps, Zenon DEF IndexSteps

\* The producers of a revision write its graph and its rows.
LEMMA Producing ==
    ASSUME RepoInv, NoteOverlap, NEW r \in Requests, Produce(r)
    PROVE  RepoInv'
<1>0. /\ JobsFit /\ JobTypes /\ JobFits(r) /\ RowTypes
      /\ step[r] = "subjobs" /\ step' = [step EXCEPT ![r] = "subjobs"]
      /\ UNCHANGED <<callVars, jobRow, task, found, revisions, listed, dirs, tree>>
  BY Zenon DEF RepoInv, JobsFit, Produce, AtWork, Leaves, GoTo
<1>1. /\ found[r] \in SUBSET (RepoBranches \cup Commits) /\ found[r] \subseteq RepoBranches
      /\ found' = [found EXCEPT ![r] = found[r]]
  BY <1>0 DEF JobFits, JobTypes
<1>2. PICK m \in Pending(r) :
          /\ manifests' = (manifests \ {m}) \cup {[m EXCEPT !.built = TRUE]}
          /\ graphData' = graphData \cup {HeadOf[m.branch]}
          /\ graphRow' = [graphRow EXCEPT ![HeadOf[m.branch]] = m.branch]
          /\ indexes' = indexes \cup {m.branch}
          /\ shards' = IF m.full THEN shards \cup {m.branch} ELSE shards
  BY Zenon DEF Produce
<1>3. m \in manifests /\ m \in ManifestRow /\ m.job = r /\ m.status = "PENDING"
  BY <1>0, Zenon DEF Pending, RowTypes
<1>4. PICK n \in ManifestRow : /\ n = [m EXCEPT !.built = TRUE]
                               /\ n.job = r /\ n.status = "PENDING" /\ n.branch = m.branch
  <2>1. [m EXCEPT !.built = TRUE] \in ManifestRow
    BY <1>3, Zenon DEF ManifestRow
  <2>2. /\ [m EXCEPT !.built = TRUE].job = r /\ [m EXCEPT !.built = TRUE].status = "PENDING"
        /\ [m EXCEPT !.built = TRUE].branch = m.branch
    BY <1>3, Zenon DEF ManifestRow
  <2> QED BY <2>1, <2>2, Zenon
<1>5. m.branch \in RepoBranches /\ HeadOf[m.branch] \in Commits /\ m.branch # NoBranch
  BY <1>3, HeadsAreCommits, LifecycleConstants, Zenon DEF ManifestRow
<1>6. JobsFit' /\ UNCHANGED request /\ jobRow' = [jobRow EXCEPT ![r] = "IN_PROGRESS"]
  BY <1>0, <1>1, JobGoesOn, Zenon DEF IndexSteps
<1>7. manifests' = (manifests \ {m}) \cup {n}
  BY <1>2, <1>4, Zenon
<1>8. IsFiniteSet(manifests')
  <2>1. IsFiniteSet(manifests \ {m})
    BY <1>0, FS_Subset, Zenon DEF RowTypes
  <2> QED BY <1>7, <2>1, FS_AddElement, Zenon
<1>9. RowTypes'
  <2>1. graphRow' \in [Commits -> RepoBranches \cup {NoBranch}]
    BY <1>0, <1>2, <1>5, Zenon DEF RowTypes
  <2>2. manifests' \subseteq ManifestRow
    BY <1>0, <1>7, Zenon DEF RowTypes
  <2>3. \A p, q \in manifests' :
            p.status = "READY" /\ q.status = "READY" /\ p.branch = q.branch => p = q
    <3>1. \A p, q \in manifests :
              p.status = "READY" /\ q.status = "READY" /\ p.branch = q.branch => p = q
      BY <1>0, Zenon DEF RowTypes
    <3>2. n.status # "READY"
      BY <1>4
    <3> QED BY <1>7, <3>1, <3>2, Zenon
  <2> QED BY <1>0, <1>2, <1>5, <1>8, <2>1, <2>2, <2>3, Zenon DEF RowTypes
<1>10. ManifestsFit'
  <2>1. ASSUME NEW p \in manifests PROVE PendingFits(p)'
    BY <1>0, <1>2, <1>6, PendingKept, Zenon DEF IndexSteps
  <2>2. step'[r] = "subjobs" /\ jobRow'[r] = "IN_PROGRESS"
    BY <1>0, <1>6 DEF JobTypes
  <2>3. PendingFits(n)'
    BY <1>2, <1>4, <2>2 DEF PendingFits
  <2> QED BY <1>7, <2>1, <2>3, Zenon DEF ManifestsFit
<1>11. \A c \in Commits : graphRow[c] # NoBranch => graphRow'[c] # NoBranch
  BY <1>0, <1>2, <1>5, Zenon DEF RowTypes
<1> QED BY <1>0, <1>2, <1>6, <1>9, <1>10, <1>11, IndexingKeeps, Zenon DEF IndexSteps

\* The activation of a revision, which has its graph.
LEMMA Activating ==
    ASSUME RepoInv, NoteOverlap, NEW r \in Requests, ActivateRevision(r)
    PROVE  RepoInv'
<1>0. /\ JobsFit /\ JobTypes /\ JobFits(r) /\ RowTypes
      /\ step[r] = "subjobs" /\ step' = [step EXCEPT ![r] = "subjobs"]
      /\ UNCHANGED <<callVars, jobRow, task, graphRow, graphData, indexes, shards, dirs, tree>>
  BY Zenon DEF RepoInv, JobsFit, ActivateRevision, AtWork, Leaves, GoTo
<1>1. PICK m \in Pending(r) :
          /\ m.built
          /\ graphRow[HeadOf[m.branch]] = m.branch
          /\ manifests' = ((manifests \ Superseded(m)) \ {m}) \cup {[m EXCEPT !.status = "READY"]}
          /\ revisions' = revisions \cup {m.branch}
          /\ listed' = listed \cup {m.branch}
                       \cup {x.branch : x \in {y \in manifests : y.status = "READY"}}
          /\ found' = [found EXCEPT ![r] = @ \ {m.branch}]
  BY Zenon DEF ActivateRevision
<1>2. m \in manifests /\ m \in ManifestRow /\ m.job = r /\ m.status = "PENDING"
  BY <1>0, Zenon DEF Pending, RowTypes
<1>3. PICK n \in ManifestRow : n = [m EXCEPT !.status = "READY"] /\ n.status = "READY" /\ n.branch = m.branch
  <2>1. [m EXCEPT !.status = "READY"] \in ManifestRow
    BY <1>2, Zenon DEF ManifestRow
  <2>2. [m EXCEPT !.status = "READY"].status = "READY" /\ [m EXCEPT !.status = "READY"].branch = m.branch
    BY <1>2, Zenon DEF ManifestRow
  <2> QED BY <2>1, <2>2, Zenon
<1>4. m.branch \in RepoBranches /\ m.branch # NoBranch
  BY <1>2, LifecycleConstants, Zenon DEF ManifestRow
<1>5. /\ found[r] \ {m.branch} \in SUBSET (RepoBranches \cup Commits)
      /\ found[r] \ {m.branch} \subseteq RepoBranches
      /\ found' = [found EXCEPT ![r] = found[r] \ {m.branch}]
  BY <1>0, <1>1 DEF JobFits, JobTypes
<1>6. JobsFit' /\ UNCHANGED request /\ jobRow' = [jobRow EXCEPT ![r] = "IN_PROGRESS"]
  BY <1>0, <1>5, JobGoesOn, Zenon DEF IndexSteps
<1> DEFINE kept == (manifests \ Superseded(m)) \ {m}
<1>7. manifests' = kept \cup {n} /\ kept \subseteq manifests
  BY <1>1, <1>3, Zenon
<1>8. \A p \in kept : p.status = "READY" => p.branch # m.branch
  BY Zenon DEF Superseded
<1> HIDE DEF kept
<1>9. IsFiniteSet(manifests')
  <2>1. IsFiniteSet(kept)
    BY <1>0, <1>7, FS_Subset, Zenon DEF RowTypes
  <2> QED BY <1>7, <2>1, FS_AddElement, Zenon
<1>10. RowTypes'
  <2>1. listed' \subseteq RepoBranches
    BY <1>0, <1>1, <1>4 DEF RowTypes, ManifestRow
  <2>2. manifests' \subseteq ManifestRow
    BY <1>0, <1>7, Zenon DEF RowTypes
  <2>3. \A p, q \in manifests' :
            p.status = "READY" /\ q.status = "READY" /\ p.branch = q.branch => p = q
    <3>1. \A p, q \in kept : p.status = "READY" /\ q.status = "READY" /\ p.branch = q.branch => p = q
      BY <1>0, <1>7, Zenon DEF RowTypes
    <3>2. \A p \in manifests' : p \in kept \/ p = n
      BY <1>7, Zenon
    <3> QED BY <1>3, <1>8, <3>1, <3>2, Zenon
  <2> QED BY <1>0, <1>1, <1>4, <1>9, <2>1, <2>2, <2>3, Zenon DEF RowTypes
<1>11. ManifestsFit'
  <2>1. ASSUME NEW p \in manifests PROVE PendingFits(p)'
    BY <1>0, <1>6, PendingKept, Zenon DEF IndexSteps
  <2>2. PendingFits(n)'
    BY <1>3, Zenon DEF PendingFits
  <2> QED BY <1>7, <2>1, <2>2, Zenon DEF ManifestsFit
<1>12. ~overlapped => \A b \in revisions' \ revisions :
                          HeadOf[b] \in graphData' /\ graphRow'[HeadOf[b]] # NoBranch
  <2>1. jobRow[r] = "IN_PROGRESS" /\ PendingFits(m)
    BY <1>0, <1>2, Zenon DEF JobFits, RepoInv, ManifestsFit
  <2>2. ~overlapped => HeadOf[m.branch] \in graphData
    BY <1>1, <1>2, <2>1, Zenon DEF PendingFits
  <2> QED BY <1>0, <1>1, <1>4, <2>2, Zenon
<1> QED BY <1>0, <1>6, <1>10, <1>11, <1>12, IndexingKeeps, Zenon DEF IndexSteps

-----------------------------------------------------------------------------
(***************************************************************************)
(* The invariant and the theorems.                                         *)
(***************************************************************************)

\* A repository that was never indexed, or of which the selected branches are.
LEMMA IndexedBeforeFits ==
    ASSUME NEW B \in SUBSET RepoBranches, IndexedBefore(B)
    PROVE  /\ RowTypes
           /\ \A m \in manifests : m.status # "PENDING"
           /\ \A b \in revisions : HeadOf[b] \in graphData /\ graphRow[HeadOf[b]] # NoBranch
<1> DEFINE row(b) == [job |-> Before, branch |-> b, status |-> "READY", built |-> TRUE,
                      full |-> TRUE, at |-> 0]
<1>1. manifests = {row(b) : b \in B}
  BY Zenon DEF IndexedBefore
<1>2. \A b \in B : row(b) \in ManifestRow
  BY Zenon DEF ManifestRow
<1>3. \A m \in manifests : m = row(m.branch) /\ m.branch \in B /\ m.status = "READY"
  BY <1>1
<1>4. IsFiniteSet(manifests)
  <2>1. IsFiniteSet(B)
    BY LifecycleConstants, FS_Subset, Zenon
  <2> DEFINE f == [b \in B |-> row(b)]
  <2>2. f \in Surjection(B, manifests)
    BY <1>1, Zenon DEF Surjection
  <2> QED BY <2>1, <2>2, FS_Surjection, Zenon
<1>5. /\ revisions = B /\ indexes = B /\ shards = B /\ listed = B
      /\ graphData = {HeadOf[b] : b \in B} /\ dirs = {HeadOf[b] : b \in B}
      /\ graphRow \in [Commits -> B \cup {NoBranch}]
      /\ \A c \in Commits : graphRow[c] = NoBranch => c \notin graphData
      /\ tree \in {"absent", "ready"}
  BY Zenon DEF IndexedBefore
<1>6. graphRow \in [Commits -> RepoBranches \cup {NoBranch}]
  BY <1>5, Zenon
<1>7. \A b \in B : HeadOf[b] \in Commits
  BY HeadsAreCommits, Zenon
<1>8. manifests \subseteq ManifestRow
  BY <1>1, <1>2, Zenon
<1>9. \A m, n \in manifests :
          m.status = "READY" /\ n.status = "READY" /\ m.branch = n.branch => m = n
  BY <1>3, Zenon
<1>10. RowTypes
  BY <1>4, <1>5, <1>6, <1>7, <1>8, <1>9, Zenon DEF RowTypes
<1> QED BY <1>3, <1>5, <1>7, <1>10, Zenon

LEMMA RepoInitFits == RepoInit => RepoInv
<1> SUFFICES ASSUME RepoInit PROVE RepoInv
  OBVIOUS
<1>1. PICK B \in SUBSET RepoBranches : IndexedBefore(B)
  BY LifecycleConstants, Zenon DEF RepoInit
<1>2. /\ RowTypes
      /\ \A m \in manifests : m.status # "PENDING"
      /\ \A b \in revisions : HeadOf[b] \in graphData /\ graphRow[HeadOf[b]] # NoBranch
  BY <1>1, IndexedBeforeFits, Zenon
<1>3. [kind |-> "INDEX", ref |-> NoRef] \in JobRequest
  BY Zenon DEF JobRequest, RequestRefs
<1>4. JobsFit
  BY <1>3 DEF RepoInit, JobsFit, JobTypes, JobFits, JobStatuses, RemoveSteps, IndexSteps
<1>5. OneActive /\ RemovalsFit
  BY Zenon DEF RepoInit, OneActive, Active, ActiveRow, RemovalsFit, RemovalFits, RemoveSteps
<1> QED BY <1>2, <1>4, <1>5, Zenon DEF RepoInit, RepoInv, ManifestsFit, PendingFits, GraphsFit

LEMMA RepoStepKeeps == RepoInv /\ [RepoNext]_repoVars => RepoInv'
<1> SUFFICES ASSUME RepoInv, [RepoNext]_repoVars PROVE RepoInv'
  OBVIOUS
<1>1. CASE UNCHANGED repoVars
  BY <1>1, Detaching, Zenon DEF repoVars
<1>2. CASE DetachConnection /\ NoteOverlap
  BY <1>2, Detaching, Zenon DEF DetachConnection
<1>3. ASSUME NEW r \in Requests, RequestStep(r) \/ WorkerStepOf(r) \/ FaultOf(r), NoteOverlap
      PROVE  RepoInv'
  <2>1. CASE RequestStep(r) \/ EnqueueFails(r) \/ SchedulerDies(r)
    BY <1>3, <2>1, Scheduling, Zenon
  <2>2. CASE StepFails(r) \/ WorkerDies(r)
    BY <1>3, <2>2, GivingUp, Zenon
  <2>3. CASE TakeTask(r)
    BY <1>3, <2>3, Taking, Zenon
  <2>4. CASE ListSnapshots(r) \/ RetireSnapshot(r) \/ ListCommits(r)
    BY <1>3, <2>4, Listing, Zenon
  <2>5. CASE CleanupRepoDBState(r) \/ CleanupRepoDBStateForRef(r) \/ DeleteShards(r)
    BY <1>3, <2>5, Deleting, Zenon DEF CleanupRepoDBState, CleanupRepoDBStateForRef
  <2>6. CASE DeleteSnapshotDirs(r)
    BY <1>3, <2>6, DeletingDirs, Zenon
  <2>7. CASE \/ ClearTree(r) \/ CloneTree(r) \/ ResolveIndexRevisions(r)
             \/ PlanDone(r) /\ Pending(r) # {}
    BY <1>3, <2>7, Cloning, Zenon
  <2>8. CASE \/ CloneRefused(r) \/ TreeMissing(r) \/ SubjobsDone(r) \/ SubjobsFail(r)
             \/ PlanDone(r) /\ Pending(r) = {}
    BY <1>3, <2>8, IndexEnds, ZenonT(60)
  <2>9. CASE PlanRevision(r)
    BY <1>3, <2>9, Planning, Zenon
  <2>10. CASE Produce(r)
    BY <1>3, <2>10, Producing, Zenon
  <2>11. CASE ActivateRevision(r)
    BY <1>3, <2>11, Activating, Zenon
  <2> QED BY <1>3, <2>1, <2>2, <2>3, <2>4, <2>5, <2>6, <2>7, <2>8, <2>9, <2>10, <2>11, Zenon
          DEF WorkerStepOf, FaultOf
<1> QED BY <1>1, <1>2, <1>3, Zenon DEF RepoNext, RepoStep

\* What the models of the jobs rest on: in every reachable state the invariant holds.
THEOREM RepoInvHolds == RepoSpec => []RepoInv
  BY RepoInitFits, RepoStepKeeps, PTL DEF RepoSpec

\* Every variable of the repository's jobs has its type, and a branch has at most one
\* READY manifest, whatever jobs overlap.
THEOREM RepoTypesHold == RepoSpec => []RepoTypeOK
<1>1. RepoInv => RepoTypeOK
  BY DEF RepoInv, JobsFit, JobTypes, JobStatuses, RowTypes, RepoTypeOK, ActiveRow
<1> QED BY <1>1, RepoInvHolds, PTL

\* With no job at work, none that overlapped another and no removal that gave up half
\* way, a revision that searches may use has its graph in Nebula and its snapshot row,
\* for every number of requests, branches, shared commits and faults.
THEOREM SettledRevisionsHaveGraphs == RepoSpec => []SettledRevisionHasGraph
<1>1. RepoInv => SettledRevisionHasGraph
  <2> SUFFICES ASSUME RepoInv, ~overlapped, \A r \in Requests : ~Active(r),
                      NEW b \in revisions, b \notin HalfRemoved
               PROVE  HeadOf[b] \in graphData /\ graphRow[HeadOf[b]] # NoBranch
    BY Zenon DEF SettledRevisionHasGraph
  <2>1. \A r \in Requests : jobRow[r] # "IN_PROGRESS"
    BY Zenon DEF Active, ActiveRow
  <2>2. b \notin Touched
    BY <2>1, Zenon DEF Touched, HalfRemoved
  <2> QED BY <2>2, Zenon DEF RepoInv, GraphsFit
<1> QED BY <1>1, RepoInvHolds, PTL

\* A step of one job leaves the rows and the workers of the others.
LEMMA OthersStay ==
    ASSUME JobTypes, NEW t \in Requests, RequestStep(t) \/ WorkerStepOf(t) \/ FaultOf(t),
           NEW r \in Requests, r # t
    PROVE  jobRow'[r] = jobRow[r] /\ step'[r] = step[r]
<1>0. jobRow \in [Requests -> JobStatuses] /\ step \in [Requests -> RemoveSteps \cup IndexSteps \cup {"none"}]
  BY Zenon DEF JobTypes
<1>1. CASE RequestStep(t) \/ EnqueueFails(t) \/ SchedulerDies(t)
  <2>1. UNCHANGED step
    BY <1>1, Zenon DEF RequestStep, HandlePostOrgRepoIndex, HandleDeleteOrgRepoIndex, ScheduleRepoIndex,
                StartInsert, InsertPendingRepoIndexJob, EnqueueTask, EnqueueFails, SchedulerDies, workVars
  <2>2. UNCHANGED jobRow \/ \E x : jobRow' = [jobRow EXCEPT ![t] = x]
    BY <1>1, Zenon DEF RequestStep, HandlePostOrgRepoIndex, HandleDeleteOrgRepoIndex, ScheduleRepoIndex,
                StartInsert, InsertPendingRepoIndexJob, EnqueueTask, EnqueueFails, SchedulerDies
  <2> QED BY <1>0, <2>1, <2>2, Zenon
<1>2. CASE TakeTask(t)
  BY <1>0, <1>2, Zenon DEF TakeTask, GoTo
<1>3. CASE \E x : EndJob(t, x)
  BY <1>0, <1>3, Zenon DEF EndJob, GoTo
<1>4. CASE \E s, u : Leaves(t, s, u)
  BY <1>0, <1>4, Zenon DEF Leaves, GoTo
<1>5. CASE StepFails(t) \/ WorkerDies(t)
  BY <1>0, <1>3, <1>5, Zenon DEF StepFails, WorkerDies, GoTo
<1>6. CASE \/ ListSnapshots(t) \/ RetireSnapshot(t) \/ ListCommits(t) \/ CleanupStatement(t)
           \/ DeleteShards(t) \/ ClearTree(t) \/ CloneTree(t) \/ ResolveIndexRevisions(t)
           \/ PlanRevision(t) \/ Produce(t) \/ ActivateRevision(t)
  BY <1>4, <1>6, Zenon DEF ListSnapshots, RetireSnapshot, ListCommits, CleanupStatement, DeleteGraphRows,
     DeleteCodeIntelRows, DeleteManifestRows, ClearIndexedRevisions, DeleteShards, ClearTree, CloneTree,
     ResolveIndexRevisions, PlanRevision, Produce, ActivateRevision
<1>7. CASE \/ DeleteSnapshotDirs(t) \/ CloneRefused(t) \/ TreeMissing(t) \/ SubjobsDone(t) \/ SubjobsFail(t)
  BY <1>3, <1>7, Zenon DEF DeleteSnapshotDirs, CloneRefused, TreeMissing, SubjobsDone, SubjobsFail
<1>8. CASE PlanDone(t)
  BY <1>3, <1>4, <1>8, Zenon DEF PlanDone
<1> QED BY <1>1, <1>2, <1>5, <1>6, <1>7, <1>8, Zenon
        DEF WorkerStepOf, FaultOf, CleanupRepoDBState, CleanupRepoDBStateForRef

\* A removal takes what it was asked to take and nothing else, for every spelling of
\* the ref: one that completes leaves no row, shard or metadata entry of its ref, and no
\* step of one takes the rows, the shards or the directory of another branch.
THEOREM RemovalsAreExact == RepoSpec => RemovalIsExact
<1> DEFINE Complete(r) ==
              jobRow[r] = "IN_PROGRESS" /\ jobRow'[r] = "COMPLETED" /\ ~overlapped =>
                  /\ Asked(r) \cap (revisions' \cup indexes' \cup shards' \cup listed') = {}
                  /\ \A m \in manifests' : m.branch \notin Asked(r)
           Spares(r) ==
              step[r] # "none" /\ step'[r] # step[r] =>
                  \A b \in revisions \ Asked(r) :
                     /\ b \in revisions'
                     /\ b \in shards => b \in shards'
                     /\ b \in indexes => b \in indexes'
                     /\ ~overlapped /\ HeadOf[b] \in dirs => HeadOf[b] \in dirs'
<1>1. ASSUME RepoInv, RepoNext, NEW r \in Requests, Kind(r) = "REMOVE_INDEX"
      PROVE  Complete(r) /\ Spares(r)
  <2>0. /\ JobsFit /\ JobTypes /\ JobFits(r) /\ step[r] \notin IndexSteps
        /\ ~overlapped => RemovalFits(r)
    BY <1>1, Zenon DEF RepoInv, JobsFit, JobFits, RemovalsFit
  <2>1. /\ Targets(r) = Asked(r) /\ Asked(r) \subseteq RepoBranches
    BY <2>0, TargetsAreAsked, Zenon
  <2>2. CASE jobRow'[r] = jobRow[r] /\ step'[r] = step[r]
    BY <2>2, Zenon
  <2>3. CASE jobRow'[r] # "COMPLETED" /\ UNCHANGED <<revisions, shards, indexes, dirs>>
    BY <2>3, Zenon
  <2>4. CASE RequestStep(r) \/ EnqueueFails(r) \/ SchedulerDies(r)
    <3>1. UNCHANGED step
      BY <2>4, Zenon DEF RequestStep, HandlePostOrgRepoIndex, HandleDeleteOrgRepoIndex, ScheduleRepoIndex,
                  StartInsert, InsertPendingRepoIndexJob, EnqueueTask, EnqueueFails, SchedulerDies, workVars
    <3>2. UNCHANGED jobRow \/ \E x \in {"PENDING", "FAILED", jobRow[r]} : jobRow' = [jobRow EXCEPT ![r] = x]
      BY <2>4, Zenon DEF RequestStep, HandlePostOrgRepoIndex, HandleDeleteOrgRepoIndex, ScheduleRepoIndex,
                  StartInsert, InsertPendingRepoIndexJob, EnqueueTask, EnqueueFails, SchedulerDies
    <3>3. jobRow[r] = "IN_PROGRESS" => jobRow'[r] # "COMPLETED"
      BY <2>0, <3>2 DEF JobTypes
    <3> QED BY <3>1, <3>3, Zenon
  <2>5. CASE TakeTask(r)
    <3>1. step[r] = "none" /\ (UNCHANGED jobRow \/ jobRow' = [jobRow EXCEPT ![r] = "IN_PROGRESS"])
      BY <2>0, <2>5, Zenon DEF TakeTask, JobFits
    <3>2. jobRow[r] = "IN_PROGRESS" => jobRow'[r] # "COMPLETED"
      BY <2>0, <3>1 DEF JobTypes
    <3> QED BY <3>1, <3>2, Zenon
  <2>6. CASE StepFails(r) \/ WorkerDies(r)
    <3>1. UNCHANGED <<revisions, shards, indexes, dirs>>
      BY <2>6, Zenon DEF StepFails, WorkerDies, indexVars
    <3>2. jobRow'[r] # "COMPLETED" \/ jobRow[r] # "IN_PROGRESS"
      BY <2>0, <2>6 DEF StepFails, WorkerDies, EndJob, JobTypes
    <3> QED BY <3>1, <3>2, Zenon
  <2>7. CASE ListSnapshots(r) \/ RetireSnapshot(r) \/ ListCommits(r)
    <3>1. UNCHANGED <<jobRow, revisions, shards, indexes, dirs>>
      BY <2>7, Zenon DEF ListSnapshots, RetireSnapshot, ListCommits, Leaves, indexVars
    <3> QED BY <3>1, Zenon
  <2>8. CASE CleanupStatement(r) \/ DeleteShards(r)
    <3>1. UNCHANGED <<jobRow, dirs>>
      BY <2>8, Zenon DEF CleanupStatement, DeleteGraphRows, DeleteCodeIntelRows, DeleteManifestRows,
                  ClearIndexedRevisions, DeleteShards, Leaves
    <3>2. revisions \ Asked(r) \subseteq revisions' /\ shards \ Asked(r) \subseteq shards'
      BY <2>1, <2>8, Zenon DEF CleanupStatement, DeleteGraphRows, DeleteCodeIntelRows, DeleteManifestRows,
                  ClearIndexedRevisions, DeleteShards, Leaves
    <3>3. indexes \ Asked(r) \subseteq indexes'
      BY <2>1, <2>8, Zenon DEF CleanupStatement, DeleteGraphRows, DeleteCodeIntelRows, DeleteManifestRows,
                  ClearIndexedRevisions, DeleteShards, Leaves
    <3> QED BY <3>1, <3>2, <3>3, Zenon
  <2>9. CASE DeleteSnapshotDirs(r)
    <3>1. /\ step[r] = "dirs" /\ dirs' = dirs \ found[r]
          /\ UNCHANGED <<manifests, revisions, indexes, shards, listed>>
      BY <2>9, Zenon DEF DeleteSnapshotDirs, AtWork
    <3> QED BY <2>0, <3>1, Zenon DEF RemovalFits, RemoveSteps
  <2>10. ~(\/ ClearTree(r) \/ CloneTree(r) \/ CloneRefused(r) \/ ResolveIndexRevisions(r)
           \/ PlanRevision(r) \/ TreeMissing(r) \/ PlanDone(r) \/ Produce(r) \/ ActivateRevision(r)
           \/ SubjobsDone(r) \/ SubjobsFail(r))
    BY <2>0, Zenon DEF ClearTree, CloneTree, CloneRefused, ResolveIndexRevisions, PlanRevision, TreeMissing,
       PlanDone, Produce, ActivateRevision, SubjobsDone, SubjobsFail, AtWork, IndexSteps
  <2>11. CASE DetachConnection
    BY <2>2, <2>11, Zenon DEF DetachConnection, workVars
  <2>12. ASSUME NEW t \in Requests, RequestStep(t) \/ WorkerStepOf(t) \/ FaultOf(t), t # r
         PROVE  jobRow'[r] = jobRow[r] /\ step'[r] = step[r]
    BY <2>0, <2>12, OthersStay, Zenon
  <2>13. CASE RequestStep(r) \/ WorkerStepOf(r) \/ FaultOf(r)
    BY <2>4, <2>5, <2>6, <2>7, <2>8, <2>9, <2>10, <2>13, Zenon
       DEF WorkerStepOf, FaultOf, CleanupRepoDBState, CleanupRepoDBStateForRef
  <2> QED BY <1>1, <2>2, <2>11, <2>12, <2>13, Zenon DEF RepoNext, RepoStep
<1>2. RepoInv /\ [RepoNext]_repoVars =>
         [\A r \in Requests : Kind(r) = "REMOVE_INDEX" =>
             /\ jobRow[r] = "IN_PROGRESS" /\ jobRow'[r] = "COMPLETED" /\ ~overlapped =>
                   /\ Asked(r) \cap (revisions' \cup indexes' \cup shards' \cup listed') = {}
                   /\ \A m \in manifests' : m.branch \notin Asked(r)
             /\ step[r] # "none" /\ step'[r] # step[r] =>
                   \A b \in revisions \ Asked(r) :
                      /\ b \in revisions'
                      /\ b \in shards => b \in shards'
                      /\ b \in indexes => b \in indexes'
                      /\ ~overlapped /\ HeadOf[b] \in dirs => HeadOf[b] \in dirs']_repoVars
  BY <1>1, Zenon
<1> QED BY <1>2, RepoInvHolds, PTL DEF RepoSpec, RemovalIsExact
===============================================================================
