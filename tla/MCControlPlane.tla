--------------------------- MODULE MCControlPlane ----------------------------
(***************************************************************************)
(* Small instances of the parts that act on requests about repositories,   *)
(* connections and secrets.  They share no variables: a behaviour follows  *)
(* the part in focus and leaves the others in their initial states.        *)
(***************************************************************************)
EXTENDS RepoLifecycle, IndexPlanning, OrgConfig, ConnectionSync, CodeHosts, TLC

VARIABLE focus   \* the part this behaviour is about

controlVars == <<repoVars, planVars, orgVars, syncVars, hostVars, focus>>

ControlInit ==
    /\ focus \in {"repo", "plan", "org", "sync", "host"}
    /\ RepoInit /\ PlanningInit /\ OrgInit /\ SyncInit /\ HostInit
    /\ focus # "plan" => treeOf = <<CHOOSE t \in FirstTrees : TRUE>>

\* What is left alone when the part in focus moves.
Apart(part) ==
    /\ focus = part
    /\ part # "repo" => UNCHANGED repoVars
    /\ part # "plan" => UNCHANGED planVars
    /\ part # "org" => UNCHANGED orgVars
    /\ part # "sync" => UNCHANGED syncVars
    /\ part # "host" => UNCHANGED hostVars
    /\ UNCHANGED focus

ControlNext ==
    \/ Apart("repo") /\ RepoNext
    \/ Apart("plan") /\ PlanningNext
    \/ Apart("org") /\ OrgNext
    \/ Apart("sync") /\ SyncNext
    \/ Apart("host") /\ HostNext

ControlSpec == ControlInit /\ [][ControlNext]_controlVars

\* The types of all parts.
ControlTypeOK == RepoTypeOK /\ PlanningTypeOK /\ OrgTypeOK /\ SyncTypeOK /\ HostTypeOK

-----------------------------------------------------------------------------
\* RepoLifecycle: two branches at one commit.
SameHead == [b \in RepoBranches |-> "c1"]
LifecycleSymmetry == Permutations(Requests) \cup Permutations(RepoBranches)

\* IndexPlanning: a Go module, a Gradle build and a TypeScript package.
File(dir, marks, rootMarker, language, ts) ==
    [dir |-> dir, marks |-> marks, rootMarker |-> rootMarker, language |-> language, ts |-> ts]
SmallRepo ==
    "go.mod" :> File(<<>>, {"go"}, TRUE, "none", FALSE)
    @@ "settings.gradle" :> File(<<"app">>, {"java"}, FALSE, "none", FALSE)
    @@ "package.json" :> File(<<"web">>, {"typescript"}, TRUE, "none", FALSE)
    @@ "b.ts" :> File(<<"web", "src">>, {}, FALSE, "typescript", TRUE)
    @@ "dep.js" :> File(<<"node_modules">>, {}, FALSE, "typescript", TRUE)
    @@ "README" :> File(<<>>, {}, FALSE, "docs", FALSE)
SmallDirs == << <<>>, <<"app">>, <<"node_modules">>, <<"web">>, <<"web", "src">> >>
Tree(files) == [f \in files |-> 1]
SmallTrees == {Tree({"go.mod", "package.json", "b.ts"}),
               Tree({"settings.gradle", "README"}), Tree({"b.ts", "dep.js", "README"})}

\* CodeHosts: a container of up to three repositories, each of which may be a
\* fork, incomplete, private, ruled out by name or undecodable, and one of one.
Repository(n) ==
    [id |-> n, decodes |-> TRUE, complete |-> TRUE, cloneURL |-> TRUE, fork |-> FALSE,
     archived |-> FALSE, nameMatches |-> FALSE, topicMatches |-> TRUE, sizeOutside |-> FALSE,
     visibility |-> "public"]
Repositories(n) ==
    {Repository(n), [Repository(n) EXCEPT !.fork = TRUE],
     [Repository(n) EXCEPT !.complete = FALSE], [Repository(n) EXCEPT !.visibility = "private"],
     [Repository(n) EXCEPT !.nameMatches = TRUE], [Repository(n) EXCEPT !.decodes = FALSE]}
SmallWorlds ==
    {[c \in {"a", "b"} |-> IF c = "a" THEN items ELSE <<Repository(9)>>] :
        items \in {<<>>} \cup {<<x>> : x \in Repositories(1)}
                  \cup {<<x, y>> : x \in Repositories(1), y \in Repositories(2)}
                  \cup {<<x, y, z>> : x \in Repositories(1), y \in Repositories(2),
                                      z \in Repositories(3)}}
TwoContainers == <<"a", "b">>
=============================================================================
