------------------------------- MODULE CodeHosts -------------------------------
(***************************************************************************)
(* Listing a code host: the clients, orchestrators, filters and compilers   *)
(* of internal/backend/connectionmanager, from the connection's config to   *)
(* the records the sync stores.                                             *)
(*                                                                         *)
(* A config names containers (organisations, groups, workspaces, projects,  *)
(* paths); each is listed page by page.  The host's answer to a request is  *)
(* a page, a 404, a 5xx, a timeout or another refusal.  A repository is an  *)
(* item that says whether it decodes, whether it carries the fields its     *)
(* record needs, what the config's rules look at, and who may see it.       *)
(***************************************************************************)
EXTENDS Naturals, Sequences, FiniteSets

CONSTANTS
    HostKinds,      \* the connection types under test
    HostContainers, \* the containers the config names, in order
    HostWorlds,     \* what the host may hold: the sequence of items of each container
    HostRules,      \* the config's exclude and include rules
    PerPage,        \* items a client asks for
    PageServed,     \* items the server gives at most
    MaxHostFaults

IsSequence(s) == s \in Seq({s[n] : n \in DOMAIN s})

ASSUME HostConstants ==
    /\ HostKinds \subseteq {"github", "gitlab", "gitea", "bitbucketCloud", "bitbucketServer",
                            "gerrit", "azuredevops", "gitURL", "gitFile"}
    /\ PerPage \in Nat \ {0} /\ PageServed \in Nat \ {0} /\ MaxHostFaults \in Nat
    /\ IsSequence(HostContainers)
    /\ HostKinds \cap {"gerrit", "gitURL", "gitFile"} # {} => HostContainers # <<>>
    /\ \A h \in HostWorlds : \A n \in DOMAIN HostContainers : IsSequence(h[HostContainers[n]])

VARIABLES listing, hostFaults

hostVars == <<listing, hostFaults>>

Answers == {"missing", "busy", "timeout", "refused"}

\* Gerrit and generic git hosts are one container: the server, the URL, the glob.
Containers(k) ==
    IF k \in {"gerrit", "gitURL", "gitFile"} THEN SubSeq(HostContainers, 1, 1) ELSE HostContainers
AllContainers(k) == {Containers(k)[i] : i \in DOMAIN Containers(k)}
ItemsOf(c) == {listing.host[c][i] : i \in DOMAIN listing.host[c]}

-----------------------------------------------------------------------------
\* One request of a client.  l is the listing, a the answer, Page(l) what an "ok"
\* brings.
Remaining(l) == SubSeq(l.host[Head(l.todo)], l.from + 1, Len(l.host[Head(l.todo)]))
PageSize == IF PageServed < PerPage THEN PageServed ELSE PerPage
Page(l) == SubSeq(Remaining(l), 1, IF Len(Remaining(l)) < PageSize THEN Len(Remaining(l)) ELSE PageSize)
HasNext(l) == Len(Remaining(l)) > PageSize
Decoded(page) == {i \in {page[n] : n \in DOMAIN page} : i.decodes}
AllDecode(page) == \A n \in DOMAIN page : page[n].decodes

NextContainer(l) == [l EXCEPT !.todo = Tail(@), !.from = 0, !.try = 1, !.part = {}]
Listed(l, page) == NextContainer([l EXCEPT !.got = @ \cup l.part \cup Decoded(page)])
More(l, page) ==
    [l EXCEPT !.from = @ + Len(page), !.try = 1, !.part = @ \cup Decoded(page)]
Warned(l) == NextContainer([l EXCEPT !.warned = @ \cup {Head(l.todo)}])
Failed(l) == [l EXCEPT !.at = "failed"]

\* defaultRetryMaxAttempts.
MaxAttempts == 3
IsRetryable(a) == a \in {"busy", "timeout"}

WithRetry(l, a, otherwise) ==
    IF IsRetryable(a) /\ l.try < MaxAttempts THEN [l EXCEPT !.try = @ + 1] ELSE otherwise

FetchReposForOrg_Keep(l, a) ==
    CASE a # "ok" -> Listed(l, <<>>)
      [] a = "ok" /\ HasNext(l) -> More(l, Page(l))
      [] OTHER -> Listed(l, Page(l))

\* GitHub: a 404 is a warning and drops the pages before it; no retry.
FetchReposForOrg(l, a) ==
    CASE a = "missing" -> Warned(l)
      [] a \notin {"ok", "missing"} \/ (a = "ok" /\ ~AllDecode(Page(l))) -> Failed(l)
      [] a = "ok" /\ AllDecode(Page(l)) /\ HasNext(l) -> More(l, Page(l))
      [] OTHER -> Listed(l, Page(l))

\* GitLab: the loop of the GitHub client over group projects.
FetchProjectsForGroup(l, a) ==
    CASE a = "missing" -> Warned(l)
      [] a \notin {"ok", "missing"} \/ (a = "ok" /\ ~AllDecode(Page(l))) -> Failed(l)
      [] a = "ok" /\ AllDecode(Page(l)) /\ HasNext(l) -> More(l, Page(l))
      [] OTHER -> Listed(l, Page(l))

\* Gitea: retried page by page, and a short page is the last one.
FetchReposForGiteaOrg(l, a) ==
    WithRetry(l, a,
        CASE a = "missing" -> Warned(l)
          [] a \notin {"ok", "missing"} \/ (a = "ok" /\ ~AllDecode(Page(l))) -> Failed(l)
          [] a = "ok" /\ AllDecode(Page(l)) /\ Len(Page(l)) >= PerPage -> More(l, Page(l))
          [] OTHER -> Listed(l, Page(l)))

\* Bitbucket Cloud: one retried call for all pages; what does not decode is skipped.
FetchReposForBitbucketCloudWorkspace(l, a) ==
    WithRetry(l, a,
        CASE a = "missing" -> Warned(l)
          [] a = "ok" -> Listed(l, Remaining(l))
          [] OTHER -> Failed(l))

\* Bitbucket Server: pages by isLastPage and nextPageStart, items skipped likewise.
FetchReposForBitbucketServerProject(l, a) ==
    CASE a = "missing" -> Warned(l)
      [] a = "ok" /\ HasNext(l) -> More(l, Page(l))
      [] a = "ok" /\ ~HasNext(l) -> Listed(l, Page(l))
      [] OTHER -> Failed(l)

\* Gerrit: any other status is an error; more pages follow when an entry that
\* decodes carries the flag, which the server puts on the last one.
FetchAllGerritProjects(l, a) ==
    CASE a # "ok" -> Failed(l)
      [] a = "ok" /\ HasNext(l) /\ Page(l)[Len(Page(l))].decodes -> More(l, Page(l))
      [] OTHER -> Listed(l, Page(l))

\* Azure DevOps: one call for the projects of the organisation ...
FetchAzureDevOpsProjects(l, a) ==
    WithRetry(l, a,
        CASE a = "missing" -> [l EXCEPT !.at = "pages", !.todo = <<>>,
                                        !.warned = AllContainers(l.kind)]
          [] a = "ok" -> [l EXCEPT !.at = "pages", !.try = 1]
          [] OTHER -> Failed(l))

\* ... and one per project, where an error is noted and the note dropped.
FetchAzureDevOpsRepositories(l, a) ==
    WithRetry(l, a,
        IF a = "ok" /\ AllDecode(Remaining(l)) THEN Listed(l, Remaining(l))
        ELSE NextContainer([l EXCEPT !.dropped = @ \cup {Head(l.todo)}]))

\* A generic URL: the probe says whether it is a repository.
CompileGenericGitURL(l, a) == IF a = "ok" THEN Listed(l, Remaining(l)) ELSE Warned(l)

\* The client of the connection type.
FetchOnce(l, a) ==
    CASE l.at = "projects" -> FetchAzureDevOpsProjects(l, a)
      [] l.kind = "azuredevops" /\ l.at = "pages" -> FetchAzureDevOpsRepositories(l, a)
      [] l.kind = "github" -> FetchReposForOrg(l, a)
      [] l.kind = "gitlab" -> FetchProjectsForGroup(l, a)
      [] l.kind = "gitea" -> FetchReposForGiteaOrg(l, a)
      [] l.kind = "bitbucketCloud" -> FetchReposForBitbucketCloudWorkspace(l, a)
      [] l.kind = "bitbucketServer" -> FetchReposForBitbucketServerProject(l, a)
      [] l.kind = "gerrit" -> FetchAllGerritProjects(l, a)
      [] OTHER -> CompileGenericGitURL(l, a)

-----------------------------------------------------------------------------
\* The seven reasons of ShouldExcludeRepo, in its order.
ShouldExcludeRepo(i) ==
    \/ ~i.cloneURL
    \/ "forks" \in HostRules /\ i.fork
    \/ "archived" \in HostRules /\ i.archived
    \/ "repos" \in HostRules /\ i.nameMatches
    \/ "topics" \in HostRules /\ i.topicMatches
    \/ "includeTopics" \in HostRules /\ ~i.topicMatches
    \/ "size" \in HostRules /\ i.sizeOutside

GetGitHubReposFromConfig(items) == {i \in items : ~ShouldExcludeRepo(i)}

\* Gerrit: the patterns to keep, then those to drop.
FetchGerritProjectsViaHTTP(items) ==
    {i \in items : /\ "projects" \in HostRules => i.nameMatches
                   /\ "repos" \in HostRules => ~i.nameMatches}

Record(i, public, fork, archived) ==
    [item |-> i, public |-> public, fork |-> fork, archived |-> archived]

CreateGitHubRepoRecord(i) == Record(i, i.visibility = "public", i.fork, i.archived)

\* GitLab counts what every signed-in user sees as public.
CreateGitLabRepoRecord(i) ==
    Record(i, i.visibility \in {"public", "internal"}, i.fork, i.archived)

CreateGiteaRepoRecord(i) == Record(i, i.visibility = "public", i.fork, i.archived)
CreateGerritRepoRecord(i) == Record(i, TRUE, FALSE, FALSE)

\* Bitbucket refuses an item without a full name, a project or its links; the cloud
\* knows no archive.
CreateBitbucketCloudRepoRecord(i) == Record(i, i.visibility = "public", i.fork, FALSE)

CreateBitbucketServerRepoRecord(i, access) ==
    Record(i, access /\ i.visibility = "public", i.fork, i.archived)

\* Azure DevOps refuses one without a project, a remote URL or an id.
CreateAzureDevOpsRepoRecord(i) == Record(i, i.visibility = "public", i.fork, FALSE)

\* A local path is skipped unless it is the root of a repository with an origin.
CompileGenericGitFile(items) == {Record(i, FALSE, FALSE, FALSE) : i \in {j \in items : j.complete}}

Complete(items) == {i \in items : i.complete}
CompileGitHubConfig(items) == {CreateGitHubRepoRecord(i) : i \in items}
CompileGitLabConfig(items) == {CreateGitLabRepoRecord(i) : i \in items}
CompileGiteaConfig(items) == {CreateGiteaRepoRecord(i) : i \in items}
CompileGerritConfig(items) == {CreateGerritRepoRecord(i) : i \in items}
CompileBitbucketCloudConfig(items) == {CreateBitbucketCloudRepoRecord(i) : i \in Complete(items)}
CompileBitbucketServerConfig(items, access) ==
    {CreateBitbucketServerRepoRecord(i, access) : i \in Complete(items)}
CompileAzureDevOpsConfig(items) == {CreateAzureDevOpsRepoRecord(i) : i \in Complete(items)}

\* The *FromConfig of the type.  probe: an anonymous request for the first public
\* repository of a Bitbucket Server succeeds.
CompileFromConfig(k, got, probe) ==
    CASE k = "github" -> CompileGitHubConfig(GetGitHubReposFromConfig(got))
      [] k = "gitlab" -> CompileGitLabConfig(got)
      [] k = "gitea" -> CompileGiteaConfig(got)
      [] k = "gerrit" -> CompileGerritConfig(FetchGerritProjectsViaHTTP(got))
      [] k = "bitbucketCloud" -> CompileBitbucketCloudConfig(got)
      [] k = "bitbucketServer" -> CompileBitbucketServerConfig(got, probe)
      [] k = "azuredevops" -> CompileAzureDevOpsConfig(got)
      [] k = "gitFile" -> CompileGenericGitFile(got)
      [] OTHER -> {Record(i, TRUE, FALSE, FALSE) : i \in got}

\* The types whose compiler reports what it leaves out.
Reported(k, got) ==
    IF k \in {"bitbucketCloud", "bitbucketServer", "azuredevops", "gitFile"}
    THEN got \ Complete(got) ELSE {}

-----------------------------------------------------------------------------
BeginListing ==
    /\ listing.at = "new"
    /\ \E k \in HostKinds, h \in HostWorlds :
          /\ (k = "gitURL") => Len(h[HostContainers[1]]) = 1
          /\ listing' = [listing EXCEPT !.kind = k, !.host = h, !.todo = Containers(k),
                            !.at = IF k = "azuredevops" THEN "projects" ELSE "pages"]
    /\ UNCHANGED hostFaults

AtRequest == listing.at = "projects" \/ (listing.at = "pages" /\ listing.todo # <<>>)

\* The paths of a glob are read without a request.
RequestAnswered ==
    /\ AtRequest
    /\ listing' = IF listing.kind = "gitFile" THEN Listed(listing, Remaining(listing))
                  ELSE FetchOnce(listing, "ok")
    /\ UNCHANGED hostFaults

RequestFails ==
    /\ AtRequest /\ listing.kind # "gitFile"
    /\ hostFaults < MaxHostFaults /\ hostFaults' = hostFaults + 1
    /\ \E a \in Answers : listing' = FetchOnce(listing, a)

CompileRecords ==
    /\ listing.at = "pages" /\ listing.todo = <<>>
    /\ \E probe \in BOOLEAN :
          listing' = [listing EXCEPT !.at = "compiled", !.probe = probe,
                         !.records = CompileFromConfig(listing.kind, listing.got, probe),
                         !.skipped = Reported(listing.kind, listing.got)]
    /\ UNCHANGED hostFaults

HostInit ==
    /\ listing = [at |-> "new", kind |-> "", host |-> <<>>, todo |-> <<>>, from |-> 0, try |-> 1,
                  part |-> {}, got |-> {}, warned |-> {}, dropped |-> {}, probe |-> TRUE,
                  records |-> {}, skipped |-> {}]
    /\ hostFaults = 0

HostNext == BeginListing \/ RequestAnswered \/ RequestFails \/ CompileRecords

HostSpec == HostInit /\ [][HostNext]_hostVars

-----------------------------------------------------------------------------
\* A listing is in one of its states and never past defaultRetryMaxAttempts.
HostTypeOK ==
    /\ listing.at \in {"new", "projects", "pages", "compiled", "failed"}
    /\ listing.try \in 1..MaxAttempts
    /\ hostFaults \in 0..MaxHostFaults

RuledOut(i) ==
    CASE listing.kind = "github" -> ShouldExcludeRepo(i)
      [] listing.kind = "gerrit" -> ("projects" \in HostRules /\ ~i.nameMatches)
                                    \/ ("repos" \in HostRules /\ i.nameMatches)
      [] OTHER -> FALSE

Accounted(c, i) ==
    \/ i \in {r.item : r \in listing.records} \cup listing.skipped
    \/ c \in listing.warned \cup listing.dropped
    \/ RuledOut(i)

\* A listing that ends without an error has a record for every repository of the
\* containers the config names, a warning that says why not, or a rule that
\* excludes it.  Outside of it: an item that does not decode, the pages behind one
\* that carries Gerrit's flag and the pages behind a short one of gitea; for Azure
\* DevOps it is enough that an error was noted for the project, as the note is dropped.
CompleteOrReported ==
    listing.at = "compiled"
        /\ ~(listing.kind = "gitea" /\ PageServed < PerPage)
        /\ ~(listing.kind = "gerrit" /\ \E c \in AllContainers("gerrit") :
                                            \E i \in ItemsOf(c) : ~i.decodes)
    => \A c \in AllContainers(listing.kind) : \A i \in ItemsOf(c) : i.decodes => Accounted(c, i)

================================================================================
