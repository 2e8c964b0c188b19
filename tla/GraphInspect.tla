---------------------------- MODULE GraphInspect ----------------------------
(***************************************************************************)
(* graphreader.Reader.Inspect: the bounded breadth-first traversal of the  *)
(* native code graph that answers the graph tools, one statement at a     *)
(* time, and what is done with the edges it finds (hub filter, ranking,   *)
(* language interleaving, the limit).                                      *)
(*                                                                         *)
(* A query is the set of hint words it contains.  A vertex is a number;    *)
(* VertexOf gives the properties the code looks at.  An edge carries the   *)
(* properties the traversal statement filters on.  The graph database is   *)
(* external: a statement returns the edges it asks for, any subset of      *)
(* them when there are more than its LIMIT, or fails.                      *)
(***************************************************************************)
EXTENDS Integers, FiniteSets, Sequences, FiniteSetsExt

CONSTANTS VertexOf,          \* vertex -> [org, ws, repo, commit, kind, local, external]
          NativeGraphs,      \* the graphs a call may meet: sets of edges
          InspectRequests,   \* the InspectParams a call may have
          HubDegreeFloor,    \* hubDegreeFloor (50 in the code)
          MaxInspectFaults   \* statements that fail

ASSUME InspectConstants ==
    /\ HubDegreeFloor \in Nat \ {0}
    /\ MaxInspectFaults \in Nat
    /\ \A g \in NativeGraphs : \A e \in g :
          /\ {e.src, e.dst} \subseteq DOMAIN VertexOf
          /\ \A f \in g : (e.src = f.src /\ e.dst = f.dst) => e = f
    /\ \A r \in InspectRequests : DOMAIN r.seeds \subseteq r.workspaces /\ r.depth \in Int

VARIABLES inspection,        \* the call: parameters, plan and traversal state
          inspectFaults

inspectVars == <<inspection, inspectFaults>>

Clamp(value, min, max) == IF value < min THEN min ELSE IF value > max THEN max ELSE value

-----------------------------------------------------------------------------
(* The query plan. *)

FlowKinds == {"CALLS", "DEPENDS_ON", "REFERENCES", "IMPORTS", "IMPORTS_FROM", "DEFINES",
              "EXTENDS", "IMPLEMENTS", "TYPE_DEFINES", "HANDLES", "EMITS"}
AllKinds == FlowKinds \union {"CONTAINS", "PROVIDES", "CONSUMES", "ANCHOR_LINK"}

\* The edge contexts a hint word stands for.
ContextHints ==
    [caller |-> {"call"}, calls |-> {"call"}, callee |-> {"call"}, implements |-> {"inherits"},
     imports |-> {"import"}, dependsOn |-> {"import"}, references |-> {"reference"},
     uses |-> {"reference", "call"}, contains |-> {"containment"}]

InferContextFilters(words) == UNION {ContextHints[w] : w \in words \cap DOMAIN ContextHints}

Plan(intent, direction, depth, kinds, words) ==
    [intent |-> intent, direction |-> direction, maxDepth |-> depth, kinds |-> kinds,
     contexts |-> InferContextFilters(words)]

\* The first family of words found decides; the words are looked for in the
\* whole query, the prefix of a focused tool and the user's own text alike.
BuildQueryPlan(words) ==
    LET Says(family) == words \cap family # {} IN
    IF Says({"import", "imports"})
    THEN Plan("imports", "bidirectional", 3, {"IMPORTS", "IMPORTS_FROM"}, words)
    ELSE IF Says({"caller", "references"})
    THEN Plan("callers", "incoming", 3, {"CALLS", "REFERENCES", "USES"}, words)
    ELSE IF Says({"callee", "calls", "dependsOn"})
    THEN Plan("callees", "outgoing", 3, {"CALLS", "DEPENDS_ON", "CONTAINS"}, words)
    ELSE IF Says({"impact", "risk"})
    THEN Plan("impact", "bidirectional", 4, FlowKinds, words)
    ELSE IF Says({"path", "chain"})
    THEN Plan("path", "bidirectional", 5, AllKinds, words)
    ELSE IF Says({"architecture", "flow"})
    THEN Plan("architecture", "bidirectional", 4, AllKinds, words)
    ELSE Plan("default", "bidirectional", 3, {}, words)

TraversalBudget(req) ==
    [seedRows |-> IF req.seedRows > 0 THEN Clamp(req.seedRows, 1, 200) ELSE Clamp(req.limit, 1, 200),
     seedVids |-> IF req.seedVids > 0 THEN Clamp(req.seedVids, 1, 200)
                                      ELSE Clamp(req.limit * 4, 50, 200),
     rows     |-> IF req.rows > 0 THEN Clamp(req.rows, 1, 500) ELSE Clamp(req.limit * 6, 100, 500)]

SeedKindsForPlan(plan) ==
    IF plan.intent \in {"architecture", "impact"}
    THEN {"route", "event", "package", "service", "job", "symbol", "function", "class", "file"}
    ELSE {"symbol", "function", "class", "method", "file", "package"}

-----------------------------------------------------------------------------
(* The statements, and what the graph database returns for them. *)

\* No scope at all leaves the statement unrestricted.
RenderScopeFilter(scopes, repo, ws, commit) ==
    scopes = {} \/ [repo |-> repo, ws |-> ws, commit |-> commit] \in scopes

\* The vertices a traversal of this direction steps over an edge from.
RenderDirectionClause(direction, e) ==
    CASE direction = "incoming" -> {e.dst}
      [] direction = "outgoing" -> {e.src}
      [] OTHER -> {e.src, e.dst}

RenderEdgeKindFilter(kinds, e) == kinds = {} \/ e.kind \in kinds

\* An edge with no context matches no filter.
RenderContextFilter(contexts, e) == contexts = {} \/ e.context \in contexts

\* LIMIT n over a set of rows.
LimitTo(rows, n) == IF Cardinality(rows) <= n THEN {rows} ELSE kSubset(n, rows)

RenderSeedLookupStatement(req, ws, kinds) ==
    {v \in req.matching :
        /\ VertexOf[v].org = req.org /\ VertexOf[v].ws = ws
        /\ VertexOf[v].kind \in kinds
        /\ RenderScopeFilter(req.scopes, VertexOf[v].repo, ws, VertexOf[v].commit)}

RenderTraversalStepStatement(graph, req, plan, ws, vids) ==
    {e \in graph :
        /\ RenderDirectionClause(plan.direction, e) \cap vids # {}
        /\ VertexOf[e.src].org = req.org /\ e.ws = ws
        /\ RenderEdgeKindFilter(plan.kinds, e)
        /\ RenderContextFilter(plan.contexts, e)
        /\ RenderScopeFilter(req.scopes, e.repo, ws, e.commit)}

-----------------------------------------------------------------------------
(* The edges that are kept. *)

EdgeBelongsToOrg(e, org) == VertexOf[e.src].org = org /\ VertexOf[e.dst].org = org

\* The statement's filter is on the edge; both ends are checked here.
EdgeMatchesAllowedScopes(e, scopes) ==
    \/ scopes = {}
    \/ /\ \E s \in scopes : s.repo = e.repo /\ s.commit = e.commit
       /\ {VertexOf[e.src].repo, VertexOf[e.dst].repo} \subseteq {s.repo : s \in scopes}

IsSCIPLocalEndpoint(v) == VertexOf[v].local
IsExternalDependencyGraphEndpoint(v) == VertexOf[v].external

Admits(req, e) ==
    /\ EdgeBelongsToOrg(e, req.org)
    /\ EdgeMatchesAllowedScopes(e, req.scopes)
    /\ ~IsSCIPLocalEndpoint(e.src) /\ ~IsSCIPLocalEndpoint(e.dst)
    /\ e.kind = "REFERENCES" => /\ ~IsExternalDependencyGraphEndpoint(e.src)
                                /\ ~IsExternalDependencyGraphEndpoint(e.dst)

\* Edges at a vertex; a depth is part of an edge's identity (seenEdges).
Degree(found, v) == Cardinality({f \in found : f.edge.src = v}) + Cardinality({f \in found : f.edge.dst = v})

Ends(found) == UNION {{f.edge.src, f.edge.dst} : f \in found}

\* The degree at rank 99% of the sorted degrees, at least the floor.
ComputeHubThreshold(degree) ==
    LET vids == DOMAIN degree
        p99 == (Cardinality(vids) * 99) \div 100
        counts == {degree[v] : v \in vids}
    IN IF vids = {} THEN HubDegreeFloor
       ELSE Max({HubDegreeFloor, Min({d \in counts : Cardinality({v \in vids : degree[v] <= d}) > p99})})

Hubs(found) ==
    LET degree == [v \in Ends(found) |-> Degree(found, v)]
        threshold == ComputeHubThreshold(degree)
    IN {v \in DOMAIN degree : degree[v] >= threshold}

ApplyHubAwareFilter(found) ==
    IF Cardinality(found) < 4 THEN found
    ELSE LET hubs == Hubs(found) IN {f \in found : f.depth = 1 \/ f.edge.src \notin hubs}

RelationScore(kind) ==
    CASE kind \in {"HANDLES", "EMITS", "PROVIDES", "CONSUMES", "ANCHOR_LINK"} -> 35
      [] kind = "CALLS" -> 50
      [] kind = "DEPENDS_ON" -> 25
      [] kind = "REFERENCES" -> 18
      [] kind \in {"IMPORTS", "IMPORTS_FROM"} -> 6
      [] kind \in {"IMPLEMENTS", "TYPE_DEFINES", "EXTENDS"} -> 22
      [] kind \in {"CONTAINS", "DEFINES"} -> 10
      [] OTHER -> 5

\* The bonuses for matching words, provenance and confidence are left out:
\* they refine the order and decide nothing else.
EdgeScore(e) ==
    LET EndScore(v) ==
            (IF VertexOf[v].kind \in {"route", "event", "service", "job", "function", "method", "class"}
             THEN 18 ELSE IF VertexOf[v].kind = "package" THEN -10 ELSE 0)
            - (IF IsExternalDependencyGraphEndpoint(v) THEN 35 ELSE 0)
    IN RelationScore(e.kind) + EndScore(e.src) + EndScore(e.dst)
       + IF VertexOf[e.src].repo # VertexOf[e.dst].repo THEN 25 ELSE 0

\* edgeStableSortKey: the depth and then the rest of the edge's identity.
EdgeStableSortKey(f, g) ==
    \/ f.depth < g.depth
    \/ f.depth = g.depth /\ \/ f.edge.src < g.edge.src
                            \/ f.edge.src = g.edge.src /\ f.edge.dst < g.edge.dst

Before(f, g) ==
    \/ EdgeScore(f.edge) > EdgeScore(g.edge)
    \/ EdgeScore(f.edge) = EdgeScore(g.edge) /\ EdgeStableSortKey(f, g)

\* The edges as a list, each behind those that come before it.
Sorted(found, Precedes(_, _)) ==
    [i \in 1..Cardinality(found) |-> CHOOSE f \in found : Cardinality({g \in found : Precedes(g, f)}) = i - 1]

RankEdges(found) == Sorted(found, Before)

LanguageOrder == <<"node", "python", "dotnet", "go">>

\* Round robin over the requested languages, everything else after them: an edge has
\* its turn in the round of its rank among the edges of its language.
DiversifyEdgesByRequestedLanguages(found, requested) ==
    LET Of(lang) == {f \in found : f.edge.lang = lang}
        Asked(f) == f.edge.lang \in requested
        Round(f) == Cardinality({g \in Of(f.edge.lang) : Before(g, f)})
        Turn(f) == CHOOSE n \in DOMAIN LanguageOrder : LanguageOrder[n] = f.edge.lang
        Sooner(f, g) ==
            \/ Asked(f) /\ ~Asked(g)
            \/ Asked(f) /\ Asked(g) /\ (Round(f) < Round(g) \/ (Round(f) = Round(g) /\ Turn(f) < Turn(g)))
            \/ ~Asked(f) /\ ~Asked(g) /\ Before(f, g)
    IN IF Cardinality({l \in requested : Of(l) # {}}) <= 1 THEN RankEdges(found) ELSE Sorted(found, Sooner)

-----------------------------------------------------------------------------
(* The call. *)

NoInspection == [pc |-> "idle"]

Cut(ordered, limit) == SubSeq(ordered, 1, IF Len(ordered) < limit THEN Len(ordered) ELSE limit)

\* The answer: filter, rank, interleave, cut, and an error when nothing is
\* left and the caller asked for a strict answer.
Answered(call) ==
    LET kept == ApplyHubAwareFilter(call.found)
        ordered == DiversifyEdgesByRequestedLanguages(kept, call.req.languages)
        answer == Cut(ordered, call.req.limit)
    IN [call EXCEPT !.pc = "done", !.kept = kept, !.answer = answer,
                    !.outcome = IF answer = <<>> /\ call.req.strict THEN "error" ELSE "ok"]

GivesUp(call) == [call EXCEPT !.pc = "done", !.outcome = IF call.req.strict THEN "error" ELSE "ok"]

\* As many edges as the caller wants are found.
Full(call) == Cardinality(call.found) >= call.req.limit

\* The workspaces that have seeds are walked in sorted order.
SortedSeedWorkspaceIDs(groups) == {w \in DOMAIN groups : groups[w] # {}}

NextWorkspace(call) ==
    IF call.queue = {} \/ Full(call) THEN Answered(call)
    ELSE LET ws == Min(call.queue) IN
         [call EXCEPT !.pc = "step", !.ws = ws, !.queue = @ \ {ws}, !.depth = 1,
                      !.current = call.groups[ws], !.visited = call.groups[ws]]

StartTraversal(call) ==
    LET queue == SortedSeedWorkspaceIDs(call.groups)
    IN IF queue = {} THEN GivesUp(call) ELSE NextWorkspace([call EXCEPT !.queue = queue])

\* The plan, with a depth the caller may set; the limit is 25 when it is not
\* given and never more than 100.
NewCall(req, graph) ==
    LET plan == BuildQueryPlan(req.words) IN
    [pc |-> "lookup", graph |-> graph,
     req |-> [req EXCEPT !.limit = IF req.limit <= 0 THEN 25 ELSE IF req.limit > 100 THEN 100 ELSE req.limit],
     plan |-> IF req.depth > 0 THEN [plan EXCEPT !.maxDepth = Clamp(req.depth, 1, 6)] ELSE plan,
     lookups |-> req.workspaces, groups |-> req.seeds, queue |-> {}, ws |-> 0,
     current |-> {}, visited |-> {}, depth |-> 0, found |-> {}, kept |-> {}, answer |-> <<>>,
     failed |-> FALSE, cut |-> FALSE, outcome |-> "none"]

BeginInspect(req, graph) ==
    LET call == NewCall(req, graph)
    IN /\ inspection.pc = "idle"
       /\ inspection' = IF \E w \in DOMAIN req.seeds : req.seeds[w] # {} THEN StartTraversal(call)
                        ELSE IF req.matching = {} \/ req.workspaces = {} THEN GivesUp(call)
                        ELSE call
       /\ UNCHANGED inspectFaults

\* The call after a lookup that got these of the rows.
LookedUp(call, ws, rows, got) ==
    [call EXCEPT !.lookups = @ \ {ws}, !.cut = @ \/ got # rows,
                 !.groups = [w \in DOMAIN @ \union {ws} |-> IF w = ws THEN got ELSE @[w]]]

LookOn(call) == IF call.lookups = {} THEN StartTraversal(call) ELSE call

\* A call that brought no seeds looks them up, one statement per workspace.
SeedLookup(ws) ==
    LET call == inspection
        rows == RenderSeedLookupStatement(call.req, ws, SeedKindsForPlan(call.plan))
    IN /\ call.pc = "lookup" /\ ws \in call.lookups
       /\ \E got \in LimitTo(rows, TraversalBudget(call.req).seedRows) :
             inspection' = LookOn(LookedUp(call, ws, rows, got))
       /\ UNCHANGED inspectFaults

SeedLookupFails(ws) ==
    LET call == inspection
        missed == [call EXCEPT !.lookups = @ \ {ws}, !.failed = TRUE]
    IN /\ call.pc = "lookup" /\ ws \in call.lookups /\ inspectFaults > 0
       /\ inspection' = IF call.req.strict THEN GivesUp(missed) ELSE LookOn(missed)
       /\ inspectFaults' = inspectFaults - 1

NextFrontier_Targets(call, accepted) == {e.dst : e \in accepted} \ call.visited

\* What the step leads to: the ends it had not visited.
NextFrontier(call, accepted) == (UNION {{e.src, e.dst} : e \in accepted}) \ call.visited

\* The call after a step that was sent these vertices and got these of the rows.
Walked(call, vids, rows, got) ==
    LET accepted == {e \in got : Admits(call.req, e)}
        new == NextFrontier(call, accepted)
    IN [call EXCEPT !.found = @ \union {[edge |-> e, depth |-> call.depth] : e \in accepted},
                    !.visited = @ \union new, !.current = new, !.depth = @ + 1,
                    !.cut = @ \/ vids # call.current \/ got # rows]

\* The workspace is walked further, or it is done with.
StepOn(call) ==
    IF call.current = {} \/ call.depth > call.plan.maxDepth \/ Full(call) THEN NextWorkspace(call) ELSE call

\* One statement: a step over the edges of the frontier.  Only the first
\* seedVids vertices of the frontier are sent.
TraversalStep ==
    LET call == inspection
        budget == TraversalBudget(call.req)
    IN /\ call.pc = "step"
       /\ \E vids \in LimitTo(call.current, budget.seedVids) :
          LET rows == RenderTraversalStepStatement(call.graph, call.req, call.plan, call.ws, vids)
          IN \E got \in LimitTo(rows, budget.rows) : inspection' = StepOn(Walked(call, vids, rows, got))
       /\ UNCHANGED inspectFaults

\* A failed step ends the traversal of its workspace; a strict caller gets
\* the error.
StepFails(call) ==
    IF call.req.strict THEN GivesUp([call EXCEPT !.failed = TRUE])
    ELSE NextWorkspace([call EXCEPT !.failed = TRUE])

TraversalStepFails ==
    /\ inspection.pc = "step" /\ inspectFaults > 0
    /\ inspection' = StepFails(inspection)
    /\ inspectFaults' = inspectFaults - 1

\* The caller reads the result and is free to ask again.
InspectReturns ==
    /\ inspection.pc = "done"
    /\ inspection' = NoInspection
    /\ UNCHANGED inspectFaults

InspectInit == inspection = NoInspection /\ inspectFaults = MaxInspectFaults

InspectNext ==
    \/ \E req \in InspectRequests, graph \in NativeGraphs : BeginInspect(req, graph)
    \/ \E ws \in UNION {r.workspaces : r \in InspectRequests} : SeedLookup(ws) \/ SeedLookupFails(ws)
    \/ TraversalStep
    \/ TraversalStepFails
    \/ InspectReturns

InspectSpec == InspectInit /\ [][InspectNext]_inspectVars

-----------------------------------------------------------------------------
(* Properties. *)

Done == inspection.pc = "done"

\* The edges the call may walk: what the statement selects and the code keeps.
Walkable(call, ws) ==
    {e \in RenderTraversalStepStatement(call.graph, call.req, call.plan, ws, DOMAIN VertexOf) : Admits(call.req, e)}

\* The vertices at most k steps from the seeds of a workspace.
Ball(call, ws) ==
    LET near[k \in 0..6] ==
            IF k = 0 THEN call.groups[ws]
            ELSE near[k-1] \union UNION {{e.src, e.dst} :
                    e \in {f \in Walkable(call, ws) :
                             RenderDirectionClause(call.plan.direction, f) \cap near[k-1] # {}}}
    IN near

\* A call is in one of its stages, its answer holds at most `limit` edges it
\* found, and no edge is deeper than the plan allows (Inspect).
InspectTypeOK ==
    /\ inspectFaults \in 0..MaxInspectFaults
    /\ inspection.pc \in {"idle", "lookup", "step", "done"}
    /\ inspection.pc # "idle" =>
          /\ Len(inspection.answer) <= inspection.req.limit
          /\ Range(inspection.answer) \subseteq inspection.kept
          /\ inspection.kept \subseteq inspection.found
          /\ \A f \in inspection.found : f.depth \in 1..inspection.plan.maxDepth

\* The walk is breadth-first search.  The depth reported for an edge is the distance
\* of its near end from the seeds, plus one: no vertex is walked from twice (visited).
\* A call that met no failure and no budget finds every edge within its depth: the
\* frontier loses nothing (the loop over depth in Inspect).
WalkIsExact ==
    Done /\ ~inspection.cut =>
        /\ \A f \in inspection.found :
              LET near == Ball(inspection, f.edge.ws) IN
              \E v \in RenderDirectionClause(inspection.plan.direction, f.edge) :
                  v \in near[f.depth - 1] /\ (f.depth > 1 => v \notin near[f.depth - 2])
        /\ ~inspection.failed /\ inspection.outcome = "ok" /\ ~Full(inspection) =>
           \A ws \in DOMAIN inspection.groups : \A e \in Walkable(inspection, ws) :
              RenderDirectionClause(inspection.plan.direction, e)
                  \cap Ball(inspection, ws)[inspection.plan.maxDepth - 1] # {}
              => \E f \in inspection.found : f.edge = e
=============================================================================
