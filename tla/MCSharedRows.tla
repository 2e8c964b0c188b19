---------------------------- MODULE MCSharedRows ----------------------------
(***************************************************************************)
(* Small instances of the parts in which several writers share a row: the  *)
(* graph snapshot, the code intelligence index and the rows the status of  *)
(* a repository is read from.  A behaviour follows the part in focus and   *)
(* leaves the others in their initial states.                              *)
(***************************************************************************)
EXTENDS GraphWrites, ScipIngest, IndexStatus

VARIABLE focus   \* the part this behaviour is about

sharedVars == <<graphVars, scipVars, statusVars, focus>>

SharedInit ==
    /\ focus \in {"writes", "scip", "status"}
    /\ GraphInit /\ ScipInit /\ StatusInit
    /\ focus # "writes" => stores = CHOOSE d \in Deployments : TRUE

\* What is left alone when the part in focus moves.
Apart(part) ==
    /\ focus = part
    /\ part # "writes" => UNCHANGED graphVars
    /\ part # "scip" => UNCHANGED scipVars
    /\ part # "status" => UNCHANGED statusVars
    /\ UNCHANGED focus

SharedNext ==
    \/ Apart("writes") /\ GraphNext
    \/ Apart("scip") /\ ScipNext
    \/ Apart("status") /\ StatusNext

SharedSpec == SharedInit /\ [][SharedNext]_sharedVars

\* The types of all parts.
SharedTypeOK == GraphTypeOK /\ ScipTypeOK /\ StatusTypeOK

-----------------------------------------------------------------------------
\* GraphWrites: a pending AST payload, a queued one and a malformed one, for one
\* of two commits; the SCIP rows of the same commit meet the AST symbols.
Symbol(c, k) == [commit |-> c, kind |-> "symbol", key |-> k]
VertexStatement(c, keys, scope) ==
    [form |-> "VERTEX", single |-> TRUE,
     rows |-> {[vid |-> Symbol(c, k), kind |-> "symbol", scope |-> scope] : k \in keys}]
EdgeStatement(c, a, b) ==
    [form |-> "EDGE", single |-> TRUE,
     rows |-> {[from |-> Symbol(c, a), to |-> Symbol(c, b), kind |-> "CALLS",
                rank |-> <<Symbol(c, a), Symbol(c, b), "CALLS">>, scope |-> c]}]
SmallPayload(mode, statements) ==
    [commit |-> 1, mode |-> mode, wellFormed |-> TRUE, schema |-> TRUE,
     statements |-> statements, anchors |-> {[wellFormed |-> TRUE, inRepo |-> TRUE]}]
SmallPayloads ==
    [ast1 |-> SmallPayload("pending", <<VertexStatement(1, {"a", "b"}, 1), EdgeStatement(1, "a", "b")>>),
     queued |-> SmallPayload("queue", <<VertexStatement(1, {"a"}, 1)>>),
     stray |-> SmallPayload("queue", <<VertexStatement(2, {"a"}, 1)>>)]
Occurrence(role, call, symbol, enclosing) ==
    [role |-> role, importLine |-> FALSE, call |-> call, file |-> "f", symbol |-> symbol,
     enclosing |-> enclosing]
SmallScipRows ==
    << [symbols |-> {"a"},
        relationships |-> {[source |-> "a", target |-> "c", flags |-> {"REFERENCES"}]},
        occurrences |-> {Occurrence("REFERENCE", TRUE, "b", {"a"}),
                         Occurrence("IMPORT", FALSE, "d", {})}],
       [symbols |-> {"a"}, relationships |-> {}, occurrences |-> {}] >>
TwoDeployments == {{"nebula", "unavailable"}, {"unconfigured"}}

\* ScipIngest: a Go project whose definitions lie in and around each other, and
\* two Python projects that share a symbol with it.
Occ(symbol, roles, range, enclosing) ==
    [symbol |-> symbol, roles |-> roles, range |-> range, enclosing |-> enclosing]
Info(symbol, targets) ==
    [symbol |-> symbol, relationships |-> {[symbol |-> t, flags |-> {"isImplementation"}] : t \in targets}]
Document(path, safe, symbols, occurrences) ==
    [path |-> path, safe |-> safe, symbols |-> symbols, occurrences |-> occurrences]
Artifact(documents, externals) ==
    [inScope |-> TRUE, intact |-> TRUE, documents |-> documents, externals |-> externals]
Enclosings == {<<0, 0, 9, 9>>, <<0, 0, 20, 9>>, <<1, 0, 5, 3>>, <<1, 2, 5, 1>>, <<3, 0, 4>>, <<>>}
GoArtifacts ==
    {Artifact(<<Document("a.go", TRUE, {Info("f", {"g"}), Info("g", {"x"})},
                   <<Occ("f", {"DEFINITION"}, <<0, 1, 2>>, e), Occ("g", {"DEFINITION"}, <<1, 1, 2>>, h),
                     Occ("k", {"READ"}, <<3, 1, 2>>, <<>>), Occ("f", {}, <<3, 3, 4>>, <<>>)>>)>>,
              <<Info("x", {})>>) : e \in Enclosings, h \in Enclosings}
PythonArtifacts ==
    {Artifact(<<Document("b.py", TRUE, {Info("x", {})},
                   <<Occ("x", {"DEFINITION"}, <<0, 1, 2>>, <<0, 0, 3, 1>>),
                     Occ("f", {"IMPORT"}, <<1, 0, 1>>, <<>>)>>),
                Document("../c", FALSE, {Info("z", {})}, <<>>)>>, <<Info("f", {})>>),
     Artifact(<<Document("c", FALSE, {Info("z", {})}, <<>>)>>, <<>>)}
OtherArtifacts ==
    {Artifact(<<>>, <<Info("x", {})>>), [Artifact(<<>>, <<Info("y", {})>>) EXCEPT !.inScope = FALSE]}
SmallArtifacts == [p1 |-> GoArtifacts, p2 |-> PythonArtifacts, p3 |-> OtherArtifacts]
TwoPlans == << {"p1", "p2"}, {"p2", "p3"} >>
SmallLanguages == [p1 |-> "go", p2 |-> "py", p3 |-> "py"]

\* IndexStatus: a branch and a tag, and a policy that selects both or the default.
BranchAndTag == {[kind |-> "heads", name |-> "main"], [kind |-> "tags", name |-> "v1"]}
DefaultPolicy == [branches |-> {}, tags |-> {}]
WidePolicy == [branches |-> {"*"}, tags |-> {"v1"}]
TwoPolicies == {DefaultPolicy, WidePolicy}
=============================================================================
