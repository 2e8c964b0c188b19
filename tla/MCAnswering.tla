---------------------------- MODULE MCAnswering -----------------------------
(***************************************************************************)
(* Small instances of the parts that answer a question about the code: the *)
(* graph tools, the traversal under them, the LLM gateway and the chat.  A *)
(* behaviour follows the part in focus and leaves the others in their      *)
(* initial states.                                                         *)
(***************************************************************************)
EXTENDS GraphReads, GraphInspect, LLMGateway, ChatTurns, TLC

CONSTANT OtherClient   \* the client whose question is another one

VARIABLE focus   \* the part this behaviour is about

answeringVars == <<readVars, inspectVars, llmVars, chatVars, focus>>

AnsweringInit ==
    /\ focus \in {"reads", "inspect", "llm", "chat"}
    /\ ReadsInit /\ InspectInit /\ LLMInit /\ ChatInit

\* What is left alone when the part in focus moves.
Apart(part) ==
    /\ focus = part
    /\ part # "reads" => UNCHANGED readVars
    /\ part # "inspect" => UNCHANGED inspectVars
    /\ part # "llm" => UNCHANGED llmVars
    /\ part # "chat" => UNCHANGED chatVars
    /\ UNCHANGED focus

AnsweringNext ==
    \/ Apart("reads") /\ ReadsNext
    \/ Apart("inspect") /\ InspectNext
    \/ Apart("llm") /\ LLMNext
    \/ Apart("chat") /\ ChatNext

AnsweringSpec == AnsweringInit /\ [][AnsweringNext]_answeringVars

\* The types of all parts.
AnsweringTypeOK == ReadsTypeOK /\ InspectTypeOK /\ LLMTypeOK /\ ChatTypeOK

-----------------------------------------------------------------------------
\* GraphReads: one call of the context tool, one of any tool.
SmallTools == ("c1" :> {"context"} @@ "c2" :> GraphTools)

\* GraphInspect: a fan with a hub, a cycle, and a graph across repositories with
\* a local, an external and a foreign vertex.
Vertex(repo, kind, local, external) ==
    [org |-> 1, ws |-> 1, repo |-> repo, commit |-> 1, kind |-> kind, local |-> local,
     external |-> external]
SmallVertices ==
    << Vertex("r1", "function", FALSE, FALSE), Vertex("r1", "symbol", FALSE, FALSE),
       Vertex("r1", "file", FALSE, FALSE), Vertex("r1", "route", FALSE, FALSE),
       Vertex("r1", "function", FALSE, FALSE), Vertex("r2", "package", FALSE, FALSE),
       Vertex("r1", "symbol", TRUE, FALSE), Vertex("r1", "package", FALSE, TRUE) >>
Edge(s, d, kind, context, lang) ==
    [src |-> s, dst |-> d, kind |-> kind, context |-> context, lang |-> lang, ws |-> 1,
     repo |-> "r1", commit |-> 1]
Fan == {Edge(2, 1, "CALLS", "call", "node"), Edge(3, 1, "CALLS", "call", "python"),
        Edge(4, 1, "CALLS", "call", "none"), Edge(5, 2, "CALLS", "call", "none"),
        Edge(5, 3, "CALLS", "call", "none"), Edge(5, 4, "CALLS", "call", "node")}
Cycle == {Edge(1, 2, "CALLS", "call", "none"), Edge(2, 3, "DEPENDS_ON", "import", "go"),
          Edge(3, 4, "CALLS", "call", "node"), Edge(4, 5, "IMPORTS", "import", "none"),
          Edge(5, 1, "CALLS", "call", "none")}
Mixed == {Edge(1, 6, "CALLS", "call", "none"), Edge(1, 7, "REFERENCES", "reference", "none"),
          Edge(1, 8, "REFERENCES", "reference", "none"), Edge(8, 1, "CALLS", "call", "go"),
          Edge(2, 1, "CALLS", "call", "node"), Edge(3, 2, "REFERENCES", "reference", "python"),
          Edge(6, 2, "IMPORTS", "none", "none"),
          [Edge(4, 1, "CALLS", "call", "none") EXCEPT !.commit = 2]}
SmallGraphs == {Fan, Cycle, Mixed}
QueryWords == {{}, {"import"}, {"caller", "references"}, {"callee", "calls", "dependsOn"},
               {"impact", "risk"}, {"path", "chain"}, {"flow"}}
SmallRequests ==
    [words : QueryWords, org : {1}, workspaces : {{1}}, seeds : {<<{1}>>, <<{2, 3}>>, <<{}>>},
     matching : {{1, 6}}, scopes : {{}, {[repo |-> "r1", ws |-> 1, commit |-> 1]}},
     strict : BOOLEAN, depth : {0}, limit : {3, 25}, seedRows : {0}, seedVids : {0, 1},
     rows : {0}, languages : {{"node", "python"}}]

\* LLMGateway: two clients ask the same question, a third another under the same id.
TwoAskTheSame == [c \in Clients |-> IF c = OtherClient THEN "q" ELSE "p"]
GatewaySymmetry == Permutations(LlmWorkers) \cup Permutations(Clients \ {OtherClient})
=============================================================================
