---------------------------- MODULE MCIndexSubjobs ----------------------------
(* A small plan for the open store specification of IndexSubjobs.           *)
EXTENDS IndexSubjobs

\* Two revisions: main with an indexed and a skipped SCIP project and a merge,
\* dev with an AST row that is activated directly, which indexplanwriter allows.
TwoLayers == [scip1 |-> "SCIP", merge1 |-> "GRAPH_MERGE", act1 |-> "ACTIVATE",
              skip1 |-> "SCIP", ast2 |-> "AST_TREE_SITTER", act2 |-> "ACTIVATE"]
TwoSubjobs == DOMAIN TwoLayers
TwoBranch == [scip1 |-> "main", merge1 |-> "main", act1 |-> "main",
              skip1 |-> "main", ast2 |-> "dev", act2 |-> "dev"]
TwoPos == [scip1 |-> 1, merge1 |-> 2, act1 |-> 3, ast2 |-> 4, act2 |-> 5, skip1 |-> 6]
==============================================================================
