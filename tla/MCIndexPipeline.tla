---------------------------- MODULE MCIndexPipeline ----------------------------
(* Small jobs for IndexPipeline: a plan is the layer function of its rows. *)
EXTENDS IndexPipeline, TLC

\* The plan of a revision that was never indexed and has no SCIP project.
CoreLayers == [zoekt |-> "ZOEKT", ast |-> "AST_TREE_SITTER",
               merge |-> "GRAPH_MERGE", act |-> "ACTIVATE"]
CoreRows == DOMAIN CoreLayers
CoreBranch == [s \in CoreRows |-> "main"]
CorePos == [zoekt |-> 1, ast |-> 2, merge |-> 3, act |-> 4]

\* The same with a SCIP project that can be indexed and one that cannot.
ScipLayers == [zoekt |-> "ZOEKT", ast |-> "AST_TREE_SITTER", scip |-> "SCIP",
               merge |-> "GRAPH_MERGE", act |-> "ACTIVATE", skip |-> "SCIP"]
ScipRows == DOMAIN ScipLayers
ScipBranch == [s \in ScipRows |-> "main"]
ScipPos == [zoekt |-> 1, ast |-> 2, scip |-> 3, merge |-> 4, act |-> 5, skip |-> 6]

\* Two such revisions.
TwoLayers == [zoekt1 |-> "ZOEKT", ast1 |-> "AST_TREE_SITTER",
              merge1 |-> "GRAPH_MERGE", act1 |-> "ACTIVATE",
              zoekt2 |-> "ZOEKT", ast2 |-> "AST_TREE_SITTER",
              merge2 |-> "GRAPH_MERGE", act2 |-> "ACTIVATE"]
TwoRows == DOMAIN TwoLayers
TwoBranch == [zoekt1 |-> "main", ast1 |-> "main", merge1 |-> "main", act1 |-> "main",
              zoekt2 |-> "dev", ast2 |-> "dev", merge2 |-> "dev", act2 |-> "dev"]
TwoPos == [zoekt1 |-> 1, ast1 |-> 2, merge1 |-> 3, act1 |-> 4,
           zoekt2 |-> 5, ast2 |-> 6, merge2 |-> 7, act2 |-> 8]

OneCommit == [b \in {"main"} |-> "c1"]
SameCommit == [b \in {"main", "dev"} |-> "c1"]
OwnCommits == [main |-> "c1", dev |-> "c2"]

\* Every worker slot in a process of its own; slots are interchangeable,
\* and so are the processes that run the dispatch loop.
OwnHosts == [w \in Workers |-> w]
WorkerSymmetry == Permutations(Workers)
ProcessSymmetry == Permutations(Workers) \cup Permutations(Dispatchers)
==============================================================================
