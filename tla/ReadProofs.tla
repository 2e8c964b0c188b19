------------------------------ MODULE ReadProofs ------------------------------
(***************************************************************************)
(* Proofs about what clients read of the index.                            *)
(*                                                                         *)
(* The graph tools of GraphReads, for every number of calls, snapshots and *)
(* faults: an answer is never older than the call, a compact answer is of  *)
(* one snapshot, and a call that meets no trouble succeeds.  The keys of   *)
(* the three caches carry the argument, so the invariant says what an      *)
(* entry under a key may hold and what a call with that key may have read. *)
(*                                                                         *)
(* The status of a repository of IndexStatus, for any revisions, policies, *)
(* jobs and PUT calls.                                                     *)
(***************************************************************************)
EXTENDS GraphReads, IndexStatus, TLAPS

ReadPcs == {"scopes", "preflight", "contextPreflight", "occurrencesOf", "get", "contextGet",
            "readerGet", "traverse", "readerPut", "put", "join", "done"} \cup Evidence
Rows == [layer : {"scip", "graph"}, snap : Snaps]
Calls(pcs) ==
        [pc : pcs, tool : GraphTools, direct : BOOLEAN, key : Nat, contextKey : Nat,
         scopes : SUBSET Snaps, layers : SUBSET Rows, native : SUBSET Snaps,
         degraded : BOOLEAN, outcome : {"none", "ok", "error"}, began : Nat,
         troubled : BOOLEAN]
Call == Calls(ReadPcs)
Kept == [hit : {TRUE}, layers : SUBSET Rows, native : SUBSET Snaps, degraded : BOOLEAN,
         outcome : {"none", "ok", "error"}]
Index == [top : Snaps, active : Nat, rows : SUBSET Snaps, native : SUBSET Snaps,
          listed : BOOLEAN, removing : BOOLEAN]
\* The steps of a compact inspection that come before its rows are read, and
\* those from which on it has them.
BeforeRows == {"preflight", "contextPreflight", "get", "contextGet", "scopes", "edges",
               "seedEdges"}
NoKeyYet == {"contextPreflight", "contextGet", "preflight"}
NoScopeYet == NoKeyYet \cup {"get", "scopes", "occurrencesOf"}
WithScope == {"edges", "seedEdges", "readerGet", "traverse", "readerPut", "put"}
WithRows == {"readerGet", "traverse", "readerPut", "put"}

\* The newest snapshot is the active one or none is; an active one has its rows,
\* and it is listed unless a removal has begun.
IndexFits(i) ==
    /\ i \in Index
    /\ i.active = 0 \/ i.active = i.top
    /\ i.active # 0 => i.active \in i.rows
    /\ i.active # 0 /\ ~i.removing => i.listed

\* What x holds of the graph is of snapshots between lo and hi.
Between(x, lo, hi) ==
    /\ \A l \in x.layers : l.layer = "graph" => lo <= l.snap /\ l.snap <= hi
    /\ \A s \in x.native : lo <= s /\ s <= hi
\* It is of one snapshot, and of the graph alone.
OneSnapshot(x) ==
    /\ \A l \in x.layers : l.layer = "graph"
    /\ \A l, m \in x.layers : l.snap = m.snap
    /\ \A s, t \in x.native : s = t
    /\ \A l \in x.layers, s \in x.native : l.snap = s

\* Which tools reach which steps.
ToolFits(r) ==
    /\ r.pc \in {"preflight", "get", "seedEdges"} => Compact(r)
    /\ r.pc \in {"contextPreflight", "contextGet", "join"} => r.tool = "context"
    /\ r.pc \in Evidence \ {"edges", "seedEdges"} => ~Compact(r)
    /\ r.pc = "occurrencesOf" => ~Compact(r)

\* What a call has read came after the scopes its keys name, and these came
\* after it began.
KeysFit(r, i) ==
    /\ r.began <= i.top
    /\ r.pc \in NoKeyYet => r.key = 0
    /\ r.contextKey # 0 => r.began <= r.contextKey /\ r.contextKey <= i.top
    /\ r.key # 0 => r.began <= r.key /\ r.key <= i.top /\ r.contextKey <= r.key
    /\ \A n \in {r.began, r.key, r.contextKey} :
          Between(r, n, i.top) /\ \A s \in r.scopes : n <= s /\ s <= i.top

\* A native traversal stays in the scopes and starts from the rows.
NativeFits(r) ==
    /\ \A s, t \in r.scopes : s = t
    /\ r.pc \in NoScopeYet => r.scopes = {}
    /\ r.pc = "readerPut" =>
          /\ r.native \subseteq r.scopes
          /\ GraphSeedsFromEvidence(r) # {} => r.native \subseteq GraphSeedsFromEvidence(r)

CompactFits(r) ==
    Compact(r) => /\ OneSnapshot(r)
                  /\ r.pc \in BeforeRows => r.layers = {}
                  /\ r.pc \in BeforeRows \cup {"readerGet", "traverse"} => r.native = {}

\* As long as the scope of its key is active, a compact call finds rows.
ServedFits(r, i) ==
    Compact(r) /\ r.key # 0 /\ r.key = i.active =>
        /\ r.pc \in WithScope => r.scopes = {r.key}
        /\ r.pc \in WithRows => r.layers # {}

\* A compact call without trouble finds the index as it was when it began.
HealthyFits(r, i) ==
    Compact(r) /\ ~r.troubled /\ r.began # 0 =>
        /\ r.pc # "done" => i.active = r.began /\ ~i.removing
        /\ r.pc \in WithScope \cup {"get", "scopes"} => r.key = r.began
        /\ r.pc = "join" => r.outcome = "ok" /\ r.layers # {}
        /\ r.pc = "done" => r.outcome = "ok"

CallFits(r, i) ==
    /\ r \in Call
    /\ ToolFits(r) /\ KeysFit(r, i) /\ NativeFits(r) /\ CompactFits(r)
    /\ ServedFits(r, i) /\ HealthyFits(r, i)

\* What may be kept under the scope of snapshot s.
EntryFits(e, s, i) ==
    /\ e = Miss \/ e \in Kept
    /\ e.hit => s <= i.top /\ Between(e, s, i.top) /\ OneSnapshot(e)
InspectFits(e, s, i) == EntryFits(e, s, i) /\ (e.hit /\ s = i.active => e.layers # {})
ContextFits(e, s, i) == EntryFits(e, s, i) /\ (e.hit => e.outcome = "ok")
TraversalFits(native, k) == native \subseteq k[1] /\ (k[2] # {} => native \subseteq k[2])

CachesFit ==
    /\ inspectCache \in [Snaps -> Kept \cup {Miss}]
    /\ \A s \in Snaps : InspectFits(inspectCache[s], s, index)
    /\ contextCache \in [Snaps -> Kept \cup {Miss}]
    /\ \A s \in Snaps : ContextFits(contextCache[s], s, index)
    /\ readerCache \in [(SUBSET Snaps) \X (SUBSET Snaps) -> SUBSET Snaps]
    /\ \A k \in (SUBSET Snaps) \X (SUBSET Snaps) : TraversalFits(readerCache[k], k)

ReadsInv ==
    /\ IndexFits(index)
    /\ CachesFit
    /\ reading \in [GraphCalls -> Call \cup {Idling}]
    /\ \A c \in GraphCalls : ~At(c, "idle") => CallFits(reading[c], index)
    /\ readFaults \in 0..MaxReadFaults

-----------------------------------------------------------------------------
(***************************************************************************)
(* A call that moves.                                                      *)
(***************************************************************************)

\* The snapshots are positive numbers.
LEMMA SnapNumbers == Snaps \subseteq Nat /\ 0 \notin Snaps /\ MaxSnap \in Nat
  BY ReadConstants DEF Snaps

\* What a call holds carries over to one with the same data, wherever it stands.
LEMMA SameData ==
    ASSUME NEW i, NEW a \in Call, NEW b \in Call, CallFits(a, i),
           b.tool = a.tool, b.key = a.key, b.contextKey = a.contextKey, b.scopes = a.scopes,
           b.layers = a.layers, b.native = a.native, b.began = a.began,
           b.pc \in NoKeyYet => a.pc \in NoKeyYet
    PROVE  /\ KeysFit(b, i)
           /\ \A s, t \in b.scopes : s = t
           /\ GraphSeedsFromEvidence(b) = GraphSeedsFromEvidence(a)
           /\ Compact(b) <=> Compact(a)
           /\ Compact(b) => OneSnapshot(b)
<1>1. KeysFit(b, i)
  BY Zenon DEF CallFits, KeysFit, Between
<1>2. \A s, t \in b.scopes : s = t
  BY Zenon DEF CallFits, NativeFits
<1>3. GraphSeedsFromEvidence(b) = GraphSeedsFromEvidence(a)
  BY Zenon DEF GraphSeedsFromEvidence
<1>4. Compact(b) <=> Compact(a)
  BY Zenon DEF Compact
<1>5. OneSnapshot(a) => OneSnapshot(b)
  BY Zenon DEF OneSnapshot
<1> QED BY <1>1, <1>2, <1>3, <1>4, <1>5, Zenon DEF CallFits, CompactFits

\* A finished call keeps its answer only.
LEMMA FinishedFits ==
    ASSUME NEW i, NEW a \in Call, CallFits(a, i), a.pc = "done"
    PROVE  Finished(a) \in Call /\ CallFits(Finished(a), i)
<1>1. \E z \in Nat : z = 0
  OBVIOUS
<1>2. Finished(a) \in Call
  BY <1>1, Zenon DEF Finished, Call, Calls
<1>3. PICK b \in Call : b = Finished(a)
  BY <1>2, Zenon
<1>4. /\ b.pc = "done" /\ b.tool = a.tool /\ b.key = 0 /\ b.contextKey = 0 /\ b.scopes = {}
      /\ b.layers = a.layers /\ b.native = a.native /\ b.began = a.began
      /\ b.outcome = a.outcome /\ b.troubled = a.troubled
  BY <1>3, Zenon DEF Finished, Call, Calls
<1>5. KeysFit(b, i)
  <2>1. (\A l \in b.layers : l.snap \in Nat) /\ (\A s \in b.native : s \in Nat)
    BY SnapNumbers, Zenon DEF Call, Calls, Rows
  <2>2. Between(b, a.began, i.top) /\ b.began <= i.top
    BY <1>4, Zenon DEF CallFits, KeysFit, Between
  <2>3. Between(b, 0, i.top)
    BY <2>1, <2>2 DEF Between
  <2> QED BY <1>4, <2>2, <2>3, Zenon DEF KeysFit, NoKeyYet
<1>6. ToolFits(b) /\ NativeFits(b)
  BY <1>4, Zenon DEF ToolFits, NativeFits, Evidence, NoScopeYet, NoKeyYet
<1>7. CompactFits(b)
  <2>1. Compact(b) <=> Compact(a)
    BY <1>4, Zenon DEF Compact
  <2>2. OneSnapshot(a) => OneSnapshot(b)
    BY <1>4, Zenon DEF OneSnapshot
  <2> QED BY <1>4, <2>1, <2>2, Zenon DEF CallFits, CompactFits, BeforeRows
<1>8. ServedFits(b, i)
  BY <1>4, Zenon DEF ServedFits
<1>9. HealthyFits(b, i)
  BY <1>4, Zenon DEF CallFits, HealthyFits, Compact, WithScope
<1> QED BY <1>2, <1>3, <1>5, <1>6, <1>7, <1>8, <1>9, Zenon DEF CallFits

\* A step of one call, which leaves the index alone.
LEMMA CallMoves ==
    ASSUME ReadsInv, NEW c \in GraphCalls, NEW r \in Call, CallFits(r, index), Moves(c, r),
           UNCHANGED index, CachesFit', readFaults' \in 0..MaxReadFaults
    PROVE  ReadsInv'
<1>1. PICK x \in Call : CallFits(x, index) /\ reading' = [reading EXCEPT ![c] = x]
  BY FinishedFits, Zenon DEF Moves
<1>2. x.pc # "idle"
  BY Zenon DEF Call, Calls, ReadPcs, Evidence
<1>3. reading' \in [GraphCalls -> Call \cup {Idling}]
  BY <1>1, Zenon DEF ReadsInv
<1>4. ASSUME NEW d \in GraphCalls, ~At(d, "idle")' PROVE CallFits(reading'[d], index')
  BY <1>1, <1>4, Zenon DEF ReadsInv, At
<1> QED BY <1>3, <1>4, Zenon DEF ReadsInv

\* A call that only goes on, without reading anything.
LEMMA CallAdvances ==
    ASSUME NEW i, NEW a \in Call, NEW b \in Call, CallFits(a, i),
           b.tool = a.tool, b.key = a.key, b.contextKey = a.contextKey, b.scopes = a.scopes,
           b.layers = a.layers, b.native = a.native, b.began = a.began,
           b.pc # "readerPut",
           b.pc \in NoKeyYet => a.pc \in NoKeyYet,
           b.pc \in NoScopeYet => a.pc \in NoScopeYet,
           b.pc \in BeforeRows => a.pc \in BeforeRows,
           b.pc \in {"readerGet", "traverse"} => a.pc \in {"readerGet", "traverse"},
           b.pc \in WithScope => a.pc \in WithScope,
           b.pc \in WithRows => a.pc \in WithRows,
           ToolFits(b), HealthyFits(b, i)
    PROVE  CallFits(b, i)
<1>1. /\ KeysFit(b, i) /\ (\A s, t \in b.scopes : s = t)
      /\ (Compact(b) <=> Compact(a)) /\ (Compact(b) => OneSnapshot(b))
  BY SameData, Zenon
<1>2. NativeFits(b)
  BY <1>1, Zenon DEF CallFits, NativeFits
<1>3. CompactFits(b)
  BY <1>1, Zenon DEF CallFits, CompactFits
<1>4. ServedFits(b, i)
  BY <1>1, Zenon DEF CallFits, ServedFits
<1> QED BY <1>1, <1>2, <1>3, <1>4, Zenon DEF CallFits

\* A call that ends in an error forgets what it read.
LEMMA FailsFits ==
    ASSUME NEW i, NEW a \in Call, CallFits(a, i), i.top \in Nat,
           Compact(a) /\ ~a.troubled => a.began = 0
    PROVE  Fails(a) \in Call /\ CallFits(Fails(a), i)
<1>1. Fails(a) \in Call
  BY Zenon DEF Fails, Call, Calls, ReadPcs
<1>2. PICK b \in Call : b = Fails(a)
  BY <1>1, Zenon
<1>3. /\ b.pc \in {"join", "done"} /\ (b.pc = "join" => b.tool = "context")
      /\ b.tool = a.tool /\ b.key = a.key /\ b.contextKey = a.contextKey /\ b.scopes = a.scopes
      /\ b.layers = {} /\ b.native = {} /\ b.began = a.began /\ b.troubled = a.troubled
  BY <1>2, ZenonT(60) DEF Fails, Call, Calls
<1>4. KeysFit(b, i)
  BY <1>3, Zenon DEF CallFits, KeysFit, Between, NoKeyYet
<1>5. ToolFits(b) /\ NativeFits(b)
  BY <1>3, Zenon DEF CallFits, ToolFits, NativeFits, Evidence, NoScopeYet, NoKeyYet
<1>6. CompactFits(b)
  BY <1>3, Zenon DEF CompactFits, OneSnapshot
<1>7. ServedFits(b, i)
  BY <1>3, Zenon DEF ServedFits, WithScope, WithRows
<1>8. HealthyFits(b, i)
  BY <1>3, Zenon DEF HealthyFits, Compact
<1> QED BY <1>1, <1>2, <1>4, <1>5, <1>6, <1>7, <1>8, Zenon DEF CallFits

\* A call that succeeds keeps what it read.
LEMMA SucceedsFits ==
    ASSUME NEW i, NEW a \in Call, CallFits(a, i),
           Compact(a) /\ ~a.troubled /\ a.began # 0 =>
              a.layers # {} /\ i.active = a.began /\ ~i.removing
    PROVE  Succeeds(a) \in Call /\ CallFits(Succeeds(a), i)
<1>1. Succeeds(a) \in Call
  BY Zenon DEF Succeeds, Call, Calls, ReadPcs
<1>2. PICK b \in Call : b = Succeeds(a)
  BY <1>1, Zenon
<1>3. /\ b.pc \in {"join", "done"} /\ (b.pc = "join" => b.tool = "context") /\ b.outcome = "ok"
      /\ b.tool = a.tool /\ b.key = a.key /\ b.contextKey = a.contextKey /\ b.scopes = a.scopes
      /\ b.layers = a.layers /\ b.native = a.native /\ b.began = a.began
      /\ b.troubled = a.troubled
  BY <1>2, Zenon DEF Succeeds, Call, Calls
<1>4. ToolFits(b)
  BY <1>3, Zenon DEF ToolFits, Evidence
<1>5. HealthyFits(b, i)
  BY <1>3, Zenon DEF HealthyFits, Compact, WithScope
<1>6. /\ b.pc \notin NoKeyYet /\ b.pc \notin NoScopeYet /\ b.pc \notin BeforeRows
      /\ b.pc \notin WithScope /\ b.pc \notin WithRows /\ b.pc \notin {"readerGet", "traverse"}
      /\ b.pc # "readerPut"
  BY <1>3, Zenon DEF NoKeyYet, NoScopeYet, BeforeRows, WithScope, WithRows
<1>7. CallFits(b, i)
  BY <1>3, <1>4, <1>5, <1>6, CallAdvances, Zenon
<1> QED BY <1>1, <1>2, <1>7, Zenon

-----------------------------------------------------------------------------
(***************************************************************************)
(* The steps of a call.                                                    *)
(***************************************************************************)

\* A call under way is a record that fits the index.
LEMMA Started ==
    ASSUME ReadsInv, NEW c \in GraphCalls, reading[c].pc # "idle"
    PROVE  reading[c] \in Call /\ CallFits(reading[c], index)
  BY Zenon DEF ReadsInv, At, CallFits

\* A step that only reads leaves the stores alone.
LEMMA OnlyReads ==
    ASSUME ReadsInv, ReadsOnly
    PROVE  CachesFit' /\ readFaults' \in 0..MaxReadFaults /\ UNCHANGED index
<1>1. UNCHANGED <<index, inspectCache, contextCache, readerCache, readFaults>>
  BY Zenon DEF ReadsOnly
<1>2. CachesFit'
  BY <1>1, Zenon DEF ReadsInv, CachesFit
<1> QED BY <1>1, <1>2, Zenon DEF ReadsInv

\* The scopes are those of the active snapshot, and so are the keys.
LEMMA ScopesAndKeys ==
    ASSUME ReadsInv
    PROVE  /\ ListActiveCodeGraphScopes = IF index.active = 0 THEN {} ELSE {index.active}
           /\ GraphInspectionCacheKey(ListActiveCodeGraphScopes) = index.active
           /\ CodegraphContextCacheKey(ListActiveCodeGraphScopes) = index.active
           /\ index.active \in Nat /\ index.top \in Nat /\ index.top \in Snaps
           /\ index.active <= index.top
<1>1. index \in Index /\ (index.active = 0 \/ index.active = index.top)
  BY Zenon DEF ReadsInv, IndexFits
<1>2. index.active \in Nat /\ index.top \in Snaps /\ index.top \in Nat
  BY <1>1, SnapNumbers, Zenon DEF Index
<1>3. ListActiveCodeGraphScopes = IF index.active = 0 THEN {} ELSE {index.active}
  BY <1>1, <1>2, SnapNumbers, Zenon DEF ListActiveCodeGraphScopes
<1>4. \A s : (CHOOSE t \in {s} : TRUE) = s
  OBVIOUS
<1>5. GraphInspectionCacheKey(ListActiveCodeGraphScopes) = index.active
  BY <1>3, <1>4, Zenon DEF GraphInspectionCacheKey
<1>6. CodegraphContextCacheKey(ListActiveCodeGraphScopes) = index.active
  BY <1>3, <1>4, Zenon DEF CodegraphContextCacheKey
<1> QED BY <1>1, <1>2, <1>3, <1>5, <1>6

\* A call begins with nothing in hand.
LEMMA CallBegins ==
    ASSUME ReadsInv, NEW c \in GraphCalls, BeginCall(c)
    PROVE  ReadsInv'
<1>1. PICK tool \in GraphTools :
         Moves(c, Dispatched([pc |-> "resolve", tool |-> tool, direct |-> c \in Direct, key |-> 0,
                  contextKey |-> 0, scopes |-> {}, layers |-> {}, native |-> {}, degraded |-> FALSE,
                  outcome |-> "none", began |-> index.active, troubled |-> index.removing]))
  BY ReadConstants, Zenon DEF BeginCall
<1>2. /\ index.active \in Nat /\ index.removing \in BOOLEAN /\ (c \in Direct) \in BOOLEAN
      /\ index.active # 0 /\ ~index.removing => ResolveReadableGitRef
  BY DEF ReadsInv, IndexFits, Index, ResolveReadableGitRef
<1>3. PICK new \in Calls({"resolve"}) :
         new = [pc |-> "resolve", tool |-> tool, direct |-> c \in Direct, key |-> 0,
                contextKey |-> 0, scopes |-> {}, layers |-> {}, native |-> {}, degraded |-> FALSE,
                outcome |-> "none", began |-> index.active, troubled |-> index.removing]
  BY <1>2, Zenon DEF Calls
<1>4. /\ new.pc = "resolve" /\ new.tool = tool /\ new.key = 0 /\ new.contextKey = 0
      /\ new.scopes = {} /\ new.layers = {} /\ new.native = {} /\ new.began = index.active
      /\ new.troubled = index.removing
  BY <1>3, Zenon
<1>5. PICK first \in {"scopes", "preflight", "contextPreflight", "occurrencesOf"} :
         /\ first = "scopes" => tool \in {"inspect", "status"}
         /\ first = "preflight" => tool = "focused"
         /\ first = "contextPreflight" => tool = "context"
         /\ first = "occurrencesOf" => tool = "symbols"
         /\ Dispatched(new) = IF ResolveReadableGitRef THEN [new EXCEPT !.pc = first] ELSE Fails(new)
  BY <1>4, Zenon DEF Dispatched, ToolInspectCodeGraph, ToolFocusedCodeGraph, ToolCodegraphContext,
         ToolGraphStatus, ResolveGraphScope, IndexedRepoCoverage, ResolveSemanticScopes, GraphTools
<1>6. Fails(new) = [new EXCEPT !.outcome = "error", !.layers = {}, !.native = {}, !.pc = "done"]
  BY <1>4, Zenon DEF Fails
<1>0. PICK r \in Call : r = Dispatched(new)
  BY <1>5, <1>6, ZenonT(60) DEF Call, Calls, ReadPcs
<1>7. /\ r.pc \in {first, "done"} /\ r.tool = tool /\ r.key = 0 /\ r.contextKey = 0
      /\ r.scopes = {} /\ r.layers = {} /\ r.native = {} /\ r.began = index.active
      /\ r.troubled = index.removing /\ (r.pc = "done" => ~ResolveReadableGitRef)
  BY <1>0, <1>4, <1>5, <1>6 DEF Calls
<1>8. ToolFits(r) /\ NativeFits(r)
  BY <1>5, <1>7, Zenon DEF ToolFits, NativeFits, Compact, Evidence
<1>9. KeysFit(r, index)
  BY <1>7, ScopesAndKeys, Zenon DEF KeysFit, Between
<1>10. CompactFits(r) /\ ServedFits(r, index)
  BY <1>7, Zenon DEF CompactFits, OneSnapshot, ServedFits
<1>11. HealthyFits(r, index)
  BY <1>2, <1>5, <1>7, Zenon DEF HealthyFits, Compact, WithScope
<1>12. CallFits(r, index) /\ Moves(c, r)
  BY <1>0, <1>1, <1>3, <1>8, <1>9, <1>10, <1>11, Zenon DEF CallFits
<1> QED BY <1>12, OnlyReads, CallMoves, Zenon DEF BeginCall

\* The rows of one layer that a statement returned.
LEMMA RowsOf ==
    ASSUME NEW rows \in SUBSET Snaps, NEW layer \in {"scip", "graph"}
    PROVE  LET ls == {[layer |-> layer, snap |-> s] : s \in rows}
           IN /\ ls \in SUBSET Rows
              /\ \A l \in ls : l.layer = layer /\ l.snap \in rows
              /\ rows # {} => ls # {}
<1> DEFINE ls == {[layer |-> layer, snap |-> s] : s \in rows}
<1>1. ASSUME NEW s \in rows PROVE [layer |-> layer, snap |-> s] \in Rows
  BY Zenon DEF Rows
<1>2. ls \in SUBSET Rows
  BY <1>1, Zenon
<1>3. \A l \in ls : l.layer = layer /\ l.snap \in rows
  OBVIOUS
<1>4. rows # {} => ls # {}
  BY Zenon
<1> QED BY <1>2, <1>3, <1>4, Zenon

\* find_symbol_definitions and find_symbol_references read SCIP rows only.
LEMMA SymbolsFound ==
    ASSUME ReadsInv, NEW c \in GraphCalls, ToolFindSymbolOccurrences(c)
    PROVE  ReadsInv'
<1> DEFINE a == reading[c]
<1>0. a \in Call /\ CallFits(a, index) /\ a.pc = "occurrencesOf"
  BY Started, Zenon DEF ToolFindSymbolOccurrences, At
<1>1. PICK rows \in SUBSET Snaps :
         Moves(c, Succeeds([a EXCEPT !.layers = {[layer |-> "scip", snap |-> s] : s \in rows}]))
  BY Zenon DEF ToolFindSymbolOccurrences, FindOrgSymbolOccurrences, ActiveIndexes
<1>2. PICK ls \in SUBSET Rows : /\ ls = {[layer |-> "scip", snap |-> s] : s \in rows}
                                /\ \A l \in ls : l.layer = "scip"
  BY RowsOf, Zenon
<1>3. PICK b \in Call : b = [a EXCEPT !.layers = ls]
  BY <1>0, Zenon DEF Call, Calls
<1>4. /\ b.pc = a.pc /\ b.tool = a.tool /\ b.key = a.key /\ b.contextKey = a.contextKey
      /\ b.scopes = a.scopes /\ b.layers = ls /\ b.native = a.native /\ b.began = a.began
  BY <1>0, <1>3, Zenon DEF Call, Calls
<1>5. ~Compact(b)
  BY <1>0, <1>4, Zenon DEF CallFits, ToolFits, Compact
<1>6. KeysFit(b, index)
  BY <1>0, <1>2, <1>4, Zenon DEF CallFits, KeysFit, Between
<1>7. NativeFits(b) /\ ToolFits(b)
  BY <1>0, <1>4, Zenon DEF CallFits, NativeFits, ToolFits, Compact
<1>8. CallFits(b, index)
  BY <1>5, <1>6, <1>7, Zenon DEF CallFits, CompactFits, ServedFits, HealthyFits
<1>9. Succeeds(b) \in Call /\ CallFits(Succeeds(b), index) /\ Moves(c, Succeeds(b))
  BY <1>1, <1>2, <1>3, <1>5, <1>8, SucceedsFits, Zenon
<1> QED BY <1>9, OnlyReads, CallMoves, Zenon DEF ToolFindSymbolOccurrences

\* The key of an inspection is read before the inspection begins.
LEMMA KeyRead ==
    ASSUME ReadsInv, NEW c \in GraphCalls, Preflight(c)
    PROVE  ReadsInv'
<1> DEFINE a == reading[c]
<1>0. a \in Call /\ CallFits(a, index) /\ a.pc = "preflight"
  BY Started, Zenon DEF Preflight, At
<1>1. /\ index.active \in Nat /\ index.active <= index.top /\ index.top \in Nat
      /\ index.active = 0 \/ index.active = index.top
  BY ScopesAndKeys, Zenon DEF ReadsInv, IndexFits
<1>2. PICK k \in Call : k = [a EXCEPT !.key = index.active]
  BY <1>0, <1>1, Zenon DEF Call, Calls
<1>3. /\ k.pc = "preflight" /\ k.tool = a.tool /\ k.key = index.active
      /\ k.contextKey = a.contextKey /\ k.scopes = {} /\ k.layers = {} /\ k.native = {}
      /\ k.began = a.began /\ k.troubled = a.troubled /\ Compact(k) /\ Compact(a)
  BY <1>0, <1>2, Zenon DEF Call, Calls, CallFits, ToolFits, CompactFits, NativeFits, BeforeRows,
                    NoScopeYet, NoKeyYet, Compact
<1>4. /\ a.began \in Nat /\ a.contextKey \in Nat
      /\ a.began <= index.top /\ a.contextKey <= index.top
      /\ a.contextKey # 0 => a.began <= a.contextKey
  BY <1>0, <1>1 DEF CallFits, KeysFit, Call, Calls
<1>5. ~k.troubled /\ k.began # 0 =>
         index.active = k.began /\ ~index.removing /\ ResolveReadableGitRef
  BY <1>0, <1>3, Zenon DEF CallFits, HealthyFits, ReadsInv, IndexFits, ResolveReadableGitRef
<1>6. PICK b \in Call : b = [k EXCEPT !.pc = "get"]
  BY Zenon DEF Call, Calls, ReadPcs
<1>7. /\ b.pc = "get" /\ b.tool = k.tool /\ b.key = index.active /\ b.contextKey = k.contextKey
      /\ b.scopes = {} /\ b.layers = {} /\ b.native = {} /\ b.began = k.began
      /\ b.troubled = k.troubled /\ Compact(b)
  BY <1>3, <1>6, Zenon DEF Call, Calls, Compact
<1>8. KeysFit(b, index)
  BY <1>1, <1>3, <1>4, <1>7, Zenon DEF KeysFit, Between, NoKeyYet
<1>9. ToolFits(b) /\ NativeFits(b)
  BY <1>7, Zenon DEF ToolFits, NativeFits, Evidence
<1>10. CompactFits(b) /\ ServedFits(b, index)
  BY <1>7, Zenon DEF CompactFits, OneSnapshot, ServedFits, WithScope, WithRows
<1>11. HealthyFits(b, index)
  BY <1>5, <1>7, Zenon DEF HealthyFits
<1>12. CallFits(b, index)
  BY <1>8, <1>9, <1>10, <1>11, Zenon DEF CallFits
<1>13. CASE Moves(c, b)
  BY <1>12, <1>13, OnlyReads, CallMoves, Zenon DEF Preflight
<1>14. CASE Moves(c, Fails(k)) /\ ~ResolveReadableGitRef
  <2>1. Fails(k) = Fails(b)
    BY <1>2, <1>3, <1>6, <1>7, <1>0, ZenonT(60) DEF Fails, Call, Calls
  <2>2. Fails(b) \in Call /\ CallFits(Fails(b), index)
    BY <1>1, <1>5, <1>7, <1>12, <1>14, FailsFits, Zenon
  <2> QED BY <1>14, <2>1, <2>2, OnlyReads, CallMoves, Zenon DEF Preflight
<1> QED
  BY <1>2, <1>6, <1>13, <1>14, ScopesAndKeys, Zenon DEF Preflight, ResolveGraphScope

\* A call of codegraph_context goes on to its graph layer.
LEMMA GraphLayerStarts ==
    ASSUME NEW i, NEW a \in Call, CallFits(a, i), a.pc \in {"contextPreflight", "contextGet"}
    PROVE  /\ CodegraphContextGraphLayers(a) \in Call
           /\ CallFits(CodegraphContextGraphLayers(a), i)
<1>1. PICK b \in Call : b = CodegraphContextGraphLayers(a)
  BY Zenon DEF CodegraphContextGraphLayers, Call, Calls, ReadPcs
<1>2. /\ b.pc = "preflight" /\ b.tool = a.tool /\ b.key = a.key /\ b.contextKey = a.contextKey
      /\ b.scopes = a.scopes /\ b.layers = a.layers /\ b.native = a.native
      /\ b.began = a.began /\ b.troubled = a.troubled
  BY <1>1, Zenon DEF CodegraphContextGraphLayers, Call, Calls
<1>3. ToolFits(b) /\ HealthyFits(b, i)
  BY <1>2, Zenon DEF CallFits, ToolFits, HealthyFits, Compact, Evidence, WithScope
<1>4. /\ b.pc \in NoKeyYet /\ a.pc \in NoKeyYet /\ a.pc \in NoScopeYet /\ a.pc \in BeforeRows
      /\ b.pc \notin WithScope /\ b.pc \notin WithRows /\ b.pc \notin {"readerGet", "traverse"}
      /\ b.pc # "readerPut"
  BY <1>2, Zenon DEF NoKeyYet, NoScopeYet, BeforeRows, WithScope, WithRows
<1>5. CallFits(b, i)
  BY <1>2, <1>3, <1>4, CallAdvances, Zenon
<1> QED BY <1>1, <1>5, Zenon

\* The key of a codegraph_context result is read before anything else.
LEMMA ContextKeyRead ==
    ASSUME ReadsInv, NEW c \in GraphCalls, ContextPreflight(c)
    PROVE  ReadsInv'
<1> DEFINE a == reading[c]
<1>0. a \in Call /\ CallFits(a, index) /\ a.pc = "contextPreflight"
  BY Started, Zenon DEF ContextPreflight, At
<1>1. CASE ~ResolveReadableGitRef
  <2>1. Moves(c, CodegraphContextGraphLayers(a))
    BY <1>1, Zenon DEF ContextPreflight
  <2> QED BY <1>0, <2>1, GraphLayerStarts, OnlyReads, CallMoves, Zenon DEF ContextPreflight
<1>2. CASE ResolveReadableGitRef
  <2>1. /\ index.active \in Nat /\ index.active <= index.top /\ index.top \in Nat
        /\ index.active = 0 \/ index.active = index.top
    BY ScopesAndKeys, Zenon DEF ReadsInv, IndexFits
  <2>2. PICK b \in Call : b = [a EXCEPT !.pc = "contextGet", !.contextKey = index.active]
    BY <1>0, <2>1, Zenon DEF Call, Calls, ReadPcs
  <2>3. Moves(c, b)
    BY <1>2, <2>2, ScopesAndKeys, Zenon DEF ContextPreflight
  <2>4. /\ b.pc = "contextGet" /\ b.tool = a.tool /\ b.key = a.key
        /\ b.contextKey = index.active /\ b.scopes = a.scopes /\ b.layers = a.layers
        /\ b.native = a.native /\ b.began = a.began /\ b.troubled = a.troubled
    BY <1>0, <2>2, Zenon DEF Call, Calls
  <2>5. a.key = 0 /\ a.scopes = {} /\ Compact(a) /\ a.layers = {} /\ a.native = {}
    BY <1>0, Zenon DEF CallFits, ToolFits, KeysFit, NativeFits, CompactFits, NoKeyYet, NoScopeYet,
                Compact, BeforeRows
  <2>6. KeysFit(b, index)
    <3>1. a.began \in Nat /\ a.began <= index.top
      BY <1>0, Zenon DEF CallFits, KeysFit, Call, Calls
    <3> QED BY <2>1, <2>4, <2>5, <3>1, Zenon DEF KeysFit, Between
  <2>7. ToolFits(b) /\ NativeFits(b)
    BY <1>0, <2>4, <2>5, Zenon DEF CallFits, ToolFits, NativeFits, Evidence
  <2>8. CompactFits(b) /\ ServedFits(b, index)
    BY <2>4, <2>5, Zenon DEF CompactFits, ServedFits, OneSnapshot
  <2>9. HealthyFits(b, index)
    BY <1>0, <2>4, <2>5, Zenon DEF CallFits, HealthyFits, Compact, WithScope
  <2>10. CallFits(b, index)
    BY <2>6, <2>7, <2>8, <2>9, Zenon DEF CallFits
  <2> QED BY <2>3, <2>10, OnlyReads, CallMoves, Zenon DEF ContextPreflight
<1> QED BY <1>1, <1>2, Zenon

\* An entry is as good for the call that finds it as for the one that made it.
LEMMA EntryServes ==
    ASSUME ReadsInv, NEW a \in Call, CallFits(a, index), Compact(a), NEW e \in Kept,
           NEW k \in Snaps, EntryFits(e, k, index), k \in {a.key, a.contextKey}, a.scopes = {},
           a.contextKey <= k, a.key <= k,
           NEW b \in Call, b.pc \in {"join", "done"}, b.pc = "join" => b.tool = "context",
           b.tool = a.tool, b.key = a.key, b.contextKey = a.contextKey, b.scopes = a.scopes,
           b.layers = e.layers, b.native = e.native, b.began = a.began,
           HealthyFits(b, index)
    PROVE  CallFits(b, index)
<1>1. Compact(b) /\ ToolFits(b) /\ NativeFits(b)
  BY Zenon DEF Compact, ToolFits, NativeFits, Evidence, NoScopeYet, NoKeyYet
<1>2. Between(e, k, index.top) /\ OneSnapshot(e)
  BY Zenon DEF EntryFits, Kept
<1>3. CompactFits(b) /\ ServedFits(b, index)
  BY <1>2, Zenon DEF CompactFits, OneSnapshot, ServedFits, BeforeRows, WithScope, WithRows
<1>4. /\ b.began \in Nat /\ b.key \in Nat /\ b.contextKey \in Nat /\ k \in Nat /\ k # 0
      /\ (\A l \in b.layers : l.snap \in Nat) /\ (\A s \in b.native : s \in Nat)
  BY SnapNumbers, Zenon DEF Call, Calls, Rows
<1>5. b.began <= k /\ b.contextKey <= k /\ b.key <= k
  BY <1>4 DEF CallFits, KeysFit
<1>6. \A n \in {b.began, b.key, b.contextKey} : n <= k
  BY <1>4, <1>5, Zenon
<1>7. \A n \in {b.began, b.key, b.contextKey} : Between(b, n, index.top)
  BY <1>2, <1>4, <1>6 DEF Between
<1>8. KeysFit(b, index)
  BY <1>7, Zenon DEF CallFits, KeysFit, NoKeyYet
<1> QED BY <1>1, <1>3, <1>8, Zenon DEF CallFits

\* The cached inspection, or the inspection itself.
LEMMA InspectionLookedUp ==
    ASSUME ReadsInv, NEW c \in GraphCalls, GetGraphInspection(c)
    PROVE  ReadsInv'
<1> DEFINE a == reading[c]
           e == IF a.key = 0 THEN Miss ELSE inspectCache[a.key]
<1>0. a \in Call /\ CallFits(a, index) /\ a.pc = "get"
  BY Started, Zenon DEF GetGraphInspection, At
<1>1. Compact(a) /\ a.layers = {} /\ a.native = {} /\ a.scopes = {}
  BY <1>0, Zenon DEF CallFits, ToolFits, CompactFits, NativeFits, BeforeRows, NoScopeYet
<1>2. ~a.troubled /\ a.began # 0 =>
         a.key = a.began /\ index.active = a.began /\ ~index.removing
  BY <1>0, <1>1, Zenon DEF CallFits, HealthyFits
<1>3. CASE ~e.hit
  <2>1. PICK b \in Call : b = [a EXCEPT !.pc = "scopes"]
    BY <1>0, Zenon DEF Call, Calls, ReadPcs
  <2>2. /\ b.pc = "scopes" /\ b.tool = a.tool /\ b.key = a.key /\ b.contextKey = a.contextKey
        /\ b.scopes = a.scopes /\ b.layers = a.layers /\ b.native = a.native
        /\ b.began = a.began /\ b.troubled = a.troubled
    BY <1>0, <2>1, Zenon DEF Call, Calls
  <2>3. ToolFits(b) /\ HealthyFits(b, index)
    BY <1>1, <1>2, <2>2, Zenon DEF ToolFits, HealthyFits, Compact, Evidence
  <2>4. /\ b.pc \notin NoKeyYet /\ a.pc \in NoScopeYet /\ a.pc \in BeforeRows
        /\ b.pc \notin WithScope /\ b.pc \notin WithRows /\ b.pc \notin {"readerGet", "traverse"}
        /\ b.pc # "readerPut"
    BY <1>0, <2>2, Zenon DEF NoKeyYet, NoScopeYet, BeforeRows, WithScope, WithRows
  <2>5. CallFits(b, index)
    BY <1>0, <2>2, <2>3, <2>4, CallAdvances, Zenon
  <2>6. Moves(c, b)
    BY <1>3, <2>1, Zenon DEF GetGraphInspection
  <2> QED BY <2>5, <2>6, OnlyReads, CallMoves, Zenon DEF GetGraphInspection
<1>4. CASE e.hit
  <2>1. a.key # 0 /\ a.key \in Snaps /\ e = inspectCache[a.key]
    <3>1. a.key # 0
      BY <1>4, Zenon DEF Miss
    <3>2. a.key \in Nat /\ a.key <= index.top /\ index.top \in Snaps
      BY <1>0, <3>1, ScopesAndKeys, Zenon DEF CallFits, KeysFit, Call, Calls
    <3> QED BY <3>1, <3>2, ReadConstants DEF Snaps
  <2>2. e \in Kept /\ InspectFits(e, a.key, index)
    BY <1>4, <2>1 DEF ReadsInv, CachesFit, InspectFits, EntryFits, Miss
  <2>3. PICK x \in Call : x = [a EXCEPT !.layers = @ \cup e.layers, !.native = e.native,
                                        !.degraded = e.degraded]
    BY <1>0, <2>2, Zenon DEF Call, Calls, Kept
  <2>4. /\ x.tool = a.tool /\ x.key = a.key /\ x.contextKey = a.contextKey
        /\ x.scopes = a.scopes /\ x.layers = e.layers /\ x.native = e.native
        /\ x.began = a.began /\ x.troubled = a.troubled
    <3>1. /\ x.tool = a.tool /\ x.key = a.key /\ x.contextKey = a.contextKey
          /\ x.scopes = a.scopes /\ x.native = e.native
      BY <1>0, <2>3, Zenon DEF Call, Calls
    <3>2. x.layers = a.layers \cup e.layers /\ x.began = a.began /\ x.troubled = a.troubled
      BY <1>0, <2>3, Zenon DEF Call, Calls
    <3>3. x.layers = e.layers
      BY <1>1, <3>2
    <3> QED BY <3>1, <3>2, <3>3, Zenon
  <2>5. PICK b \in Call : b = Succeeds(x)
    BY Zenon DEF Succeeds, Call, Calls, ReadPcs
  <2>6. /\ b.pc \in {"join", "done"} /\ (b.pc = "join" => b.tool = "context") /\ b.outcome = "ok"
        /\ b.tool = a.tool /\ b.key = a.key /\ b.contextKey = a.contextKey
        /\ b.scopes = a.scopes /\ b.layers = e.layers /\ b.native = e.native
        /\ b.began = a.began /\ b.troubled = a.troubled
    BY <2>4, <2>5, Zenon DEF Succeeds, Call, Calls
  <2>7. HealthyFits(b, index)
    BY <1>2, <1>1, <1>4, <2>2, <2>6, Zenon DEF HealthyFits, Compact, InspectFits, WithScope
  <2>8. a.contextKey <= a.key /\ a.key <= a.key
    BY <1>0, <2>1 DEF CallFits, KeysFit, Call, Calls
  <2>9. CallFits(b, index)
    BY <1>0, <1>1, <2>1, <2>2, <2>6, <2>7, <2>8, EntryServes, Zenon DEF InspectFits
  <2>10. Moves(c, b)
    BY <1>4, <2>3, <2>5, Zenon DEF GetGraphInspection
  <2> QED BY <2>9, <2>10, OnlyReads, CallMoves, Zenon DEF GetGraphInspection
<1> QED BY <1>3, <1>4, Zenon

\* The cached result of codegraph_context, which is the whole answer.
LEMMA ContextLookedUp ==
    ASSUME ReadsInv, NEW c \in GraphCalls, GetCodegraphContext(c)
    PROVE  ReadsInv'
<1> DEFINE a == reading[c]
           e == IF a.contextKey = 0 THEN Miss ELSE contextCache[a.contextKey]
<1>0. a \in Call /\ CallFits(a, index) /\ a.pc = "contextGet"
  BY Started, Zenon DEF GetCodegraphContext, At
<1>1. Compact(a) /\ a.scopes = {} /\ a.key = 0
  BY <1>0, Zenon DEF CallFits, ToolFits, KeysFit, NativeFits, NoScopeYet, NoKeyYet, Compact
<1>2. CASE ~e.hit
  <2>1. Moves(c, CodegraphContextGraphLayers(a))
    BY <1>2, Zenon DEF GetCodegraphContext
  <2> QED BY <1>0, <2>1, GraphLayerStarts, OnlyReads, CallMoves, Zenon DEF GetCodegraphContext
<1>3. CASE e.hit
  <2>1. a.contextKey # 0 /\ a.contextKey \in Snaps /\ e = contextCache[a.contextKey]
    <3>1. a.contextKey # 0
      BY <1>3, Zenon DEF Miss
    <3>2. a.contextKey \in Nat /\ a.contextKey <= index.top /\ index.top \in Snaps
      BY <1>0, <3>1, ScopesAndKeys, Zenon DEF CallFits, KeysFit, Call, Calls
    <3> QED BY <3>1, <3>2, ReadConstants DEF Snaps
  <2>2. e \in Kept /\ ContextFits(e, a.contextKey, index)
    BY <1>3, <2>1 DEF ReadsInv, CachesFit, ContextFits, EntryFits, Miss
  <2>3. PICK b \in Call : b = [a EXCEPT !.pc = "done", !.outcome = e.outcome, !.layers = e.layers,
                                        !.native = e.native, !.degraded = e.degraded]
    BY <1>0, <2>2, Zenon DEF Call, Calls, Kept, ReadPcs
  <2>4. /\ b.pc = "done" /\ b.outcome = e.outcome
        /\ b.tool = a.tool /\ b.key = a.key /\ b.contextKey = a.contextKey
        /\ b.scopes = a.scopes /\ b.layers = e.layers /\ b.native = e.native
        /\ b.began = a.began /\ b.troubled = a.troubled
    BY <1>0, <2>2, <2>3, ZenonT(60) DEF Call, Calls, Kept
  <2>5. HealthyFits(b, index)
    BY <1>3, <2>2, <2>4, Zenon DEF HealthyFits, ContextFits, WithScope
  <2>6. a.contextKey <= a.contextKey /\ a.key <= a.contextKey
    BY <1>1, <1>0 DEF Call, Calls
  <2>7. CallFits(b, index)
    BY <1>0, <1>1, <2>1, <2>2, <2>4, <2>5, <2>6, EntryServes, Zenon DEF ContextFits
  <2>8. Moves(c, b)
    BY <1>3, <2>3, Zenon DEF GetCodegraphContext
  <2> QED BY <2>7, <2>8, OnlyReads, CallMoves, Zenon DEF GetCodegraphContext
<1> QED BY <1>2, <1>3, Zenon

\* The active scopes of an inspection, which are no older than its keys.
LEMMA ScopesRead ==
    ASSUME ReadsInv, NEW c \in GraphCalls, InspectActiveScopes(c)
    PROVE  ReadsInv'
<1> DEFINE a == reading[c]
           scopes == ListActiveCodeGraphScopes
<1>0. a \in Call /\ CallFits(a, index) /\ a.pc = "scopes"
  BY Started, Zenon DEF InspectActiveScopes, At
<1>1. /\ index.active \in Nat /\ index.top \in Nat /\ index.top \in Snaps
      /\ index.active = 0 \/ index.active = index.top
      /\ scopes = IF index.active = 0 THEN {} ELSE {index.active}
  BY ScopesAndKeys, Zenon DEF ReadsInv, IndexFits
<1>2. PICK next \in {"readerGet", "edges", "symbols", "scopes"} :
         /\ next = "scopes" => a.tool = "status"
         /\ next = "readerGet" => scopes = {}
         /\ next = "edges" => Compact(a) /\ scopes # {}
         /\ next = "symbols" => ~Compact(a)
         /\ Moves(c, IF next = "scopes" THEN Succeeds([a EXCEPT !.scopes = scopes])
                     ELSE [a EXCEPT !.scopes = scopes, !.pc = next])
  <2>1. CASE a.tool = "status"
    BY <2>1, Zenon DEF InspectActiveScopes
  <2>2. CASE a.tool # "status" /\ scopes = {}
    <3>1. Moves(c, [a EXCEPT !.scopes = scopes, !.pc = "readerGet"])
      BY <2>2, Zenon DEF InspectActiveScopes
    <3> QED BY <2>2, <3>1, Zenon
  <2>3. CASE a.tool # "status" /\ scopes # {} /\ Compact(a)
    <3>1. Moves(c, [a EXCEPT !.scopes = scopes, !.pc = "edges"])
      BY <2>3, Zenon DEF InspectActiveScopes
    <3> QED BY <2>3, <3>1, Zenon
  <2>4. CASE a.tool # "status" /\ scopes # {} /\ ~Compact(a)
    <3>1. Moves(c, [a EXCEPT !.scopes = scopes, !.pc = "symbols"])
      BY <2>4, Zenon DEF InspectActiveScopes
    <3> QED BY <2>4, <3>1, Zenon
  <2> QED BY <2>1, <2>2, <2>3, <2>4, Zenon
<1>3. PICK b \in Call : b = [a EXCEPT !.scopes = scopes, !.pc = next]
  BY <1>0, <1>1, ZenonT(60) DEF Call, Calls, ReadPcs, Evidence
<1>4. /\ b.pc = next /\ b.tool = a.tool /\ b.key = a.key /\ b.contextKey = a.contextKey
      /\ b.scopes = scopes /\ b.layers = a.layers /\ b.native = a.native
      /\ b.began = a.began /\ b.troubled = a.troubled
  BY <1>0, <1>3, Zenon DEF Call, Calls
<1>5. Compact(a) => a.layers = {} /\ a.native = {}
  BY <1>0, Zenon DEF CallFits, CompactFits, BeforeRows
<1>6. KeysFit(b, index)
  <2>1. /\ a.began \in Nat /\ a.key \in Nat /\ a.contextKey \in Nat
        /\ a.began <= index.top /\ a.key <= index.top /\ a.contextKey <= index.top
    BY <1>0, <1>1 DEF CallFits, KeysFit, Call, Calls
  <2>2. \A n \in {a.began, a.key, a.contextKey}, s \in scopes : n <= s /\ s <= index.top
    BY <1>1, <2>1
  <2>3. \A n \in {a.began, a.key, a.contextKey} : Between(b, n, index.top)
    BY <1>0, <1>4, Zenon DEF CallFits, KeysFit, Between
  <2>4. b.pc \notin NoKeyYet
    BY <1>4, Zenon DEF NoKeyYet
  <2> QED BY <1>0, <1>4, <2>2, <2>3, <2>4, Zenon DEF CallFits, KeysFit
<1>7. CompactFits(b)
  BY <1>4, <1>5, Zenon DEF CompactFits, Compact, OneSnapshot
<1>8. CASE next = "scopes"
  <2>1. PICK x \in Call : x = [a EXCEPT !.scopes = scopes]
    BY <1>0, <1>1, Zenon DEF Call, Calls
  <2>2. Moves(c, Succeeds(x)) /\ a.tool = "status"
    BY <1>2, <1>8, <2>1, Zenon
  <2>3. PICK y \in Call : y = Succeeds(x)
    BY Zenon DEF Succeeds, Call, Calls, ReadPcs
  <2>4. /\ y.pc = "done" /\ y.tool = "status" /\ y.key = b.key /\ y.contextKey = b.contextKey
        /\ y.scopes = scopes /\ y.layers = b.layers /\ y.native = b.native /\ y.began = b.began
    BY <1>0, <1>4, <2>1, <2>2, <2>3 DEF Succeeds, Call, Calls
  <2>5. KeysFit(y, index)
    BY <1>4, <1>6, <2>4, Zenon DEF KeysFit, Between, NoKeyYet
  <2>6. NativeFits(y) /\ ToolFits(y) /\ ~Compact(y)
    BY <1>1, <2>4 DEF NativeFits, ToolFits, Compact, Evidence, NoScopeYet, NoKeyYet
  <2>7. CallFits(y, index)
    BY <2>5, <2>6, Zenon DEF CallFits, CompactFits, ServedFits, HealthyFits
  <2> QED BY <2>2, <2>3, <2>7, OnlyReads, CallMoves, Zenon DEF InspectActiveScopes
<1>9. CASE next # "scopes"
  <2>1. Moves(c, b)
    BY <1>2, <1>3, <1>9, Zenon
  <2>2. ToolFits(b)
    BY <1>2, <1>4, <1>9, Zenon DEF ToolFits, Compact, Evidence
  <2>3. NativeFits(b)
    BY <1>1, <1>4, <1>9 DEF NativeFits, NoScopeYet, NoKeyYet
  <2>4. Compact(b) /\ b.key # 0 /\ b.key = index.active => b.pc = "edges" /\ b.scopes = {b.key}
    BY <1>1, <1>2, <1>4, <1>9, Zenon DEF Compact
  <2>5. ServedFits(b, index)
    BY <2>4, Zenon DEF ServedFits, WithRows
  <2>6. HealthyFits(b, index)
    BY <1>0, <1>2, <1>4, <1>9, Zenon DEF CallFits, HealthyFits, Compact
  <2>7. CallFits(b, index)
    BY <1>6, <1>7, <2>2, <2>3, <2>5, <2>6, Zenon DEF CallFits
  <2> QED BY <2>1, <2>7, OnlyReads, CallMoves, Zenon DEF InspectActiveScopes
<1> QED BY <1>8, <1>9, Zenon

\* What one statement of an inspection returns.
LEMMA StatementRows ==
    ASSUME ReadsInv, NEW a \in Call, a.pc \in Evidence, NEW rows \in RowsRead(a)
    PROVE  /\ rows \in SUBSET Snaps
           /\ LayerOf(a.pc) = "graph" => rows \subseteq {index.active}
           /\ a.pc = "seedEdges" /\ index.active # 0 => rows # {}
<1>1. ActiveGraphs \in SUBSET Snaps /\ ActiveGraphs \subseteq {index.active}
  BY Zenon DEF ActiveGraphs, ReadsInv, IndexFits, Index
<1>2. index.active # 0 => ActiveGraphs # {}
  BY Zenon DEF ActiveGraphs, ReadsInv, IndexFits
<1>3. \A x \in ActiveIndexes : x \in SUBSET Snaps
  BY Zenon DEF ActiveIndexes
<1>4. CASE a.pc \in {"symbols", "occurrences", "relationships"}
  <2>1. rows \in ActiveIndexes \cup {{}}
    BY <1>4, Zenon DEF RowsRead, InspectGraphSymbols, InspectGraphOccurrences, InspectGraphRelationships
  <2> QED BY <1>3, <1>4, <2>1, Zenon DEF LayerOf
<1>5. CASE a.pc \in {"anchors", "facts", "edges", "hyperedges"}
  <2>1. rows \in {ActiveGraphs, {}}
    BY <1>5, Zenon DEF RowsRead, InspectGraphAnchors, InspectGraphSemanticFacts,
                InspectGraphSemanticEdges, InspectGraphSemanticHyperedges
  <2> QED BY <1>1, <1>5, <2>1, Zenon
<1>6. CASE a.pc = "seedEdges"
  <2>1. rows = ActiveGraphs
    BY <1>6, Zenon DEF RowsRead, InspectGraphSemanticEdgeSeeds
  <2> QED BY <1>1, <1>2, <2>1, Zenon
<1> QED BY <1>4, <1>5, <1>6, Zenon DEF Evidence

\* A statement of an inspection: what it returns of the graph is the active
\* snapshot's, which is no older than the keys.
LEMMA RowsAreRead ==
    ASSUME ReadsInv, NEW c \in GraphCalls, InspectOrgCodeGraph(c)
    PROVE  ReadsInv'
<1> DEFINE a == reading[c]
<1>0. a \in Call /\ CallFits(a, index) /\ a.pc \in Evidence
  BY Started, Zenon DEF InspectOrgCodeGraph, Evidence
<1>1. /\ index.active \in Nat /\ index.top \in Nat
      /\ index.active = 0 \/ index.active = index.top
  BY ScopesAndKeys, Zenon DEF ReadsInv, IndexFits
<1>2. PICK rows \in RowsRead(a) :
         Moves(c, [a EXCEPT !.layers = @ \cup {[layer |-> LayerOf(a.pc), snap |-> s] : s \in rows},
                            !.pc = AfterEvidence(a, rows)])
  BY Zenon DEF InspectOrgCodeGraph
<1>3. /\ rows \in SUBSET Snaps
      /\ LayerOf(a.pc) = "graph" => rows \subseteq {index.active}
      /\ a.pc = "seedEdges" /\ index.active # 0 => rows # {}
  BY <1>0, StatementRows, Zenon
<1>4. PICK ls \in SUBSET Rows :
         /\ ls = {[layer |-> LayerOf(a.pc), snap |-> s] : s \in rows}
         /\ \A l \in ls : l.layer = LayerOf(a.pc) /\ l.snap \in rows
         /\ rows # {} => ls # {}
         /\ rows = {} => ls = {}
  <2>1. PICK layer \in {"scip", "graph"} : layer = LayerOf(a.pc)
    BY Zenon DEF LayerOf
  <2> DEFINE found == {[layer |-> layer, snap |-> s] : s \in rows}
  <2>2. rows = {} => found = {}
    OBVIOUS
  <2>3. /\ found \in SUBSET Rows
        /\ \A l \in found : l.layer = layer /\ l.snap \in rows
        /\ rows # {} => found # {}
    BY <1>3, RowsOf
  <2>4. found = {[layer |-> LayerOf(a.pc), snap |-> s] : s \in rows}
    BY <2>1, Zenon
  <2> HIDE DEF found
  <2> QED BY <2>1, <2>2, <2>3, <2>4, Zenon
<1>5. PICK next \in (Evidence \ {"symbols"}) \cup {"readerGet"} :
         /\ next = AfterEvidence(a, rows)
         /\ next = "seedEdges" => a.pc = "edges" /\ Compact(a) /\ rows = {}
         /\ next = "readerGet" => \/ a.pc = "edges" /\ Compact(a) /\ rows # {}
                                  \/ a.pc \in {"seedEdges", "hyperedges"}
         /\ next = "edges" => a.pc = "facts"
         /\ next \in Evidence \ {"edges", "seedEdges"} =>
               \/ a.pc = "edges" /\ ~Compact(a)
               \/ a.pc \in Evidence \ {"edges", "seedEdges"}
  BY <1>0 DEF AfterEvidence, Evidence
<1>6. PICK b \in Call : b = [a EXCEPT !.layers = @ \cup ls, !.pc = next]
  BY <1>0, <1>4, Zenon DEF Call, Calls, ReadPcs
<1>7. /\ b.pc = next /\ b.tool = a.tool /\ b.key = a.key /\ b.contextKey = a.contextKey
      /\ b.scopes = a.scopes /\ b.layers = a.layers \cup ls /\ b.native = a.native
      /\ b.began = a.began /\ b.troubled = a.troubled
  BY <1>0, <1>6, Zenon DEF Call, Calls
<1>8. Moves(c, b)
  BY <1>2, <1>4, <1>5, <1>6, Zenon
<1>9. KeysFit(b, index)
  <2>1. /\ a.began \in Nat /\ a.key \in Nat /\ a.contextKey \in Nat
        /\ a.began <= index.top /\ a.key <= index.top /\ a.contextKey <= index.top
    BY <1>0, <1>1 DEF CallFits, KeysFit, Call, Calls
  <2>2. \A l \in ls : l.layer = "graph" => l.snap = index.top /\ l.snap \in Nat
    BY <1>1, <1>3, <1>4, SnapNumbers, Zenon
  <2>3. ASSUME NEW n \in {a.began, a.key, a.contextKey} PROVE Between(b, n, index.top)
    <3>1. Between(a, n, index.top)
      BY <1>0, Zenon DEF CallFits, KeysFit
    <3>2. \A l \in ls : l.layer = "graph" => n <= l.snap /\ l.snap <= index.top
      BY <1>1, <2>1, <2>2
    <3> QED BY <1>7, <3>1, <3>2, Zenon DEF Between
  <2>4. b.pc \notin NoKeyYet
    BY <1>7, Zenon DEF NoKeyYet, Evidence
  <2> QED BY <1>0, <1>7, <2>3, <2>4, Zenon DEF CallFits, KeysFit
<1>10. ToolFits(b)
  BY <1>0, <1>5, <1>7, Zenon DEF CallFits, ToolFits, Compact, Evidence
<1>11. NativeFits(b)
  BY <1>0, <1>7, Zenon DEF CallFits, NativeFits, NoScopeYet, NoKeyYet, Evidence
<1>12. CASE ~Compact(a)
  <2>1. CallFits(b, index)
    BY <1>7, <1>9, <1>10, <1>11, <1>12, Zenon DEF CallFits, CompactFits, ServedFits, HealthyFits, Compact
  <2> QED BY <1>8, <2>1, OnlyReads, CallMoves, Zenon DEF InspectOrgCodeGraph
<1>13. CASE Compact(a)
  <2>1. /\ a.pc \in {"edges", "seedEdges"} /\ a.layers = {} /\ a.native = {}
        /\ b.pc \in {"seedEdges", "readerGet"} /\ b.layers = ls /\ Compact(b)
        /\ (b.pc = "seedEdges" => ls = {})
    BY <1>0, <1>4, <1>5, <1>7, <1>13, Zenon DEF CallFits, ToolFits, CompactFits, BeforeRows, Compact, Evidence
  <2>2. \A l \in ls : l.layer = "graph" /\ l.snap = index.active
    BY <1>3, <1>4, <2>1, Zenon DEF LayerOf
  <2>3. CompactFits(b)
    BY <1>7, <2>1, <2>2, Zenon DEF CompactFits, OneSnapshot, BeforeRows
  <2>4. b.pc = "readerGet" /\ index.active # 0 => ls # {}
    BY <1>3, <1>4, <1>5, <1>7, <2>1, Zenon
  <2>5. ServedFits(b, index)
    BY <1>0, <1>7, <1>13, <2>1, <2>4, Zenon DEF CallFits, ServedFits, WithScope, WithRows
  <2>6. HealthyFits(b, index)
    BY <1>0, <1>7, <1>13, <2>1, Zenon DEF CallFits, HealthyFits, WithScope
  <2>7. CallFits(b, index)
    BY <1>9, <1>10, <1>11, <2>3, <2>5, <2>6, Zenon DEF CallFits
  <2> QED BY <1>8, <2>7, OnlyReads, CallMoves, Zenon DEF InspectOrgCodeGraph
<1> QED BY <1>12, <1>13, Zenon

\* Trouble makes no call fit less.
LEMMA TroubledFits ==
    ASSUME NEW i, NEW a \in Call, CallFits(a, i)
    PROVE  \E b \in Call : /\ b = [a EXCEPT !.troubled = TRUE] /\ CallFits(b, i)
                           /\ b.pc = a.pc /\ b.tool = a.tool /\ b.troubled
<1>1. PICK b \in Call : b = [a EXCEPT !.troubled = TRUE]
  BY Zenon DEF Call, Calls
<1>2. /\ b.pc = a.pc /\ b.tool = a.tool /\ b.key = a.key /\ b.contextKey = a.contextKey
      /\ b.scopes = a.scopes /\ b.layers = a.layers /\ b.native = a.native
      /\ b.began = a.began /\ b.troubled
  BY <1>1, Zenon DEF Call, Calls
<1>3. /\ KeysFit(b, i) /\ (\A s, t \in b.scopes : s = t)
      /\ GraphSeedsFromEvidence(b) = GraphSeedsFromEvidence(a)
      /\ (Compact(b) <=> Compact(a)) /\ (Compact(b) => OneSnapshot(b))
  BY <1>2, SameData, Zenon
<1>4. ToolFits(b) /\ NativeFits(b)
  BY <1>2, <1>3, Zenon DEF CallFits, ToolFits, NativeFits
<1>5. CompactFits(b) /\ ServedFits(b, i)
  BY <1>2, <1>3, Zenon DEF CallFits, CompactFits, ServedFits
<1>6. HealthyFits(b, i)
  BY <1>2, Zenon DEF HealthyFits
<1>7. CallFits(b, i)
  BY <1>3, <1>4, <1>5, <1>6, Zenon DEF CallFits
<1> QED BY <1>1, <1>2, <1>7, Zenon

\* A native traversal adds no other snapshot than the one of the rows.
LEMMA NativeServes ==
    ASSUME NEW i, NEW a \in Call, CallFits(a, i), a.pc \in {"readerGet", "traverse"},
           NEW native \in SUBSET Snaps, native \subseteq a.scopes,
           GraphSeedsFromEvidence(a) # {} => native \subseteq GraphSeedsFromEvidence(a),
           NEW b \in Call, b.pc \in {"put", "readerPut"},
           b.tool = a.tool, b.key = a.key, b.contextKey = a.contextKey, b.scopes = a.scopes,
           b.layers = a.layers, b.native = native, b.began = a.began, b.troubled = a.troubled
    PROVE  CallFits(b, i)
<1>1. KeysFit(b, i)
  <2>1. ASSUME NEW n \in {a.began, a.key, a.contextKey} PROVE Between(b, n, i.top)
    <3>1. Between(a, n, i.top) /\ \A s \in native : n <= s /\ s <= i.top
      BY Zenon DEF CallFits, KeysFit
    <3> QED BY <3>1, Zenon DEF Between
  <2> QED BY <2>1, Zenon DEF CallFits, KeysFit, NoKeyYet
<1>2. GraphSeedsFromEvidence(b) = GraphSeedsFromEvidence(a) /\ (Compact(b) <=> Compact(a))
  BY Zenon DEF GraphSeedsFromEvidence, Compact
<1>3. NativeFits(b) /\ ToolFits(b)
  BY <1>2, Zenon DEF CallFits, NativeFits, ToolFits, NoScopeYet, NoKeyYet, Evidence
<1>4. ASSUME Compact(a) PROVE OneSnapshot(b)
  <2>1. OneSnapshot(a)
    BY <1>4, Zenon DEF CallFits, CompactFits
  <2>2. /\ \A l \in a.layers : l.snap \in GraphSeedsFromEvidence(a)
        /\ \A s \in GraphSeedsFromEvidence(a) : \E m \in a.layers : s = m.snap
    BY <2>1, Zenon DEF OneSnapshot, GraphSeedsFromEvidence
  <2>3. \A l \in a.layers, s \in native : l.snap = s
    BY <2>1, <2>2 DEF OneSnapshot
  <2>4. \A s, t \in native : s = t
    BY Zenon DEF CallFits, NativeFits
  <2> QED BY <2>1, <2>3, <2>4 DEF OneSnapshot
<1>5. CompactFits(b)
  BY <1>2, <1>4, Zenon DEF CompactFits, BeforeRows
<1>6. ServedFits(b, i) /\ HealthyFits(b, i)
  BY <1>2, Zenon DEF CallFits, ServedFits, HealthyFits, WithScope, WithRows
<1> QED BY <1>1, <1>3, <1>5, <1>6, Zenon DEF CallFits

\* The rest of the inspection is done without the native graph, or fails.
LEMMA WithoutNativeFits ==
    ASSUME ReadsInv, NEW a \in Call, CallFits(a, index), a.pc = "traverse",
           NEW timedOut \in BOOLEAN
    PROVE  WithoutNative(a, timedOut) \in Call /\ CallFits(WithoutNative(a, timedOut), index)
<1>0. index.top \in Nat
  BY ScopesAndKeys, Zenon
<1>1. Compact(a) /\ ~a.troubled /\ a.began # 0 => a.layers # {}
  BY Zenon DEF CallFits, HealthyFits, ServedFits, WithScope, WithRows
<1>2. CASE ~(Compact(a) /\ (timedOut \/ a.layers # {}))
  <2>1. WithoutNative(a, timedOut) = Fails(a)
    BY <1>2, Zenon DEF WithoutNative
  <2> QED BY <1>0, <1>1, <1>2, <2>1, FailsFits, Zenon
<1>3. CASE Compact(a) /\ (timedOut \/ a.layers # {})
  <2>1. PICK b \in Call : b = [a EXCEPT !.degraded = TRUE, !.pc = "put"]
    BY Zenon DEF Call, Calls, ReadPcs
  <2>2. /\ b.pc = "put" /\ b.tool = a.tool /\ b.key = a.key /\ b.contextKey = a.contextKey
        /\ b.scopes = a.scopes /\ b.layers = a.layers /\ b.native = a.native
        /\ b.began = a.began /\ b.troubled = a.troubled
    BY <2>1, Zenon DEF Call, Calls
  <2>3. ToolFits(b) /\ HealthyFits(b, index)
    BY <2>2, Zenon DEF CallFits, ToolFits, HealthyFits, Compact, Evidence, WithScope
  <2>4. /\ b.pc \notin NoKeyYet /\ b.pc \notin NoScopeYet /\ b.pc \notin BeforeRows
        /\ a.pc \in WithScope /\ a.pc \in WithRows /\ b.pc \notin {"readerGet", "traverse"}
        /\ b.pc # "readerPut"
    BY <2>2, Zenon DEF NoKeyYet, NoScopeYet, BeforeRows, WithScope, WithRows
  <2>5. CallFits(b, index)
    BY <2>2, <2>3, <2>4, CallAdvances, Zenon
  <2> QED BY <1>3, <2>1, <2>5, Zenon DEF WithoutNative
<1> QED BY <1>2, <1>3, Zenon

\* Without a cached traversal, or without the cache, the call goes on.
LEMMA TraverseStarts ==
    ASSUME NEW i, NEW a \in Call, CallFits(a, i), a.pc = "readerGet"
    PROVE  /\ [a EXCEPT !.pc = "traverse"] \in Call
           /\ CallFits([a EXCEPT !.pc = "traverse"], i)
<1>1. PICK b \in Call : b = [a EXCEPT !.pc = "traverse"]
  BY Zenon DEF Call, Calls, ReadPcs
<1>2. /\ b.pc = "traverse" /\ b.tool = a.tool /\ b.key = a.key /\ b.contextKey = a.contextKey
      /\ b.scopes = a.scopes /\ b.layers = a.layers /\ b.native = a.native
      /\ b.began = a.began /\ b.troubled = a.troubled
  BY <1>1, Zenon DEF Call, Calls
<1>3. ToolFits(b) /\ HealthyFits(b, i)
  BY <1>2, Zenon DEF CallFits, ToolFits, HealthyFits, Compact, Evidence, WithScope
<1>4. /\ b.pc \notin NoKeyYet /\ b.pc \notin NoScopeYet /\ b.pc \notin BeforeRows
      /\ a.pc \in WithScope /\ a.pc \in WithRows /\ a.pc \in {"readerGet", "traverse"}
      /\ b.pc # "readerPut"
  BY <1>2, Zenon DEF NoKeyYet, NoScopeYet, BeforeRows, WithScope, WithRows
<1>5. CallFits(b, i)
  BY <1>2, <1>3, <1>4, CallAdvances, Zenon
<1> QED BY <1>1, <1>5, Zenon

\* The scopes and the seeds of a call are a key of the traversal cache.
LEMMA TraversalKey ==
    ASSUME NEW a \in Call
    PROVE  /\ GraphReaderCacheKey(a) \in (SUBSET Snaps) \X (SUBSET Snaps)
           /\ GraphReaderCacheKey(a)[1] = a.scopes
           /\ GraphReaderCacheKey(a)[2] = GraphSeedsFromEvidence(a)
<1>1. GraphSeedsFromEvidence(a) \in SUBSET Snaps
  BY DEF GraphSeedsFromEvidence, Call, Calls, Rows
<1>2. a.scopes \in SUBSET Snaps
  BY Zenon DEF Call, Calls
<1> QED BY <1>1, <1>2, Zenon DEF GraphReaderCacheKey, GraphAllowedScopes

\* A cached traversal serves as well as a new one.
LEMMA TraversalLookedUp ==
    ASSUME ReadsInv, NEW c \in GraphCalls, ReaderGet(c)
    PROVE  ReadsInv'
<1> DEFINE a == reading[c]
           native == readerCache[GraphReaderCacheKey(a)]
<1>0. a \in Call /\ CallFits(a, index) /\ a.pc = "readerGet"
  BY Started, Zenon DEF ReaderGet, At
<1>1. CASE native # {}
  <2>1. /\ native \in SUBSET Snaps /\ native \subseteq a.scopes
        /\ GraphSeedsFromEvidence(a) # {} => native \subseteq GraphSeedsFromEvidence(a)
    BY <1>0, TraversalKey DEF ReadsInv, CachesFit, TraversalFits
  <2>2. PICK b \in Call : b = [a EXCEPT !.native = native, !.pc = "put"]
    BY <1>0, <2>1, Zenon DEF Call, Calls, ReadPcs
  <2>3. /\ b.pc = "put" /\ b.tool = a.tool /\ b.key = a.key /\ b.contextKey = a.contextKey
        /\ b.scopes = a.scopes /\ b.layers = a.layers /\ b.native = native
        /\ b.began = a.began /\ b.troubled = a.troubled
    BY <1>0, <2>2, Zenon DEF Call, Calls
  <2>4. CallFits(b, index)
    BY <1>0, <2>1, <2>3, NativeServes, Zenon
  <2>5. Moves(c, b)
    BY <1>1, <2>2, Zenon DEF ReaderGet
  <2> QED BY <2>4, <2>5, OnlyReads, CallMoves, Zenon DEF ReaderGet
<1>2. CASE native = {}
  <2>1. PICK b \in Call : b = [a EXCEPT !.pc = "traverse"] /\ CallFits(b, index)
    BY <1>0, TraverseStarts, Zenon
  <2>2. Moves(c, b)
    BY <1>2, <2>1, Zenon DEF ReaderGet
  <2> QED BY <2>1, <2>2, OnlyReads, CallMoves, Zenon DEF ReaderGet
<1> QED BY <1>1, <1>2, Zenon

\* A traversal, which stays in the scopes and starts from the rows.
LEMMA Traverses ==
    ASSUME ReadsInv, NEW c \in GraphCalls, Traverse(c)
    PROVE  ReadsInv'
<1> DEFINE a == reading[c]
           native == Traversed(a)
<1>0. a \in Call /\ CallFits(a, index) /\ a.pc = "traverse"
  BY Started, Zenon DEF Traverse, At
<1>1. CASE native # {}
  <2>1. a.scopes \in SUBSET Snaps
    BY <1>0, Zenon DEF Call, Calls
  <2>2. /\ native \in SUBSET Snaps /\ native \subseteq a.scopes
        /\ GraphSeedsFromEvidence(a) # {} => native \subseteq GraphSeedsFromEvidence(a)
    BY <2>1, Zenon DEF Traversed, GraphAllowedScopes
  <2>3. PICK b \in Call : b = [a EXCEPT !.native = native, !.pc = "readerPut"]
    BY <1>0, <2>2, Zenon DEF Call, Calls, ReadPcs
  <2>4. /\ b.pc = "readerPut" /\ b.tool = a.tool /\ b.key = a.key
        /\ b.contextKey = a.contextKey /\ b.scopes = a.scopes /\ b.layers = a.layers
        /\ b.native = native /\ b.began = a.began /\ b.troubled = a.troubled
    BY <1>0, <2>3, Zenon DEF Call, Calls
  <2>5. CallFits(b, index)
    BY <1>0, <2>2, <2>4, NativeServes, Zenon
  <2>6. Moves(c, b)
    BY <1>1, <2>3, Zenon DEF Traverse
  <2> QED BY <2>5, <2>6, OnlyReads, CallMoves, Zenon DEF Traverse
<1>2. CASE native = {}
  <2>1. Moves(c, WithoutNative(a, FALSE))
    BY <1>2, Zenon DEF Traverse
  <2>2. WithoutNative(a, FALSE) \in Call /\ CallFits(WithoutNative(a, FALSE), index)
    BY <1>0, WithoutNativeFits, Zenon
  <2> QED BY <2>1, <2>2, OnlyReads, CallMoves, Zenon DEF Traverse
<1> QED BY <1>1, <1>2, Zenon

\* A fault leaves the stores alone.
LEMMA FaultKeeps ==
    ASSUME ReadsInv, readFaults > 0, readFaults' = readFaults - 1,
           UNCHANGED <<index, inspectCache, contextCache, readerCache>>
    PROVE  CachesFit' /\ readFaults' \in 0..MaxReadFaults /\ UNCHANGED index
<1>1. CachesFit'
  BY Zenon DEF ReadsInv, CachesFit
<1> QED BY <1>1, ReadConstants DEF ReadsInv

\* A traversal that fails or times out.
LEMMA TraversalFails ==
    ASSUME ReadsInv, NEW c \in GraphCalls, TraverseFails(c)
    PROVE  ReadsInv'
<1> DEFINE a == reading[c]
<1>0. a \in Call /\ CallFits(a, index) /\ a.pc = "traverse"
  BY Started, Zenon DEF TraverseFails, At
<1>1. PICK b \in Call : /\ b = [a EXCEPT !.troubled = TRUE]
                        /\ CallFits(b, index) /\ b.pc = "traverse"
  BY <1>0, TroubledFits
<1>2. PICK timedOut \in BOOLEAN : Moves(c, WithoutNative(b, timedOut))
  BY <1>1, Zenon DEF TraverseFails
<1>3. WithoutNative(b, timedOut) \in Call /\ CallFits(WithoutNative(b, timedOut), index)
  BY <1>1, WithoutNativeFits, Zenon
<1> QED BY <1>2, <1>3, FaultKeeps, CallMoves, Zenon DEF TraverseFails

\* A call goes on without a step that does not matter to what it has read.
LEMMA StepSkipped ==
    ASSUME NEW i, NEW a \in Call, CallFits(a, i), NEW pc,
           \/ a.pc \in {"preflight", "get"} /\ pc = "scopes" /\ a.troubled
           \/ a.pc = "readerPut" /\ pc = "put"
    PROVE  [a EXCEPT !.pc = pc] \in Call /\ CallFits([a EXCEPT !.pc = pc], i)
<1>1. PICK b \in Call : b = [a EXCEPT !.pc = pc]
  BY Zenon DEF Call, Calls, ReadPcs
<1>2. /\ b.pc = pc /\ b.tool = a.tool /\ b.key = a.key /\ b.contextKey = a.contextKey
      /\ b.scopes = a.scopes /\ b.layers = a.layers /\ b.native = a.native
      /\ b.began = a.began /\ b.troubled = a.troubled
  BY <1>1, Zenon DEF Call, Calls
<1>3. ToolFits(b) /\ HealthyFits(b, i)
  BY <1>2, Zenon DEF CallFits, ToolFits, HealthyFits, Compact, Evidence, WithScope
<1>4. /\ b.pc \notin NoKeyYet /\ (b.pc \in NoScopeYet => a.pc \in NoScopeYet)
      /\ (b.pc \in BeforeRows => a.pc \in BeforeRows)
      /\ (b.pc \in WithScope => a.pc \in WithScope) /\ (b.pc \in WithRows => a.pc \in WithRows)
      /\ b.pc \notin {"readerGet", "traverse"} /\ b.pc # "readerPut"
  BY <1>2, Zenon DEF NoKeyYet, NoScopeYet, BeforeRows, WithScope, WithRows
<1>5. CallFits(b, i)
  BY <1>2, <1>3, <1>4, CallAdvances, Zenon
<1> QED BY <1>1, <1>5, Zenon

\* A traversal is cached under what it depends on.
LEMMA TraversalCached ==
    ASSUME ReadsInv, NEW c \in GraphCalls, ReaderPut(c)
    PROVE  ReadsInv'
<1> DEFINE a == reading[c]
           k == GraphReaderCacheKey(a)
<1>0. a \in Call /\ CallFits(a, index) /\ a.pc = "readerPut"
  BY Started, Zenon DEF ReaderPut, At
<1>1. [a EXCEPT !.pc = "put"] \in Call /\ CallFits([a EXCEPT !.pc = "put"], index)
  BY <1>0, StepSkipped, Zenon
<1>2. UNCHANGED <<index, inspectCache, contextCache, readFaults>>
  BY Zenon DEF ReaderPut
<1>3. /\ a.native \in SUBSET Snaps /\ TraversalFits(a.native, k)
      /\ k \in (SUBSET Snaps) \X (SUBSET Snaps)
  BY <1>0, TraversalKey DEF CallFits, NativeFits, TraversalFits, Call, Calls
<1>4. readerCache' = [readerCache EXCEPT ![k] = a.native]
  BY Zenon DEF ReaderPut
<1>5. /\ readerCache' \in [(SUBSET Snaps) \X (SUBSET Snaps) -> SUBSET Snaps]
      /\ \A j \in (SUBSET Snaps) \X (SUBSET Snaps) : TraversalFits(readerCache'[j], j)
  <2> HIDE DEF k, a
  <2> QED BY <1>3, <1>4, Zenon DEF ReadsInv, CachesFit
<1>6. CachesFit'
  BY <1>2, <1>5, Zenon DEF ReadsInv, CachesFit
<1> QED BY <1>1, <1>2, <1>6, CallMoves, Zenon DEF ReaderPut, ReadsInv

\* What a compact call has read may be kept under a key of its own.
LEMMA EntryKept ==
    ASSUME NEW i, NEW a \in Call, CallFits(a, i), Compact(a), NEW k \in Snaps,
           k \in {a.key, a.contextKey}, NEW outcome \in {"none", "ok", "error"},
           NEW b \in Call, b.layers = a.layers, b.native = a.native, b.outcome = outcome
    PROVE  \E e \in Kept : /\ e = Entry(b) /\ e.hit /\ EntryFits(e, k, i)
                           /\ e.layers = a.layers /\ e.outcome = outcome
<1>1. PICK e \in Kept : e = Entry(b)
  BY Zenon DEF Entry, Kept, Call, Calls
<1>2. e.hit /\ e.layers = a.layers /\ e.native = a.native /\ e.outcome = outcome
  BY <1>1, Zenon DEF Entry
<1>3. k # 0
  BY SnapNumbers, Zenon
<1>4. Between(a, k, i.top) /\ k <= i.top /\ OneSnapshot(a)
  BY <1>3 DEF CallFits, KeysFit, CompactFits
<1>5. Between(e, k, i.top) /\ OneSnapshot(e)
  BY <1>2, <1>4, Zenon DEF Between, OneSnapshot
<1> QED BY <1>1, <1>2, <1>4, <1>5, Zenon DEF EntryFits

\* Every answer of a compact inspection is cached, the degraded ones too.
LEMMA InspectionCached ==
    ASSUME ReadsInv, NEW c \in GraphCalls, SetGraphInspection(c)
    PROVE  ReadsInv'
<1> DEFINE a == reading[c]
<1>0. a \in Call /\ CallFits(a, index) /\ a.pc = "put"
  BY Started, Zenon DEF SetGraphInspection, At
<1>1. /\ Compact(a) /\ ~a.troubled /\ a.began # 0 =>
            a.layers # {} /\ index.active = a.began /\ ~index.removing
      /\ Compact(a) /\ a.key # 0 /\ a.key = index.active => a.layers # {}
  BY <1>0, Zenon DEF CallFits, HealthyFits, ServedFits, WithScope, WithRows
<1>2. PICK b \in Call : b = Succeeds(a) /\ CallFits(b, index)
  BY <1>0, <1>1, SucceedsFits, Zenon
<1>3. /\ b.tool = a.tool /\ b.key = a.key /\ b.layers = a.layers /\ b.native = a.native
      /\ b.outcome = "ok"
  BY <1>0, <1>2, Zenon DEF Succeeds, Call, Calls
<1>4. Moves(c, b) /\ UNCHANGED <<index, contextCache, readerCache, readFaults>>
  BY <1>2, Zenon DEF SetGraphInspection
<1>5. CASE Compact(b) /\ b.key # 0
  <2>1. Compact(a) /\ a.key \in Snaps
    <3>1. a.key \in Nat /\ a.key # 0 /\ a.key <= index.top /\ index.top \in Snaps
      BY <1>0, <1>3, <1>5, ScopesAndKeys, Zenon DEF CallFits, KeysFit, Call, Calls
    <3> QED BY <1>3, <1>5, <3>1, ReadConstants DEF Snaps, Compact
  <2>2. PICK e \in Kept : /\ e = Entry(b) /\ e.hit /\ EntryFits(e, a.key, index)
                          /\ e.layers = a.layers
    BY <1>0, <1>3, <2>1, EntryKept
  <2>3. inspectCache' = [inspectCache EXCEPT ![a.key] = e]
    BY <1>2, <1>3, <1>5, <2>2, Zenon DEF SetGraphInspection
  <2>4. InspectFits(e, a.key, index)
    BY <1>1, <2>1, <2>2, SnapNumbers, Zenon DEF InspectFits
  <2>5. /\ inspectCache' \in [Snaps -> Kept \cup {Miss}]
        /\ \A s \in Snaps : InspectFits(inspectCache'[s], s, index)
    BY <2>1, <2>3, <2>4, Zenon DEF ReadsInv, CachesFit
  <2>6. CachesFit'
    BY <1>4, <2>5, Zenon DEF ReadsInv, CachesFit
  <2> QED BY <1>2, <1>4, <2>6, CallMoves, Zenon DEF ReadsInv
<1>6. CASE ~(Compact(b) /\ b.key # 0)
  <2>1. inspectCache' = inspectCache
    BY <1>2, <1>6, Zenon DEF SetGraphInspection
  <2>2. CachesFit'
    BY <1>4, <2>1, Zenon DEF ReadsInv, CachesFit
  <2> QED BY <1>2, <1>4, <2>2, CallMoves, Zenon DEF ReadsInv
<1> QED BY <1>5, <1>6, Zenon

\* codegraph_context joins its layers and keeps only what succeeded.
LEMMA LayersJoined ==
    ASSUME ReadsInv, NEW c \in GraphCalls, JoinLayers(c)
    PROVE  ReadsInv'
<1> DEFINE a == reading[c]
<1>0. a \in Call /\ CallFits(a, index) /\ a.pc = "join"
  BY Started, Zenon DEF JoinLayers, At
<1>1. Compact(a)
  BY <1>0, Zenon DEF CallFits, ToolFits, Compact
<1>2. PICK recall \in {"ok", "failed"} :
        LET call == [a EXCEPT !.pc = "done", !.troubled = @ \/ recall = "failed",
                              !.outcome = IF RequiredLayerFailed(a, recall) THEN "error" ELSE "ok"]
        IN /\ recall = "failed" => readFaults > 0
           /\ contextCache' = IF CachesContext(call)
                              THEN [contextCache EXCEPT ![call.contextKey] = Entry(call)]
                              ELSE contextCache
           /\ Moves(c, call)
           /\ readFaults' = IF recall = "failed" THEN readFaults - 1 ELSE readFaults
           /\ UNCHANGED <<index, inspectCache, readerCache>>
  BY Zenon DEF JoinLayers, CodegraphContextRunLayerTasks
<1>3. PICK t \in BOOLEAN : t = (a.troubled \/ recall = "failed")
  BY Zenon
<1>4. PICK o \in {"ok", "error"} : o = IF RequiredLayerFailed(a, recall) THEN "error" ELSE "ok"
  OBVIOUS
<1>5. PICK b \in Call : b = [a EXCEPT !.pc = "done", !.troubled = t, !.outcome = o]
  BY <1>0, Zenon DEF Call, Calls, ReadPcs
<1>6. /\ b.pc = "done" /\ b.tool = a.tool /\ b.key = a.key /\ b.contextKey = a.contextKey
      /\ b.scopes = a.scopes /\ b.layers = a.layers /\ b.native = a.native
      /\ b.began = a.began /\ b.troubled = t /\ b.outcome = o
  BY <1>0, <1>5, Zenon DEF Call, Calls
<1>7. /\ Moves(c, b) /\ UNCHANGED <<index, inspectCache, readerCache>>
      /\ contextCache' = IF CachesContext(b) THEN [contextCache EXCEPT ![b.contextKey] = Entry(b)]
                         ELSE contextCache
      /\ recall = "failed" => readFaults > 0
      /\ readFaults' = IF recall = "failed" THEN readFaults - 1 ELSE readFaults
  BY <1>2, <1>3, <1>4, <1>5, Zenon
<1>8. readFaults' \in 0..MaxReadFaults
  BY <1>7, ReadConstants DEF ReadsInv
<1>9. HealthyFits(b, index)
  <2>1. ~b.troubled /\ b.began # 0 => a.outcome = "ok" /\ a.layers # {} /\ recall = "ok"
    BY <1>0, <1>1, <1>3, <1>6, Zenon DEF CallFits, HealthyFits
  <2>2. ~b.troubled /\ b.began # 0 => b.outcome = "ok"
    BY <1>4, <1>6, <2>1, Zenon DEF RequiredLayerFailed, LayersHaveASTEvidence
  <2> QED BY <1>6, <2>2, Zenon DEF HealthyFits, WithScope
<1>10. /\ b.pc \notin NoKeyYet /\ b.pc \notin NoScopeYet /\ b.pc \notin BeforeRows
       /\ b.pc \notin WithScope /\ b.pc \notin WithRows /\ b.pc \notin {"readerGet", "traverse"}
       /\ b.pc # "readerPut" /\ ToolFits(b)
  BY <1>6, Zenon DEF NoKeyYet, NoScopeYet, BeforeRows, WithScope, WithRows, ToolFits, Evidence
<1>11. CallFits(b, index)
  BY <1>0, <1>6, <1>9, <1>10, CallAdvances, Zenon
<1>12. CASE CachesContext(b)
  <2>1. a.contextKey \in Snaps /\ o = "ok"
    <3>1. /\ a.contextKey \in Nat /\ a.contextKey # 0 /\ a.contextKey <= index.top
          /\ index.top \in Snaps
      BY <1>0, <1>6, <1>12, ScopesAndKeys, Zenon DEF CallFits, KeysFit, Call, Calls, CachesContext
    <3> QED BY <1>6, <1>12, <3>1, ReadConstants DEF Snaps, CachesContext
  <2>2. PICK e \in Kept : /\ e = Entry(b) /\ e.hit /\ EntryFits(e, a.contextKey, index)
                          /\ e.outcome = "ok"
    BY <1>0, <1>1, <1>6, <2>1, EntryKept
  <2>3. contextCache' = [contextCache EXCEPT ![a.contextKey] = e]
    BY <1>6, <1>7, <1>12, <2>2, Zenon
  <2>4. ContextFits(e, a.contextKey, index)
    BY <2>2, Zenon DEF ContextFits
  <2>5. /\ contextCache' \in [Snaps -> Kept \cup {Miss}]
        /\ \A s \in Snaps : ContextFits(contextCache'[s], s, index)
    BY <2>1, <2>3, <2>4, Zenon DEF ReadsInv, CachesFit
  <2>6. CachesFit'
    BY <1>7, <2>5, Zenon DEF ReadsInv, CachesFit
  <2> QED BY <1>7, <1>8, <1>11, <2>6, CallMoves, Zenon
<1>13. CASE ~CachesContext(b)
  <2>1. CachesFit'
    BY <1>7, <1>13, Zenon DEF ReadsInv, CachesFit
  <2> QED BY <1>7, <1>8, <1>11, <2>1, CallMoves, Zenon
<1> QED BY <1>12, <1>13, Zenon

\* A failing access or statement.
LEMMA AccessFailed ==
    ASSUME ReadsInv, NEW c \in GraphCalls, AccessFails(c)
    PROVE  ReadsInv'
<1> DEFINE a == reading[c]
<1>0. a \in Call /\ CallFits(a, index)
  BY Started, Zenon DEF AccessFails, At, Evidence
<1>1. PICK b \in Call : /\ b = [a EXCEPT !.troubled = TRUE] /\ CallFits(b, index)
                        /\ b.pc = a.pc /\ b.troubled
  BY <1>0, TroubledFits, Zenon
<1>2. CachesFit' /\ readFaults' \in 0..MaxReadFaults /\ UNCHANGED index /\ index.top \in Nat
  BY FaultKeeps, ScopesAndKeys, Zenon DEF AccessFails
<1>3. PICK r : /\ Moves(c, r)
               /\ \/ a.pc \in {"preflight", "get"} /\ r = [b EXCEPT !.pc = "scopes"]
                  \/ a.pc \in {"contextPreflight", "contextGet"} /\ r = CodegraphContextGraphLayers(b)
                  \/ a.pc = "readerGet" /\ r = [b EXCEPT !.pc = "traverse"]
                  \/ a.pc = "readerPut" /\ r = [b EXCEPT !.pc = "put"]
                  \/ a.pc = "put" /\ r = Succeeds(b)
                  \/ r = Fails(b)
  BY <1>1, Zenon DEF AccessFails, At
<1>4. r \in Call /\ CallFits(r, index)
  <2>1. CASE a.pc \in {"preflight", "get"} /\ r = [b EXCEPT !.pc = "scopes"]
    BY <1>1, <2>1, StepSkipped, Zenon
  <2>2. CASE a.pc \in {"contextPreflight", "contextGet"} /\ r = CodegraphContextGraphLayers(b)
    BY <1>1, <2>2, GraphLayerStarts, Zenon
  <2>3. CASE a.pc = "readerGet" /\ r = [b EXCEPT !.pc = "traverse"]
    BY <1>1, <2>3, TraverseStarts, Zenon
  <2>4. CASE a.pc = "readerPut" /\ r = [b EXCEPT !.pc = "put"]
    BY <1>1, <2>4, StepSkipped, Zenon
  <2>5. CASE a.pc = "put" /\ r = Succeeds(b)
    BY <1>1, <2>5, SucceedsFits, Zenon
  <2>6. CASE r = Fails(b)
    BY <1>1, <1>2, <2>6, FailsFits, Zenon
  <2> QED BY <1>3, <2>1, <2>2, <2>3, <2>4, <2>5, <2>6, Zenon
<1> QED BY <1>2, <1>3, <1>4, CallMoves, Zenon

-----------------------------------------------------------------------------
(***************************************************************************)
(* The index moves, and entries expire.                                    *)
(***************************************************************************)

\* A call that is marked or finished fits an index that moved on: its newest
\* snapshot is no older, and the active one is none, the same or a new one.
LEMMA CallOutlivesMove ==
    ASSUME NEW i, NEW j, i.top \in Nat, j.top \in Nat, i.top <= j.top, j.active \in Nat,
           j.active = 0 \/ j.active = i.active \/ j.active > i.top,
           NEW a \in Call, CallFits(a, i), a.pc = "done" \/ a.troubled
    PROVE  CallFits(a, j)
<1>1. /\ \A l \in a.layers : l.snap \in Nat
      /\ \A s \in a.native : s \in Nat
      /\ \A s \in a.scopes : s \in Nat
      /\ a.began \in Nat /\ a.key \in Nat /\ a.contextKey \in Nat
  BY SnapNumbers, Zenon DEF Call, Calls, Rows
<1>2. KeysFit(a, j)
  <2>1. KeysFit(a, i)
    BY Zenon DEF CallFits
  <2>2. ASSUME NEW n \in {a.began, a.key, a.contextKey}
        PROVE  Between(a, n, j.top) /\ \A s \in a.scopes : n <= s /\ s <= j.top
    <3>1. Between(a, n, i.top) /\ \A s \in a.scopes : n <= s /\ s <= i.top
      BY <2>1, Zenon DEF KeysFit
    <3> QED BY <1>1, <3>1 DEF Between
  <2> QED BY <1>1, <2>1, <2>2 DEF KeysFit
<1>3. ServedFits(a, j)
  BY <1>1 DEF CallFits, KeysFit, ServedFits
<1>4. HealthyFits(a, j)
  BY Zenon DEF CallFits, HealthyFits, WithScope
<1> QED BY <1>2, <1>3, <1>4, Zenon DEF CallFits

\* An entry fits it too.
LEMMA EntryOutlivesMove ==
    ASSUME NEW i, NEW j, i.top \in Nat, j.top \in Nat, i.top <= j.top, j.active \in Nat,
           j.active = 0 \/ j.active = i.active \/ j.active > i.top,
           NEW s \in Snaps, NEW e
    PROVE  /\ InspectFits(e, s, i) => InspectFits(e, s, j)
           /\ ContextFits(e, s, i) => ContextFits(e, s, j)
<1>1. EntryFits(e, s, i) => EntryFits(e, s, j)
  <2> SUFFICES ASSUME EntryFits(e, s, i), e \in Kept PROVE EntryFits(e, s, j)
    BY DEF EntryFits, Miss
  <2>1. (\A l \in e.layers : l.snap \in Nat) /\ (\A n \in e.native : n \in Nat) /\ e.hit
    BY SnapNumbers, Zenon DEF Kept, Rows
  <2>2. s <= j.top /\ Between(e, s, j.top)
    BY <2>1, SnapNumbers DEF EntryFits, Between
  <2> QED BY <2>1, <2>2, Zenon DEF EntryFits
<1>2. EntryFits(e, s, i) /\ e.hit /\ s = j.active => s = i.active
  BY SnapNumbers DEF EntryFits
<1> QED BY <1>1, <1>2, Zenon DEF InspectFits, ContextFits

\* So the invariant survives every move of the index.
LEMMA MoveKeeps ==
    ASSUME ReadsInv, IndexMoves, IndexFits(index'), index.top <= index'.top,
           index'.active = 0 \/ index'.active = index.active \/ index'.active > index.top
    PROVE  ReadsInv'
<1>1. /\ index.top \in Nat /\ index'.top \in Nat /\ index'.active \in Nat
  BY SnapNumbers, Zenon DEF ReadsInv, IndexFits, Index
<1>2. CachesFit'
  <2>1. \A s \in Snaps : InspectFits(inspectCache[s], s, index')
    BY <1>1, EntryOutlivesMove, Zenon DEF ReadsInv, CachesFit
  <2>2. \A s \in Snaps : ContextFits(contextCache[s], s, index')
    BY <1>1, EntryOutlivesMove, Zenon DEF ReadsInv, CachesFit
  <2> QED BY <2>1, <2>2, Zenon DEF ReadsInv, CachesFit, IndexMoves
<1>3. ASSUME NEW c \in GraphCalls
      PROVE  /\ reading'[c] \in Call \cup {Idling}
             /\ reading'[c].pc # "idle" => CallFits(reading'[c], index')
  <2>1. CASE reading[c].pc = "idle"
    BY <2>1, Zenon DEF ReadsInv, IndexMoves
  <2>2. CASE reading[c].pc # "idle"
    <3>1. reading[c] \in Call /\ CallFits(reading[c], index)
      BY <2>2, Started, Zenon
    <3>2. CASE reading[c].pc = "done"
      BY <1>1, <3>1, <3>2, CallOutlivesMove, Zenon DEF IndexMoves
    <3>3. CASE reading[c].pc # "done"
      <4>1. PICK b \in Call : /\ b = [reading[c] EXCEPT !.troubled = TRUE]
                              /\ CallFits(b, index) /\ b.pc = reading[c].pc /\ b.troubled
        BY <3>1, TroubledFits, Zenon
      <4>2. reading'[c] = b
        BY <2>2, <3>3, <4>1, Zenon DEF IndexMoves
      <4> QED BY <1>1, <4>1, <4>2, CallOutlivesMove, Zenon
    <3> QED BY <3>2, <3>3, Zenon
  <2> QED BY <2>1, <2>2, Zenon
<1>4. reading' \in [GraphCalls -> Call \cup {Idling}]
  BY <1>3, Zenon DEF IndexMoves
<1> QED BY <1>2, <1>3, <1>4, Zenon DEF ReadsInv, IndexMoves, At

\* A new snapshot is activated, or a ref is removed.
LEMMA IndexMoved ==
    ASSUME ReadsInv, SnapshotActivated \/ RemovalStarts \/ RemovalEnds
    PROVE  ReadsInv'
<1>0. index \in Index /\ IndexFits(index) /\ index.top \in Nat
  BY SnapNumbers, Zenon DEF ReadsInv, IndexFits, Index
<1>1. CASE SnapshotActivated
  <2>1. PICK s \in Snaps : s = index.top + 1
    BY <1>1, Zenon DEF SnapshotActivated
  <2>2. index' = [index EXCEPT !.top = s, !.active = s, !.rows = @ \union {s},
                               !.native = @ \union {s}, !.listed = TRUE]
    BY <1>1, <2>1, Zenon DEF SnapshotActivated
  <2>3. index' \in Index
    BY <1>0, <2>2, SnapNumbers, Zenon DEF Index
  <2>4. /\ index'.top = s /\ index'.active = s /\ s \in index'.rows /\ index'.listed
    BY <1>0, <2>2, Zenon DEF Index
  <2>5. IndexFits(index') /\ index.top <= index'.top /\ index'.active > index.top
    BY <1>0, <2>1, <2>3, <2>4 DEF IndexFits
  <2> QED BY <1>1, <2>5, MoveKeeps, Zenon DEF SnapshotActivated
<1>2. CASE RemovalStarts
  <2>1. index' = [index EXCEPT !.removing = TRUE, !.native = {}]
    BY <1>2, Zenon DEF RemovalStarts
  <2>2. index' \in Index
    BY <1>0, <2>1, Zenon DEF Index
  <2>3. /\ index'.top = index.top /\ index'.active = index.active
        /\ index'.rows = index.rows /\ index'.removing
    BY <1>0, <2>1, Zenon DEF Index
  <2>4. IndexFits(index') /\ index.top <= index'.top
    BY <1>0, <2>2, <2>3 DEF IndexFits
  <2> QED BY <1>2, <2>3, <2>4, MoveKeeps, Zenon DEF RemovalStarts
<1>3. CASE RemovalEnds
  <2>1. PICK z \in Nat : z = 0
    OBVIOUS
  <2>2. index' = [index EXCEPT !.removing = FALSE, !.active = z, !.rows = {}, !.listed = FALSE]
    BY <1>3, <2>1, Zenon DEF RemovalEnds
  <2>3. index' \in Index
    BY <1>0, <2>2, Zenon DEF Index
  <2>4. index'.top = index.top /\ index'.active = z
    BY <1>0, <2>2, Zenon DEF Index
  <2>5. IndexFits(index') /\ index.top <= index'.top /\ index'.active = 0
    BY <1>0, <2>1, <2>3, <2>4 DEF IndexFits
  <2> QED BY <1>3, <2>5, MoveKeeps, Zenon DEF RemovalEnds
<1> QED BY <1>1, <1>2, <1>3, Zenon

\* An entry that expires is a miss.
LEMMA EntryExpired ==
    ASSUME ReadsInv, EntryExpires
    PROVE  ReadsInv'
<1>1. UNCHANGED <<index, reading, readFaults>>
  BY Zenon DEF EntryExpires
<1>2. \A s \in Snaps : InspectFits(Miss, s, index) /\ ContextFits(Miss, s, index)
  BY Zenon DEF InspectFits, ContextFits, EntryFits, Miss
<1>3. CachesFit'
  <2>1. CASE /\ \E s \in Snaps : inspectCache' = [inspectCache EXCEPT ![s] = Miss]
             /\ UNCHANGED <<contextCache, readerCache>>
    BY <1>1, <1>2, <2>1, Zenon DEF ReadsInv, CachesFit
  <2>2. CASE /\ \E s \in Snaps : contextCache' = [contextCache EXCEPT ![s] = Miss]
             /\ UNCHANGED <<inspectCache, readerCache>>
    BY <1>1, <1>2, <2>2, Zenon DEF ReadsInv, CachesFit
  <2>3. CASE /\ \E k \in DOMAIN readerCache : readerCache' = [readerCache EXCEPT ![k] = {}]
             /\ UNCHANGED <<inspectCache, contextCache>>
    <3>1. PICK k \in (SUBSET Snaps) \X (SUBSET Snaps) : readerCache' = [readerCache EXCEPT ![k] = {}]
      BY <2>3, Zenon DEF ReadsInv, CachesFit
    <3>2. \A m \in (SUBSET Snaps) \X (SUBSET Snaps) : TraversalFits({}, m)
      BY Zenon DEF TraversalFits
    <3>3. /\ readerCache' \in [(SUBSET Snaps) \X (SUBSET Snaps) -> SUBSET Snaps]
          /\ \A m \in (SUBSET Snaps) \X (SUBSET Snaps) : TraversalFits(readerCache'[m], m)
      BY <3>1, <3>2, Zenon DEF ReadsInv, CachesFit
    <3> QED BY <1>1, <2>3, <3>3, Zenon DEF ReadsInv, CachesFit
  <2> QED BY <2>1, <2>2, <2>3, Zenon DEF EntryExpires
<1> QED BY <1>1, <1>3, Zenon DEF ReadsInv, At

-----------------------------------------------------------------------------
(***************************************************************************)
(* The theorems.                                                           *)
(***************************************************************************)

\* At the start the first snapshot is active, the caches are empty and no
\* call has begun.
LEMMA ReadsInitFits == ReadsInit => ReadsInv
<1> SUFFICES ASSUME ReadsInit PROVE ReadsInv
  OBVIOUS
<1>1. PICK one \in Snaps : one = 1
  BY ReadConstants DEF Snaps
<1>2. index = [top |-> one, active |-> one, rows |-> {one}, native |-> {one}, listed |-> TRUE,
               removing |-> FALSE]
  BY <1>1, Zenon DEF ReadsInit
<1>3. index \in Index
  BY <1>2, SnapNumbers, Zenon DEF Index
<1>4. IndexFits(index)
  BY <1>2, <1>3, Zenon DEF IndexFits
<1>5. CachesFit
  <2>1. \A s \in Snaps : InspectFits(Miss, s, index) /\ ContextFits(Miss, s, index)
    BY Zenon DEF InspectFits, ContextFits, EntryFits, Miss
  <2>2. \A k \in (SUBSET Snaps) \X (SUBSET Snaps) : TraversalFits({}, k)
    BY Zenon DEF TraversalFits
  <2> QED BY <2>1, <2>2, Zenon DEF ReadsInit, CachesFit
<1>6. readFaults \in 0..MaxReadFaults
  BY ReadConstants DEF ReadsInit
<1> QED BY <1>4, <1>5, <1>6, Zenon DEF ReadsInit, ReadsInv, At, Idling

\* Every step of a call preserves the invariant.
LEMMA CallStepKeeps ==
    ASSUME ReadsInv, NEW c \in GraphCalls, ReadStep(c)
    PROVE  ReadsInv'
<1>1. CASE BeginCall(c) \/ ToolFindSymbolOccurrences(c) \/ Preflight(c) \/ ContextPreflight(c)
  BY <1>1, CallBegins, SymbolsFound, KeyRead, ContextKeyRead, Zenon
<1>2. CASE GetGraphInspection(c) \/ GetCodegraphContext(c) \/ InspectActiveScopes(c)
           \/ InspectOrgCodeGraph(c)
  BY <1>2, InspectionLookedUp, ContextLookedUp, ScopesRead, RowsAreRead, Zenon
<1>3. CASE ReaderGet(c) \/ Traverse(c) \/ TraverseFails(c) \/ ReaderPut(c)
  BY <1>3, TraversalLookedUp, Traverses, TraversalFails, TraversalCached, Zenon
<1>4. CASE SetGraphInspection(c) \/ JoinLayers(c) \/ AccessFails(c)
  BY <1>4, InspectionCached, LayersJoined, AccessFailed, Zenon
<1> QED BY <1>1, <1>2, <1>3, <1>4, Zenon DEF ReadStep

\* The invariant holds throughout every behaviour of the graph tools: what the
\* caches hold under a snapshot's key, and what a call has read, fit that key.
THEOREM ReadsInvHolds == ReadsSpec => []ReadsInv
<1>1. ReadsInv /\ [ReadsNext]_readVars => ReadsInv'
  <2> SUFFICES ASSUME ReadsInv, [ReadsNext]_readVars PROVE ReadsInv'
    OBVIOUS
  <2>1. CASE SnapshotActivated \/ RemovalStarts \/ RemovalEnds
    BY <2>1, IndexMoved, Zenon
  <2>2. CASE EntryExpires
    BY <2>2, EntryExpired, Zenon
  <2>3. CASE \E c \in GraphCalls : ReadStep(c)
    BY <2>3, CallStepKeeps, Zenon
  <2>4. CASE UNCHANGED readVars
    BY <2>4, Zenon DEF readVars, ReadsInv, CachesFit, At
  <2> QED BY <2>1, <2>2, <2>3, <2>4, Zenon DEF ReadsNext
<1> QED BY <1>1, ReadsInitFits, PTL DEF ReadsSpec

\* The caches and the calls have their types: nothing is kept under a snapshot that
\* is not there yet, no call has a key of one, and a kept traversal lies in its scope.
THEOREM ReadTypesHold == ReadsSpec => []ReadsTypeOK
<1>1. ReadsInv => ReadsTypeOK
  <2> SUFFICES ASSUME ReadsInv PROVE ReadsTypeOK
    OBVIOUS
  <2>1. ASSUME NEW s \in Snaps, inspectCache[s].hit \/ contextCache[s].hit PROVE s <= index.top
    BY <2>1, Zenon DEF ReadsInv, CachesFit, InspectFits, ContextFits, EntryFits
  <2>2. \A k \in DOMAIN readerCache : readerCache[k] \subseteq k[1]
    <3>1. DOMAIN readerCache = (SUBSET Snaps) \X (SUBSET Snaps)
      BY Zenon DEF ReadsInv, CachesFit
    <3> QED
      BY <3>1, Zenon DEF ReadsInv, CachesFit, TraversalFits
  <2>3. ASSUME NEW c \in GraphCalls, ~At(c, "idle")
        PROVE  /\ reading[c].key \in 0..index.top /\ reading[c].contextKey \in 0..index.top
               /\ reading[c].native \subseteq Snaps
               /\ reading[c].outcome \in {"none", "ok", "error"}
    <3>1. CallFits(reading[c], index) /\ IndexFits(index)
      BY <2>3, Zenon DEF ReadsInv
    <3>2. reading[c] \in Call /\ index \in Index
      BY <3>1, Zenon DEF CallFits, IndexFits
    <3>3. /\ reading[c].key \in Nat /\ reading[c].contextKey \in Nat
          /\ reading[c].native \subseteq Snaps
          /\ reading[c].outcome \in {"none", "ok", "error"}
          /\ index.top \in Nat
      BY <3>2, SnapNumbers, Zenon DEF Call, Calls, Index
    <3>4. /\ reading[c].key # 0 => reading[c].key <= index.top
          /\ reading[c].contextKey # 0 => reading[c].contextKey <= index.top
      BY <3>1, Zenon DEF CallFits, KeysFit
    <3> QED
      BY <3>3, <3>4
  <2> QED
    BY <2>1, <2>2, <2>3, Zenon DEF ReadsInv, ReadsTypeOK
<1> QED BY <1>1, ReadsInvHolds, PTL

\* No answer of a graph tool, cached or read statement by statement, shows a
\* graph older than the one that was active when the call began.
THEOREM AnswersAreFresh == ReadsSpec => []NeverStale
<1>1. ReadsInv => NeverStale
  <2> SUFFICES ASSUME ReadsInv, NEW c \in AnsweredCalls, NEW s \in GraphSnaps(reading[c])
               PROVE  s >= reading[c].began
    BY Zenon DEF NeverStale
  <2>1. c \in GraphCalls /\ reading[c] \in Call /\ CallFits(reading[c], index)
    BY Started, Zenon DEF AnsweredCalls, At
  <2>2. Between(reading[c], reading[c].began, index.top)
    BY <2>1, Zenon DEF CallFits, KeysFit
  <2>3. s \in reading[c].native \/ \E l \in reading[c].layers : l.layer = "graph" /\ s = l.snap
    BY Zenon DEF GraphSnaps
  <2> QED BY <2>2, <2>3, Zenon DEF Between
<1> QED BY <1>1, ReadsInvHolds, PTL

\* The empty set has no elements.
LEMMA EmptyIsZero == Cardinality({}) = 0
<1> DEFINE Counts(CS) == CS = [T \in SUBSET {} |-> IF T = {} THEN 0 ELSE 1 + CS[T \ {CHOOSE x : x \in T}]]
           zero == [T \in SUBSET {} |-> 0]
<1>1. Counts(zero)
  OBVIOUS
<1>2. Counts(CHOOSE CS : Counts(CS))
  <2> HIDE DEF Counts, zero
  <2> QED
    BY <1>1, Zenon
<1>3. \A CS : Counts(CS) => CS[{}] = 0
  OBVIOUS
<1> HIDE DEF zero
<1>4. Cardinality({}) = (CHOOSE CS : Counts(CS))[{}]
  BY Zenon DEF Cardinality
<1> QED
  BY <1>2, <1>3, <1>4, Zenon

\* A set of one element.
LEMMA SingleIsOne == ASSUME NEW s PROVE Cardinality({s}) = 1
<1> DEFINE Counts(CS) == CS = [T \in SUBSET {s} |-> IF T = {} THEN 0 ELSE 1 + CS[T \ {CHOOSE x : x \in T}]]
           one == [T \in SUBSET {s} |-> IF T = {} THEN 0 ELSE 1]
<1>0. \A T \in SUBSET {s} : T # {} => T = {s}
  OBVIOUS
<1>1. (CHOOSE x : x \in {s}) = s
  OBVIOUS
<1>2. {s} \ {CHOOSE x : x \in {s}} = {}
  BY <1>1, Zenon
<1>3. Counts(one)
  BY <1>0, <1>2
<1>4. Counts(CHOOSE CS : Counts(CS))
  <2> HIDE DEF Counts, one
  <2> QED
    BY <1>3, Zenon
<1>5. ASSUME NEW CS, Counts(CS)
      PROVE  CS[{s}] = 1
  <2>1. CS[{}] = 0
    BY <1>5, Zenon
  <2>2. CS[{s}] = 1 + CS[{s} \ {CHOOSE x : x \in {s}}]
    BY <1>5, Zenon
  <2> QED
    BY <2>1, <2>2, <1>2
<1>6. Cardinality({s}) = (CHOOSE CS : Counts(CS))[{s}]
  BY Zenon DEF Cardinality
<1> QED
  BY <1>4, <1>5, <1>6, Zenon

\* The rows and the native edges of a compact answer are of one snapshot,
\* although separate statements outside any transaction read them while the
\* index moves.
THEOREM CompactAnswersAreOfOneSnapshot == ReadsSpec => []CompactIsOneSnapshot
<1>1. ReadsInv => CompactIsOneSnapshot
  <2> SUFFICES ASSUME ReadsInv, NEW c \in AnsweredCalls, Compact(reading[c])
               PROVE  Cardinality(GraphSnaps(reading[c])) <= 1
    BY Zenon DEF CompactIsOneSnapshot
  <2>1. c \in GraphCalls /\ CallFits(reading[c], index)
    BY Started, Zenon DEF AnsweredCalls, At
  <2>2. OneSnapshot(reading[c])
    BY <2>1, Zenon DEF CallFits, CompactFits
  <2>3. \A s \in GraphSnaps(reading[c]) :
           s \in reading[c].native \/ \E l \in reading[c].layers : s = l.snap
    BY Zenon DEF GraphSnaps
  <2>4. \A s, t \in GraphSnaps(reading[c]) : s = t
    BY <2>2, <2>3, Zenon DEF OneSnapshot
  <2>5. CASE GraphSnaps(reading[c]) = {}
    BY <2>5, EmptyIsZero
  <2>6. CASE GraphSnaps(reading[c]) # {}
    <3>1. PICK s : GraphSnaps(reading[c]) = {s}
      BY <2>4, <2>6, Zenon
    <3>2. Cardinality({s}) = 1
      BY SingleIsOne, Zenon
    <3>3. Cardinality(GraphSnaps(reading[c])) = 1
      BY <3>1, <3>2, Zenon
    <3> QED BY <3>3
  <2> QED BY <2>5, <2>6, Zenon
<1> QED BY <1>1, ReadsInvHolds, PTL

\* A compact call on an indexed repository that meets no trouble of its own is
\* answered, whatever happened to the calls that filled the caches before it.
THEOREM HealthyCallsSucceed == ReadsSpec => []HealthyCallSucceeds
<1>1. ReadsInv => HealthyCallSucceeds
  <2> SUFFICES ASSUME ReadsInv, NEW c \in GraphCalls, At(c, "done"), Compact(reading[c]),
                      Untroubled(c)
               PROVE  reading[c].outcome = "ok"
    BY Zenon DEF HealthyCallSucceeds
  <2>1. CallFits(reading[c], index)
    BY Started, Zenon DEF At
  <2> QED BY <2>1, Zenon DEF CallFits, HealthyFits, Untroubled, At
<1> QED BY <1>1, ReadsInvHolds, PTL

-----------------------------------------------------------------------------
(***************************************************************************)
(* The status of a repository.  What StatusIsTrue rests on, in three       *)
(* parts: the shape of the rows and how far the newest job is (JobInv),    *)
(* how the Repo row, the manifests and the graph rows agree when no        *)
(* removal stands between them (ServedInv), and what a read that met no    *)
(* removal may still rely on of what it has read (ReadInv).                *)
(***************************************************************************)
RemoveSteps == {"removeRows", "removeRepo", "removed"}
ManifestRow == [rev : StatusRevs, run : Nat, status : {"PENDING", "READY"}]
GraphRow == [run : Nat, status : {"PARTIAL", "READY"}, revs : SUBSET StatusRevs, superseded : BOOLEAN]
RunRow == [type : {"INDEX", "REMOVE_INDEX"}, status : Unfinished \cup {"COMPLETED", "FAILED"}]

\* A PENDING job waits for its worker, one in progress is in the steps of its type,
\* and a finished one has at most its column in Repo still to write.
JobInv ==
    /\ runs \in Seq(RunRow)
    /\ runs = <<>> => runStep = "none"
    /\ runs # <<>> =>
          \/ Newest.status \in {"PENDING", "COMPLETED", "FAILED"} /\ runStep = "none"
          \/ Newest.status \in {"COMPLETED", "FAILED"} /\ runStep = "refresh"
          \/ /\ Newest.status = "IN_PROGRESS" /\ Newest.type = "INDEX"
             /\ runStep \in {"plan", "subjobs"}
          \/ /\ Newest.status = "IN_PROGRESS" /\ Newest.type = "REMOVE_INDEX"
             /\ runStep \in RemoveSteps
    /\ latest \in Unfinished \cup {"", "COMPLETED", "FAILED"}
    /\ indexedAt \in BOOLEAN /\ removalFailed \in BOOLEAN
    /\ indexedRevs \subseteq StatusRevs
    /\ manifestRows \subseteq ManifestRow
    /\ graphRows \subseteq GraphRow
    /\ \A m, n \in CurrentManifests(manifestRows) : m.rev = n.rev => m = n
    /\ \A g \in graphRows : g.run <= Len(runs)
    /\ runStep = "subjobs" => \E g \in graphRows : g.run = Len(runs)

PutInv ==
    /\ repoPolicy \in Policies /\ connPolicy \in Policies
    /\ put \in [PutCalls -> [at : {"new", "repo", "done", "failed"}, policy : Policies]]

\* Unless a removal has deleted the rows and not yet cleared, or failed to clear, the
\* Repo row, the revisions it names are those with a READY manifest, each is in a READY
\* graph row, and the Repo row has its time.
ServedInv ==
    /\ indexedRevs # {} => indexedAt
    /\ runStep = "removeRepo" => manifestRows = {}
    /\ runStep # "removeRepo" /\ ~removalFailed =>
          /\ indexedRevs = {m.rev : m \in CurrentManifests(manifestRows)}
          /\ \A v \in indexedRevs : \E g \in graphRows : g.status = "READY" /\ v \in g.revs

Removes == ~AtRest /\ Newest.type = "REMOVE_INDEX"
ViewFields == {"at", "moved", "removing", "policy", "repo", "summary", "branches", "graph",
               "current", "issues"}

\* While a read that met no removal goes on, none is under way and none has failed; what
\* it read of the Repo row is still served, and is all that is served if nothing moved;
\* and its summary is that of the Repo row it read beside some INDEX run.
ReadInv ==
    /\ view = [f \in ViewFields |-> view[f]]
    /\ view.moved \in BOOLEAN /\ view.removing \in BOOLEAN
    /\ view.at \in {"idle", "repo", "jobs", "graphs", "manifests", "done"}
    /\ ~view.removing =>
          /\ view.at \in {"repo", "jobs", "graphs", "manifests"} => ~removalFailed /\ ~Removes
          /\ view.at \in {"jobs", "graphs", "manifests"} =>
                /\ view.repo.revs \subseteq indexedRevs
                /\ ~view.moved => view.repo.revs = indexedRevs
                /\ view.repo.revs # {} => view.repo.indexedAt
          /\ view.at \in {"graphs", "manifests", "done"} =>
                /\ view.summary.revs = GetPolicyVisibleIndexedRevisions(view.repo)
                /\ view.summary.revs # {} => view.summary.status \in {"indexed", "indexing"}
                /\ \A b \in view.branches : b.active = "indexed" => b.status # "failed"
          /\ view.at \in {"manifests", "done"} /\ view.summary.revs # {} =>
                view.graph # {} /\ \A g \in view.graph : IsCurrentGraphSnapshot(g)
          /\ view.at = "done" =>
                /\ view.repo.revs \subseteq view.current
                /\ ~view.moved => view.repo.revs = view.current

StatusInv == JobInv /\ PutInv /\ ServedInv /\ ReadInv

-----------------------------------------------------------------------------
\* Everything holds of a repository without jobs, rows and reads.
LEMMA StatusStarts == StatusInit => StatusInv
<1> SUFFICES ASSUME StatusInit PROVE StatusInv
  OBVIOUS
<1>1. JobInv
  <2>1. runs = <<>>
    BY Zenon DEF StatusInit
  <2>2. runs \in Seq(RunRow)
    BY <2>1
  <2>3. CurrentManifests(manifestRows) = {}
    BY Zenon DEF CurrentManifests, StatusInit
  <2> QED
    BY <2>2, <2>3, Zenon DEF JobInv, StatusInit
<1> USE DEF StatusInit
<1>2. PutInv
  BY StatusConstants, Zenon DEF PutInv
<1>3. ServedInv
  BY Zenon DEF ServedInv, CurrentManifests
<1>4. ReadInv
  BY Zenon DEF ReadInv, NoView, ViewFields
<1> QED
  BY <1>1, <1>2, <1>3, <1>4, Zenon DEF StatusInv

\* Writing the status of the newest job changes nothing else of the rows.
LEMMA RunIsSet ==
    ASSUME JobInv, runs # <<>>, NEW s \in Unfinished \cup {"COMPLETED", "FAILED"}, SetRun(s)
    PROVE  /\ runs' \in Seq(RunRow) /\ runs' # <<>> /\ Len(runs') = Len(runs)
           /\ runs'[Len(runs')].status = s /\ runs'[Len(runs')].type = Newest.type
           /\ Len(runs) \in 1 .. Len(runs) /\ Newest \in RunRow
<1>1. runs \in Seq(RunRow) /\ Len(runs) \in Nat
  <2>1. runs \in Seq(RunRow)
    BY Zenon DEF JobInv
  <2> QED
    BY <2>1
<1>2. Len(runs) \in 1 .. Len(runs) /\ Newest \in RunRow
  BY <1>1 DEF Newest
<1>3. [Newest EXCEPT !.status = s] \in RunRow
  BY <1>2, Zenon DEF RunRow
<1>4. runs' = [runs EXCEPT ![Len(runs)] = [Newest EXCEPT !.status = s]]
  BY Zenon DEF SetRun, Newest
<1>5. runs' \in Seq(RunRow) /\ Len(runs') = Len(runs)
  BY <1>1, <1>2, <1>3, <1>4
<1>6. runs'[Len(runs')] = [Newest EXCEPT !.status = s]
  BY <1>1, <1>2, <1>4, <1>5
<1>7. runs'[Len(runs')].status = s /\ runs'[Len(runs')].type = Newest.type
  BY <1>2, <1>6, Zenon DEF RunRow
<1>8. runs' # <<>>
  BY <1>2, <1>5
<1> QED
  BY <1>2, <1>5, <1>7, <1>8, Zenon

\* A new job comes last, and the others keep their rows.
LEMMA RunIsInserted ==
    ASSUME JobInv, NEW type \in {"INDEX", "REMOVE_INDEX"}, InsertRun(type)
    PROVE  JobInv' /\ ServedInv' = ServedInv
<1>1. runs \in Seq(RunRow) /\ Len(runs) \in Nat
  <2>1. runs \in Seq(RunRow)
    BY Zenon DEF JobInv
  <2> QED
    BY <2>1
<1>2. [type |-> type, status |-> "PENDING"] \in RunRow
  BY Zenon DEF RunRow, Unfinished
<1>3. /\ runs' \in Seq(RunRow) /\ Len(runs') = Len(runs) + 1 /\ runs' # <<>>
      /\ runs'[Len(runs')] = [type |-> type, status |-> "PENDING"]
  BY <1>1, <1>2 DEF InsertRun
<1>4. runStep = "none"
  BY Zenon DEF InsertRun, JobInv, AtRest
<1>5. \A g \in graphRows : g.run <= Len(runs')
  <2>1. ASSUME NEW g \in graphRows PROVE g.run \in Nat /\ g.run <= Len(runs)
    BY Zenon DEF JobInv, GraphRow
  <2> QED
    BY <2>1, <1>1, <1>3
<1>6. JobInv'
  <2>1. runs'[Len(runs')].status = "PENDING" /\ runStep' = "none"
    BY <1>3, <1>4 DEF InsertRun
  <2>2. UNCHANGED <<latest, indexedAt, indexedRevs, manifestRows, graphRows, removalFailed>>
    BY Zenon DEF InsertRun
  <2> QED
    BY <2>1, <2>2, <1>3, <1>5, Zenon DEF JobInv, Newest
<1>7. UNCHANGED <<runStep, indexedAt, indexedRevs, manifestRows, graphRows, removalFailed>>
  BY Zenon DEF InsertRun
<1> QED
  BY <1>6, <1>7, Zenon DEF ServedInv

\* A step that only moves the newest job along: its worker starts, or it ends.
LEMMA RunMoves ==
    ASSUME JobInv, ServedInv, StartRun \/ CompleteRun \/ FailRun \/ RefreshRepoLatestIndexingJobStatus
    PROVE  JobInv' /\ ServedInv'
<1>1. runs # <<>>
  BY Zenon DEF JobInv, StartRun, CompleteRun, FailRun, RefreshRepoLatestIndexingJobStatus
<1>2. UNCHANGED <<indexedAt, indexedRevs, manifestRows, graphRows>>
  BY Zenon DEF StartRun, CompleteRun, FailRun, RefreshRepoLatestIndexingJobStatus
<1>3. CASE StartRun
  <2>1. SetRun("IN_PROGRESS") /\ Newest.status = "PENDING" /\ runStep = "none"
    BY <1>3, <1>1, Zenon DEF StartRun, JobInv
  <2>2. /\ runs' \in Seq(RunRow) /\ runs' # <<>> /\ Len(runs') = Len(runs)
        /\ runs'[Len(runs')].status = "IN_PROGRESS" /\ runs'[Len(runs')].type = Newest.type
        /\ Newest.type \in {"INDEX", "REMOVE_INDEX"}
    BY <2>1, <1>1, RunIsSet, Zenon DEF Unfinished, RunRow
  <2>3. runStep' = IF Newest.type = "INDEX" THEN "plan" ELSE "removeRows"
    BY <1>3, Zenon DEF StartRun, StepTo
  <2>4. JobInv'
    BY <2>2, <2>3, <1>2, <1>3, Zenon DEF JobInv, StartRun, Newest, RemoveSteps
  <2> QED
    BY <2>3, <2>4, <2>1, <1>2, <1>3 DEF ServedInv, StartRun
<1>4. CASE CompleteRun
  <2>1. SetRun("COMPLETED") /\ runStep' = "refresh" /\ runStep \in {"subjobs", "removed"}
    BY <1>4, Zenon DEF CompleteRun, StepTo
  <2>2. /\ runs' \in Seq(RunRow) /\ runs' # <<>> /\ Len(runs') = Len(runs)
        /\ runs'[Len(runs')].status = "COMPLETED"
    BY <2>1, <1>1, RunIsSet, Zenon
  <2>3. JobInv'
    BY <2>1, <2>2, <1>2, <1>4, Zenon DEF JobInv, CompleteRun, Newest
  <2> QED
    BY <2>1, <2>3, <1>2, <1>4 DEF ServedInv, CompleteRun
<1>5. CASE FailRun
  <2>1. SetRun("FAILED") /\ runStep' = "refresh"
    BY <1>5, Zenon DEF FailRun, StepTo
  <2>2. /\ runs' \in Seq(RunRow) /\ runs' # <<>> /\ Len(runs') = Len(runs)
        /\ runs'[Len(runs')].status = "FAILED"
    BY <2>1, <1>1, RunIsSet, Zenon
  <2>3. removalFailed' = (removalFailed \/ runStep = "removeRepo") /\ latest' = latest
    BY <1>5, Zenon DEF FailRun
  <2>4. JobInv'
    BY <2>1, <2>2, <2>3, <1>2, Zenon DEF JobInv, Newest
  <2> QED
    BY <2>1, <2>3, <2>4, <1>2, Zenon DEF ServedInv
<1>6. CASE RefreshRepoLatestIndexingJobStatus
  <2>1. runStep = "refresh" /\ runStep' = "none" /\ latest' = Newest.status /\ UNCHANGED <<runs, removalFailed>>
    BY <1>6, Zenon DEF RefreshRepoLatestIndexingJobStatus, StepTo
  <2>2. Newest.status \in {"COMPLETED", "FAILED"}
    BY <2>1, <1>1, Zenon DEF JobInv, RemoveSteps
  <2>3. JobInv'
    BY <2>1, <2>2, <1>1, <1>2, Zenon DEF JobInv, Newest
  <2> QED
    BY <2>1, <2>3, <1>2, Zenon DEF ServedInv
<1> QED
  BY <1>3, <1>4, <1>5, <1>6, Zenon

\* The plan adds manifests that wait and the run's graph row, and serves nothing yet.
LEMMA RunIsPlanned ==
    ASSUME JobInv, ServedInv, PlanRun
    PROVE  JobInv' /\ ServedInv'
<1> DEFINE allowed == {x \in StatusRevs : IsRevisionAllowedByIndexPolicy([policy |-> repoPolicy], x)}
           planned == {[rev |-> v, run |-> Len(runs), status |-> "PENDING"] : v \in allowed}
           row == [run |-> Len(runs), status |-> "PARTIAL", revs |-> {}, superseded |-> FALSE]
<1>1. /\ runStep = "plan" /\ runStep' = "subjobs" /\ latest' = Newest.status
      /\ manifestRows' = manifestRows \cup planned /\ graphRows' = graphRows \cup {row}
      /\ UNCHANGED <<runs, indexedAt, indexedRevs, removalFailed>>
  BY Zenon DEF PlanRun, StepTo
<1>2. runs # <<>> /\ Newest.status = "IN_PROGRESS" /\ Newest.type = "INDEX"
  BY <1>1, Zenon DEF JobInv, RemoveSteps
<1>3. Len(runs) \in Nat
  <2>1. runs \in Seq(RunRow)
    BY Zenon DEF JobInv
  <2> QED
    BY <2>1
<1>4. planned \subseteq ManifestRow /\ \A m \in planned : m.status = "PENDING"
  BY <1>3 DEF ManifestRow
<1>5. row \in GraphRow /\ row.run = Len(runs)
  BY <1>3, Zenon DEF GraphRow
<1>6. CurrentManifests(manifestRows') = CurrentManifests(manifestRows)
  <2> HIDE DEF planned
  <2> QED
    BY <1>1, <1>4, Zenon DEF CurrentManifests
<1> HIDE DEF planned, row
<1>7. JobInv'
  <2>1. manifestRows' \subseteq ManifestRow /\ graphRows' \subseteq GraphRow
    BY <1>1, <1>4, <1>5, Zenon DEF JobInv
  <2>2. \A g \in graphRows : g.run <= Len(runs)
    BY Zenon DEF JobInv
  <2>3. \A g \in graphRows' : g.run <= Len(runs)
    BY <2>2, <1>1, <1>3, <1>5
  <2>4. \E g \in graphRows' : g.run = Len(runs)
    BY <1>1, <1>5, Zenon
  <2> QED
    BY <1>1, <1>2, <1>6, <2>1, <2>3, <2>4, Zenon DEF JobInv, Newest, Unfinished
<1>8. ServedInv'
  BY <1>1, <1>6, Zenon DEF ServedInv
<1> QED
  BY <1>7, <1>8, Zenon

\* What the transaction of activate does to one graph row.
Superseded(g, v) == [g EXCEPT !.revs = @ \ {v}, !.superseded = @ \/ g.revs \subseteq {v}]
Gains(g, v) == [g EXCEPT !.status = "READY", !.revs = @ \cup {v}]

LEMMA GraphRowStep ==
    ASSUME NEW g \in GraphRow, NEW v \in StatusRevs
    PROVE  /\ Gains(g, v) \in GraphRow /\ Superseded(g, v) \in GraphRow
           /\ Gains(g, v).run = g.run /\ Gains(g, v).status = "READY"
           /\ Gains(g, v).revs = g.revs \cup {v}
           /\ Superseded(g, v).run = g.run /\ Superseded(g, v).status = g.status
           /\ Superseded(g, v).revs = g.revs \ {v}
<1>1. g.revs \in SUBSET StatusRevs /\ g.superseded \in BOOLEAN
  BY Zenon DEF GraphRow
<1>2. Gains(g, v) \in GraphRow
  BY <1>1, Zenon DEF GraphRow, Gains
<1>3. (g.superseded \/ g.revs \subseteq {v}) \in BOOLEAN
  OBVIOUS
<1>4. Superseded(g, v) \in GraphRow
  BY <1>1, <1>3, Zenon DEF GraphRow, Superseded
<1>5. /\ Gains(g, v).run = g.run /\ Gains(g, v).status = "READY"
      /\ Gains(g, v).revs = g.revs \cup {v}
  BY Zenon DEF GraphRow, Gains
<1>6. /\ Superseded(g, v).run = g.run /\ Superseded(g, v).status = g.status
      /\ Superseded(g, v).revs = g.revs \ {v}
  BY Zenon DEF GraphRow, Superseded
<1> QED
  BY <1>2, <1>4, <1>5, <1>6, Zenon

\* An activation serves its revision from the run's graph row and takes it from the
\* others, which go on serving theirs.
LEMMA RevIsActivated ==
    ASSUME JobInv, ServedInv, ActivateRev
    PROVE  JobInv' /\ ServedInv'
<1>1. PICK m \in manifestRows :
          /\ m.run = Len(runs) /\ m.status = "PENDING"
          /\ manifestRows' = {n \in manifestRows : n.rev # m.rev} \cup {[m EXCEPT !.status = "READY"]}
          /\ graphRows' = {IF g.run = Len(runs) THEN Gains(g, m.rev) ELSE Superseded(g, m.rev)
                           : g \in graphRows}
          /\ indexedRevs' = indexedRevs \cup {m.rev}
  BY Zenon DEF ActivateRev, Gains, Superseded
<1>2. /\ runStep = "subjobs" /\ indexedAt' = TRUE
      /\ UNCHANGED <<runs, runStep, latest, removalFailed>>
  BY Zenon DEF ActivateRev
<1> DEFINE ready == [m EXCEPT !.status = "READY"]
           moved(g) == IF g.run = Len(runs) THEN Gains(g, m.rev) ELSE Superseded(g, m.rev)
<1>3. /\ m \in ManifestRow /\ m.rev \in StatusRevs
      /\ ready \in ManifestRow /\ ready.rev = m.rev /\ ready.status = "READY"
  <2>1. m \in ManifestRow
    BY Zenon DEF JobInv
  <2> QED
    BY <2>1, Zenon DEF ManifestRow
<1> HIDE DEF ready
<1>4. manifestRows' = {n \in manifestRows : n.rev # m.rev} \cup {ready}
  BY <1>1, Zenon DEF ready
<1>5. CurrentManifests(manifestRows') = {n \in CurrentManifests(manifestRows) : n.rev # m.rev} \cup {ready}
  BY <1>3, <1>4, Zenon DEF CurrentManifests
<1>6. \A g \in graphRows : g \in GraphRow
  BY Zenon DEF JobInv
<1>7. \A g \in graphRows : moved(g) \in graphRows' /\ moved(g) \in GraphRow /\ moved(g).run = g.run
  BY <1>1, <1>3, <1>6, GraphRowStep
<1>8. \A h \in graphRows' : \E g \in graphRows : h = moved(g)
  BY <1>1, Zenon
<1>9. PICK own \in graphRows : own.run = Len(runs)
  BY <1>2, Zenon DEF JobInv
<1>10. JobInv'
  <2>1. manifestRows' \subseteq ManifestRow
    BY <1>3, <1>4, Zenon DEF JobInv
  <2>2. graphRows' \subseteq GraphRow
    BY <1>7, <1>8, Zenon
  <2>3. \A g \in graphRows' : g.run <= Len(runs)
    BY <1>7, <1>8, Zenon DEF JobInv
  <2>4. \E g \in graphRows' : g.run = Len(runs)
    BY <1>7, <1>9, Zenon
  <2>5. \A n, o \in CurrentManifests(manifestRows') : n.rev = o.rev => n = o
    BY <1>3, <1>5, Zenon DEF JobInv
  <2>6. indexedRevs' \subseteq StatusRevs
    BY <1>1, <1>3, Zenon DEF JobInv
  <2> HIDE DEF moved
  <2> QED
    BY <1>2, <2>1, <2>2, <2>3, <2>4, <2>5, <2>6, Zenon DEF JobInv, Newest
<1>11. ServedInv'
  <2>1. SUFFICES ASSUME ~removalFailed
                 PROVE  /\ indexedRevs' = {n.rev : n \in CurrentManifests(manifestRows')}
                        /\ \A v \in indexedRevs' : \E h \in graphRows' : h.status = "READY" /\ v \in h.revs
    BY <1>2, Zenon DEF ServedInv
  <2>2. /\ indexedRevs = {n.rev : n \in CurrentManifests(manifestRows)}
        /\ \A v \in indexedRevs : \E g \in graphRows : g.status = "READY" /\ v \in g.revs
    BY <2>1, <1>2, Zenon DEF ServedInv
  <2>3. indexedRevs' = {n.rev : n \in CurrentManifests(manifestRows')}
    BY <2>2, <1>1, <1>3, <1>5, Zenon
  <2>4. moved(own) \in graphRows' /\ moved(own).status = "READY" /\ m.rev \in moved(own).revs
    BY <1>3, <1>6, <1>7, <1>9, GraphRowStep
  <2>5. ASSUME NEW v \in indexedRevs, v # m.rev
        PROVE  \E h \in graphRows' : h.status = "READY" /\ v \in h.revs
    <3>1. PICK g \in graphRows : g.status = "READY" /\ v \in g.revs
      BY <2>2, Zenon
    <3>2. /\ Gains(g, m.rev).status = "READY" /\ v \in Gains(g, m.rev).revs
          /\ Superseded(g, m.rev).status = "READY" /\ v \in Superseded(g, m.rev).revs
      <4>1. g \in GraphRow /\ m.rev \in StatusRevs
        BY <1>3, <1>6, Zenon
      <4>2. /\ Gains(g, m.rev).status = "READY" /\ Gains(g, m.rev).revs = g.revs \cup {m.rev}
            /\ Superseded(g, m.rev).status = g.status /\ Superseded(g, m.rev).revs = g.revs \ {m.rev}
        BY <4>1, GraphRowStep, ZenonT(60)
      <4> QED
        BY <3>1, <2>5, <4>2, Zenon
    <3>3. moved(g).status = "READY" /\ v \in moved(g).revs
      BY <3>2, Zenon
    <3> HIDE DEF moved
    <3> QED
      BY <3>3, <1>7, Zenon
  <2> HIDE DEF moved
  <2>6. \A v \in indexedRevs' : \E h \in graphRows' : h.status = "READY" /\ v \in h.revs
    BY <1>1, <2>4, <2>5, Zenon
  <2> QED
    BY <2>3, <2>6, Zenon
<1> QED
  BY <1>10, <1>11, Zenon

\* A removal deletes the rows while the Repo row is left out of ServedInv, and clears
\* the Repo row when it comes back under it.
LEMMA IndexIsRemoved ==
    ASSUME JobInv, ServedInv, RemoveRows \/ RemoveFromRepo
    PROVE  JobInv' /\ ServedInv'
<1>1. CASE RemoveRows
  <2>1. /\ runStep = "removeRows" /\ runStep' = "removeRepo" /\ manifestRows' = {} /\ graphRows' = {}
        /\ UNCHANGED <<runs, latest, indexedAt, indexedRevs, removalFailed>>
    BY <1>1, Zenon DEF RemoveRows, StepTo
  <2>2. CurrentManifests(manifestRows') = {}
    BY <2>1, Zenon DEF CurrentManifests
  <2>3. JobInv'
    BY <2>1, <2>2, Zenon DEF JobInv, Newest, RemoveSteps
  <2> QED
    BY <2>1, <2>3, Zenon DEF ServedInv
<1>2. CASE RemoveFromRepo
  <2>1. /\ runStep = "removeRepo" /\ runStep' = "removed" /\ indexedAt' = FALSE /\ indexedRevs' = {}
        /\ latest' = "" /\ removalFailed' = FALSE
        /\ UNCHANGED <<runs, manifestRows, graphRows>>
    BY <1>2, Zenon DEF RemoveFromRepo, StepTo
  <2>2. JobInv'
    BY <2>1, Zenon DEF JobInv, Newest, RemoveSteps
  <2>3. CurrentManifests(manifestRows') = {}
    BY <2>1, Zenon DEF ServedInv, CurrentManifests
  <2> QED
    BY <2>1, <2>2, <2>3, Zenon DEF ServedInv
<1> QED
  BY <1>1, <1>2, Zenon

\* A PUT writes the two policies one after the other and no job row.
LEMMA PolicyIsPut ==
    ASSUME PutInv, NEW c \in PutCalls,
           PutConnection(c) \/ UpdateOrgRepoBranchPolicyMetadata(c) \/ UpdateMetadataFails(c)
    PROVE  PutInv' /\ UNCHANGED jobVars /\ view' = Noticed(view)
<1> DEFINE PutRow == [at : {"new", "repo", "done", "failed"}, policy : Policies]
<1>1. put[c] \in PutRow /\ put[c].policy \in Policies
  BY Zenon DEF PutInv
<1>2. CASE PutConnection(c)
  <2>1. PICK p \in Policies : /\ put' = [put EXCEPT ![c] = [at |-> "repo", policy |-> p]]
                              /\ connPolicy' = p
    BY <1>2, Zenon DEF PutConnection
  <2>2. [at |-> "repo", policy |-> p] \in PutRow
    OBVIOUS
  <2>3. put' \in [PutCalls -> PutRow]
    BY <2>1, <2>2, Zenon DEF PutInv
  <2> QED
    BY <2>1, <2>3, <1>2, Zenon DEF PutInv, PutConnection
<1>3. CASE UpdateOrgRepoBranchPolicyMetadata(c) \/ UpdateMetadataFails(c)
  <2>1. PICK at \in {"done", "failed"} : put' = [put EXCEPT ![c].at = at]
    BY <1>3, Zenon DEF UpdateOrgRepoBranchPolicyMetadata, UpdateMetadataFails
  <2>2. [put[c] EXCEPT !.at = at] \in PutRow
    BY <1>1, Zenon
  <2>3. put' \in [PutCalls -> PutRow]
    BY <2>1, <2>2, Zenon DEF PutInv
  <2>4. repoPolicy' \in Policies /\ connPolicy' \in Policies
    BY <1>1, <1>3, Zenon DEF PutInv, UpdateOrgRepoBranchPolicyMetadata, UpdateMetadataFails
  <2> QED
    BY <2>3, <2>4, <1>3, Zenon DEF PutInv, UpdateOrgRepoBranchPolicyMetadata, UpdateMetadataFails
<1> QED
  BY <1>2, <1>3, Zenon

\* Whether the newest job is a removal.
LatestRemoves == runs # <<>> /\ Newest.type = "REMOVE_INDEX"

\* Any step under a read keeps the rows right; unless the newest job is a removal
\* afterwards, it takes no revision from the Repo row and fails no removal.
LEMMA WorldMoves ==
    ASSUME JobInv, PutInv, ServedInv, WorldStep
    PROVE  /\ JobInv' /\ PutInv' /\ ServedInv'
           /\ view' = Noticed(view)
           /\ ~LatestRemoves' => indexedRevs \subseteq indexedRevs' /\ removalFailed' = removalFailed
<1>1. ASSUME NEW type \in {"INDEX", "REMOVE_INDEX"}, InsertRun(type)
      PROVE  /\ JobInv' /\ ServedInv' /\ UNCHANGED <<policyVars, indexedRevs, removalFailed>>
             /\ view' = Noticed(view)
  BY <1>1, RunIsInserted, Zenon DEF InsertRun
<1>2. CASE StartRun \/ CompleteRun \/ RefreshRepoLatestIndexingJobStatus
  <2>1. /\ UNCHANGED <<policyVars, indexedRevs, removalFailed>> /\ view' = Noticed(view)
    BY <1>2, Zenon DEF StartRun, CompleteRun, RefreshRepoLatestIndexingJobStatus
  <2>2. JobInv' /\ ServedInv'
    BY <1>2, RunMoves, Zenon
  <2> QED
    BY <2>1, <2>2, Zenon DEF policyVars, PutInv
<1>3. CASE FailRun
  <2>1. /\ UNCHANGED <<policyVars, indexedRevs>> /\ view' = Noticed(view)
        /\ removalFailed' = (removalFailed \/ runStep = "removeRepo")
    BY <1>3, Zenon DEF FailRun
  <2>2. JobInv' /\ ServedInv'
    BY <1>3, RunMoves, Zenon
  <2>3. ASSUME runStep = "removeRepo" PROVE LatestRemoves'
    <3>1. runs # <<>> /\ Newest.type = "REMOVE_INDEX" /\ SetRun("FAILED")
      BY <1>3, <2>3, Zenon DEF JobInv, FailRun
    <3>2. runs' # <<>> /\ runs'[Len(runs')].type = "REMOVE_INDEX"
      BY <3>1, RunIsSet, Zenon
    <3> QED
      BY <3>2, Zenon DEF LatestRemoves, Newest
  <2>4. removalFailed \in BOOLEAN
    BY Zenon DEF JobInv
  <2> QED
    BY <2>1, <2>2, <2>3, <2>4, Zenon DEF policyVars, PutInv
<1>4. CASE PlanRun
  <2>1. UNCHANGED <<policyVars, indexedRevs, removalFailed>> /\ view' = Noticed(view)
    BY <1>4, Zenon DEF PlanRun
  <2> QED
    BY <1>4, <2>1, RunIsPlanned, Zenon DEF policyVars, PutInv
<1>5. CASE ActivateRev
  <2>1. /\ UNCHANGED <<policyVars, removalFailed>> /\ view' = Noticed(view)
        /\ indexedRevs \subseteq indexedRevs'
    BY <1>5, Zenon DEF ActivateRev
  <2> QED
    BY <1>5, <2>1, RevIsActivated, Zenon DEF policyVars, PutInv
<1>6. CASE RemoveRows \/ RemoveFromRepo
  <2>1. UNCHANGED <<policyVars, runs>> /\ view' = Noticed(view) /\ runStep \in RemoveSteps
    BY <1>6, Zenon DEF RemoveRows, RemoveFromRepo, RemoveSteps
  <2>2. LatestRemoves'
    BY <2>1, Zenon DEF JobInv, LatestRemoves, Newest, RemoveSteps
  <2> QED
    BY <1>6, <2>1, <2>2, IndexIsRemoved, Zenon DEF policyVars, PutInv
<1>7. ASSUME NEW c \in PutCalls,
             PutConnection(c) \/ UpdateOrgRepoBranchPolicyMetadata(c) \/ UpdateMetadataFails(c)
      PROVE  PutInv' /\ UNCHANGED jobVars /\ view' = Noticed(view)
  BY <1>7, PolicyIsPut, ZenonT(60)
<1>8. CASE UNCHANGED jobVars /\ PutInv' /\ view' = Noticed(view)
  BY <1>8, ZenonT(60) DEF JobInv, ServedInv, jobVars, Newest
<1>9. CASE \E type \in {"INDEX", "REMOVE_INDEX"} : InsertRun(type)
  BY <1>9, <1>1, Zenon DEF policyVars, PutInv
<1>10. CASE \E c \in PutCalls : PutConnection(c) \/ UpdateOrgRepoBranchPolicyMetadata(c)
                               \/ UpdateMetadataFails(c)
  BY <1>10, <1>7, <1>8, Zenon
<1> QED
  BY <1>2, <1>3, <1>4, <1>5, <1>6, <1>9, <1>10, Zenon DEF WorldStep

-----------------------------------------------------------------------------
\* A read goes on under a step of the jobs or of a PUT.
LEMMA ReadIsNoticed ==
    ASSUME ReadInv, JobInv, PutInv, ServedInv, WorldStep
    PROVE  ReadInv'
<1> DEFINE L == runs' # <<>> /\ runs'[Len(runs')].type = "REMOVE_INDEX"
<1>1. /\ view' = Noticed(view)
      /\ ~L => indexedRevs \subseteq indexedRevs' /\ removalFailed' = removalFailed
  BY WorldMoves, Zenon DEF LatestRemoves, Newest
<1>2. CASE view.at \in {"idle", "done"}
  <2>1. view' = view
    BY <1>1, <1>2, Zenon DEF Noticed
  <2> QED
    BY <2>1, <1>2, Zenon DEF ReadInv
<1>3. CASE view.at \notin {"idle", "done"}
  <2>1. view' = [view EXCEPT !.moved = TRUE, !.removing = view.removing \/ L]
    BY <1>1, <1>3, Zenon DEF Noticed
  <2>2. view = [f \in ViewFields |-> view[f]]
    BY Zenon DEF ReadInv
  <2>3. /\ view' = [f \in ViewFields |-> view'[f]]
        /\ view'.moved = TRUE /\ view'.removing = (view.removing \/ L)
        /\ view'.at = view.at /\ view'.repo = view.repo /\ view'.summary = view.summary
        /\ view'.branches = view.branches /\ view'.graph = view.graph
        /\ view'.current = view.current
    BY <2>1, <2>2, Zenon DEF ViewFields
  <2>4. ASSUME ~L PROVE ~Removes'
    BY <2>4, Zenon DEF Removes, AtRest, Newest
  <2>5. view'.removing \in BOOLEAN /\ (~view'.removing => ~view.removing /\ ~L)
    BY <2>3, Zenon DEF ReadInv
  <2> HIDE DEF L
  <2>6. view'.at \in {"repo", "jobs", "graphs", "manifests"} /\ view'.moved \in BOOLEAN
    BY <1>3, <2>3, Zenon DEF ReadInv
  <2>7. CASE view'.removing
    BY <2>3, <2>5, <2>6, <2>7, Zenon DEF ReadInv
  <2>8. CASE ~view'.removing
    <3>1. ~removalFailed' /\ ~Removes'
      BY <2>4, <2>5, <2>6, <2>3, <2>8, <1>1 DEF ReadInv
    <3>2. view.at \in {"jobs", "graphs", "manifests"} =>
              /\ view.repo.revs \subseteq indexedRevs'
              /\ view.repo.revs # {} => view.repo.indexedAt
      BY <2>5, <2>8, <1>1, Zenon DEF ReadInv
    <3>3. view.at \in {"graphs", "manifests"} =>
              /\ view.summary.revs = GetPolicyVisibleIndexedRevisions(view.repo)
              /\ view.summary.revs # {} => view.summary.status \in {"indexed", "indexing"}
              /\ \A b \in view.branches : b.active = "indexed" => b.status # "failed"
      BY <2>5, <2>8, Zenon DEF ReadInv
    <3>4. view.at = "manifests" /\ view.summary.revs # {} =>
              view.graph # {} /\ \A g \in view.graph : IsCurrentGraphSnapshot(g)
      BY <2>5, <2>8, Zenon DEF ReadInv
    <3> QED
      BY <2>3, <2>5, <2>6, <3>1, <3>2, <3>3, <3>4, ZenonT(60) DEF ReadInv
  <2> QED
    BY <2>7, <2>8, Zenon
<1> QED
  BY <1>2, <1>3, Zenon

\* The summary of a Repo row that has a time if it has revisions, beside jobs of which
\* the newest is no removal: a served revision makes it "indexed" or "indexing".
LEMMA SummaryOfIndexed ==
    ASSUME NEW r, NEW jobs \in Seq(RunRow),
           r.revs # {} => r.indexedAt,
           jobs # <<>> => ~(jobs[Len(jobs)].status \in Unfinished /\ jobs[Len(jobs)].type = "REMOVE_INDEX")
    PROVE  LET summary == BuildRepoIndexSummary(r, jobs) IN
              /\ summary.revs = GetPolicyVisibleIndexedRevisions(r)
              /\ summary.revs # {} => summary.status \in {"indexed", "indexing"}
<1> DEFINE revs == GetPolicyVisibleIndexedRevisions(r)
           active == IF r.indexedAt /\ revs # {} THEN "indexed" ELSE "not_indexed"
           run == GetLatestRunState(r, jobs)
<1>1. run \in {"indexing", "failed", "completed", "none"}
  BY Zenon DEF GetLatestRunState
<1>2. revs # {} => active = "indexed"
  BY Zenon DEF GetPolicyVisibleIndexedRevisions
<1>3. active = "indexed" => ResolveVisibleStatus(active, run) \in {"indexed", "indexing"}
  <2> HIDE DEF run, active
  <2> QED
    BY <1>1, Zenon DEF ResolveVisibleStatus
<1>4. /\ BuildRepoIndexSummary(r, jobs).revs = revs
      /\ BuildRepoIndexSummary(r, jobs).status = ResolveVisibleStatus(active, run)
  BY Zenon DEF BuildRepoIndexSummary
<1> HIDE DEF revs, active, run
<1>5. revs = GetPolicyVisibleIndexedRevisions(r)
  BY Zenon DEF revs
<1> QED
  BY <1>2, <1>3, <1>4, <1>5, Zenon

\* A branch that is served is never shown as failed.
LEMMA BranchOfIndexed ==
    ASSUME NEW r, NEW jobs, NEW b \in BuildKnownBranchIndexStatuses(r, jobs), b.active = "indexed"
    PROVE  b.status # "failed"
<1>1. PICK name : b = BuildBranchIndexStatus(r, jobs, name)
  BY Zenon DEF BuildKnownBranchIndexStatuses
<1>2. b.status = ResolveVisibleStatus(b.active, GetLatestRunState(r, jobs))
  BY <1>1, Zenon DEF BuildBranchIndexStatus
<1> QED
  BY <1>2, Zenon DEF ResolveVisibleStatus

\* That a set of naturals has a least member.
LOCAL INSTANCE WellFoundedInduction

Below == {p \in Nat \X Nat : p[1] < p[2]}

\* A nonempty set of naturals has a least member.
LEMMA LeastMember ==
    ASSUME NEW P \in SUBSET Nat, P # {}
    PROVE  \E x \in P : \A y \in P : x <= y
<1>1. IsWellFoundedOn(Below, Nat)
  BY NatLessThanWellFounded, Zenon DEF OpToRel, Below
<1>2. PICK x \in P : \A y \in P : ~(<<y, x>> \in Below)
  BY <1>1, WFMin, Zenon
<1>3. ASSUME NEW y \in P PROVE x <= y
  <2>1. x \in Nat /\ y \in Nat /\ <<y, x>> \notin Below
    BY <1>2, Zenon
  <2> QED
    BY <2>1 DEF Below
<1> QED
  BY <1>3, Zenon

\* What SelectCurrentCodeGraphIndex picks: the comparison has a first row among the
\* rows of runs up to some bound, so the pick is one; and no current row comes after
\* one that is not, so it is current when any is.
LEMMA SelectionIsCurrent ==
    ASSUME NEW G \in SUBSET GraphRow, NEW k \in Nat, \A g \in G : g.run <= k,
           NEW c \in G, IsCurrentGraphSnapshot(c)
    PROVE  /\ SelectCurrentCodeGraphIndex(G) # {}
           /\ \A g \in SelectCurrentCodeGraphIndex(G) : IsCurrentGraphSnapshot(g)
<1> DEFINE C == {g \in G : IsCurrentGraphSnapshot(g)}
           U == IF \E g \in C : ~g.superseded THEN {g \in C : ~g.superseded} ELSE C
           Ages == {k - g.run : g \in U}
           IsFirst(g) == \A h \in G \ {g} : ~CompareCodeGraphIndexForCurrent(h, g)
<1>1. U # {} /\ U \subseteq C /\ U \subseteq G
  OBVIOUS
<1>2. Ages \in SUBSET Nat /\ Ages # {}
  <2>1. ASSUME NEW g \in U PROVE k - g.run \in Nat
    <3>1. g.run \in Nat /\ g.run <= k
      BY <1>1, Zenon DEF GraphRow
    <3> QED
      BY <3>1
  <2> QED
    BY <2>1, <1>1, Zenon
<1>3. PICK a \in Ages : \A b \in Ages : a <= b
  <2> HIDE DEF Ages
  <2> QED
    BY <1>2, LeastMember, Zenon
<1>4. PICK x \in U : a = k - x.run
  OBVIOUS
<1>5. ASSUME NEW h \in G \ {x} PROVE ~CompareCodeGraphIndexForCurrent(h, x)
  <2>1. x \in C /\ x \in G /\ x.run \in Nat /\ h.run \in Nat
    BY <1>1, <1>4, Zenon DEF GraphRow
  <2>2. CASE h \notin C
    BY <2>1, <2>2, Zenon DEF CompareCodeGraphIndexForCurrent
  <2>3. CASE h \in C /\ h \notin U
    <3>1. h.superseded /\ ~x.superseded /\ h.status = x.status
      BY <2>3, <2>1, <1>4, Zenon DEF IsCurrentGraphSnapshot
    <3> QED
      BY <3>1, <2>1, <2>3, Zenon DEF CompareCodeGraphIndexForCurrent
  <2>4. CASE h \in U
    <3>1. k - x.run <= k - h.run
      BY <2>4, <1>3, <1>4, Zenon
    <3>2. ~(h.run > x.run)
      BY <3>1, <2>1
    <3>3. h.superseded \in BOOLEAN /\ x.superseded \in BOOLEAN
      BY <2>1, Zenon DEF GraphRow
    <3>4. h.superseded = x.superseded
      BY <3>3, <2>4, <1>4
    <3>5. h \in C /\ h.status = x.status
      BY <2>4, <2>1, <1>1, Zenon DEF IsCurrentGraphSnapshot
    <3> QED
      BY <3>2, <3>4, <3>5, <2>1, Zenon DEF CompareCodeGraphIndexForCurrent
  <2> QED
    BY <2>2, <2>3, <2>4, Zenon
<1>6. x \in G /\ IsFirst(x)
  BY <1>5, <1>4, <1>1, Zenon
<1> DEFINE y == CHOOSE g \in G : IsFirst(g)
<1>7. y \in G /\ IsFirst(y)
  <2> HIDE DEF IsFirst
  <2> QED
    BY <1>6, Zenon
<1>8. IsCurrentGraphSnapshot(y)
  <2>1. CASE y = c
    BY <2>1, Zenon
  <2>2. CASE y # c
    <3>1. ~CompareCodeGraphIndexForCurrent(c, y)
      BY <1>7, <2>2, Zenon
    <3> QED
      BY <3>1, Zenon DEF CompareCodeGraphIndexForCurrent
  <2> QED
    BY <2>1, <2>2, Zenon
<1>9. G # {} /\ SelectCurrentCodeGraphIndex(G) = {y}
  BY Zenon DEF SelectCurrentCodeGraphIndex
<1> HIDE DEF y
<1> QED
  BY <1>8, <1>9, Zenon

\* What a read that met no removal may rely on.
LEMMA ServedToRead ==
    ASSUME JobInv, ServedInv, ~removalFailed, ~Removes
    PROVE  /\ indexedRevs = {m.rev : m \in CurrentManifests(manifestRows)}
           /\ \A v \in indexedRevs : \E g \in graphRows : g.status = "READY" /\ v \in g.revs
           /\ runs # <<>> => ~(Newest.status \in Unfinished /\ Newest.type = "REMOVE_INDEX")
<1>1. runStep # "removeRepo"
  BY Zenon DEF JobInv, Removes, AtRest, RemoveSteps
<1>2. runs # <<>> => ~(Newest.status \in Unfinished /\ Newest.type = "REMOVE_INDEX")
  BY Zenon DEF Removes, AtRest
<1> QED
  BY <1>1, <1>2, Zenon DEF ServedInv

\* A statement of the read itself.
LEMMA ReadGoesOn ==
    ASSUME ReadInv, JobInv, ServedInv, StatusRead
    PROVE  ReadInv' /\ UNCHANGED <<jobVars, policyVars>>
<1>1. UNCHANGED <<jobVars, policyVars>>
  BY Zenon DEF StatusRead, ReadConnection, ReadRepo, ReadJobs, LoadCodeGraph, LoadIndexManifests, Poll
<1> SUFFICES ReadInv'
  BY <1>1, Zenon
<1>2. Removes' = Removes /\ UNCHANGED <<removalFailed, indexedRevs, runs, graphRows, manifestRows>>
  BY <1>1, Zenon DEF jobVars, Removes, AtRest, Newest
<1>3. view = [f \in ViewFields |-> view[f]] /\ view.moved \in BOOLEAN /\ view.removing \in BOOLEAN
  BY Zenon DEF ReadInv
<1>4. CASE Poll
  <2>1. view' = NoView
    BY <1>4, Zenon DEF Poll
  <2>2. view'.at = "idle" /\ view'.moved = FALSE /\ view'.removing = FALSE
    BY <2>1, Zenon DEF NoView
  <2>3. view' = [f \in ViewFields |-> view'[f]]
    BY <2>1, Zenon DEF NoView, ViewFields
  <2> QED
    BY <2>2, <2>3, Zenon DEF ReadInv
<1>5. CASE ReadConnection
  <2>1. PICK moved \in BOOLEAN : moved = (~AtRest \/ \E c \in PutCalls : put[c].at = "repo")
    BY Zenon
  <2>2. PICK removing \in BOOLEAN : removing = (removalFailed \/ Removes)
    BY Zenon
  <2>3. view' = [view EXCEPT !.at = "repo", !.policy = connPolicy, !.moved = moved, !.removing = removing]
    BY <1>5, <2>1, <2>2, Zenon DEF ReadConnection, Removes
  <2>4. /\ view' = [f \in ViewFields |-> view'[f]]
        /\ view'.at = "repo" /\ view'.moved = moved /\ view'.removing = removing
    BY <2>3, <1>3, Zenon DEF ViewFields
  <2>5. view'.moved \in BOOLEAN /\ view'.removing \in BOOLEAN
    BY <2>1, <2>2, <2>4, Zenon
  <2>6. ~view'.removing => ~removalFailed' /\ ~Removes'
    BY <2>2, <2>4, <1>2, Zenon
  <2> QED
    BY <2>4, <2>5, <2>6, Zenon DEF ReadInv
<1>6. CASE ReadRepo
  <2>1. view.at = "repo" /\ view' = [view EXCEPT !.at = "jobs", !.repo = RepoRow]
    BY <1>6, Zenon DEF ReadRepo
  <2>2. /\ view' = [f \in ViewFields |-> view'[f]]
        /\ view'.at = "jobs" /\ view'.moved = view.moved /\ view'.removing = view.removing
        /\ view'.repo = RepoRow
    BY <2>1, <1>3, Zenon DEF ViewFields
  <2>3. RepoRow.revs = indexedRevs /\ RepoRow.indexedAt = indexedAt
    BY Zenon DEF RepoRow
  <2>4. indexedRevs # {} => indexedAt
    BY Zenon DEF ServedInv
  <2>5. ~view.removing => ~removalFailed /\ ~Removes
    BY <2>1, Zenon DEF ReadInv
  <2> QED
    BY <2>2, <2>3, <2>4, <2>5, <1>2, <1>3, Zenon DEF ReadInv
<1>7. CASE ReadJobs
  <2> DEFINE summary == BuildRepoIndexSummary(view.repo, runs)
             branches == BuildKnownBranchIndexStatuses(view.repo, runs)
  <2>1. view.at = "jobs" /\ view' = [view EXCEPT !.at = "graphs", !.summary = summary, !.branches = branches]
    BY <1>7, Zenon DEF ReadJobs
  <2>2. \A b \in branches : b.active = "indexed" => b.status # "failed"
    BY BranchOfIndexed, Zenon
  <2>3. ASSUME ~view.removing
        PROVE  /\ summary.revs = GetPolicyVisibleIndexedRevisions(view.repo)
               /\ summary.revs # {} => summary.status \in {"indexed", "indexing"}
    <3>1. ~removalFailed /\ ~Removes /\ (view.repo.revs # {} => view.repo.indexedAt)
      BY <2>1, <2>3, Zenon DEF ReadInv
    <3>2. runs # <<>> => ~(Newest.status \in Unfinished /\ Newest.type = "REMOVE_INDEX")
      BY <3>1, ServedToRead, Zenon
    <3>3. runs \in Seq(RunRow)
      BY Zenon DEF JobInv
    <3> QED
      BY <3>1, <3>2, <3>3, SummaryOfIndexed, Zenon DEF Newest
  <2> HIDE DEF summary, branches
  <2>4. /\ view' = [f \in ViewFields |-> view'[f]]
        /\ view'.at = "graphs" /\ view'.moved = view.moved /\ view'.removing = view.removing
        /\ view'.repo = view.repo /\ view'.summary = summary /\ view'.branches = branches
    BY <2>1, <1>3, Zenon DEF ViewFields
  <2>5. ~view.removing =>
            /\ ~removalFailed /\ ~Removes
            /\ view.repo.revs \subseteq indexedRevs
            /\ ~view.moved => view.repo.revs = indexedRevs
            /\ view.repo.revs # {} => view.repo.indexedAt
    BY <2>1, Zenon DEF ReadInv
  <2> QED
    BY <2>2, <2>3, <2>4, <2>5, <1>2, <1>3, ZenonT(60) DEF ReadInv
<1>8. CASE LoadCodeGraph
  <2> DEFINE graph == SelectCurrentCodeGraphIndex(graphRows)
  <2>1. view.at = "graphs" /\ view' = [view EXCEPT !.at = "manifests", !.graph = graph]
    BY <1>8, Zenon DEF LoadCodeGraph
  <2>2. ~view.removing =>
            /\ ~removalFailed /\ ~Removes
            /\ view.repo.revs \subseteq indexedRevs
            /\ ~view.moved => view.repo.revs = indexedRevs
            /\ view.repo.revs # {} => view.repo.indexedAt
            /\ view.summary.revs = GetPolicyVisibleIndexedRevisions(view.repo)
            /\ view.summary.revs # {} => view.summary.status \in {"indexed", "indexing"}
            /\ \A b \in view.branches : b.active = "indexed" => b.status # "failed"
    BY <2>1, Zenon DEF ReadInv
  <2>3. ASSUME ~view.removing, view.summary.revs # {}
        PROVE  graph # {} /\ \A g \in graph : IsCurrentGraphSnapshot(g)
    <3>1. PICK v \in view.summary.revs : v \in indexedRevs
      BY <2>2, <2>3, Zenon DEF GetPolicyVisibleIndexedRevisions
    <3>2. PICK g \in graphRows : g.status = "READY" /\ v \in g.revs
      BY <2>2, <2>3, <3>1, ServedToRead, Zenon
    <3>3. IsCurrentGraphSnapshot(g)
      BY <3>2, Zenon DEF IsCurrentGraphSnapshot
    <3>4. runs \in Seq(RunRow) /\ graphRows \in SUBSET GraphRow /\ \A h \in graphRows : h.run <= Len(runs)
      BY Zenon DEF JobInv
    <3>5. Len(runs) \in Nat
      BY <3>4
    <3> QED
      BY <3>3, <3>4, <3>5, SelectionIsCurrent, Zenon
  <2> HIDE DEF graph
  <2>4. /\ view' = [f \in ViewFields |-> view'[f]]
        /\ view'.at = "manifests" /\ view'.moved = view.moved /\ view'.removing = view.removing
        /\ view'.repo = view.repo /\ view'.summary = view.summary
        /\ view'.branches = view.branches /\ view'.graph = graph
    BY <2>1, <1>3, Zenon DEF ViewFields
  <2> QED
    BY <2>2, <2>3, <2>4, <1>2, <1>3, Zenon DEF ReadInv
<1>9. CASE LoadIndexManifests
  <2> DEFINE current == {m.rev : m \in CurrentManifests(manifestRows)}
             issues == {m.rev : m \in RepoManifestQualityIssues(manifestRows)}
  <2>1. view.at = "manifests" /\ view' = [view EXCEPT !.at = "done", !.issues = issues, !.current = current]
    BY <1>9, Zenon DEF LoadIndexManifests
  <2>2. ~view.removing => current = indexedRevs
    BY <2>1, ServedToRead, Zenon DEF ReadInv
  <2> HIDE DEF current, issues
  <2>3. /\ view' = [f \in ViewFields |-> view'[f]]
        /\ view'.at = "done" /\ view'.moved = view.moved /\ view'.removing = view.removing
        /\ view'.repo = view.repo /\ view'.summary = view.summary
        /\ view'.branches = view.branches /\ view'.graph = view.graph /\ view'.current = current
    BY <2>1, <1>3, Zenon DEF ViewFields
  <2>4. ~view.removing =>
            /\ view.repo.revs \subseteq indexedRevs
            /\ ~view.moved => view.repo.revs = indexedRevs
            /\ view.summary.revs = GetPolicyVisibleIndexedRevisions(view.repo)
            /\ view.summary.revs # {} => view.summary.status \in {"indexed", "indexing"}
            /\ \A b \in view.branches : b.active = "indexed" => b.status # "failed"
            /\ view.summary.revs # {} =>
                  view.graph # {} /\ \A g \in view.graph : IsCurrentGraphSnapshot(g)
    BY <2>1, Zenon DEF ReadInv
  <2> QED
    BY <2>2, <2>3, <2>4, <1>3, Zenon DEF ReadInv
<1> QED
  BY <1>4, <1>5, <1>6, <1>7, <1>8, <1>9, ZenonT(60) DEF StatusRead

\* The invariant holds in every reachable state.
THEOREM StatusInvHolds == StatusSpec => []StatusInv
<1>1. StatusInv /\ [StatusNext]_statusVars => StatusInv'
  <2> SUFFICES ASSUME StatusInv, [StatusNext]_statusVars PROVE StatusInv'
    OBVIOUS
  <2>1. JobInv /\ PutInv /\ ServedInv /\ ReadInv
    BY Zenon DEF StatusInv
  <2>2. CASE WorldStep
    BY <2>1, <2>2, WorldMoves, ReadIsNoticed, ZenonT(60) DEF StatusInv
  <2>3. ASSUME UNCHANGED <<jobVars, policyVars>> PROVE JobInv' /\ PutInv' /\ ServedInv'
    BY <2>1, <2>3, ZenonT(60) DEF JobInv, PutInv, ServedInv, jobVars, policyVars, Newest
  <2>4. CASE StatusRead
    BY <2>1, <2>3, <2>4, ReadGoesOn, Zenon DEF StatusInv
  <2>5. CASE UNCHANGED statusVars
    <3>1. UNCHANGED <<jobVars, policyVars>> /\ view' = view
      BY <2>5, Zenon DEF statusVars
    <3>2. UNCHANGED <<removalFailed, indexedRevs>> /\ Removes' = Removes
      BY <3>1, Zenon DEF jobVars, Removes, AtRest, Newest
    <3>3. ReadInv'
      BY <2>1, <3>1, <3>2, ZenonT(60) DEF ReadInv
    <3> QED
      BY <2>3, <3>1, <3>3, Zenon DEF StatusInv
  <2> QED
    BY <2>2, <2>4, <2>5, Zenon DEF StatusNext
<1> QED
  BY <1>1, StatusStarts, PTL DEF StatusSpec

\* What a client is told about the index of a repository is true of it, whatever jobs
\* and policy changes pass between the statements of the read (Fetch), for any set of
\* revisions and policies and any number of jobs and PUT calls.
THEOREM StatusIsTrueHolds == StatusSpec => []StatusIsTrue
<1>1. StatusInv => StatusIsTrue
  <2> SUFFICES ASSUME StatusInv, view.at = "done", ~view.removing PROVE StatusIsTrue
    BY Zenon DEF StatusIsTrue
  <2>1. /\ view.summary.revs = GetPolicyVisibleIndexedRevisions(view.repo)
        /\ view.summary.revs # {} => view.summary.status \in {"indexed", "indexing"}
        /\ \A b \in view.branches : b.active = "indexed" => b.status # "failed"
        /\ view.summary.revs # {} =>
              view.graph # {} /\ \A g \in view.graph : IsCurrentGraphSnapshot(g)
        /\ view.repo.revs \subseteq view.current
        /\ ~view.moved => view.repo.revs = view.current
    BY Zenon DEF StatusInv, ReadInv
  <2>2. view.summary.revs \subseteq view.current
    BY <2>1, Zenon DEF GetPolicyVisibleIndexedRevisions
  <2>3. Quiet => view.summary.revs =
                    {v \in view.current : IsRevisionAllowedByIndexPolicy(view.repo, v)}
    BY <2>1, Zenon DEF Quiet, GetPolicyVisibleIndexedRevisions
  <2> QED
    BY <2>1, <2>2, <2>3, Zenon DEF StatusIsTrue
<1> QED
  BY <1>1, StatusInvHolds, PTL

\* Job, Repo and manifest rows have their types; no revision ever has two READY
\* manifests, as an activation deletes the older one in its transaction.
THEOREM StatusTypesHold == StatusSpec => []StatusTypeOK
<1>1. StatusInv => StatusTypeOK
  <2> SUFFICES ASSUME StatusInv PROVE StatusTypeOK
    OBVIOUS
  <2>1. JobInv /\ PutInv
    BY Zenon DEF StatusInv
  <2>2. runs \in Seq(RunRow)
    BY <2>1, Zenon DEF JobInv
  <2>3. ASSUME NEW k \in DOMAIN runs PROVE runs[k].type \in {"INDEX", "REMOVE_INDEX"}
    <3>1. runs[k] \in RunRow
      BY <2>2
    <3> QED
      BY <3>1, Zenon DEF RunRow
  <2> QED
    BY <2>1, <2>3, Zenon DEF JobInv, PutInv, StatusTypeOK
<1> QED
  BY <1>1, StatusInvHolds, PTL
=============================================================================
