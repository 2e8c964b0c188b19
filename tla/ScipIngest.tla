------------------------------- MODULE ScipIngest -------------------------------
(***************************************************************************)
(* Ingestion of SCIP artifacts (internal/backend/scipartifact): how one    *)
(* artifact becomes symbol, occurrence and relationship rows, and how the  *)
(* SCIP subjobs of one revision share one CodeIntelIndex row.              *)
(*                                                                         *)
(* A subjob indexes one project (language, root and indexer).  Ingest is   *)
(* one transaction; subjobs of one job run side by side, may be delivered  *)
(* again, fail or be skipped, and later jobs index the same commit again   *)
(* with another plan.                                                      *)
(*                                                                         *)
(* An artifact is [inScope, intact, documents, externals]; a document is   *)
(* [path, safe, symbols, occurrences], an occurrence [symbol, roles,       *)
(* range, enclosing] with ranges as SCIP has them, sequences of 3 or 4     *)
(* numbers.                                                                *)
(***************************************************************************)
EXTENDS Integers, Sequences, FiniteSets, Functions

CONSTANTS
    ScipPlans,       \* job -> set of projects its plan has
    LanguageOf,      \* project -> language
    ScipArtifacts,   \* project -> artifacts its indexer may write
    SemanticSymbols, \* symbols that are not local, a parameter, generated or a file scope
    LineSpan,        \* the weight of a line in rangeSpan, 100000
    SpanMax          \* the largest int32

ASSUME ScipConstants ==
    /\ LineSpan \in Nat \ {0} /\ SpanMax \in Nat
    /\ ScipPlans \in Seq(SUBSET (DOMAIN ScipArtifacts \cap DOMAIN LanguageOf))
    /\ \A index \in UNION Range(ScipArtifacts) : \A k \in DOMAIN index.documents :
          LET occurrences == index.documents[k].occurrences IN
          /\ occurrences \in Seq(Range(occurrences))
          /\ \A o \in Range(occurrences) : o.range \in Seq(Int) /\ o.enclosing \in Seq(Int)
          /\ \A j \in DOMAIN index.documents : index.documents[j].path = index.documents[k].path => j = k

VARIABLES
    scipJob,       \* number of the latest job, 0: none
    subjobOf,      \* project -> status of its SCIP subjob of that job, or "absent"
    codeIntel,     \* CodeIntelIndex row: [status, languages, symbols, occurrences, relationships]
    languageIndex, \* projects with a CodeIntelLanguageIndex row; READY after every commit
    symbolRows,    \* [symbol, file, range, project]
    occurrenceRows,
    relationRows,
    ingested,      \* project -> artifact of its last ingestion by the latest job, or none
    lateEnd        \* a subjob failed or was skipped after the last ingestion

scipVars == <<scipJob, subjobOf, codeIntel, languageIndex, symbolRows, occurrenceRows, relationRows,
              ingested, lateEnd>>

ScipProjects == DOMAIN ScipArtifacts
NoArtifact == [inScope |-> FALSE, intact |-> FALSE, documents |-> <<>>, externals |-> <<>>]

-----------------------------------------------------------------------------
\* rows.go.  A range of 3 numbers lies in one line; any other length is no range.
NoRange == [startLine |-> -1, startCharacter |-> 0, endLine |-> -1, endCharacter |-> 0]

NormalizeRange(v) ==
    CASE Len(v) = 3 -> [startLine |-> v[1], startCharacter |-> v[2], endLine |-> v[1], endCharacter |-> v[3]]
      [] Len(v) = 4 -> [startLine |-> v[1], startCharacter |-> v[2], endLine |-> v[3], endCharacter |-> v[4]]
      [] OTHER -> NoRange

ContainsRange(outer, inner) ==
    /\ outer.startLine <= inner.startLine /\ outer.endLine >= inner.endLine
    /\ outer.startLine = inner.startLine => outer.startCharacter <= inner.startCharacter
    /\ outer.endLine = inner.endLine => outer.endCharacter >= inner.endCharacter

Int32(n) == ((n + SpanMax + 1) % (2 * (SpanMax + 1))) - (SpanMax + 1)

RangeSpan(r) ==
    LET chars == r.endCharacter - r.startCharacter IN
    Int32(Int32((r.endLine - r.startLine) * LineSpan) + (IF chars < 0 THEN 0 ELSE chars))

IsDefinition(occ) == occ.roles \cap {"DEFINITION", "FORWARD_DEFINITION"} # {}

OccurrenceRoles(occ) == IF IsDefinition(occ) THEN occ.roles ELSE occ.roles \cup {"REFERENCE"}

\* The scopes of a file, by the place of the definition: its enclosing range, else its
\* own range.
DefinitionScopes(document) ==
    LET occurrences == document.occurrences
        scope(o) == IF NormalizeRange(o.enclosing) # NoRange THEN NormalizeRange(o.enclosing)
                    ELSE NormalizeRange(o.range)
    IN [k \in {j \in DOMAIN occurrences : /\ occurrences[j].symbol # "" /\ IsDefinition(occurrences[j])
                                          /\ scope(occurrences[j]) # NoRange}
        |-> [symbol |-> occurrences[k].symbol, range |-> scope(occurrences[k])]]

FindEnclosingDefinitionSymbol_First(scopes, rng, symbol) ==
    LET around == {k \in DOMAIN scopes : scopes[k].symbol # symbol /\ ContainsRange(scopes[k].range, rng)} IN
    IF around = {} THEN "" ELSE scopes[CHOOSE k \in around : \A j \in around : k <= j].symbol

\* The first scope around the occurrence in the order of rangeSpan; equal spans keep the
\* order of the document (an insertion sort, for the short lists of a model).
FindEnclosingDefinitionSymbol(scopes, rng, symbol) ==
    LET around == {k \in DOMAIN scopes : scopes[k].symbol # symbol /\ ContainsRange(scopes[k].range, rng)}
        before(k, j) == \/ RangeSpan(scopes[k].range) < RangeSpan(scopes[j].range)
                        \/ RangeSpan(scopes[k].range) = RangeSpan(scopes[j].range) /\ k <= j
    IN IF around = {} THEN "" ELSE scopes[CHOOSE k \in around : \A j \in around : before(k, j)].symbol

ShouldDeriveReferenceRelationship(roles, enclosing, target) ==
    /\ enclosing # "" /\ enclosing # target
    /\ "REFERENCE" \in roles /\ roles \cap {"DEFINITION", "FORWARD_DEFINITION"} = {}

\* Documents whose path stays inside the repository.
SafeDocuments(index) == {k \in DOMAIN index.documents : index.documents[k].safe}

\* Where a symbol is defined: the last definition of the artifact wins.
DefinitionsOf(index, symbol) ==
    LET occurrence(d) == index.documents[d[1]].occurrences[d[2]] IN
    {d \in UNION {{k} \X DOMAIN index.documents[k].occurrences : k \in SafeDocuments(index)} :
        occurrence(d).symbol = symbol /\ IsDefinition(occurrence(d))}

\* Symbols with information and a definition in the artifact, which relationships join.
ProjectDefinedSymbols(index) ==
    {s \in SemanticSymbols :
        /\ \E k \in SafeDocuments(index) : \E info \in index.documents[k].symbols : info.symbol = s
        /\ DefinitionsOf(index, s) # {}}

ToSymbolRow(index, info, external) ==
    LET defs == IF external THEN {} ELSE DefinitionsOf(index, info.symbol)
        last == CHOOSE d \in defs : \A e \in defs : e[1] < d[1] \/ (e[1] = d[1] /\ e[2] <= d[2])
    IN [symbol |-> info.symbol,
        file |-> IF defs = {} THEN "" ELSE index.documents[last[1]].path,
        range |-> IF defs = {} THEN NoRange
                  ELSE NormalizeRange(index.documents[last[1]].occurrences[last[2]].range)]

ShouldPersistProjectRelationship(index, row) == {row.source, row.target} \subseteq ProjectDefinedSymbols(index)

AddRelationshipRows(index, source, relationships) ==
    {row \in {[source |-> source, target |-> rel.symbol, flags |-> rel.flags] : rel \in relationships} :
        ShouldPersistProjectRelationship(index, row)}

RowsFromIndex(index) ==
    LET docs == {index.documents[k] : k \in SafeDocuments(index)}
        ranged(doc) == {o \in Range(doc.occurrences) : o.symbol # "" /\ NormalizeRange(o.range) # NoRange}
        around(doc, o) == FindEnclosingDefinitionSymbol(DefinitionScopes(doc), NormalizeRange(o.range), o.symbol)
    IN [symbols |-> {ToSymbolRow(index, info, FALSE) : info \in UNION {doc.symbols : doc \in docs}}
                    \cup {ToSymbolRow(index, info, TRUE) : info \in Range(index.externals)},
        occurrences |-> UNION {UNION {{[symbol |-> o.symbol, file |-> doc.path, range |-> NormalizeRange(o.range),
                                        role |-> role, enclosing |-> around(doc, o)] : role \in OccurrenceRoles(o)}
                                      : o \in ranged(doc)} : doc \in docs},
        relationships |->
            (UNION {AddRelationshipRows(index, info.symbol, info.relationships)
                     : info \in (UNION {doc.symbols : doc \in docs}) \cup Range(index.externals)})
            \cup (UNION {UNION {AddRelationshipRows(index, around(doc, o), {[symbol |-> o.symbol, flags |-> {"isReference"}]})
                                 : o \in {x \in ranged(doc) : ShouldDeriveReferenceRelationship(OccurrenceRoles(x),
                                                                  around(doc, x), x.symbol)}} : doc \in docs})]

\* RowsFromArtifactBytes, for every artifact.
ArtifactRows == [index \in UNION Range(ScipArtifacts) |-> RowsFromIndex(index)]

-----------------------------------------------------------------------------
\* store.go.  The published file lies under org/repo/workspace/branch/commit of the
\* subjob, is a regular file and has the announced SHA-256.
ValidatePublishedArtifactScope(index) == index.inScope
ValidateArtifactSHA(index) == index.intact

\* Rows carry the project they came from.
Owned(rows, p) == {[row |-> r, project |-> p] : r \in rows}
Without(rows, ps) == {r \in rows : r.project \notin ps}

DeleteStaleLanguageIndexes_Kept == {}
\* Projects with rows here and no subjob in the latest job's plan.
DeleteStaleLanguageIndexes == languageIndex \ {p \in ScipProjects : subjobOf[p] # "absent"}

\* A READY row is INDEXING again until the counts are refreshed; any other status stays.
UpsertCodeIntelIndex == IF codeIntel.status \in {"none", "READY"} THEN "INDEXING" ELSE codeIntel.status

UpsertLanguageIndex(languages, p) == languages \cup {p}

\* ON CONFLICT ("codeIntelIndexId", symbol) DO NOTHING: the first row of a symbol stays,
\* and of two rows for it in one artifact the document's before the external one.
BulkInsertSymbols(rows, new, p) ==
    LET known == {r.row.symbol : r \in rows}
        fresh == {r.symbol : r \in new} \ known
        first(s) == CHOOSE r \in new : r.symbol = s /\ \A q \in new : q.symbol = s /\ q.file # "" => r.file # ""
    IN rows \cup Owned({first(s) : s \in fresh}, p)

BulkInsertOccurrences(rows, new, p) == rows \cup Owned(new, p)

BulkInsertRelationships(rows, new, p) == rows \cup Owned(new \ {r.row : r \in rows}, p)

StatusAfter_IgnoreFailed(languages, status) ==
    IF \E p \in ScipProjects : subjobOf[p] \notin {"absent", "SKIPPED"} /\ p \notin languages THEN "INDEXING"
    ELSE IF languages # {} THEN "READY" ELSE status

\* The CASE of refreshCodeIntelIndexCounts.
StatusAfter(languages, status) ==
    LET unready == \E p \in ScipProjects : subjobOf[p] \notin {"absent", "SKIPPED"} /\ p \notin languages
        ended == \E p \in ScipProjects : subjobOf[p] \in {"FAILED", "SKIPPED"}
    IN CASE ended /\ languages # {} -> "PARTIAL"
         [] ~(ended /\ languages # {}) /\ unready -> "INDEXING"
         [] ~unready /\ ~ended /\ languages # {} -> "READY"
         [] OTHER -> status

\* The whole transaction: the live lease, the upserts, the stale projects, this
\* project's rows, the counts.  An artifact without a row is refused.
IngestScip(p, index) ==
    LET rows == ArtifactRows[index]
        gone == DeleteStaleLanguageIndexes \cup {p}
        languages == UpsertLanguageIndex(languageIndex \ DeleteStaleLanguageIndexes, p)
        symbols == BulkInsertSymbols(Without(symbolRows, gone), rows.symbols, p)
        occurrences == BulkInsertOccurrences(Without(occurrenceRows, gone), rows.occurrences, p)
        relationships == BulkInsertRelationships(Without(relationRows, gone), rows.relationships, p)
    IN /\ subjobOf[p] = "RUNNING"
       /\ ValidatePublishedArtifactScope(index) /\ ValidateArtifactSHA(index)
       /\ rows.symbols \cup rows.occurrences \cup rows.relationships # {}
       /\ languageIndex' = languages
       /\ symbolRows' = symbols /\ occurrenceRows' = occurrences /\ relationRows' = relationships
       /\ codeIntel' = [status |-> StatusAfter(languages, UpsertCodeIntelIndex),
                        languages |-> Cardinality({LanguageOf[q] : q \in languages}),
                        symbols |-> Cardinality(symbols), occurrences |-> Cardinality(occurrences),
                        relationships |-> Cardinality(relationships)]
       /\ ingested' = [ingested EXCEPT ![p] = index] /\ lateEnd' = FALSE
       /\ UNCHANGED <<scipJob, subjobOf>>

-----------------------------------------------------------------------------
\* The subjobs, as the subjob store runs them (IndexSubjobs).
StartScipJob ==
    /\ scipJob < Len(ScipPlans)
    /\ \A p \in ScipProjects : subjobOf[p] # "RUNNING"
    /\ scipJob' = scipJob + 1
    /\ subjobOf' = [p \in ScipProjects |-> IF p \in ScipPlans[scipJob + 1] THEN "RUNNING" ELSE "absent"]
    /\ ingested' = [p \in ScipProjects |-> NoArtifact] /\ lateEnd' = FALSE
    /\ UNCHANGED <<codeIntel, languageIndex, symbolRows, occurrenceRows, relationRows>>

ScipSucceeded(p) ==
    /\ subjobOf[p] = "RUNNING" /\ ingested[p] # NoArtifact
    /\ subjobOf' = [subjobOf EXCEPT ![p] = "SUCCEEDED"]
    /\ UNCHANGED <<scipJob, codeIntel, languageIndex, symbolRows, occurrenceRows, relationRows, ingested, lateEnd>>

\* SCIP is optional: the job goes on, and the index row is not written here.
ScipEnds(p, status) ==
    /\ subjobOf[p] = "RUNNING"
    /\ subjobOf' = [subjobOf EXCEPT ![p] = status]
    /\ lateEnd' = TRUE
    /\ UNCHANGED <<scipJob, codeIntel, languageIndex, symbolRows, occurrenceRows, relationRows, ingested>>

ScipInit ==
    /\ scipJob = 0 /\ subjobOf = [p \in ScipProjects |-> "absent"]
    /\ codeIntel = [status |-> "none", languages |-> 0, symbols |-> 0, occurrences |-> 0, relationships |-> 0]
    /\ languageIndex = {} /\ symbolRows = {} /\ occurrenceRows = {} /\ relationRows = {}
    /\ ingested = [p \in ScipProjects |-> NoArtifact] /\ lateEnd = FALSE

ScipNext ==
    \/ StartScipJob
    \/ \E p \in ScipProjects :
          \/ \E index \in ScipArtifacts[p] : IngestScip(p, index)
          \/ ScipSucceeded(p)
          \/ ScipEnds(p, "FAILED") \/ ScipEnds(p, "SKIPPED")

ScipSpec == ScipInit /\ [][ScipNext]_scipVars

-----------------------------------------------------------------------------
\* The row's counts are those of the rows and one of the four statuses goes with them.
ScipTypeOK ==
    /\ codeIntel.status \in {"none", "INDEXING", "PARTIAL", "READY"}
    /\ codeIntel.symbols = Cardinality(symbolRows) /\ codeIntel.occurrences = Cardinality(occurrenceRows)
    /\ codeIntel.relationships = Cardinality(relationRows)
    /\ codeIntel.languages = Cardinality({LanguageOf[p] : p \in languageIndex})

Planned == {p \in ScipProjects : subjobOf[p] # "absent"}

\* The artifacts of a project that an ingestion stores, and the symbols they describe.
Stored(p) ==
    {index \in ScipArtifacts[p] :
        /\ ValidatePublishedArtifactScope(index) /\ ValidateArtifactSHA(index)
        /\ LET rows == ArtifactRows[index] IN rows.symbols \cup rows.occurrences \cup rows.relationships # {}}
SymbolsOf(index) == {s.symbol : s \in ArtifactRows[index].symbols}

\* What an indexer says of a commit about symbols that another project describes too, it
\* says each time.
StableArtifacts ==
    \A p, q \in ScipProjects : p # q =>
        \A old, new \in Stored(p) : \A other \in Stored(q) :
            /\ SymbolsOf(old) \cap SymbolsOf(other) \subseteq SymbolsOf(new)
            /\ ArtifactRows[old].relationships \cap ArtifactRows[other].relationships
                  \subseteq ArtifactRows[new].relationships

\* When all SCIP subjobs of the latest job were ingested, in any order and any number of
\* times, the index holds the rows of their artifacts and of nothing else: no project of
\* an older plan, no row of an earlier artifact, and, given StableArtifacts, no symbol
\* lost to the project that inserted it first.
IngestedIsWhole ==
    Planned # {} /\ (\A p \in Planned : ingested[p] # NoArtifact) =>
        LET all == {ArtifactRows[ingested[p]] : p \in Planned} IN
        /\ {r.row.symbol : r \in symbolRows} = UNION {{s.symbol : s \in rows.symbols} : rows \in all}
        /\ {r.row : r \in relationRows} = UNION {rows.relationships : rows \in all}
        /\ {r.row : r \in occurrenceRows} = UNION {rows.occurrences : rows \in all}

\* The status tells what readers may trust: once the subjobs are settled, READY means
\* that every project of the plan was ingested and PARTIAL that one was not, unless the
\* last thing to happen was a failure or a skip, which does not refresh the row.
SettledStatusIsTrue ==
    (\A p \in ScipProjects : subjobOf[p] # "RUNNING") /\ ~lateEnd /\ Planned # {} =>
        codeIntel.status = IF \A p \in Planned : subjobOf[p] = "SUCCEEDED" THEN "READY" ELSE "PARTIAL"

\* Ranges that rangeSpan orders as they nest: the end column is not before the start
\* column, the columns weigh less than a line, and the weight fits.
Ordinary(r) ==
    LET chars == r.endCharacter - r.startCharacter IN
    chars \in 0 .. LineSpan - 1 /\ (r.endLine - r.startLine) * LineSpan + chars \in 0 .. SpanMax

\* The scopes around a range in a document, those of the symbol itself left out.
ScopesAround(doc, symbol, rng) ==
    {s \in Range(DefinitionScopes(doc)) : s.symbol # symbol /\ ContainsRange(s.range, rng)}

\* An occurrence is attributed to an innermost one of the definitions around it, and to
\* none only if there is none, for ordinary scopes.
EnclosingIsInnermost ==
    \A r \in occurrenceRows : ingested[r.project] # NoArtifact =>
        \E doc \in Range(ingested[r.project].documents) :
            LET around == ScopesAround(doc, r.row.symbol, r.row.range) IN
            /\ doc.safe /\ doc.path = r.row.file
            /\ \E o \in Range(doc.occurrences) :
                  o.symbol = r.row.symbol /\ NormalizeRange(o.range) = r.row.range
            /\ around = {} => r.row.enclosing = ""
            /\ around # {} /\ (\A s \in around : Ordinary(s.range)) =>
                  \E s \in around :
                      /\ s.symbol = r.row.enclosing
                      /\ \A t \in around : ContainsRange(s.range, t.range) => ContainsRange(t.range, s.range)

================================================================================
