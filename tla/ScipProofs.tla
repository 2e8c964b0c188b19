------------------------------ MODULE ScipProofs ------------------------------
(***************************************************************************)
(* Proofs about the ingestion of SCIP artifacts, for any plans, languages  *)
(* and artifacts: the language index says what was ingested, an ingestion  *)
(* that ended stored all of its artifact, and the enclosing definition of  *)
(* an occurrence is the innermost one.                                     *)
(***************************************************************************)
EXTENDS ScipIngest, TLAPS

Ingested(p) == ingested[p] # NoArtifact

\* Every row is of a project with a CodeIntelLanguageIndex row, which the latest plan
\* has once one of its projects was ingested; a project that succeeded was ingested.
ProjectsFit ==
    /\ scipJob \in Nat
    /\ subjobOf \in [ScipProjects -> {"absent", "RUNNING", "SUCCEEDED", "FAILED", "SKIPPED"}]
    /\ ingested = [p \in ScipProjects |-> ingested[p]]
    /\ languageIndex \subseteq ScipProjects
    /\ \A p \in ScipProjects :
          /\ Ingested(p) => ingested[p] \in Stored(p) /\ subjobOf[p] # "absent" /\ p \in languageIndex
          /\ subjobOf[p] = "SUCCEEDED" => Ingested(p)
    /\ (\E p \in ScipProjects : Ingested(p)) => languageIndex \subseteq Planned

\* A row is of an artifact of its project, of the last one if the latest job ingested it.
RowsFit ==
    /\ \A r \in symbolRows :
          /\ r.project \in languageIndex
          /\ \E index \in Stored(r.project) :
                r.row.symbol \in SymbolsOf(index) /\ (Ingested(r.project) => index = ingested[r.project])
    /\ \A r \in relationRows :
          /\ r.project \in languageIndex
          /\ \E index \in Stored(r.project) :
                r.row \in ArtifactRows[index].relationships /\ (Ingested(r.project) => index = ingested[r.project])
    /\ \A r \in occurrenceRows :
          /\ r.project \in languageIndex
          /\ Ingested(r.project) => r.row \in ArtifactRows[ingested[r.project]].occurrences

\* What an ingested artifact describes is there, under its project or another.
RowsCover ==
    \A p \in ScipProjects : Ingested(p) =>
        /\ \A o \in ArtifactRows[ingested[p]].occurrences : \E r \in occurrenceRows : r.row = o /\ r.project = p
        /\ StableArtifacts =>
              /\ \A s \in SymbolsOf(ingested[p]) : \E r \in symbolRows : r.row.symbol = s
              /\ \A t \in ArtifactRows[ingested[p]].relationships : \E r \in relationRows : r.row = t

\* As long as nothing failed or was skipped since the last ingestion, the status is that of
\* the last ingestion, or no subjob of the plan has ended.
StatusFits ==
    ~lateEnd =>
        IF \E p \in ScipProjects : Ingested(p)
        THEN codeIntel.status = IF \E p \in ScipProjects : subjobOf[p] \in {"FAILED", "SKIPPED"} THEN "PARTIAL"
                                ELSE IF Planned \subseteq languageIndex THEN "READY" ELSE "INDEXING"
        ELSE \A p \in Planned : subjobOf[p] = "RUNNING"

ScipInv == ProjectsFit /\ RowsFit /\ RowsCover /\ StatusFits

\* What an ingestion stores is not the mark of a project without one.
LEMMA StoredIsSome ==
    ASSUME NEW p PROVE NoArtifact \notin Stored(p)
  BY Zenon DEF Stored, NoArtifact, ValidatePublishedArtifactScope

\* Symbols are added under the project, the ones that are there stay, and all are there.
LEMMA SymbolsAreInserted ==
    ASSUME NEW rows, NEW new, NEW p
    PROVE  LET out == BulkInsertSymbols(rows, new, p) IN
           /\ rows \subseteq out
           /\ \A r \in out : r \in rows \/ (r.project = p /\ r.row \in new)
           /\ \A s \in new : \E r \in out : r.row.symbol = s.symbol
<1> DEFINE known == {r.row.symbol : r \in rows}
           fresh == {r.symbol : r \in new} \ known
           best(s, r) == r.symbol = s /\ \A q \in new : q.symbol = s /\ q.file # "" => r.file # ""
           first(s) == CHOOSE r \in new : best(s, r)
<1>1. BulkInsertSymbols(rows, new, p) = rows \cup {[row |-> r, project |-> p] : r \in {first(s) : s \in fresh}}
  BY Zenon DEF BulkInsertSymbols, Owned
<1>2. ASSUME NEW s \in fresh PROVE first(s) \in new /\ first(s).symbol = s
  <2>1. PICK r \in new : r.symbol = s
    OBVIOUS
  <2>2. \E q \in new : best(s, q)
    <3>1. CASE \E q \in new : q.symbol = s /\ q.file # ""
      BY <3>1, Zenon
    <3>2. CASE ~\E q \in new : q.symbol = s /\ q.file # ""
      BY <2>1, <3>2, Zenon
    <3> QED BY <3>1, <3>2, Zenon
  <2> HIDE DEF best
  <2>3. first(s) \in new /\ best(s, first(s))
    BY <2>2, Zenon
  <2> QED BY <2>3, Zenon DEF best
<1> HIDE DEF first
<1>3. ASSUME NEW s \in new
      PROVE  \E r \in BulkInsertSymbols(rows, new, p) : r.row.symbol = s.symbol
  <2>1. CASE s.symbol \in known
    BY <1>1, <2>1, Zenon
  <2>2. CASE s.symbol \notin known
    <3>1. s.symbol \in fresh
      BY <2>2, Zenon
    <3>2. [row |-> first(s.symbol), project |-> p] \in BulkInsertSymbols(rows, new, p)
      BY <1>1, <3>1, Zenon
    <3> QED BY <1>2, <3>1, <3>2, Zenon
  <2> QED BY <2>1, <2>2, Zenon
<1>4. ASSUME NEW r \in BulkInsertSymbols(rows, new, p), r \notin rows
      PROVE  r.project = p /\ r.row \in new
  <2>1. PICK s \in fresh : r = [row |-> first(s), project |-> p]
    BY <1>1, <1>4, Zenon
  <2> QED BY <1>2, <2>1, Zenon
<1> QED BY <1>1, <1>3, <1>4, Zenon

\* The same for the relationships.
LEMMA RelationshipsAreInserted ==
    ASSUME NEW rows, NEW new, NEW p
    PROVE  LET out == BulkInsertRelationships(rows, new, p) IN
           /\ rows \subseteq out
           /\ \A r \in out : r \in rows \/ (r.project = p /\ r.row \in new)
           /\ \A t \in new : \E r \in out : r.row = t
<1>1. BulkInsertRelationships(rows, new, p)
        = rows \cup {[row |-> t, project |-> p] : t \in new \ {r.row : r \in rows}}
  BY Zenon DEF BulkInsertRelationships, Owned
<1>2. ASSUME NEW t \in new PROVE \E r \in BulkInsertRelationships(rows, new, p) : r.row = t
  <2>1. CASE t \in {r.row : r \in rows}
    BY <1>1, <2>1, Zenon
  <2>2. CASE t \notin {r.row : r \in rows}
    <3>1. [row |-> t, project |-> p] \in BulkInsertRelationships(rows, new, p)
      BY <1>1, <2>2, Zenon
    <3> QED BY <3>1, Zenon
  <2> QED BY <2>1, <2>2, Zenon
<1> QED BY <1>1, <1>2

\* The occurrences are added as they are.
LEMMA OccurrencesAreInserted ==
    ASSUME NEW rows, NEW new, NEW p
    PROVE  LET out == BulkInsertOccurrences(rows, new, p) IN
           /\ rows \subseteq out
           /\ \A r \in out : r \in rows \/ (r.project = p /\ r.row \in new)
           /\ \A o \in new : \E r \in out : r.row = o /\ r.project = p
<1>1. BulkInsertOccurrences(rows, new, p) = rows \cup {[row |-> o, project |-> p] : o \in new}
  BY Zenon DEF BulkInsertOccurrences, Owned
<1>2. ASSUME NEW o \in new
      PROVE  \E r \in BulkInsertOccurrences(rows, new, p) : r.row = o /\ r.project = p
  <2>1. [row |-> o, project |-> p] \in BulkInsertOccurrences(rows, new, p)
    BY <1>1, Zenon
  <2> QED BY <2>1, Zenon
<1> QED BY <1>1, <1>2

\* What one ingestion changes: the projects that are not in the plan go with their rows,
\* and the rows of this project become those of the artifact.
Replaces(p, index) ==
    /\ subjobOf[p] = "RUNNING" /\ index \in Stored(p)
    /\ languageIndex' = (languageIndex \cap Planned) \cup {p}
    /\ ingested' = [ingested EXCEPT ![p] = index]
    /\ UNCHANGED <<scipJob, subjobOf>>
Kept(r, p) == r.project # p /\ (r.project \in Planned \/ r.project \notin languageIndex)

\* The transaction, in these terms.
LEMMA IngestReplaces ==
    ASSUME ProjectsFit, NEW p \in ScipProjects, NEW index \in ScipArtifacts[p], IngestScip(p, index)
    PROVE  /\ Replaces(p, index)
           /\ /\ \A r \in symbolRows : Kept(r, p) => r \in symbolRows'
              /\ \A r \in symbolRows' :
                    (r \in symbolRows /\ Kept(r, p)) \/ (r.project = p /\ r.row.symbol \in SymbolsOf(index))
              /\ \A s \in SymbolsOf(index) : \E r \in symbolRows' : r.row.symbol = s
           /\ /\ \A r \in relationRows : Kept(r, p) => r \in relationRows'
              /\ \A r \in relationRows' :
                    \/ r \in relationRows /\ Kept(r, p)
                    \/ r.project = p /\ r.row \in ArtifactRows[index].relationships
              /\ \A t \in ArtifactRows[index].relationships : \E r \in relationRows' : r.row = t
           /\ /\ \A r \in occurrenceRows : Kept(r, p) => r \in occurrenceRows'
              /\ \A r \in occurrenceRows' :
                    \/ r \in occurrenceRows /\ Kept(r, p)
                    \/ r.project = p /\ r.row \in ArtifactRows[index].occurrences
              /\ \A o \in ArtifactRows[index].occurrences :
                    \E r \in occurrenceRows' : r.row = o /\ r.project = p
<1> DEFINE gone == DeleteStaleLanguageIndexes \cup {p}
           new == ArtifactRows[index]
<1>1. /\ subjobOf[p] = "RUNNING" /\ ValidatePublishedArtifactScope(index) /\ ValidateArtifactSHA(index)
      /\ new.symbols \cup new.occurrences \cup new.relationships # {}
      /\ languageIndex' = (languageIndex \ DeleteStaleLanguageIndexes) \cup {p}
      /\ symbolRows' = BulkInsertSymbols(Without(symbolRows, gone), new.symbols, p)
      /\ occurrenceRows' = BulkInsertOccurrences(Without(occurrenceRows, gone), new.occurrences, p)
      /\ relationRows' = BulkInsertRelationships(Without(relationRows, gone), new.relationships, p)
      /\ ingested' = [ingested EXCEPT ![p] = index] /\ UNCHANGED <<scipJob, subjobOf>>
  BY Zenon DEF IngestScip, UpsertLanguageIndex
<1>2. DeleteStaleLanguageIndexes = languageIndex \ Planned
  BY Zenon DEF DeleteStaleLanguageIndexes, Planned
<1>3. \A rows : Without(rows, gone) = {r \in rows : Kept(r, p)}
  BY <1>2, Zenon DEF Without, Kept
<1> HIDE DEF gone, new
<1>4. Replaces(p, index)
  <2>1. index \in Stored(p)
    BY <1>1, Zenon DEF Stored, new
  <2>2. languageIndex \ DeleteStaleLanguageIndexes = languageIndex \cap Planned
    BY <1>2, Zenon
  <2> QED BY <1>1, <2>1, <2>2, Zenon DEF Replaces
<1>5. /\ \A r \in symbolRows : Kept(r, p) => r \in symbolRows'
      /\ \A r \in symbolRows' :
            (r \in symbolRows /\ Kept(r, p)) \/ (r.project = p /\ r.row.symbol \in SymbolsOf(index))
      /\ \A s \in SymbolsOf(index) : \E r \in symbolRows' : r.row.symbol = s
  <2>1. PICK rows : rows = {r \in symbolRows : Kept(r, p)}
    BY Zenon
  <2>0. \A r : r \in rows <=> r \in symbolRows /\ Kept(r, p)
    BY <2>1, Zenon
  <2>2. symbolRows' = BulkInsertSymbols(rows, new.symbols, p)
    BY <1>1, <1>3, <2>1, Zenon
  <2>3. /\ rows \subseteq symbolRows'
        /\ \A r \in symbolRows' : r \in rows \/ (r.project = p /\ r.row \in new.symbols)
        /\ \A s \in new.symbols : \E r \in symbolRows' : r.row.symbol = s.symbol
    BY <2>2, SymbolsAreInserted
  <2>4. SymbolsOf(index) = {s.symbol : s \in new.symbols}
    BY Zenon DEF SymbolsOf, new
  <2> QED BY <2>0, <2>3, <2>4
<1>6. /\ \A r \in relationRows : Kept(r, p) => r \in relationRows'
      /\ \A r \in relationRows' :
            (r \in relationRows /\ Kept(r, p)) \/ (r.project = p /\ r.row \in new.relationships)
      /\ \A t \in new.relationships : \E r \in relationRows' : r.row = t
  <2>1. PICK rows : rows = {r \in relationRows : Kept(r, p)}
    BY Zenon
  <2>0. \A r : r \in rows <=> r \in relationRows /\ Kept(r, p)
    BY <2>1, Zenon
  <2>2. relationRows' = BulkInsertRelationships(rows, new.relationships, p)
    BY <1>1, <1>3, <2>1, Zenon
  <2>3. /\ rows \subseteq relationRows'
        /\ \A r \in relationRows' : r \in rows \/ (r.project = p /\ r.row \in new.relationships)
        /\ \A t \in new.relationships : \E r \in relationRows' : r.row = t
    BY <2>2, RelationshipsAreInserted
  <2> QED BY <2>0, <2>3, Zenon
<1>7. /\ \A r \in occurrenceRows : Kept(r, p) => r \in occurrenceRows'
      /\ \A r \in occurrenceRows' :
            (r \in occurrenceRows /\ Kept(r, p)) \/ (r.project = p /\ r.row \in new.occurrences)
      /\ \A o \in new.occurrences : \E r \in occurrenceRows' : r.row = o /\ r.project = p
  <2>1. PICK rows : rows = {r \in occurrenceRows : Kept(r, p)}
    BY Zenon
  <2>0. \A r : r \in rows <=> r \in occurrenceRows /\ Kept(r, p)
    BY <2>1, Zenon
  <2>2. occurrenceRows' = BulkInsertOccurrences(rows, new.occurrences, p)
    BY <1>1, <1>3, <2>1, Zenon
  <2>3. /\ rows \subseteq occurrenceRows'
        /\ \A r \in occurrenceRows' : r \in rows \/ (r.project = p /\ r.row \in new.occurrences)
        /\ \A o \in new.occurrences : \E r \in occurrenceRows' : r.row = o /\ r.project = p
    BY <2>2, OccurrencesAreInserted
  <2> QED BY <2>0, <2>3, Zenon
<1> QED BY <1>4, <1>5, <1>6, <1>7, Zenon DEF new

\* An ingestion keeps the projects.
LEMMA ReplacingKeepsProjects ==
    ASSUME ProjectsFit, NEW p \in ScipProjects, NEW index, Replaces(p, index)
    PROVE  /\ ProjectsFit' /\ Ingested(p)' /\ ingested'[p] = index /\ Planned' = Planned
           /\ \A q \in ScipProjects : q # p => ingested'[q] = ingested[q]
           /\ \A q \in ScipProjects : q # p /\ Ingested(q) => languageIndex \subseteq Planned
<1>1. /\ ingested' = [q \in ScipProjects |-> ingested'[q]] /\ ingested'[p] = index
      /\ \A q \in ScipProjects : q # p => ingested'[q] = ingested[q]
  BY Zenon DEF ProjectsFit, Replaces
<1>2. index # NoArtifact /\ index \in Stored(p)
  BY StoredIsSome, Zenon DEF Replaces
<1>3. Planned' = Planned /\ p \in Planned /\ subjobOf[p] = "RUNNING"
  BY Zenon DEF Replaces, Planned
<1>4. languageIndex' = (languageIndex \cap Planned) \cup {p} /\ UNCHANGED <<scipJob, subjobOf>>
  BY Zenon DEF Replaces
<1>5. languageIndex' \subseteq Planned' /\ languageIndex' \subseteq ScipProjects
  BY <1>3, <1>4, Zenon DEF Planned
<1>6. ASSUME NEW q \in ScipProjects
      PROVE  /\ Ingested(q)' => ingested'[q] \in Stored(q) /\ subjobOf'[q] # "absent" /\ q \in languageIndex'
             /\ subjobOf'[q] = "SUCCEEDED" => Ingested(q)'
  <2>1. CASE q = p
    BY <1>1, <1>2, <1>3, <1>4, <2>1, Zenon DEF Ingested
  <2>2. CASE q # p
    BY <1>1, <1>4, <2>2, Zenon DEF Ingested, ProjectsFit, Planned
  <2> QED BY <2>1, <2>2, Zenon
<1>7. ProjectsFit'
  BY <1>1, <1>4, <1>5, <1>6, Zenon DEF ProjectsFit
<1> QED BY <1>1, <1>2, <1>3, <1>7, Zenon DEF ProjectsFit, Ingested

\* An ingestion keeps the invariant.
LEMMA IngestKeeps ==
    ASSUME ScipInv, NEW p \in ScipProjects, NEW index \in ScipArtifacts[p], IngestScip(p, index)
    PROVE  ScipInv'
<1>0. ProjectsFit /\ RowsFit /\ RowsCover
  BY Zenon DEF ScipInv
<1>1. /\ Replaces(p, index)
      /\ /\ \A r \in symbolRows : Kept(r, p) => r \in symbolRows'
         /\ \A r \in symbolRows' :
               (r \in symbolRows /\ Kept(r, p)) \/ (r.project = p /\ r.row.symbol \in SymbolsOf(index))
         /\ \A s \in SymbolsOf(index) : \E r \in symbolRows' : r.row.symbol = s
      /\ /\ \A r \in relationRows : Kept(r, p) => r \in relationRows'
         /\ \A r \in relationRows' :
               \/ r \in relationRows /\ Kept(r, p)
               \/ r.project = p /\ r.row \in ArtifactRows[index].relationships
         /\ \A t \in ArtifactRows[index].relationships : \E r \in relationRows' : r.row = t
      /\ /\ \A r \in occurrenceRows : Kept(r, p) => r \in occurrenceRows'
         /\ \A r \in occurrenceRows' :
               \/ r \in occurrenceRows /\ Kept(r, p)
               \/ r.project = p /\ r.row \in ArtifactRows[index].occurrences
         /\ \A o \in ArtifactRows[index].occurrences :
               \E r \in occurrenceRows' : r.row = o /\ r.project = p
  BY <1>0, IngestReplaces, Zenon
<1>2. /\ ProjectsFit' /\ Ingested(p)' /\ ingested'[p] = index /\ Planned' = Planned
      /\ \A q \in ScipProjects : q # p => ingested'[q] = ingested[q]
      /\ \A q \in ScipProjects : q # p /\ Ingested(q) => languageIndex \subseteq Planned
  BY <1>0, <1>1, ReplacingKeepsProjects, Zenon
<1>3. /\ languageIndex' = (languageIndex \cap Planned) \cup {p} /\ index \in Stored(p)
      /\ languageIndex \subseteq ScipProjects
  BY <1>0, <1>1, Zenon DEF Replaces, ProjectsFit
<1>4. ASSUME NEW q \in languageIndex, NEW r, r.project = q, Kept(r, p)
      PROVE  q \in languageIndex' /\ q # p /\ ingested'[q] = ingested[q]
  BY <1>2, <1>3, <1>4, Zenon DEF Kept
<1>5. p \in languageIndex'
  BY <1>3, Zenon
<1>6. RowsFit'
  <2>1. ASSUME NEW r \in symbolRows'
        PROVE  /\ r.project \in languageIndex'
               /\ \E x \in Stored(r.project) :
                     r.row.symbol \in SymbolsOf(x) /\ (Ingested(r.project)' => x = ingested'[r.project])
    <3>1. CASE r \in symbolRows /\ Kept(r, p)
      BY <1>0, <1>4, <3>1, Zenon DEF RowsFit, Ingested
    <3>2. CASE r.project = p /\ r.row.symbol \in SymbolsOf(index)
      BY <1>2, <1>3, <1>5, <3>2, Zenon
    <3> QED BY <1>1, <3>1, <3>2, Zenon
  <2>2. ASSUME NEW r \in relationRows'
        PROVE  /\ r.project \in languageIndex'
               /\ \E x \in Stored(r.project) :
                     r.row \in ArtifactRows[x].relationships /\ (Ingested(r.project)' => x = ingested'[r.project])
    <3>1. CASE r \in relationRows /\ Kept(r, p)
      BY <1>0, <1>4, <3>1, Zenon DEF RowsFit, Ingested
    <3>2. CASE r.project = p /\ r.row \in ArtifactRows[index].relationships
      BY <1>2, <1>3, <1>5, <3>2, Zenon
    <3> QED BY <1>1, <3>1, <3>2, Zenon
  <2>3. ASSUME NEW r \in occurrenceRows'
        PROVE  /\ r.project \in languageIndex'
               /\ Ingested(r.project)' => r.row \in ArtifactRows[ingested'[r.project]].occurrences
    <3>1. CASE r \in occurrenceRows /\ Kept(r, p)
      BY <1>0, <1>4, <3>1, Zenon DEF RowsFit, Ingested
    <3>2. CASE r.project = p /\ r.row \in ArtifactRows[index].occurrences
      BY <1>2, <1>5, <3>2, Zenon
    <3> QED BY <1>1, <3>1, <3>2, Zenon
  <2> QED BY <2>1, <2>2, <2>3, Zenon DEF RowsFit
<1>7. RowsCover'
  <2> SUFFICES ASSUME NEW q \in ScipProjects, Ingested(q)'
      PROVE  /\ \A o \in ArtifactRows[ingested'[q]].occurrences :
                   \E r \in occurrenceRows' : r.row = o /\ r.project = q
             /\ StableArtifacts =>
                   /\ \A s \in SymbolsOf(ingested'[q]) : \E r \in symbolRows' : r.row.symbol = s
                   /\ \A t \in ArtifactRows[ingested'[q]].relationships : \E r \in relationRows' : r.row = t
    BY Zenon DEF RowsCover
  <2>1. CASE q = p
    BY <1>1, <1>2, <2>1, Zenon
  <2>2. CASE q # p
    <3>1. /\ Ingested(q) /\ ingested'[q] = ingested[q] /\ languageIndex \subseteq Planned
          /\ ingested[q] \in Stored(q)
      BY <1>0, <1>2, <2>2, Zenon DEF Ingested, ProjectsFit
    <3>2. \A r : r.project \in languageIndex /\ r.project # p => Kept(r, p)
      BY <3>1, Zenon DEF Kept
    <3>3. ASSUME NEW o \in ArtifactRows[ingested[q]].occurrences
          PROVE  \E r \in occurrenceRows' : r.row = o /\ r.project = q
      <4>1. PICK r \in occurrenceRows : r.row = o /\ r.project = q
        BY <1>0, <3>1, Zenon DEF RowsCover
      <4>2. r \in occurrenceRows'
        BY <1>0, <1>1, <2>2, <3>2, <4>1, Zenon DEF RowsFit
      <4> QED BY <4>1, <4>2, Zenon
    <3>4. ASSUME StableArtifacts, NEW s \in SymbolsOf(ingested[q])
          PROVE  \E r \in symbolRows' : r.row.symbol = s
      <4>1. PICK r \in symbolRows : r.row.symbol = s
        BY <1>0, <3>1, <3>4, Zenon DEF RowsCover
      <4>2. CASE r.project # p
        <5>1. r \in symbolRows'
          BY <1>0, <1>1, <3>2, <4>2, Zenon DEF RowsFit
        <5> QED BY <4>1, <5>1, Zenon
      <4>3. CASE r.project = p
        <5>1. PICK old \in Stored(p) : s \in SymbolsOf(old)
          BY <1>0, <4>1, <4>3, Zenon DEF RowsFit
        <5>2. s \in SymbolsOf(index)
          BY <1>3, <2>2, <3>1, <3>4, <5>1, Zenon DEF StableArtifacts
        <5> QED BY <1>1, <5>2, Zenon
      <4> QED BY <4>2, <4>3, Zenon
    <3>5. ASSUME StableArtifacts, NEW t \in ArtifactRows[ingested[q]].relationships
          PROVE  \E r \in relationRows' : r.row = t
      <4>1. PICK r \in relationRows : r.row = t
        BY <1>0, <3>1, <3>5, Zenon DEF RowsCover
      <4>2. CASE r.project # p
        <5>1. r \in relationRows'
          BY <1>0, <1>1, <3>2, <4>2, Zenon DEF RowsFit
        <5> QED BY <4>1, <5>1, Zenon
      <4>3. CASE r.project = p
        <5>1. PICK old \in Stored(p) : t \in ArtifactRows[old].relationships
          BY <1>0, <4>1, <4>3, Zenon DEF RowsFit
        <5>2. t \in ArtifactRows[index].relationships
          BY <1>3, <2>2, <3>1, <3>5, <5>1, Zenon DEF StableArtifacts
        <5> QED BY <1>1, <5>2, Zenon
      <4> QED BY <4>2, <4>3, Zenon
    <3> QED BY <3>1, <3>3, <3>4, <3>5, Zenon
  <2> QED BY <2>1, <2>2, Zenon
<1>8. StatusFits'
  <2>1. codeIntel'.status = StatusAfter(languageIndex', UpsertCodeIntelIndex)
    BY Zenon DEF IngestScip
  <2>2. languageIndex' # {} /\ subjobOf' = subjobOf /\ subjobOf \in
           [ScipProjects -> {"absent", "RUNNING", "SUCCEEDED", "FAILED", "SKIPPED"}]
    BY <1>0, <1>1, <1>3, Zenon DEF Replaces, ProjectsFit
  <2>3. CASE \E q \in ScipProjects : subjobOf[q] \in {"FAILED", "SKIPPED"}
    <3>1. codeIntel'.status = "PARTIAL"
      BY <2>1, <2>2, <2>3, Zenon DEF StatusAfter
    <3> QED BY <1>2, <2>2, <2>3, <3>1, Zenon DEF StatusFits
  <2>4. CASE ~\E q \in ScipProjects : subjobOf[q] \in {"FAILED", "SKIPPED"}
    <3>1. (\E q \in ScipProjects : subjobOf[q] \notin {"absent", "SKIPPED"} /\ q \notin languageIndex')
            <=> ~(Planned \subseteq languageIndex')
      BY <2>4, Zenon DEF Planned
    <3>2. codeIntel'.status = IF Planned \subseteq languageIndex' THEN "READY" ELSE "INDEXING"
      BY <2>1, <2>2, <2>4, <3>1, Zenon DEF StatusAfter
    <3> QED BY <1>2, <2>2, <2>4, <3>2, Zenon DEF StatusFits
  <2> QED BY <2>3, <2>4, Zenon
<1> QED BY <1>2, <1>6, <1>7, <1>8, Zenon DEF ScipInv

\* Nothing is planned, stored or ingested at first.
LEMMA ScipStarts == ScipInit => ScipInv
<1> SUFFICES ASSUME ScipInit PROVE ScipInv
  OBVIOUS
<1>1. /\ \A p \in ScipProjects : ~Ingested(p) /\ subjobOf[p] = "absent"
      /\ ingested = [p \in ScipProjects |-> ingested[p]]
  BY Zenon DEF ScipInit, Ingested
<1>2. ProjectsFit
  BY <1>1, Zenon DEF ScipInit, ProjectsFit
<1>3. RowsFit /\ RowsCover
  BY <1>1, Zenon DEF ScipInit, RowsFit, RowsCover
<1>4. StatusFits
  BY <1>1, Zenon DEF StatusFits, Planned
<1> QED BY <1>2, <1>3, <1>4, Zenon DEF ScipInv

\* A new job plans its projects and has ingested none.
LEMMA JobKeeps ==
    ASSUME ScipInv, StartScipJob
    PROVE  ScipInv'
<1>1. /\ scipJob' = scipJob + 1 /\ lateEnd' = FALSE
      /\ subjobOf' = [p \in ScipProjects |-> IF p \in ScipPlans[scipJob + 1] THEN "RUNNING" ELSE "absent"]
      /\ ingested' = [p \in ScipProjects |-> NoArtifact]
      /\ UNCHANGED <<codeIntel, languageIndex, symbolRows, occurrenceRows, relationRows>>
  BY Zenon DEF StartScipJob
<1>2. /\ \A p \in ScipProjects : ~Ingested(p)' /\ subjobOf'[p] \in {"RUNNING", "absent"}
      /\ ingested' = [p \in ScipProjects |-> ingested'[p]]
  BY <1>1, Zenon DEF Ingested
<1>3. ProjectsFit'
  BY <1>1, <1>2 DEF ScipInv, ProjectsFit
<1>4. languageIndex \subseteq ScipProjects
  BY Zenon DEF ScipInv, ProjectsFit
<1>5. RowsFit'
  <2>1. /\ \A r \in symbolRows : r.project \in languageIndex
        /\ \A r \in relationRows : r.project \in languageIndex
        /\ \A r \in occurrenceRows : r.project \in languageIndex
    BY Zenon DEF ScipInv, RowsFit
  <2>2. \A r \in symbolRows : \E index \in Stored(r.project) : r.row.symbol \in SymbolsOf(index)
    BY Zenon DEF ScipInv, RowsFit
  <2>3. \A r \in relationRows : \E index \in Stored(r.project) : r.row \in ArtifactRows[index].relationships
    BY Zenon DEF ScipInv, RowsFit
  <2> QED BY <1>1, <1>2, <1>4, <2>1, <2>2, <2>3, Zenon DEF RowsFit
<1>6. RowsCover'
  BY <1>2, Zenon DEF RowsCover
<1>7. StatusFits'
  BY <1>2, Zenon DEF StatusFits, Planned
<1> QED BY <1>3, <1>5, <1>6, <1>7, Zenon DEF ScipInv

\* A subjob ends, and the rows stay as they are.
LEMMA EndKeeps ==
    ASSUME ScipInv, NEW p \in ScipProjects, NEW status \in {"SUCCEEDED", "FAILED", "SKIPPED"},
           subjobOf[p] = "RUNNING", subjobOf' = [subjobOf EXCEPT ![p] = status],
           status = "SUCCEEDED" => Ingested(p) /\ UNCHANGED lateEnd,
           status # "SUCCEEDED" => lateEnd' = TRUE,
           UNCHANGED <<scipJob, codeIntel, languageIndex, symbolRows, occurrenceRows, relationRows, ingested>>
    PROVE  ScipInv'
<1>1. /\ subjobOf \in [ScipProjects -> {"absent", "RUNNING", "SUCCEEDED", "FAILED", "SKIPPED"}]
      /\ subjobOf'[p] = status /\ \A q \in ScipProjects : q # p => subjobOf'[q] = subjobOf[q]
  BY Zenon DEF ScipInv, ProjectsFit
<1>2. Planned' = Planned
  BY <1>1, Zenon DEF Planned
<1>3. \A q : Ingested(q)' <=> Ingested(q)
  BY Zenon DEF Ingested
<1>4. ProjectsFit'
  BY <1>1, <1>2, <1>3, Zenon DEF ScipInv, ProjectsFit
<1>5. RowsFit' /\ RowsCover'
  BY <1>3, ZenonT(60) DEF ScipInv, RowsFit, RowsCover
<1>6. StatusFits'
  <2>1. CASE status # "SUCCEEDED"
    BY <2>1, Zenon DEF StatusFits
  <2>2. CASE status = "SUCCEEDED"
    <3>1. (\E q \in ScipProjects : subjobOf'[q] \in {"FAILED", "SKIPPED"})
             <=> (\E q \in ScipProjects : subjobOf[q] \in {"FAILED", "SKIPPED"})
      BY <1>1, <2>2, Zenon
    <3>2. Ingested(p) /\ UNCHANGED lateEnd
      BY <2>2, Zenon
    <3> QED BY <1>2, <1>3, <3>1, <3>2, Zenon DEF ScipInv, StatusFits
  <2> QED BY <2>1, <2>2, Zenon
<1> QED BY <1>4, <1>5, <1>6, Zenon DEF ScipInv

\* The invariant of ScipIngest.
THEOREM ScipInvHolds == ScipSpec => []ScipInv
<1>1. ScipInit => ScipInv
  BY ScipStarts, Zenon
<1>2. ScipInv /\ [ScipNext]_scipVars => ScipInv'
  <2> SUFFICES ASSUME ScipInv, [ScipNext]_scipVars PROVE ScipInv'
    OBVIOUS
  <2>1. CASE StartScipJob
    BY <2>1, JobKeeps, Zenon
  <2>2. ASSUME NEW p \in ScipProjects, NEW index \in ScipArtifacts[p], IngestScip(p, index) PROVE ScipInv'
    BY <2>2, IngestKeeps, Zenon
  <2>3. ASSUME NEW p \in ScipProjects, ScipSucceeded(p) PROVE ScipInv'
    BY <2>3, EndKeeps, Zenon DEF ScipSucceeded, Ingested
  <2>4. ASSUME NEW p \in ScipProjects, NEW status \in {"FAILED", "SKIPPED"}, ScipEnds(p, status) PROVE ScipInv'
    BY <2>4, EndKeeps, Zenon DEF ScipEnds
  <2>5. CASE UNCHANGED scipVars
    <3>1. /\ UNCHANGED Planned /\ \A q : Ingested(q)' <=> Ingested(q)
          /\ UNCHANGED <<scipJob, subjobOf, codeIntel, languageIndex, symbolRows, occurrenceRows,
                         relationRows, ingested, lateEnd>>
      BY <2>5, Zenon DEF scipVars, Planned, Ingested
    <3>2. ProjectsFit' /\ StatusFits'
      BY <3>1, Zenon DEF ScipInv, ProjectsFit, StatusFits
    <3>3. RowsFit' /\ RowsCover'
      <4>1. UNCHANGED <<languageIndex, symbolRows, occurrenceRows, relationRows, ingested>>
        BY <3>1, Zenon
      <4>2. \A q : Ingested(q)' <=> Ingested(q)
        BY <3>1, Zenon
      <4>3. RowsFit'
        BY <4>1, <4>2, Zenon DEF ScipInv, RowsFit
      <4>4. RowsCover'
        BY <4>1, <4>2, ZenonT(60) DEF ScipInv, RowsCover
      <4> QED BY <4>3, <4>4, Zenon
    <3> QED BY <3>2, <3>3, Zenon DEF ScipInv
  <2> QED BY <2>1, <2>2, <2>3, <2>4, <2>5, Zenon DEF ScipNext
<1> QED BY <1>1, <1>2, PTL DEF ScipSpec

\* What the status of a revision's SCIP index says once its subjobs are settled, for any
\* plans, projects, artifacts and order of ingestions.
THEOREM ScipStatusIsTrue == ScipSpec => []SettledStatusIsTrue
<1>1. ScipInv => SettledStatusIsTrue
  <2> SUFFICES ASSUME ScipInv, \A p \in ScipProjects : subjobOf[p] # "RUNNING", ~lateEnd, Planned # {}
               PROVE  codeIntel.status =
                         IF \A p \in Planned : subjobOf[p] = "SUCCEEDED" THEN "READY" ELSE "PARTIAL"
    BY Zenon DEF SettledStatusIsTrue
  <2>1. /\ subjobOf \in [ScipProjects -> {"absent", "RUNNING", "SUCCEEDED", "FAILED", "SKIPPED"}]
        /\ \A p \in ScipProjects : subjobOf[p] = "SUCCEEDED" => p \in languageIndex
    BY Zenon DEF ScipInv, ProjectsFit
  <2>2. codeIntel.status = IF \E p \in ScipProjects : subjobOf[p] \in {"FAILED", "SKIPPED"} THEN "PARTIAL"
                           ELSE IF Planned \subseteq languageIndex THEN "READY" ELSE "INDEXING"
    BY Zenon DEF ScipInv, StatusFits, Planned
  <2>3. CASE \E p \in ScipProjects : subjobOf[p] \in {"FAILED", "SKIPPED"}
    BY <2>2, <2>3, Zenon DEF Planned
  <2>4. CASE ~\E p \in ScipProjects : subjobOf[p] \in {"FAILED", "SKIPPED"}
    <3>1. \A p \in Planned : subjobOf[p] = "SUCCEEDED"
      BY <2>1, <2>4, Zenon DEF Planned
    <3>2. Planned \subseteq languageIndex
      BY <2>1, <3>1, Zenon DEF Planned
    <3> QED BY <2>2, <2>4, <3>1, <3>2, Zenon
  <2> QED BY <2>3, <2>4, Zenon
<1> QED BY <1>1, ScipInvHolds, PTL

\* What is stored when every project of the plan was ingested, for any plans, projects and
\* artifacts of indexers that describe shared symbols each time.
THEOREM IngestionsAreWhole ==
    ASSUME StableArtifacts
    PROVE  ScipSpec => []IngestedIsWhole
<1>1. ScipInv => IngestedIsWhole
  <2> SUFFICES ASSUME ScipInv, Planned # {}, \A p \in Planned : ingested[p] # NoArtifact
      PROVE  LET all == {ArtifactRows[ingested[p]] : p \in Planned} IN
             /\ {r.row.symbol : r \in symbolRows} = UNION {{s.symbol : s \in rows.symbols} : rows \in all}
             /\ {r.row : r \in relationRows} = UNION {rows.relationships : rows \in all}
             /\ {r.row : r \in occurrenceRows} = UNION {rows.occurrences : rows \in all}
    BY Zenon DEF IngestedIsWhole
  <2>1. /\ Planned \subseteq ScipProjects /\ languageIndex \subseteq Planned
        /\ \A p \in Planned : Ingested(p)
    BY Zenon DEF ScipInv, ProjectsFit, Planned, Ingested
  <2>2. {r.row.symbol : r \in symbolRows} = UNION {SymbolsOf(ingested[p]) : p \in Planned}
    <3>1. ASSUME NEW r \in symbolRows PROVE \E p \in Planned : r.row.symbol \in SymbolsOf(ingested[p])
      BY <2>1, Zenon DEF ScipInv, RowsFit
    <3>2. ASSUME NEW p \in Planned, NEW s \in SymbolsOf(ingested[p])
          PROVE  \E r \in symbolRows : r.row.symbol = s
      BY <2>1, Zenon DEF ScipInv, RowsCover
    <3> QED BY <3>1, <3>2
  <2>3. {r.row : r \in relationRows} = UNION {ArtifactRows[ingested[p]].relationships : p \in Planned}
    <3>1. ASSUME NEW r \in relationRows
          PROVE  \E p \in Planned : r.row \in ArtifactRows[ingested[p]].relationships
      BY <2>1, Zenon DEF ScipInv, RowsFit
    <3>2. ASSUME NEW p \in Planned, NEW t \in ArtifactRows[ingested[p]].relationships
          PROVE  \E r \in relationRows : r.row = t
      BY <2>1, Zenon DEF ScipInv, RowsCover
    <3> QED BY <3>1, <3>2
  <2>4. {r.row : r \in occurrenceRows} = UNION {ArtifactRows[ingested[p]].occurrences : p \in Planned}
    <3>1. ASSUME NEW r \in occurrenceRows
          PROVE  \E p \in Planned : r.row \in ArtifactRows[ingested[p]].occurrences
      BY <2>1, Zenon DEF ScipInv, RowsFit
    <3>2. ASSUME NEW p \in Planned, NEW o \in ArtifactRows[ingested[p]].occurrences
          PROVE  \E r \in occurrenceRows : r.row = o
      <4>1. p \in ScipProjects /\ Ingested(p)
        BY <2>1, Zenon
      <4>2. \E r \in occurrenceRows : r.row = o /\ r.project = p
        BY <4>1, Zenon DEF ScipInv, RowsCover
      <4> QED BY <4>2, Zenon
    <3> QED BY <3>1, <3>2
  <2>5. UNION {SymbolsOf(ingested[p]) : p \in Planned}
          = UNION {{s.symbol : s \in rows.symbols} : rows \in {ArtifactRows[ingested[p]] : p \in Planned}}
    BY Zenon DEF SymbolsOf
  <2>6. UNION {ArtifactRows[ingested[p]].relationships : p \in Planned}
          = UNION {rows.relationships : rows \in {ArtifactRows[ingested[p]] : p \in Planned}}
    OBVIOUS
  <2>7. UNION {ArtifactRows[ingested[p]].occurrences : p \in Planned}
          = UNION {rows.occurrences : rows \in {ArtifactRows[ingested[p]] : p \in Planned}}
    OBVIOUS
  <2> QED BY <2>2, <2>3, <2>4, <2>5, <2>6, <2>7, Zenon
<1> QED BY <1>1, ScipInvHolds, PTL

\* The empty set has no elements.
LEMMA EmptyIsZero == Cardinality({}) = 0
<1> DEFINE Counts(CS) == CS = [T \in SUBSET {} |-> IF T = {} THEN 0 ELSE 1 + CS[T \ {CHOOSE x : x \in T}]]
           zero == [T \in SUBSET {} |-> 0]
<1>1. Counts(zero)
  OBVIOUS
<1>2. Counts(CHOOSE CS : Counts(CS))
  <2> HIDE DEF Counts, zero
  <2> QED
    BY <1>1, Zenon
<1>3. \A CS : Counts(CS) => CS[{}] = 0
  OBVIOUS
<1> HIDE DEF zero
<1>4. Cardinality({}) = (CHOOSE CS : Counts(CS))[{}]
  BY Zenon DEF Cardinality
<1> QED
  BY <1>2, <1>3, <1>4, Zenon

\* The counts of the index row are those of the stored rows after every step.
THEOREM ScipTypesHold == ScipSpec => []ScipTypeOK
<1>1. ScipInit => ScipTypeOK
  <2> SUFFICES ASSUME ScipInit PROVE ScipTypeOK
    OBVIOUS
  <2>1. {LanguageOf[p] : p \in languageIndex} = {}
    BY Zenon DEF ScipInit
  <2> QED BY <2>1, EmptyIsZero, Zenon DEF ScipInit, ScipTypeOK
<1>2. ScipTypeOK /\ [ScipNext]_scipVars => ScipTypeOK'
  <2> SUFFICES ASSUME ScipTypeOK, [ScipNext]_scipVars PROVE ScipTypeOK'
    OBVIOUS
  <2>1. ASSUME NEW p \in ScipProjects, NEW index \in ScipArtifacts[p], IngestScip(p, index)
        PROVE  ScipTypeOK'
    <3>1. /\ codeIntel' = [status |-> StatusAfter(languageIndex', UpsertCodeIntelIndex),
                           languages |-> Cardinality({LanguageOf[q] : q \in languageIndex'}),
                           symbols |-> Cardinality(symbolRows'), occurrences |-> Cardinality(occurrenceRows'),
                           relationships |-> Cardinality(relationRows')]
          /\ p \in languageIndex'
      BY <2>1, Zenon DEF IngestScip, UpsertLanguageIndex
    <3>2. StatusAfter(languageIndex', UpsertCodeIntelIndex) \in {"none", "INDEXING", "PARTIAL", "READY"}
      <4>1. UpsertCodeIntelIndex \in {"none", "INDEXING", "PARTIAL", "READY"}
        BY Zenon DEF ScipTypeOK, UpsertCodeIntelIndex
      <4> QED BY <3>1, <4>1, Zenon DEF StatusAfter
    <3> QED BY <3>1, <3>2, Zenon DEF ScipTypeOK
  <2>2. CASE UNCHANGED <<codeIntel, languageIndex, symbolRows, occurrenceRows, relationRows>>
    BY <2>2, Zenon DEF ScipTypeOK
  <2>3. ASSUME NEW p \in ScipProjects,
               ScipSucceeded(p) \/ ScipEnds(p, "FAILED") \/ ScipEnds(p, "SKIPPED")
        PROVE  UNCHANGED <<codeIntel, languageIndex, symbolRows, occurrenceRows, relationRows>>
    BY <2>3, Zenon DEF ScipSucceeded, ScipEnds
  <2> QED BY <2>1, <2>2, <2>3, Zenon DEF ScipNext, StartScipJob, scipVars
<1> QED BY <1>1, <1>2, PTL DEF ScipSpec

IntRange == [startLine : Int, startCharacter : Int, endLine : Int, endCharacter : Int]

\* A range that has been normalised has numbers.
LEMMA RangesHaveNumbers ==
    ASSUME NEW v \in Seq(Int) PROVE NormalizeRange(v) \in IntRange
<1>1. \A n \in 1 .. Len(v) : v[n] \in Int
  OBVIOUS
<1>2. {1, 2, 3} \subseteq 1 .. 3 /\ {1, 2, 3, 4} \subseteq 1 .. 4
  OBVIOUS
<1>3. NoRange \in IntRange
  BY DEF NoRange, IntRange
<1>4. CASE Len(v) = 3
  <2>1. v[1] \in Int /\ v[2] \in Int /\ v[3] \in Int
    BY <1>1, <1>2, <1>4, Zenon
  <2> QED BY <1>4, <2>1, Zenon DEF NormalizeRange, IntRange
<1>5. CASE Len(v) = 4
  <2>1. v[1] \in Int /\ v[2] \in Int /\ v[3] \in Int /\ v[4] \in Int
    BY <1>1, <1>2, <1>5, Zenon
  <2> QED BY <1>5, <2>1, Zenon DEF NormalizeRange, IntRange
<1>6. CASE Len(v) # 3 /\ Len(v) # 4
  BY <1>3, <1>6, Zenon DEF NormalizeRange
<1> QED BY <1>4, <1>5, <1>6, Zenon

\* A number that fits is not wrapped.
LEMMA FittingIsNotWrapped ==
    ASSUME NEW n \in 0 .. SpanMax PROVE Int32(n) = n
<1> DEFINE a == n + SpanMax + 1
           b == 2 * (SpanMax + 1)
<1>1. SpanMax \in Nat
  BY ScipConstants, Zenon
<1>2. a \in Nat /\ b \in Nat /\ a < b
  BY <1>1
<1>3. Int32(n) = (a % b) - (SpanMax + 1)
  BY Zenon DEF Int32
<1> HIDE DEF a, b
<1>4. a % b = a
  BY <1>2
<1> QED BY <1>1, <1>3, <1>4 DEF a

\* The weight of an ordinary range.
LEMMA OrdinarySpan ==
    ASSUME NEW r \in IntRange, Ordinary(r)
    PROVE  /\ RangeSpan(r) = (r.endLine - r.startLine) * LineSpan + (r.endCharacter - r.startCharacter)
           /\ RangeSpan(r) \in Nat
           /\ r.endCharacter - r.startCharacter \in 0 .. LineSpan - 1
<1>1. LineSpan \in Nat \ {0} /\ SpanMax \in Nat
  BY ScipConstants, Zenon
<1>2. PICK lines \in Int : lines = r.endLine - r.startLine
  BY DEF IntRange
<1>3. PICK chars \in Int : chars = r.endCharacter - r.startCharacter
  BY DEF IntRange
<1>4. chars \in 0 .. LineSpan - 1 /\ lines * LineSpan + chars \in 0 .. SpanMax
  BY <1>2, <1>3, Zenon DEF Ordinary
<1>5. lines >= 0
  <2> SUFFICES ASSUME lines < 0 PROVE FALSE
    OBVIOUS
  <2>1. (lines + 1) * LineSpan <= 0
    BY <1>1
  <2>2. (lines + 1) * LineSpan = lines * LineSpan + LineSpan
    BY <1>1
  <2>3. lines * LineSpan \in Int
    BY <1>1
  <2> QED BY <1>1, <1>4, <2>1, <2>2, <2>3
<1>6. PICK weight \in Int : weight = lines * LineSpan
  BY <1>1
<1>7. weight >= 0
  BY <1>1, <1>5, <1>6
<1>8. weight \in 0 .. SpanMax /\ weight + chars \in 0 .. SpanMax
  BY <1>1, <1>4, <1>6, <1>7
<1>9. RangeSpan(r) = Int32(Int32(weight) + chars)
  BY <1>2, <1>3, <1>4, <1>6 DEF RangeSpan
<1>10. RangeSpan(r) = weight + chars
  BY <1>8, <1>9, FittingIsNotWrapped, Zenon
<1> QED BY <1>2, <1>3, <1>4, <1>6, <1>8, <1>10

\* Of two ordinary ranges, the one around the other is not lighter unless it is the same.
LEMMA LighterIsInner ==
    ASSUME NEW s \in IntRange, NEW t \in IntRange, Ordinary(s), Ordinary(t),
           ContainsRange(s, t), RangeSpan(s) <= RangeSpan(t)
    PROVE  ContainsRange(t, s)
<1>1. LineSpan \in Nat \ {0}
  BY ScipConstants, Zenon
<1>2. PICK ls \in Int : ls = s.endLine - s.startLine
  BY DEF IntRange
<1>3. PICK lt \in Int : lt = t.endLine - t.startLine
  BY DEF IntRange
<1>4. PICK cs \in Int : cs = s.endCharacter - s.startCharacter
  BY DEF IntRange
<1>5. PICK ct \in Int : ct = t.endCharacter - t.startCharacter
  BY DEF IntRange
<1>6. /\ cs \in 0 .. LineSpan - 1 /\ ct \in 0 .. LineSpan - 1
      /\ ls * LineSpan + cs <= lt * LineSpan + ct
  BY <1>2, <1>3, <1>4, <1>5, OrdinarySpan, Zenon
<1>7. ls >= lt
  BY <1>2, <1>3 DEF ContainsRange, IntRange
<1>8. ~(ls > lt)
  <2> SUFFICES ASSUME ls > lt PROVE FALSE
    OBVIOUS
  <2>1. (ls - lt) * LineSpan >= LineSpan
    BY <1>1
  <2>2. ls * LineSpan = lt * LineSpan + (ls - lt) * LineSpan
    BY <1>1
  <2>3. ls * LineSpan \in Int /\ lt * LineSpan \in Int
    BY <1>1
  <2> QED BY <1>1, <1>6, <2>1, <2>2, <2>3
<1>9. ls = lt /\ cs <= ct
  <2>1. ls = lt
    BY <1>7, <1>8
  <2>2. lt * LineSpan \in Int
    BY <1>1
  <2> QED BY <1>6, <2>1, <2>2
<1>10. s.startLine = t.startLine /\ s.endLine = t.endLine
  BY <1>2, <1>3, <1>9 DEF ContainsRange, IntRange
<1>11. s.startCharacter = t.startCharacter /\ s.endCharacter = t.endCharacter
  BY <1>4, <1>5, <1>9, <1>10 DEF ContainsRange, IntRange
<1> QED BY <1>10, <1>11, Zenon DEF ContainsRange, IntRange

\* Least members of sets of numbers.
LOCAL INSTANCE WellFoundedInduction

Below == {p \in Nat \X Nat : p[1] < p[2]}

\* A nonempty set of naturals has a least member.
LEMMA LeastMember ==
    ASSUME NEW P \in SUBSET Nat, P # {}
    PROVE  \E x \in P : \A y \in P : x <= y
<1>1. IsWellFoundedOn(Below, Nat)
  BY NatLessThanWellFounded, Zenon DEF OpToRel, Below
<1>2. PICK x \in P : \A y \in P : ~(<<y, x>> \in Below)
  BY <1>1, WFMin, Zenon
<1>3. ASSUME NEW y \in P PROVE x <= y
  <2>1. x \in Nat /\ y \in Nat /\ <<y, x>> \notin Below
    BY <1>2, Zenon
  <2> QED
    BY <2>1 DEF Below
<1> QED
  BY <1>3, Zenon

\* Among scopes whose weights are numbers, one of the lightest is found, and it is around
\* the range.
LEMMA LightestIsFound ==
    ASSUME NEW scopes, DOMAIN scopes \subseteq Nat, NEW rng, NEW symbol, NEW around \in SUBSET DOMAIN scopes,
           around = {k \in DOMAIN scopes : scopes[k].symbol # symbol /\ ContainsRange(scopes[k].range, rng)},
           around # {}, \A k \in around : RangeSpan(scopes[k].range) \in Nat
    PROVE  \E k \in around :
              /\ FindEnclosingDefinitionSymbol(scopes, rng, symbol) = scopes[k].symbol
              /\ \A j \in around : RangeSpan(scopes[k].range) <= RangeSpan(scopes[j].range)
<1> DEFINE span(k) == RangeSpan(scopes[k].range)
           before(k, j) == span(k) < span(j) \/ (span(k) = span(j) /\ k <= j)
           firstOf(k) == \A j \in around : before(k, j)
<1>1. FindEnclosingDefinitionSymbol(scopes, rng, symbol) = scopes[CHOOSE k \in around : firstOf(k)].symbol
  BY Zenon DEF FindEnclosingDefinitionSymbol
<1> HIDE DEF span
<1>2. \A k \in around : span(k) \in Nat /\ k \in Nat
  BY Zenon DEF span
<1>3. PICK w \in Nat : (\E k \in around : span(k) = w) /\ \A k \in around : w <= span(k)
  <2> DEFINE W == {span(k) : k \in around}
  <2>1. W \in SUBSET Nat /\ W # {}
    BY <1>2, Zenon
  <2> HIDE DEF W
  <2>2. PICK w \in W : \A y \in W : w <= y
    BY <2>1, LeastMember, Zenon
  <2> QED BY <2>1, <2>2, Zenon DEF W
<1>4. PICK m \in around : span(m) = w /\ \A k \in around : span(k) = w => m <= k
  <2> DEFINE K == {k \in around : span(k) = w}
  <2>1. K \in SUBSET Nat /\ K # {}
    BY <1>2, <1>3, Zenon
  <2> HIDE DEF K
  <2>2. PICK m \in K : \A y \in K : m <= y
    BY <2>1, LeastMember, Zenon
  <2> QED BY <2>2, Zenon DEF K
<1>5. firstOf(m)
  BY <1>2, <1>3, <1>4
<1>6. PICK k \in around : k = CHOOSE x \in around : firstOf(x)
  <2> HIDE DEF firstOf
  <2> QED BY <1>5, Zenon
<1>7. firstOf(k)
  <2> HIDE DEF firstOf
  <2> QED BY <1>5, <1>6, Zenon
<1>8. \A j \in around : span(k) <= span(j)
  BY <1>2, <1>7
<1> QED BY <1>1, <1>6, <1>8, Zenon DEF span

\* An occurrence row of an artifact is of an occurrence in one of its documents.
LEMMA RowOfOccurrence ==
    ASSUME NEW p \in ScipProjects, NEW index \in ScipArtifacts[p],
           NEW row \in ArtifactRows[index].occurrences
    PROVE  \E k \in SafeDocuments(index) : \E o \in Range(index.documents[k].occurrences) :
              /\ row.symbol = o.symbol /\ row.file = index.documents[k].path
              /\ row.range = NormalizeRange(o.range)
              /\ row.enclosing = FindEnclosingDefinitionSymbol(DefinitionScopes(index.documents[k]),
                                                               NormalizeRange(o.range), o.symbol)
<1>1. index \in UNION Range(ScipArtifacts)
  BY Zenon DEF Range, ScipProjects
<1>2. ArtifactRows[index] = RowsFromIndex(index)
  BY <1>1, Zenon DEF ArtifactRows
<1> DEFINE docs == {index.documents[k] : k \in SafeDocuments(index)}
           ranged(doc) == {o \in Range(doc.occurrences) : o.symbol # "" /\ NormalizeRange(o.range) # NoRange}
           around(doc, o) == FindEnclosingDefinitionSymbol(DefinitionScopes(doc), NormalizeRange(o.range), o.symbol)
           rowsOf(doc, o) == {[symbol |-> o.symbol, file |-> doc.path, range |-> NormalizeRange(o.range),
                               role |-> role, enclosing |-> around(doc, o)] : role \in OccurrenceRoles(o)}
<1>3. RowsFromIndex(index).occurrences = UNION {UNION {rowsOf(doc, o) : o \in ranged(doc)} : doc \in docs}
  BY Zenon DEF RowsFromIndex
<1>4. row \in UNION {UNION {rowsOf(doc, o) : o \in ranged(doc)} : doc \in docs}
  BY <1>2, <1>3, Zenon
<1> HIDE DEF rowsOf, ranged, docs
<1>5. PICK doc \in docs : row \in UNION {rowsOf(doc, o) : o \in ranged(doc)}
  BY <1>4, Zenon
<1>6. PICK o \in ranged(doc) : row \in rowsOf(doc, o)
  BY <1>5, Zenon
<1>7. /\ row.symbol = o.symbol /\ row.file = doc.path /\ row.range = NormalizeRange(o.range)
      /\ row.enclosing = around(doc, o)
  BY <1>6 DEF rowsOf
<1>8. o \in Range(doc.occurrences)
  BY Zenon DEF ranged
<1>9. PICK k \in SafeDocuments(index) : doc = index.documents[k]
  BY Zenon DEF docs
<1> QED BY <1>7, <1>8, <1>9, Zenon

\* The scopes of a document have places and ranges with numbers.
LEMMA ScopesHaveRanges ==
    ASSUME NEW p \in ScipProjects, NEW index \in ScipArtifacts[p], NEW k \in SafeDocuments(index)
    PROVE  /\ DOMAIN DefinitionScopes(index.documents[k]) \subseteq Nat
           /\ \A s \in Range(DefinitionScopes(index.documents[k])) : s.range \in IntRange
<1>1. index \in UNION Range(ScipArtifacts) /\ k \in DOMAIN index.documents
  BY Zenon DEF Range, ScipProjects, SafeDocuments
<1>2. PICK os : os = index.documents[k].occurrences
  OBVIOUS
<1>3. os \in Seq(Range(os)) /\ \A o \in Range(os) : o.range \in Seq(Int) /\ o.enclosing \in Seq(Int)
  BY <1>1, <1>2, ScipConstants, Zenon
<1>4. DOMAIN os \subseteq Nat
  <2>1. DOMAIN os = 1 .. Len(os) /\ Len(os) \in Nat
    BY <1>3
  <2> QED BY <2>1
<1> DEFINE scope(o) == IF NormalizeRange(o.enclosing) # NoRange THEN NormalizeRange(o.enclosing)
                       ELSE NormalizeRange(o.range)
           places == {j \in DOMAIN os : os[j].symbol # "" /\ IsDefinition(os[j]) /\ scope(os[j]) # NoRange}
<1>5. DefinitionScopes(index.documents[k])
        = [j \in places |-> [symbol |-> os[j].symbol, range |-> scope(os[j])]]
  BY <1>2, Zenon DEF DefinitionScopes
<1>6. \A o \in Range(os) : scope(o) \in IntRange
  BY <1>3, RangesHaveNumbers, Zenon
<1> HIDE DEF scope
<1>7. \A j \in places : scope(os[j]) \in IntRange /\ j \in Nat
  BY <1>4, <1>6, Zenon DEF Range
<1> HIDE DEF places
<1>8. ASSUME NEW s \in Range(DefinitionScopes(index.documents[k])) PROVE s.range \in IntRange
  <2>1. PICK j \in places : s = [symbol |-> os[j].symbol, range |-> scope(os[j])]
    BY <1>5, Zenon DEF Range
  <2> QED BY <1>7, <2>1, Zenon
<1>9. DOMAIN DefinitionScopes(index.documents[k]) \subseteq Nat
  BY <1>5, <1>7, Zenon
<1> QED BY <1>8, <1>9, Zenon

\* Of the scopes around a range, an innermost one is named.
Attributed(around, enclosing) ==
    /\ around = {} => enclosing = ""
    /\ around # {} /\ (\A s \in around : Ordinary(s.range)) =>
          \E s \in around :
             /\ s.symbol = enclosing
             /\ \A t \in around : ContainsRange(s.range, t.range) => ContainsRange(t.range, s.range)

\* What findEnclosingDefinitionSymbol answers for an occurrence of a stored artifact.
LEMMA EnclosingIsAround ==
    ASSUME NEW p \in ScipProjects, NEW index \in ScipArtifacts[p], NEW k \in SafeDocuments(index),
           NEW symbol, NEW rng, NEW around, NEW enclosing,
           around = ScopesAround(index.documents[k], symbol, rng),
           enclosing = FindEnclosingDefinitionSymbol(DefinitionScopes(index.documents[k]), rng, symbol)
    PROVE  Attributed(around, enclosing)
<1>1. PICK scopes : scopes = DefinitionScopes(index.documents[k])
  OBVIOUS
<1>2. DOMAIN scopes \subseteq Nat /\ \A s \in Range(scopes) : s.range \in IntRange
  BY <1>1, ScopesHaveRanges, Zenon
<1>3. PICK places : places =
        {j \in DOMAIN scopes : scopes[j].symbol # symbol /\ ContainsRange(scopes[j].range, rng)}
  BY Zenon
<1>4. around = {scopes[j] : j \in places} /\ places \in SUBSET DOMAIN scopes
  BY <1>1, <1>3, Zenon DEF ScopesAround, Range
<1>5. ASSUME around = {} PROVE enclosing = ""
  <2>1. places = {}
    BY <1>4, <1>5, Zenon
  <2> QED BY <1>1, <1>3, <2>1, Zenon DEF FindEnclosingDefinitionSymbol
<1>6. ASSUME around # {}, \A s \in around : Ordinary(s.range)
      PROVE  \E s \in around :
                /\ s.symbol = enclosing
                /\ \A t \in around : ContainsRange(s.range, t.range) => ContainsRange(t.range, s.range)
  <2>1. \A j \in places : scopes[j].range \in IntRange /\ Ordinary(scopes[j].range)
    BY <1>2, <1>4, <1>6, Zenon DEF Range
  <2>2. \A j \in places : RangeSpan(scopes[j].range) \in Nat
    BY <2>1, OrdinarySpan, Zenon
  <2>3. places # {}
    BY <1>4, <1>6, Zenon
  <2>4. PICK j \in places :
           /\ FindEnclosingDefinitionSymbol(scopes, rng, symbol) = scopes[j].symbol
           /\ \A i \in places : RangeSpan(scopes[j].range) <= RangeSpan(scopes[i].range)
    BY <1>2, <1>3, <1>4, <2>2, <2>3, LightestIsFound
  <2>5. scopes[j] \in around /\ scopes[j].symbol = enclosing
    BY <1>1, <1>4, <2>4, Zenon
  <2>6. ASSUME NEW t \in around, ContainsRange(scopes[j].range, t.range)
        PROVE  ContainsRange(t.range, scopes[j].range)
    <3>1. PICK i \in places : t = scopes[i]
      BY <1>4, Zenon
    <3> QED BY <2>1, <2>4, <2>6, <3>1, LighterIsInner, Zenon
  <2> QED BY <2>5, <2>6, Zenon
<1> QED BY <1>5, <1>6, Zenon DEF Attributed

\* Occurrences are attributed to an innermost definition, for any artifacts.
THEOREM OccurrencesAreInnermost == ScipSpec => []EnclosingIsInnermost
<1>1. ScipInv => EnclosingIsInnermost
  <2> SUFFICES ASSUME ScipInv, NEW r \in occurrenceRows, ingested[r.project] # NoArtifact
      PROVE  \E doc \in Range(ingested[r.project].documents) :
                LET around == ScopesAround(doc, r.row.symbol, r.row.range) IN
                /\ doc.safe /\ doc.path = r.row.file
                /\ \E o \in Range(doc.occurrences) :
                      o.symbol = r.row.symbol /\ NormalizeRange(o.range) = r.row.range
                /\ around = {} => r.row.enclosing = ""
                /\ around # {} /\ (\A s \in around : Ordinary(s.range)) =>
                      \E s \in around :
                          /\ s.symbol = r.row.enclosing
                          /\ \A t \in around : ContainsRange(s.range, t.range) => ContainsRange(t.range, s.range)
    BY Zenon DEF EnclosingIsInnermost
  <2>1. PICK p \in ScipProjects : p = r.project
    BY Zenon DEF ScipInv, RowsFit, ProjectsFit
  <2>2. PICK index \in ScipArtifacts[p] : index = ingested[p] /\ r.row \in ArtifactRows[index].occurrences
    <3>1. ingested[p] \in Stored(p)
      BY <2>1, Zenon DEF ScipInv, ProjectsFit, Ingested
    <3>2. r.row \in ArtifactRows[ingested[p]].occurrences
      BY <2>1, Zenon DEF ScipInv, RowsFit, Ingested
    <3> QED BY <3>1, <3>2, Zenon DEF Stored
  <2>3. PICK k \in SafeDocuments(index) : \E o \in Range(index.documents[k].occurrences) :
           /\ r.row.symbol = o.symbol /\ r.row.file = index.documents[k].path
           /\ r.row.range = NormalizeRange(o.range)
           /\ r.row.enclosing = FindEnclosingDefinitionSymbol(DefinitionScopes(index.documents[k]),
                                                            NormalizeRange(o.range), o.symbol)
    BY <2>2, RowOfOccurrence, Zenon
  <2>4. PICK doc : doc = index.documents[k]
    OBVIOUS
  <2>5. doc \in Range(ingested[r.project].documents) /\ doc.safe
    BY <2>1, <2>2, <2>4, Zenon DEF SafeDocuments, Range
  <2>6. PICK o \in Range(doc.occurrences) :
           /\ r.row.symbol = o.symbol /\ r.row.file = doc.path /\ r.row.range = NormalizeRange(o.range)
           /\ r.row.enclosing = FindEnclosingDefinitionSymbol(DefinitionScopes(doc), NormalizeRange(o.range), o.symbol)
    BY <2>3, <2>4, Zenon
  <2>7. PICK around : around = ScopesAround(doc, r.row.symbol, r.row.range)
    OBVIOUS
  <2>8. r.row.enclosing = FindEnclosingDefinitionSymbol(DefinitionScopes(doc), r.row.range, r.row.symbol)
    BY <2>6, Zenon
  <2>9. /\ around = {} => r.row.enclosing = ""
        /\ around # {} /\ (\A s \in around : Ordinary(s.range)) =>
              \E s \in around :
                 /\ s.symbol = r.row.enclosing
                 /\ \A t \in around : ContainsRange(s.range, t.range) => ContainsRange(t.range, s.range)
    <3>1. PICK symbol : symbol = r.row.symbol
      OBVIOUS
    <3>2. PICK rng : rng = r.row.range
      OBVIOUS
    <3>3. PICK enclosing : enclosing = r.row.enclosing
      OBVIOUS
    <3>4. /\ around = ScopesAround(index.documents[k], symbol, rng)
          /\ enclosing = FindEnclosingDefinitionSymbol(DefinitionScopes(index.documents[k]), rng, symbol)
      BY <2>4, <2>7, <2>8, <3>1, <3>2, <3>3, Zenon
    <3>5. Attributed(around, enclosing)
      BY <3>4, EnclosingIsAround, Zenon
    <3> QED BY <3>3, <3>5, Zenon DEF Attributed
  <2> QED BY <2>5, <2>6, <2>7, <2>9, ZenonT(60)
<1> QED BY <1>1, ScipInvHolds, PTL
=============================================================================
