------------------------------- MODULE OrgConfig -------------------------------
(***************************************************************************)
(* The configuration of one organisation: its code host connections, its   *)
(* secrets and its language models, written by the handlers                *)
(* connections_post/_patch/_branches_put/_delete, secrets, secrets_delete  *)
(* and models_put of internal/api over internal/db/secret_refs.go and      *)
(* secrets.go.                                                             *)
(*                                                                         *)
(* A config refers to secrets by key and nothing in the database ties the  *)
(* two together: each handler checks with one statement and writes with    *)
(* another, so every statement is a step of its own.  The content of a     *)
(* config is the call that wrote it, the keys it refers to and the call    *)
(* that last chose its branches.                                           *)
(***************************************************************************)
EXTENDS Naturals, FiniteSets

CONSTANTS
    ConfigCalls,   \* HTTP calls
    ConnNames,     \* connection names
    FirstName,     \* the name of connection 1, created by an earlier POST
    SecretKeys,    \* all stored by earlier PUTs
    ModelNames,
    Nothing        \* an absent row, field or caller

ASSUME OrgConstants ==
    /\ FirstName \in ConnNames /\ Nothing \notin ConnNames \cup ConfigCalls
    /\ Cardinality(ConfigCalls) \in Nat

VARIABLES
    conn,          \* conn[id]: the "Connection" row or Nothing
    lastConn,      \* the id sequence of "Connection"
    secrets,       \* keys with an "OrgSecret" row
    models,        \* the "OrgLanguageModel" rows
    orgCall,       \* where each call is
    orgOverlapped  \* two calls were between their first read and their write

orgVars == <<conn, lastConn, secrets, models, orgCall, orgOverlapped>>

ConnIds == 1..(Cardinality(ConfigCalls) + 1)
Config(c, refs, branches) == [by |-> c, refs |-> refs, branches |-> branches]
Rows == {i \in ConnIds : conn[i] # Nothing}
NamedRows(n) == {i \in Rows : conn[i].name = n}

Open(calls) == {c \in ConfigCalls : calls[c].at \notin {"new", "replied"}}
Crowded(calls) == \E c, d \in Open(calls) : c # d
MoveTo(c, at) == orgCall' = [orgCall EXCEPT ![c].at = at]
\* An answered call keeps what its answer says: the status, and the row it wrote.
NewCall == [at |-> "new", kind |-> "", id |-> 0, name |-> Nothing, config |-> Nothing,
            base |-> Nothing, seen |-> {}, row |-> 0, code |-> 0]
Respond(c, code) ==
    orgCall' = [orgCall EXCEPT ![c] = [NewCall EXCEPT !.at = "replied", !.code = code]]
RespondRow(c, code, row) ==
    orgCall' = [orgCall EXCEPT ![c] = [NewCall EXCEPT !.at = "replied", !.code = code,
        !.row = row, !.kind = orgCall[c].kind, !.id = orgCall[c].id]]

\* The guards every handler opens with: authentication, the OWNER role, then the
\* path and the body.
Gate(who, wellFormed) ==
    CASE who = "nobody" -> 401
      [] who = "member" -> 403
      [] who = "owner" /\ ~wellFormed -> 400
      [] OTHER -> 0

\* A call arrives: it is answered at the gate, or goes on to its first statement.
Accept(c, kind, id, name, config, at) ==
    /\ orgCall[c].at = "new"
    /\ \E who \in {"nobody", "member", "owner"}, wellFormed \in BOOLEAN :
          LET code == Gate(who, wellFormed) IN
          IF code # 0 THEN Respond(c, code)
          ELSE orgCall' = [orgCall EXCEPT ![c] = [NewCall EXCEPT
                    !.at = at, !.kind = kind, !.id = id, !.name = name, !.config = config]]
    /\ UNCHANGED <<conn, lastConn, secrets, models>>

\* The keys a config refers to are found by walking it.
CollectUnique(config) == config.refs

Bodies(c) == {Config(c, refs, Nothing) : refs \in SUBSET SecretKeys}
PathIds == Rows \cup {lastConn + 1}

HandleUpsertOrgConnection(c) ==
    \E n \in ConnNames, b \in Bodies(c) : Accept(c, "POST", Nothing, n, b, "secrets")

\* A PATCH carries a name, a config or both; with neither it only asks for a sync.
HandlePatchOrgConnection(c) ==
    \E i \in PathIds, n \in ConnNames \cup {Nothing}, b \in Bodies(c) \cup {Nothing} :
        Accept(c, "PATCH", i, n, b, "base")

HandlePutOrgConnectionBranches(c) ==
    \E i \in PathIds : Accept(c, "BRANCHES", i, Nothing, Nothing, "base")

HandleDeleteOrgConnection(c) ==
    \E i \in PathIds : Accept(c, "DELETE", i, Nothing, Nothing, "write")

HandlePutOrgSecret(c) ==
    \E k \in SecretKeys : Accept(c, "SECRET", Nothing, k, Nothing, "write")

HandleDeleteOrgSecret(c) ==
    \E k \in SecretKeys : Accept(c, "UNSECRET", Nothing, k, Nothing, "refcheck")

HandlePutOrgLanguageModels(c) ==
    \E n \in ModelNames, b \in Bodies(c) : Accept(c, "MODELS", Nothing, n, b, "secrets")

-----------------------------------------------------------------------------
\* GetOrgConnectionForUpdate, and whether the name has to be checked.
LoadBase(c) ==
    /\ orgCall[c].at = "base"
    /\ LET r == orgCall[c]
           row == IF r.id \in ConnIds THEN conn[r.id] ELSE Nothing
       IN  CASE row = Nothing -> Respond(c, 404)
             [] row # Nothing /\ r.name \notin {Nothing, row.name} ->
                    orgCall' = [orgCall EXCEPT ![c].at = "name", ![c].base = row]
             [] OTHER -> orgCall' = [orgCall EXCEPT ![c].base = row,
                    ![c].at = IF r.config = Nothing THEN "write" ELSE "secrets"]
    /\ UNCHANGED <<conn, lastConn, secrets, models>>

CheckOrgConnectionNameAvailable(c) ==
    /\ orgCall[c].at = "name"
    /\ IF NamedRows(orgCall[c].name) \ {orgCall[c].id} # {} THEN Respond(c, 400)
       ELSE MoveTo(c, IF orgCall[c].config = Nothing THEN "write" ELSE "secrets")
    /\ UNCHANGED <<conn, lastConn, secrets, models>>

SelectMissingOrgSecretKeys_Skipped(c) ==
    /\ orgCall[c].at = "secrets"
    /\ MoveTo(c, IF orgCall[c].kind = "MODELS" THEN "clear" ELSE "write")
    /\ UNCHANGED <<conn, lastConn, secrets, models>>

\* A config that refers to a key without a row is refused.
SelectMissingOrgSecretKeys(c) ==
    /\ orgCall[c].at = "secrets"
    /\ IF CollectUnique(orgCall[c].config) \subseteq secrets
       THEN MoveTo(c, IF orgCall[c].kind = "MODELS" THEN "clear" ELSE "write")
       ELSE Respond(c, 400)
    /\ UNCHANGED <<conn, lastConn, secrets, models>>

\* PUT /branches changes the branches of the config it read and nothing else.
ApplyBranchPolicy(config, c) == [config EXCEPT !.branches = c]

\* A field the PATCH does not carry keeps the value that was read.
PatchedRow(r) ==
    [name   |-> IF r.name = Nothing THEN r.base.name ELSE r.name,
     config |-> IF r.config = Nothing THEN r.base.config ELSE r.config]

\* The row the three connection writes hand to UpsertOrgConnection.
MergedRow(c) ==
    LET r == orgCall[c] IN
    CASE r.kind = "POST" -> [name |-> r.name, config |-> r.config]
      [] r.kind = "PATCH" -> PatchedRow(r)
      [] OTHER -> [r.base EXCEPT !.config = ApplyBranchPolicy(r.base.config, c)]

\* INSERT ... ON CONFLICT (name, "orgId") DO UPDATE: the name decides the row.
UpsertTarget(c) ==
    LET named == NamedRows(MergedRow(c).name) IN
    IF named = {} THEN lastConn + 1 ELSE CHOOSE i \in named : TRUE

\* The row stays whatever becomes of the sync the call may ask for: 502 when it
\* cannot be scheduled, 429 at the organisation's capacity.
UpsertOrgConnection(c) ==
    /\ orgCall[c].at = "write" /\ orgCall[c].kind \in {"POST", "PATCH", "BRANCHES"}
    /\ \E code \in {200, 429, 502} : LET id == UpsertTarget(c) IN
       /\ conn' = [conn EXCEPT ![id] = MergedRow(c)]
       /\ lastConn' = IF id > lastConn THEN id ELSE lastConn
       /\ RespondRow(c, code, id)
    /\ UNCHANGED <<secrets, models>>

DeleteOrgConnection(c) ==
    /\ orgCall[c].at = "write" /\ orgCall[c].kind = "DELETE"
    /\ Respond(c, IF orgCall[c].id \in Rows THEN 200 ELSE 404)
    /\ conn' = [conn EXCEPT ![orgCall[c].id] = Nothing]
    /\ UNCHANGED <<lastConn, secrets, models>>

UpsertOrgSecret(c) ==
    /\ orgCall[c].at = "write" /\ orgCall[c].kind = "SECRET"
    /\ secrets' = secrets \cup {orgCall[c].name}
    /\ Respond(c, 200)
    /\ UNCHANGED <<conn, lastConn, models>>

\* The two refcheck queries run in parallel; a use found by either refuses.
Refcheck(c, table, configs) ==
    /\ orgCall[c].at = "refcheck" /\ table \notin orgCall[c].seen
    /\ LET seen == orgCall[c].seen \cup {table} IN
       IF \E f \in configs : orgCall[c].name \in CollectUnique(f) THEN Respond(c, 400)
       ELSE orgCall' = [orgCall EXCEPT ![c].seen = seen,
               ![c].at = IF seen = {"connections", "models"} THEN "write" ELSE "refcheck"]
    /\ UNCHANGED <<conn, lastConn, secrets, models>>

RefcheckConnections(c) == Refcheck(c, "connections", {conn[i].config : i \in Rows})
RefcheckModels(c) == Refcheck(c, "models", {m.config : m \in models})

DeleteOrgSecret(c) ==
    /\ orgCall[c].at = "write" /\ orgCall[c].kind = "UNSECRET"
    /\ secrets' = secrets \ {orgCall[c].name}
    /\ Respond(c, 200)
    /\ UNCHANGED <<conn, lastConn, models>>

\* ReplaceOrgLanguageModels at READ COMMITTED: the DELETE sees the rows committed
\* when it starts, and only those are gone when the transaction commits.
ClearModels(c) ==
    /\ orgCall[c].at = "clear"
    /\ orgCall' = [orgCall EXCEPT ![c].at = "insert", ![c].seen = models]
    /\ UNCHANGED <<conn, lastConn, secrets, models>>

ModelsAfter(c) ==
    (models \ orgCall[c].seen) \cup {[name |-> orgCall[c].name, config |-> orgCall[c].config]}

\* The unique (orgId, name) index turns a leftover of the same name into an error.
CommitModels(c) ==
    /\ orgCall[c].at = "insert"
    /\ IF \E m \in models \ orgCall[c].seen : m.name = orgCall[c].name
       THEN Respond(c, 500) /\ UNCHANGED models
       ELSE models' = ModelsAfter(c) /\ Respond(c, 200)
    /\ UNCHANGED <<conn, lastConn, secrets>>

\* A statement fails: 500 and nothing written.
StatementFails(c) ==
    /\ c \in Open(orgCall)
    /\ Respond(c, 500)
    /\ UNCHANGED <<conn, lastConn, secrets, models>>

-----------------------------------------------------------------------------
OrgInit ==
    /\ conn = [i \in ConnIds |->
          IF i = 1 THEN [name |-> FirstName, config |-> Config(Nothing, {}, Nothing)]
          ELSE Nothing]
    /\ lastConn = 1
    /\ secrets = SecretKeys
    /\ models = {}
    /\ orgCall = [c \in ConfigCalls |-> NewCall]
    /\ orgOverlapped = FALSE

OrgNext ==
    /\ \E c \in ConfigCalls :
          \/ HandleUpsertOrgConnection(c) \/ HandlePatchOrgConnection(c)
          \/ HandlePutOrgConnectionBranches(c) \/ HandleDeleteOrgConnection(c)
          \/ HandlePutOrgSecret(c) \/ HandleDeleteOrgSecret(c)
          \/ HandlePutOrgLanguageModels(c)
          \/ LoadBase(c) \/ CheckOrgConnectionNameAvailable(c)
          \/ SelectMissingOrgSecretKeys(c) \/ UpsertOrgConnection(c)
          \/ DeleteOrgConnection(c) \/ UpsertOrgSecret(c)
          \/ RefcheckConnections(c) \/ RefcheckModels(c) \/ DeleteOrgSecret(c)
          \/ ClearModels(c) \/ CommitModels(c) \/ StatementFails(c)
    /\ orgOverlapped' = (orgOverlapped \/ Crowded(orgCall'))

OrgSpec == OrgInit /\ [][OrgNext]_orgVars

-----------------------------------------------------------------------------
\* The shape of the rows and the calls.
OrgTypeOK ==
    /\ \A i \in Rows : conn[i].name \in ConnNames /\ conn[i].config.refs \subseteq SecretKeys
    /\ lastConn \in ConnIds
    /\ secrets \subseteq SecretKeys
    /\ \A m \in models : m.name \in ModelNames
    /\ \A c \in ConfigCalls : orgCall[c].code \in {0, 200, 400, 401, 403, 404, 429, 500, 502}

References == UNION ({conn[i].config.refs : i \in Rows} \cup {m.config.refs : m \in models})

\* As long as calls do not overlap, every key a connection or a model refers to
\* has a secret: writers check the keys and handleDeleteOrgSecret the uses.
SecretRefsResolve == ~orgOverlapped => References \subseteq secrets

================================================================================
