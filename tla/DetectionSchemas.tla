-------------------------- MODULE DetectionSchemas ---------------------------
(***************************************************************************)
(* The detection schemas of the respond service: an append-only table of   *)
(* versions in Postgres (respond/internal/repository/postgres.go) and the  *)
(* API calls on it (respond/internal/service/service.go).  A schema is its *)
(* rows; disabled_at and hidden_at belong to a row, not to the schema.     *)
(* Every SQL statement is atomic; a call is several statements without a   *)
(* transaction, so calls interleave between them.                          *)
(***************************************************************************)
EXTENDS Integers, FiniteSets

CONSTANTS Schemas,     \* stable ids
          Callers,     \* concurrent API requests (and their users)
          MaxVersion,  \* bound on the version ids that are drawn
          NoSchema,    \* not a schema: a version id without a row
          NoOne        \* not a caller: SQL NULL in disabled_by and hidden_by

ASSUME SchemaAssumption ==
    /\ MaxVersion \in Nat
    /\ NoSchema \notin Schemas
    /\ NoOne \notin Callers

(* UUIDv7 version ids, in the order they are drawn. *)
Versions == 1 .. MaxVersion

VARIABLES table,   \* detection_schemas: version_id -> row
          drawn,   \* version ids drawn so far
          call,    \* call[c]: the API call in progress
          answer   \* answer[c]: what c's last call returned

schemaVars == <<table, drawn, call, answer>>

Rows == [id : Schemas \cup {NoSchema}, disabled : Callers \cup {NoOne},
         hidden : Callers \cup {NoOne}, params : BOOLEAN]
NoRow == [id |-> NoSchema, disabled |-> NoOne, hidden |-> NoOne, params |-> FALSE]
NewRow(s) == [NoRow EXCEPT !.id = s]

Writes == {"disable", "enable", "hide", "params"}
Ops == {"create", "update"} \cup Writes

NoCall == [at |-> "idle", op |-> "create", ver |-> 0, id |-> NoSchema]
NoAnswer == [op |-> "create", result |-> "none", ver |-> 0]

SchemaTypeOK ==
    /\ table \in [Versions -> Rows]
    /\ drawn \in 0 .. MaxVersion
    /\ call \in [Callers -> [at : {"idle", "insert", "write", "reread"}, op : Ops,
                             ver : 0 .. MaxVersion, id : Schemas \cup {NoSchema}]]
    /\ answer \in [Callers -> [op : Ops, result : {"none", "ok", "notfound"},
                               ver : 0 .. MaxVersion]]

SchemaInit ==
    /\ table = [v \in Versions |-> NoRow]
    /\ drawn = 0
    /\ call = [c \in Callers |-> NoCall]
    /\ answer = [c \in Callers |-> NoAnswer]

-----------------------------------------------------------------------------
(* Queries.                                                                *)

Exists(v) == table[v].id # NoSchema

VersionsOf(s) == {v \in Versions : table[v].id = s}

Newest(V) == CHOOSE v \in V : \A w \in V : w <= v

(* Mutation of GetLatestSchemaByID: ORDER BY version_id without DESC. *)
GetOldestSchemaByID(s) ==
    IF VersionsOf(s) = {} THEN 0
    ELSE CHOOSE v \in VersionsOf(s) : \A w \in VersionsOf(s) : v <= w

(* The row ranked first by version_id DESC; 0 for ErrSchemaNotFound. *)
GetLatestSchemaByID(s) ==
    IF VersionsOf(s) = {} THEN 0 ELSE Newest(VersionsOf(s))

(* ListSchemas: the WHERE clause comes first, then the newest of what is   *)
(* left of each schema is taken.                                           *)
Passing(inclDisabled, inclHidden) ==
    {v \in Versions : /\ Exists(v)
                      /\ inclDisabled \/ table[v].disabled = NoOne
                      /\ inclHidden \/ table[v].hidden = NoOne}

ListSchemas(inclDisabled, inclHidden) ==
    LET P == Passing(inclDisabled, inclHidden)
    IN  {v \in P : \A w \in P : table[w].id = table[v].id => w <= v}

(* ORDER BY version_id DESC LIMIT limit OFFSET (page-1)*limit. *)
ListPage(V, page, limit) ==
    {v \in V : LET k == Cardinality({w \in V : w > v})
               IN  (page - 1) * limit <= k /\ k < page * limit}

-----------------------------------------------------------------------------
(* API calls, statement by statement.                                      *)

Return(c, op, result, v) ==
    /\ call' = [call EXCEPT ![c] = NoCall]
    /\ answer' = [answer EXCEPT ![c] = [op |-> op, result |-> result, ver |-> v]]

Proceed(c, at, op, v, s) ==
    /\ call' = [call EXCEPT ![c] = [at |-> at, op |-> op, ver |-> v, id |-> s]]
    /\ UNCHANGED answer

(* The version id is drawn in the service, before the row is inserted. *)
DrawVersion(c, op, s) ==
    /\ drawn < MaxVersion
    /\ drawn' = drawn + 1
    /\ Proceed(c, "insert", op, drawn + 1, s)
    /\ UNCHANGED table

(* The caller may give the id of a schema that exists. *)
CreateSchema(c, s) ==
    /\ call[c].at = "idle"
    /\ DrawVersion(c, "create", s)

UpdateSchema(c, s) ==
    /\ call[c].at = "idle"
    /\ \/ /\ GetLatestSchemaByID(s) # 0
          /\ DrawVersion(c, "update", s)
       \/ /\ GetLatestSchemaByID(s) = 0
          /\ Return(c, "update", "notfound", 0)
          /\ UNCHANGED <<table, drawn>>

(* INSERT: the new version starts enabled and visible. *)
InsertRow(c) ==
    /\ call[c].at = "insert"
    /\ table' = [table EXCEPT ![call[c].ver] = NewRow(call[c].id)]
    /\ Proceed(c, "reread", call[c].op, call[c].ver, call[c].id)
    /\ UNCHANGED drawn

(* Disable, Enable, Hide and SetActiveParameterSet look up the latest      *)
(* version first ...                                                       *)
ReadLatest(c, op, s) ==
    /\ call[c].at = "idle"
    /\ \/ /\ GetLatestSchemaByID(s) # 0
          /\ Proceed(c, "write", op, GetLatestSchemaByID(s), s)
       \/ /\ GetLatestSchemaByID(s) = 0
          /\ Return(c, op, "notfound", 0)
    /\ UNCHANGED <<table, drawn>>

(* ... and then update that row: no row affected is "not found".  Hide     *)
(* answers at once, the others read the row again.                         *)
UpdateRow(c, op, affected, row) ==
    /\ call[c].at = "write"
    /\ call[c].op = op
    /\ \/ /\ affected
          /\ table' = [table EXCEPT ![call[c].ver] = row]
          /\ IF op = "hide" THEN Return(c, op, "ok", call[c].ver)
             ELSE Proceed(c, "reread", op, call[c].ver, call[c].id)
       \/ /\ ~affected
          /\ Return(c, op, "notfound", 0)
          /\ UNCHANGED table
    /\ UNCHANGED drawn

Target(c) == table[call[c].ver]

DisableSchema(c) ==
    UpdateRow(c, "disable", Target(c).disabled = NoOne,
              [Target(c) EXCEPT !.disabled = c])

EnableSchema(c) ==
    UpdateRow(c, "enable", TRUE, [Target(c) EXCEPT !.disabled = NoOne])

HideSchema(c) ==
    UpdateRow(c, "hide", Target(c).hidden = NoOne,
              [Target(c) EXCEPT !.hidden = c])

SetActiveParameterSet(c) ==
    UpdateRow(c, "params", Target(c).disabled = NoOne /\ Target(c).hidden = NoOne,
              [Target(c) EXCEPT !.params = TRUE])

(* GetSchemaByVersionID for the answer. *)
Reread(c) ==
    /\ call[c].at = "reread"
    /\ Return(c, call[c].op, IF Exists(call[c].ver) THEN "ok" ELSE "notfound",
              call[c].ver)
    /\ UNCHANGED <<table, drawn>>

SchemaNext ==
    \E c \in Callers :
        \/ \E s \in Schemas :
              \/ CreateSchema(c, s)
              \/ UpdateSchema(c, s)
              \/ \E op \in Writes : ReadLatest(c, op, s)
        \/ InsertRow(c)
        \/ DisableSchema(c)
        \/ EnableSchema(c)
        \/ HideSchema(c)
        \/ SetActiveParameterSet(c)
        \/ Reread(c)

SchemaSpec == SchemaInit /\ [][SchemaNext]_schemaVars

-----------------------------------------------------------------------------
(* Properties.                                                             *)

(* A content change that was answered is never lost: whatever other calls   *)
(* were under way, the schema's latest version is that one or a newer one.  *)
AnsweredChangeIsKept ==
    \A c \in Callers :
        (answer[c].op \in {"create", "update"} /\ answer[c].result = "ok") =>
            /\ Exists(answer[c].ver)
            /\ GetLatestSchemaByID(table[answer[c].ver].id) >= answer[c].ver

(* "disables a detection schema (stops evaluation)": a schema whose latest  *)
(* version is disabled is not in the list the scheduler evaluates.          *)
DisabledStopsEvaluation ==
    \A v \in ListSchemas(FALSE, FALSE) :
        table[GetLatestSchemaByID(table[v].id)].disabled = NoOne
=============================================================================
