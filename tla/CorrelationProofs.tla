-------------------------- MODULE CorrelationProofs --------------------------
(***************************************************************************)
(* Proofs about the detection schemas and the correlation pipeline, for    *)
(* every set of schemas, callers, keys and workers, every bound on         *)
(* versions and jobs, and every choice of mishaps.                         *)
(*                                                                         *)
(* Schemas: rows are inserted under ids that were drawn for one call       *)
(* each, and a row never changes the schema it belongs to.                 *)
(* Pipeline: a job is in one place at a time (a message, a search worker,  *)
(* a result, a respond worker), and a match that is still ahead of a       *)
(* worker has no alert yet.                                                *)
(***************************************************************************)
EXTENDS Correlation, FiniteSetTheorems, TLAPS

(* Where each call is: an id that was drawn and is not inserted yet has no *)
(* row and belongs to one call; later statements work on rows that exist.  *)
CallOf(c) ==
    /\ call[c].at = "insert" => /\ call[c].ver \in Versions
                                /\ call[c].ver <= drawn
                                /\ call[c].id \in Schemas
                                /\ ~Exists(call[c].ver)
    /\ call[c].at \in {"write", "reread"} => /\ call[c].ver \in Versions
                                             /\ Exists(call[c].ver)

CallInv ==
    /\ \A v \in Versions : Exists(v) => v <= drawn
    /\ \A c \in Callers : CallOf(c)
    /\ \A c, d \in Callers :
          call[c].at = "insert" /\ call[d].at = "insert" /\ call[c].ver = call[d].ver
              => c = d

(* A change that was answered has its row. *)
AnsweredHasRow ==
    \A c \in Callers :
        (answer[c].op \in {"create", "update"} /\ answer[c].result = "ok") =>
            answer[c].ver \in Versions /\ Exists(answer[c].ver)

SchemaInv == SchemaTypeOK /\ CallInv /\ AnsweredHasRow

(* Jobs are made for rows that exist; ids of jobs are drawn one by one,    *)
(* and the scheduler never starts more than there is room for.             *)
RequestInv ==
    /\ \A v \in sched.todo : Exists(v)
    /\ sched.at = "publish" => lastJob + Cardinality(sched.todo) <= MaxJobs
    /\ \A j \in Jobs : j <= lastJob =>
          /\ request[j].ver \in Versions
          /\ request[j].id \in Schemas
          /\ table[request[j].ver].id = request[j].id

(* A job is a message, or with one search worker, or a result, or with one *)
(* respond worker, or over.                                                *)
OnePlace ==
    /\ \A j \in jobMsgs : \A w \in SearchWorkers : <<j, w>> \notin running
    /\ \A j \in jobMsgs : \A m \in resMsgs : m.job # j
    /\ \A j \in jobMsgs : \A h \in RespondWorkers : handling[h].job # j
    /\ \A j \in Jobs : \A w, x \in SearchWorkers :
          <<j, w>> \in running /\ <<j, x>> \in running => w = x
    /\ \A m \in resMsgs : \A w \in SearchWorkers : <<m.job, w>> \notin running
    /\ \A h \in RespondWorkers : \A w \in SearchWorkers : <<handling[h].job, w>> \notin running
    /\ \A m, n \in resMsgs : m.job = n.job => m = n
    /\ \A m \in resMsgs : \A h \in RespondWorkers : handling[h].job # m.job
    /\ \A h, g \in RespondWorkers : handling[h].job = handling[g].job /\ handling[h].job # 0 => h = g

(* Jobs under way were drawn, and their matches have no alert yet. *)
NotYetAlerted ==
    /\ \A j \in Jobs : j > lastJob => \A k \in Keys : count[<<j, k>>] = 0
    /\ \A j \in jobMsgs : j <= lastJob /\ \A k \in Keys : count[<<j, k>>] = 0
    /\ \A p \in running : p[1] <= lastJob /\ \A k \in Keys : count[<<p[1], k>>] = 0
    /\ \A m \in resMsgs : m.job <= lastJob /\ \A k \in Keys : count[<<m.job, k>>] = 0
    /\ \A h \in RespondWorkers :
          /\ handling[h].job <= lastJob
          /\ handling[h].todo # {} => handling[h].job # 0
          /\ \A k \in handling[h].todo : count[<<handling[h].job, k>>] = 0

(* Alerts are about jobs that were drawn, so that no later job changes     *)
(* what they were made for.                                                *)
AlertedIsDrawn == \A a \in alerts : a.job <= lastJob

(* Stop has returned only after the scheduler's goroutine has ended. *)
StoppedFirst == main \in {"unsubscribed", "closed"} => sched.at = "stopped"

PipelineInv == OnePlace /\ NotYetAlerted /\ OneAlertPerMatch

IInv ==
    /\ TypeOK /\ SchemaInv /\ RequestInv /\ AlertProvenance /\ AlertedIsDrawn
    /\ PipelineInv /\ StoppedFirst

-----------------------------------------------------------------------------
(* The newest version.                                                     *)

(* A set of version ids that is not empty has a greatest one. *)
LEMMA GreatestVersion ==
    ASSUME NEW V \in SUBSET Versions, V # {}
    PROVE  \E v \in V : \A w \in V : w <= v
<1> DEFINE D == {MaxVersion - v : v \in V}
<1>0. MaxVersion \in Nat /\ \A v \in V : v \in 1 .. MaxVersion
  BY SchemaAssumption DEF Versions
<1>1. D \subseteq Nat /\ D # {}
  BY <1>0
<1> HIDE DEF D
<1>2. PICK d \in D : \A e \in D : ~(<<e, d>> \in OpToRel(<, Nat))
  BY <1>1, WFMin, NatLessThanWellFounded
<1>3. \A e \in D : d <= e
  <2>1. ASSUME NEW e \in D, e < d PROVE <<e, d>> \in OpToRel(<, Nat)
    BY <1>1, <2>1, Zenon DEF OpToRel
  <2>2. d \in Nat /\ \A e \in D : e \in Nat
    BY <1>1
  <2>3. \A e \in D : ~(e < d)
    BY <1>2, <2>1, Zenon
  <2>4. QED BY <2>2, <2>3
<1>4. PICK v \in V : d = MaxVersion - v
  BY DEF D
<1>5. ASSUME NEW w \in V PROVE w <= v
  <2>1. MaxVersion - w \in D
    BY DEF D
  <2>2. d <= MaxVersion - w
    BY <1>3, <2>1
  <2>3. QED BY <1>0, <1>4, <2>2
<1>6. QED BY <1>5

(* GetLatestSchemaByID finds the greatest version of a schema that has one. *)
LEMMA LatestIsGreatest ==
    ASSUME NEW s
    PROVE  /\ VersionsOf(s) = {} => GetLatestSchemaByID(s) = 0
           /\ VersionsOf(s) # {} =>
                 /\ GetLatestSchemaByID(s) \in VersionsOf(s)
                 /\ GetLatestSchemaByID(s) \in Versions
                 /\ \A w \in VersionsOf(s) : w <= GetLatestSchemaByID(s)
<1>1. VersionsOf(s) \in SUBSET Versions
  BY DEF VersionsOf
<1>2. ASSUME VersionsOf(s) # {}
      PROVE  /\ Newest(VersionsOf(s)) \in VersionsOf(s)
             /\ \A w \in VersionsOf(s) : w <= Newest(VersionsOf(s))
  BY <1>1, <1>2, GreatestVersion DEF Newest
<1>3. QED BY <1>1, <1>2 DEF GetLatestSchemaByID

-----------------------------------------------------------------------------
(* The schemas.                                                            *)

(* A step that leaves every row with its schema, and inserts none. *)
KeepsRows ==
    /\ table' \in [Versions -> Rows]
    /\ \A v \in Versions : table'[v].id = table[v].id

(* The steps of the API, as the rows see them: an id is drawn, a row is    *)
(* inserted, a call goes on with a row that exists, or a call returns.     *)
LEMMA SchemaCases ==
    ASSUME SchemaInv, SchemaNext
    PROVE  \E c \in Callers :
              \/ \E op \in Ops, s \in Schemas : DrawVersion(c, op, s)
              \/ InsertRow(c)
              \/ /\ KeepsRows /\ drawn' = drawn
                 /\ \E at \in {"write", "reread"}, op \in Ops, v \in Versions,
                       s \in Schemas \cup {NoSchema} :
                       Exists(v) /\ Proceed(c, at, op, v, s)
              \/ /\ KeepsRows /\ drawn' = drawn
                 /\ \E op \in Ops, r \in {"ok", "notfound"}, v \in 0 .. MaxVersion :
                       /\ r = "ok" => v \in Versions /\ Exists(v)
                       /\ Return(c, op, r, v)
<1>0. /\ table \in [Versions -> Rows] /\ MaxVersion \in Nat
      /\ Versions \subseteq 0 .. MaxVersion /\ 0 \in 0 .. MaxVersion
      /\ NoSchema \notin Schemas
  BY SchemaAssumption DEF SchemaInv, SchemaTypeOK, Versions
<1>1. PICK c \in Callers :
          \/ \E s \in Schemas : CreateSchema(c, s) \/ UpdateSchema(c, s)
          \/ \E s \in Schemas, op \in Writes : ReadLatest(c, op, s)
          \/ InsertRow(c)
          \/ DisableSchema(c) \/ EnableSchema(c) \/ HideSchema(c) \/ SetActiveParameterSet(c)
          \/ Reread(c)
  BY DEF SchemaNext
<1>2. ASSUME UNCHANGED <<table, drawn>> PROVE KeepsRows
  BY <1>0, <1>2 DEF KeepsRows
<1>a. ASSUME NEW op \in Ops, Return(c, op, "notfound", 0), UNCHANGED <<table, drawn>>
      PROVE  /\ KeepsRows /\ drawn' = drawn
             /\ \E p \in Ops, r \in {"ok", "notfound"}, v \in 0 .. MaxVersion :
                   /\ r = "ok" => v \in Versions /\ Exists(v)
                   /\ Return(c, p, r, v)
  BY <1>0, <1>2, <1>a
<1>3. ASSUME NEW s \in Schemas, CreateSchema(c, s) \/ UpdateSchema(c, s)
      PROVE  \/ \E op \in Ops : DrawVersion(c, op, s)
             \/ /\ KeepsRows /\ drawn' = drawn
                /\ \E op \in Ops, r \in {"ok", "notfound"}, v \in 0 .. MaxVersion :
                      /\ r = "ok" => v \in Versions /\ Exists(v)
                      /\ Return(c, op, r, v)
  BY <1>0, <1>a, <1>3 DEF CreateSchema, UpdateSchema, Ops
<1>4. ASSUME NEW s \in Schemas, NEW op \in Writes, ReadLatest(c, op, s)
      PROVE  \/ /\ KeepsRows /\ drawn' = drawn
                /\ \E v \in Versions : Exists(v) /\ Proceed(c, "write", op, v, s)
             \/ /\ KeepsRows /\ drawn' = drawn
                /\ \E p \in Ops, r \in {"ok", "notfound"}, v \in 0 .. MaxVersion :
                      /\ r = "ok" => v \in Versions /\ Exists(v)
                      /\ Return(c, p, r, v)
  <2>1. op \in Ops
    BY DEF Ops
  <2>2. GetLatestSchemaByID(s) # 0 =>
            GetLatestSchemaByID(s) \in Versions /\ Exists(GetLatestSchemaByID(s))
    BY <1>0, LatestIsGreatest DEF Exists, VersionsOf
  <2>3. QED BY <1>2, <1>4, <1>a, <2>1, <2>2 DEF ReadLatest
<1>5. ASSUME NEW op \in Writes, NEW row \in Rows, NEW affected,
             row.id = table[call[c].ver].id, UpdateRow(c, op, affected, row)
      PROVE  \/ /\ KeepsRows /\ drawn' = drawn
                /\ \E v \in Versions, s \in Schemas \cup {NoSchema} :
                      Exists(v) /\ Proceed(c, "reread", op, v, s)
             \/ /\ KeepsRows /\ drawn' = drawn
                /\ \E r \in {"ok", "notfound"}, v \in 0 .. MaxVersion :
                      /\ r = "ok" => v \in Versions /\ Exists(v)
                      /\ Return(c, op, r, v)
  <2> DEFINE v == call[c].ver
  <2>1. v \in Versions /\ Exists(v) /\ call[c].id \in Schemas \cup {NoSchema}
    BY <1>5 DEF UpdateRow, SchemaInv, CallInv, CallOf, SchemaTypeOK
  <2>2. table' = [table EXCEPT ![v] = row] \/ table' = table
    BY <1>5 DEF UpdateRow
  <2>3. KeepsRows
    BY <1>0, <1>5, <2>1, <2>2 DEF KeepsRows
  <2>4. drawn' = drawn
    BY <1>5 DEF UpdateRow
  <2>5. \/ Return(c, op, "ok", v) \/ Return(c, op, "notfound", 0)
        \/ Proceed(c, "reread", op, v, call[c].id)
    BY <1>5 DEF UpdateRow
  <2>6. v \in 0 .. MaxVersion /\ 0 \in 0 .. MaxVersion
    BY <2>1, SchemaAssumption DEF Versions
  <2>7. QED BY <1>0, <2>1, <2>3, <2>4, <2>5, <2>6
<1>6. ASSUME DisableSchema(c) \/ EnableSchema(c) \/ HideSchema(c) \/ SetActiveParameterSet(c)
      PROVE  \E op \in Writes, row \in Rows, affected \in BOOLEAN :
                row.id = table[call[c].ver].id /\ UpdateRow(c, op, affected, row)
  <2>1. call[c].ver \in Versions
    BY <1>6 DEF DisableSchema, EnableSchema, HideSchema, SetActiveParameterSet, UpdateRow,
                SchemaInv, CallInv, CallOf
  <2>2. Target(c) \in Rows /\ Target(c).id = table[call[c].ver].id
    BY <1>0, <2>1 DEF Target
  <2>3. /\ [Target(c) EXCEPT !.disabled = c] \in Rows
        /\ [Target(c) EXCEPT !.disabled = c].id = Target(c).id
        /\ [Target(c) EXCEPT !.disabled = NoOne] \in Rows
        /\ [Target(c) EXCEPT !.disabled = NoOne].id = Target(c).id
    BY <2>2 DEF Rows
  <2>4. /\ [Target(c) EXCEPT !.hidden = c] \in Rows
        /\ [Target(c) EXCEPT !.hidden = c].id = Target(c).id
        /\ [Target(c) EXCEPT !.params = TRUE] \in Rows
        /\ [Target(c) EXCEPT !.params = TRUE].id = Target(c).id
    BY <2>2 DEF Rows
  <2>5. {"disable", "enable", "hide", "params"} = Writes
    BY DEF Writes
  <2>6. CASE DisableSchema(c)
    BY <2>2, <2>3, <2>5, <2>6 DEF DisableSchema
  <2>7. CASE EnableSchema(c)
    BY <2>2, <2>3, <2>5, <2>7 DEF EnableSchema
  <2>8. CASE HideSchema(c)
    BY <2>2, <2>4, <2>5, <2>8 DEF HideSchema
  <2>9. CASE SetActiveParameterSet(c)
    BY <2>2, <2>4, <2>5, <2>9 DEF SetActiveParameterSet
  <2>10. QED BY <1>6, <2>6, <2>7, <2>8, <2>9
<1>7. ASSUME Reread(c)
      PROVE  /\ KeepsRows /\ drawn' = drawn
             /\ \E op \in Ops, r \in {"ok", "notfound"}, v \in 0 .. MaxVersion :
                   /\ r = "ok" => v \in Versions /\ Exists(v)
                   /\ Return(c, op, r, v)
  <2>1. call[c].ver \in Versions /\ Exists(call[c].ver) /\ call[c].op \in Ops
    BY <1>7 DEF Reread, SchemaInv, CallInv, CallOf, SchemaTypeOK
  <2>2. KeepsRows /\ drawn' = drawn /\ Return(c, call[c].op, "ok", call[c].ver)
    BY <1>2, <1>7, <2>1 DEF Reread
  <2>3. QED BY <1>0, <2>1, <2>2
<1>8. QED
  <2>1. Writes \subseteq Ops
    BY DEF Ops
  <2>2. CASE DisableSchema(c) \/ EnableSchema(c) \/ HideSchema(c) \/ SetActiveParameterSet(c)
    BY <1>5, <1>6, <2>1, <2>2
  <2>3. CASE \E s \in Schemas, op \in Writes : ReadLatest(c, op, s)
    BY <1>4, <2>1, <2>3
  <2>4. QED BY <1>1, <1>3, <1>7, <2>2, <2>3

(* A step of one call keeps CallInv if it leaves the rows the others rely  *)
(* on, and their ids, alone.                                               *)
LEMMA CallFrame ==
    ASSUME CallInv, NEW c \in Callers, drawn \in Int, drawn' \in Int, drawn <= drawn',
           \A d \in Callers : d # c => call'[d] = call[d],
           \A v \in Versions : Exists(v) => Exists(v)',
           \A v \in Versions : Exists(v)' => v <= drawn',
           \A d \in Callers : d # c /\ call[d].at = "insert" =>
               table'[call[d].ver].id = NoSchema /\ (call'[c].at = "insert" => call'[c].ver # call[d].ver),
           CallOf(c)'
    PROVE  CallInv'
<1>0. \A v \in Versions : v \in Int
  BY SchemaAssumption DEF Versions
<1>1. ASSUME NEW d \in Callers, d # c PROVE CallOf(d)'
  <2>1. call'[d] = call[d] /\ CallOf(d)
    BY <1>1 DEF CallInv
  <2>2. CASE call[d].at = "insert"
    <3>1. call[d].ver \in Versions /\ call[d].ver <= drawn' /\ call[d].id \in Schemas
      BY <1>0, <2>1, <2>2 DEF CallOf
    <3>2. table'[call[d].ver].id = NoSchema
      BY <1>1, <2>2
    <3>3. QED BY <2>1, <2>2, <3>1, <3>2 DEF CallOf, Exists
  <2>3. CASE call[d].at # "insert"
    BY <2>1, <2>3 DEF CallOf, Exists
  <2>4. QED BY <2>2, <2>3
<1>2. \A d \in Callers : CallOf(d)'
  BY <1>1
<1>3. ASSUME NEW d \in Callers, NEW e \in Callers,
             call'[d].at = "insert", call'[e].at = "insert", call'[d].ver = call'[e].ver
      PROVE  d = e
  BY <1>3 DEF CallInv
<1>4. QED BY <1>2, <1>3 DEF CallInv

(* Ids are drawn once, and rows exist from their insertion on. *)
LEMMA CallStep ==
    ASSUME SchemaInv, SchemaNext
    PROVE  /\ SchemaTypeOK' /\ CallInv' /\ AnsweredHasRow'
           /\ \A v \in Versions : Exists(v) => table'[v].id = table[v].id
<1>0. /\ table \in [Versions -> Rows] /\ drawn \in 0 .. MaxVersion /\ MaxVersion \in Nat
      /\ call \in [Callers -> [at : {"idle", "insert", "write", "reread"}, op : Ops,
                               ver : 0 .. MaxVersion, id : Schemas \cup {NoSchema}]]
      /\ answer \in [Callers -> [op : Ops, result : {"none", "ok", "notfound"},
                                 ver : 0 .. MaxVersion]]
      /\ Versions = 1 .. MaxVersion /\ NoSchema \notin Schemas
      /\ CallInv /\ AnsweredHasRow
  BY SchemaAssumption DEF SchemaInv, SchemaTypeOK, Versions
<1>1. PICK c \in Callers :
          \/ \E op \in Ops, s \in Schemas : DrawVersion(c, op, s)
          \/ InsertRow(c)
          \/ /\ KeepsRows /\ drawn' = drawn
             /\ \E at \in {"write", "reread"}, op \in Ops, v \in Versions,
                   s \in Schemas \cup {NoSchema} :
                   Exists(v) /\ Proceed(c, at, op, v, s)
          \/ /\ KeepsRows /\ drawn' = drawn
             /\ \E op \in Ops, r \in {"ok", "notfound"}, v \in 0 .. MaxVersion :
                   /\ r = "ok" => v \in Versions /\ Exists(v)
                   /\ Return(c, op, r, v)
  BY SchemaCases
<1>a. ASSUME NEW at \in {"idle", "insert", "write", "reread"}, NEW op \in Ops,
             NEW v \in 0 .. MaxVersion, NEW s \in Schemas \cup {NoSchema},
             Proceed(c, at, op, v, s)
      PROVE  /\ call' \in [Callers -> [at : {"idle", "insert", "write", "reread"}, op : Ops,
                                       ver : 0 .. MaxVersion, id : Schemas \cup {NoSchema}]]
             /\ answer' = answer
             /\ call'[c].at = at /\ call'[c].ver = v /\ call'[c].id = s
             /\ \A d \in Callers : d # c => call'[d] = call[d]
  BY <1>0, <1>a DEF Proceed
<1>b. ASSUME NEW op \in Ops, NEW r \in {"ok", "notfound"}, NEW v \in 0 .. MaxVersion,
             Return(c, op, r, v)
      PROVE  /\ call' \in [Callers -> [at : {"idle", "insert", "write", "reread"}, op : Ops,
                                       ver : 0 .. MaxVersion, id : Schemas \cup {NoSchema}]]
             /\ answer' \in [Callers -> [op : Ops, result : {"none", "ok", "notfound"},
                                         ver : 0 .. MaxVersion]]
             /\ call'[c].at = "idle"
             /\ answer'[c].result = r /\ answer'[c].ver = v
             /\ \A d \in Callers : d # c => call'[d] = call[d] /\ answer'[d] = answer[d]
  <2>1. NoCall \in [at : {"idle", "insert", "write", "reread"}, op : Ops,
                    ver : 0 .. MaxVersion, id : Schemas \cup {NoSchema}]
    BY <1>0 DEF NoCall, Ops
  <2>2. [op |-> op, result |-> r, ver |-> v]
           \in [op : Ops, result : {"none", "ok", "notfound"}, ver : 0 .. MaxVersion]
    OBVIOUS
  <2>3. QED BY <1>0, <1>b, <2>1, <2>2 DEF Return, NoCall
<1>k. ASSUME KeepsRows
      PROVE  \A v \in Versions : Exists(v)' <=> Exists(v)
  BY <1>k DEF KeepsRows, Exists
<1>2. ASSUME NEW op \in Ops, NEW s \in Schemas, DrawVersion(c, op, s)
      PROVE  /\ SchemaTypeOK' /\ CallInv' /\ AnsweredHasRow'
             /\ \A v \in Versions : Exists(v) => table'[v].id = table[v].id
  <2>1. /\ drawn' = drawn + 1 /\ drawn + 1 \in Versions /\ table' = table
        /\ drawn + 1 \in 0 .. MaxVersion
        /\ Proceed(c, "insert", op, drawn + 1, s)
    BY <1>0, <1>2 DEF DrawVersion
  <2>2. /\ call' \in [Callers -> [at : {"idle", "insert", "write", "reread"}, op : Ops,
                                  ver : 0 .. MaxVersion, id : Schemas \cup {NoSchema}]]
        /\ answer' = answer
        /\ call'[c].at = "insert" /\ call'[c].ver = drawn + 1 /\ call'[c].id = s
        /\ \A d \in Callers : d # c => call'[d] = call[d]
    BY <1>a, <2>1
  <2>3. SchemaTypeOK'
    BY <1>0, <2>1, <2>2 DEF SchemaTypeOK
  <2>4. \A v \in Versions : Exists(v)' <=> Exists(v)
    BY <2>1 DEF Exists
  <2>5. ~Exists(drawn + 1)
    BY <1>0, <2>1 DEF CallInv
  <2>a. CallOf(c)'
    BY <1>0, <2>1, <2>2, <2>5 DEF CallOf, Exists
  <2>b. \A d \in Callers : d # c /\ call[d].at = "insert" =>
            /\ table'[call[d].ver].id = NoSchema
            /\ call'[c].at = "insert" => call'[c].ver # call[d].ver
    BY <1>0, <2>1, <2>2 DEF CallInv, CallOf, Exists
  <2>c. \A v \in Versions : Exists(v)' => v <= drawn'
    BY <1>0, <2>1, <2>4 DEF CallInv
  <2>6. CallInv'
    <3>1. /\ CallInv /\ drawn \in Int /\ drawn' \in Int /\ drawn <= drawn'
          /\ \A d \in Callers : d # c => call'[d] = call[d]
          /\ \A w \in Versions : Exists(w) => Exists(w)'
      BY <1>0, <2>1, <2>2, <2>4
    <3>2. QED BY <2>a, <2>b, <2>c, <3>1, CallFrame
  <2>7. AnsweredHasRow'
    BY <1>0, <2>2, <2>4 DEF AnsweredHasRow
  <2>8. QED BY <2>1, <2>3, <2>6, <2>7
<1>3. CASE InsertRow(c)
  <2>1. PICK v \in Versions, s \in Schemas : v = call[c].ver /\ s = call[c].id
    BY <1>0, <1>3 DEF InsertRow, CallInv, CallOf
  <2>2. /\ v <= drawn /\ ~Exists(v) /\ drawn' = drawn
        /\ table' = [table EXCEPT ![v] = NewRow(s)]
        /\ Proceed(c, "reread", call[c].op, v, s) /\ call[c].op \in Ops
    BY <1>0, <1>3, <2>1 DEF InsertRow, CallInv, CallOf
  <2>3. NewRow(s) \in Rows /\ NewRow(s).id = s
    BY DEF NewRow, NoRow, Rows
  <2>4. /\ call' \in [Callers -> [at : {"idle", "insert", "write", "reread"}, op : Ops,
                                  ver : 0 .. MaxVersion, id : Schemas \cup {NoSchema}]]
        /\ answer' = answer
        /\ call'[c].at = "reread" /\ call'[c].ver = v /\ call'[c].id = s
        /\ \A d \in Callers : d # c => call'[d] = call[d]
    BY <1>0, <1>a, <2>2
  <2>5. SchemaTypeOK'
    BY <1>0, <2>2, <2>3, <2>4 DEF SchemaTypeOK
  <2>6. /\ Exists(v)'
        /\ \A w \in Versions : w # v => table'[w] = table[w] /\ (Exists(w)' <=> Exists(w))
    BY <1>0, <2>2, <2>3 DEF Exists
  <2>7. \A d \in Callers : d # c /\ call[d].at = "insert" => call[d].ver # v
    BY <1>0, <1>3, <2>1 DEF CallInv, InsertRow
  <2>8. CallInv'
    <3>1. CallOf(c)'
      BY <2>4, <2>6 DEF CallOf, Exists
    <3>2. \A d \in Callers : d # c /\ call[d].at = "insert" =>
              table'[call[d].ver].id = NoSchema /\ (call'[c].at = "insert" => call'[c].ver # call[d].ver)
      BY <1>0, <2>4, <2>6, <2>7 DEF CallInv, CallOf, Exists
    <3>3. \A w \in Versions : Exists(w)' => w <= drawn'
      BY <1>0, <2>2, <2>6 DEF CallInv
    <3>4. /\ CallInv /\ drawn \in Int /\ drawn' \in Int /\ drawn <= drawn'
          /\ \A d \in Callers : d # c => call'[d] = call[d]
          /\ \A w \in Versions : Exists(w) => Exists(w)'
      BY <1>0, <2>2, <2>4, <2>6
    <3>5. QED BY <3>1, <3>2, <3>3, <3>4, CallFrame
  <2>9. AnsweredHasRow'
    BY <1>0, <2>4, <2>6 DEF AnsweredHasRow
  <2>10. QED BY <2>2, <2>5, <2>6, <2>8, <2>9
<1>4. ASSUME KeepsRows, drawn' = drawn,
             NEW at \in {"write", "reread"}, NEW op \in Ops, NEW v \in Versions,
             NEW s \in Schemas \cup {NoSchema}, Exists(v), Proceed(c, at, op, v, s)
      PROVE  SchemaTypeOK' /\ CallInv' /\ AnsweredHasRow'
  <2>1. /\ call' \in [Callers -> [at : {"idle", "insert", "write", "reread"}, op : Ops,
                                  ver : 0 .. MaxVersion, id : Schemas \cup {NoSchema}]]
        /\ answer' = answer
        /\ call'[c].at = at /\ call'[c].ver = v
        /\ \A d \in Callers : d # c => call'[d] = call[d]
    BY <1>0, <1>a, <1>4
  <2>2. SchemaTypeOK'
    BY <1>0, <1>4, <2>1 DEF SchemaTypeOK, KeepsRows
  <2>3. CallInv'
    <3>1. CallOf(c)'
      BY <1>4, <2>1 DEF CallOf, Exists, KeepsRows
    <3>2. \A d \in Callers : d # c /\ call[d].at = "insert" =>
              table'[call[d].ver].id = NoSchema /\ (call'[c].at = "insert" => call'[c].ver # call[d].ver)
      BY <1>0, <1>4, <2>1 DEF CallInv, CallOf, Exists, KeepsRows
    <3>3. \A w \in Versions : Exists(w)' => w <= drawn'
      BY <1>0, <1>4, <1>k DEF CallInv
    <3>4. /\ CallInv /\ drawn \in Int /\ drawn' \in Int /\ drawn <= drawn'
          /\ \A d \in Callers : d # c => call'[d] = call[d]
          /\ \A w \in Versions : Exists(w) => Exists(w)'
      BY <1>0, <1>4, <1>k, <2>1
    <3>5. QED BY <3>1, <3>2, <3>3, <3>4, CallFrame
  <2>4. QED BY <1>0, <1>4, <1>k, <2>1, <2>2, <2>3 DEF AnsweredHasRow
<1>5. ASSUME KeepsRows, drawn' = drawn,
             NEW op \in Ops, NEW r \in {"ok", "notfound"}, NEW v \in 0 .. MaxVersion,
             r = "ok" => v \in Versions /\ Exists(v), Return(c, op, r, v)
      PROVE  SchemaTypeOK' /\ CallInv' /\ AnsweredHasRow'
  <2>1. /\ call' \in [Callers -> [at : {"idle", "insert", "write", "reread"}, op : Ops,
                                  ver : 0 .. MaxVersion, id : Schemas \cup {NoSchema}]]
        /\ answer' \in [Callers -> [op : Ops, result : {"none", "ok", "notfound"},
                                    ver : 0 .. MaxVersion]]
        /\ call'[c].at = "idle" /\ answer'[c].result = r /\ answer'[c].ver = v
        /\ \A d \in Callers : d # c => call'[d] = call[d] /\ answer'[d] = answer[d]
    BY <1>b, <1>5
  <2>2. SchemaTypeOK'
    BY <1>0, <1>5, <2>1 DEF SchemaTypeOK, KeepsRows
  <2>3. CallInv'
    <3>1. CallOf(c)'
      BY <1>5, <2>1 DEF CallOf, Exists, KeepsRows
    <3>2. \A d \in Callers : d # c /\ call[d].at = "insert" =>
              table'[call[d].ver].id = NoSchema /\ (call'[c].at = "insert" => call'[c].ver # call[d].ver)
      BY <1>0, <1>5, <2>1 DEF CallInv, CallOf, Exists, KeepsRows
    <3>3. \A w \in Versions : Exists(w)' => w <= drawn'
      BY <1>0, <1>5, <1>k DEF CallInv
    <3>4. /\ CallInv /\ drawn \in Int /\ drawn' \in Int /\ drawn <= drawn'
          /\ \A d \in Callers : d # c => call'[d] = call[d]
          /\ \A w \in Versions : Exists(w) => Exists(w)'
      BY <1>0, <1>5, <1>k, <2>1
    <3>5. QED BY <3>1, <3>2, <3>3, <3>4, CallFrame
  <2>4. AnsweredHasRow'
    BY <1>0, <1>5, <1>k, <2>1 DEF AnsweredHasRow
  <2>5. QED BY <2>2, <2>3, <2>4
<1>6. QED
  BY <1>1, <1>2, <1>3, <1>4, <1>5 DEF KeepsRows

(* Nothing happens to the schemas. *)
LEMMA SchemaUnchanged ==
    ASSUME SchemaInv, UNCHANGED schemaVars
    PROVE  SchemaInv' /\ SchemaTypeOK' /\ \A v \in Versions : table'[v] = table[v]
<1>1. UNCHANGED <<table, drawn, call, answer>>
  BY DEF schemaVars
<1>2. SchemaTypeOK'
  BY <1>1 DEF SchemaInv, SchemaTypeOK
<1>3. \A v : Exists(v)' <=> Exists(v)
  BY <1>1 DEF Exists
<1>4. CallInv' /\ AnsweredHasRow'
  BY <1>1, <1>3 DEF SchemaInv, CallInv, CallOf, AnsweredHasRow
<1>5. QED BY <1>1, <1>2, <1>4 DEF SchemaInv

(* An empty table satisfies the invariant. *)
LEMMA SchemaInitInv == SchemaInit => SchemaInv
<1> SUFFICES ASSUME SchemaInit PROVE SchemaInv
  OBVIOUS
<1>1. /\ NoRow \in Rows /\ MaxVersion \in Nat
      /\ NoCall \in [at : {"idle", "insert", "write", "reread"}, op : Ops,
                     ver : 0 .. MaxVersion, id : Schemas \cup {NoSchema}]
      /\ NoAnswer \in [op : Ops, result : {"none", "ok", "notfound"}, ver : 0 .. MaxVersion]
  BY SchemaAssumption DEF NoRow, Rows, NoCall, NoAnswer, Ops
<1>2. SchemaTypeOK
  BY <1>1 DEF SchemaInit, SchemaTypeOK
<1>3. CallInv
  BY DEF SchemaInit, CallInv, CallOf, Exists, NoRow, NoCall
<1>4. AnsweredHasRow
  BY DEF SchemaInit, AnsweredHasRow, NoAnswer
<1>5. QED BY <1>2, <1>3, <1>4 DEF SchemaInv

(* The newest version of an answered change's schema is at least as new. *)
LEMMA AnsweredIsKept == SchemaInv => AnsweredChangeIsKept
<1> SUFFICES ASSUME SchemaInv, NEW c \in Callers,
                    answer[c].op \in {"create", "update"}, answer[c].result = "ok"
             PROVE  /\ Exists(answer[c].ver)
                    /\ GetLatestSchemaByID(table[answer[c].ver].id) >= answer[c].ver
  BY DEF AnsweredChangeIsKept
<1> DEFINE v == answer[c].ver
<1>1. v \in Versions /\ Exists(v)
  BY DEF SchemaInv, AnsweredHasRow
<1>2. v \in VersionsOf(table[v].id)
  BY <1>1 DEF VersionsOf
<1>3. /\ GetLatestSchemaByID(table[v].id) \in Versions
      /\ v <= GetLatestSchemaByID(table[v].id)
  BY <1>2, LatestIsGreatest
<1>4. QED BY <1>1, <1>3 DEF Versions

(* The statements of every API call, interleaved in any way, keep the      *)
(* table, the calls and the answers in their types.                        *)
THEOREM SchemaInvariance == SchemaSpec => []SchemaInv
<1>1. SchemaInv /\ [SchemaNext]_schemaVars => SchemaInv'
  BY CallStep, SchemaUnchanged DEF SchemaInv
<1>2. QED BY <1>1, SchemaInitInv, PTL DEF SchemaSpec

(* No answered create or update is ever lost or overtaken by an older      *)
(* version, although the version id is drawn before the row is inserted    *)
(* and no call is a transaction (service.go, postgres.go).                 *)
THEOREM AnsweredChangeIsKeptHolds == SchemaSpec => []AnsweredChangeIsKept
BY SchemaInvariance, AnsweredIsKept, PTL

-----------------------------------------------------------------------------
(* The pipeline.                                                           *)

(* Whatever a step does, the rows that exist keep their schema. *)
LEMMA RowsStay ==
    ASSUME IInv, [Next]_vars
    PROVE  /\ SchemaInv' /\ SchemaTypeOK'
           /\ \A v \in Versions : Exists(v) => table'[v].id = table[v].id
<1>0. SchemaInv
  BY DEF IInv
<1>1. CASE SchemaNext
  BY <1>0, <1>1, CallStep DEF SchemaInv
<1>2. ASSUME UNCHANGED schemaVars
      PROVE  /\ SchemaInv' /\ SchemaTypeOK'
             /\ \A v \in Versions : Exists(v) => table'[v].id = table[v].id
  BY <1>0, <1>2, SchemaUnchanged
<1>3. CASE Scheduler \/ SchedulerStops \/ Shutdown \/ Unsubscribe \/ Close \/ LoseMessage
  BY <1>2, <1>3 DEF Scheduler, runCorrelations, runSchemaCorrelation, SchedulerStops,
        Shutdown, Unsubscribe, Close, LoseMessage
<1>4. ASSUME NEW w \in SearchWorkers, takeJob(w) \/ handleCorrelationJob(w)
      PROVE  UNCHANGED schemaVars
  BY <1>4 DEF takeJob, handleCorrelationJob
<1>5. ASSUME NEW h \in RespondWorkers, handleCorrelationResult(h) \/ publishAlert(h)
      PROVE  UNCHANGED schemaVars
  BY <1>5 DEF handleCorrelationResult, publishAlert
<1>6. CASE UNCHANGED vars
  BY <1>2, <1>6 DEF vars, schemaVars
<1>7. QED BY <1>1, <1>2, <1>3, <1>4, <1>5, <1>6 DEF Next

(* The list the scheduler works through is finite and made of rows. *)
LEMMA ActiveRows ==
    /\ ListPage(ListSchemas(FALSE, FALSE), 1, ListLimit) \subseteq Versions
    /\ \A v \in ListPage(ListSchemas(FALSE, FALSE), 1, ListLimit) : Exists(v)
BY DEF ListPage, ListSchemas, Passing

(* A set of versions is finite. *)
LEMMA FiniteVersions ==
    ASSUME NEW V \in SUBSET Versions
    PROVE  IsFiniteSet(V) /\ Cardinality(V) \in Nat
<1>1. IsFiniteSet(Versions)
  BY FS_Interval, SchemaAssumption DEF Versions
<1>2. QED BY <1>1, FS_Subset, FS_CardinalityType

(* What publishing one alert changes. *)
LEMMA PublishCases ==
    ASSUME IInv, NEW h \in RespondWorkers, publishAlert(h)
    PROVE  \E j \in Jobs, k \in Keys :
              /\ handling[h].job = j /\ k \in handling[h].todo
              /\ handling' \in [RespondWorkers -> [job : Jobs \cup {0}, todo : SUBSET Keys]]
              /\ handling'[h].job \in {0, j}
              /\ handling'[h].todo \subseteq handling[h].todo \ {k}
              /\ handling'[h].todo # {} => handling'[h].job = j
              /\ \A g \in RespondWorkers : g # h => handling'[g] = handling[g]
              /\ \/ UNCHANGED <<count, alerts>>
                 \/ /\ count' = [count EXCEPT ![<<j, k>>] = count[<<j, k>>] + 1]
                    /\ alerts' = alerts \cup {[job |-> j, id |-> request[j].id,
                                               ver |-> request[j].ver,
                                               view |-> request[j].ver]}
              /\ UNCHANGED <<main, sched, lastJob, request, jobMsgs, running, resMsgs>>
<1>0. handling \in [RespondWorkers -> [job : Jobs \cup {0}, todo : SUBSET Keys]]
  BY DEF IInv, TypeOK
<1> DEFINE alert == [job |-> handling[h].job, id |-> request[handling[h].job].id,
                     ver |-> request[handling[h].job].ver,
                     view |-> request[handling[h].job].ver]
           left(k) == IF handling[h].todo = {k} THEN NotHandling
                      ELSE [handling[h] EXCEPT !.todo = handling[h].todo \ {k}]
<1>1. PICK k \in handling[h].todo :
          /\ \/ UNCHANGED <<count, alerts>>
             \/ /\ count' = [count EXCEPT ![<<handling[h].job, k>>] =
                                            count[<<handling[h].job, k>>] + 1]
                /\ alerts' = alerts \cup {alert}
          /\ handling' = [handling EXCEPT ![h] = left(k)]
  BY Zenon DEF publishAlert
<1>2. handling[h].job \in Jobs /\ k \in Keys /\ handling[h] \in [job : Jobs \cup {0}, todo : SUBSET Keys]
  BY <1>0 DEF IInv, PipelineInv, NotYetAlerted
<1>3. UNCHANGED <<main, sched, lastJob, request, jobMsgs, running, resMsgs>>
  BY DEF publishAlert
<1>4. PICK x \in [job : Jobs \cup {0}, todo : SUBSET Keys] :
          /\ handling' = [handling EXCEPT ![h] = x]
          /\ x.job \in {0, handling[h].job} /\ x.todo \subseteq handling[h].todo \ {k}
          /\ x.todo # {} => x.job = handling[h].job
  <2>1. CASE handling[h].todo = {k}
    <3>1. NotHandling \in [job : Jobs \cup {0}, todo : SUBSET Keys]
      BY DEF NotHandling
    <3>2. NotHandling.job = 0 /\ NotHandling.todo = {}
      BY DEF NotHandling
    <3>3. QED BY <1>1, <2>1, <3>1, <3>2
  <2>2. CASE handling[h].todo # {k}
    <3>1. [handling[h] EXCEPT !.todo = handling[h].todo \ {k}]
             \in [job : Jobs \cup {0}, todo : SUBSET Keys]
      BY <1>2
    <3>2. /\ [handling[h] EXCEPT !.todo = handling[h].todo \ {k}].job = handling[h].job
          /\ [handling[h] EXCEPT !.todo = handling[h].todo \ {k}].todo = handling[h].todo \ {k}
      BY <1>2
    <3>3. QED BY <1>1, <2>2, <3>1, <3>2
  <2>3. QED BY <2>1, <2>2
<1>5. /\ handling' \in [RespondWorkers -> [job : Jobs \cup {0}, todo : SUBSET Keys]]
      /\ handling'[h] = x
      /\ \A g \in RespondWorkers : g # h => handling'[g] = handling[g]
  BY <1>0, <1>4
<1>6. QED BY <1>1, <1>2, <1>3, <1>4, <1>5

(* Every step keeps the types; a list is started only if there are job ids *)
(* left for all of it.                                                     *)
LEMMA TypeStep ==
    ASSUME IInv, [Next]_vars
    PROVE  TypeOK'
<1>0. TypeOK /\ SchemaTypeOK'
  BY RowsStay DEF IInv
<1>1. CASE SchemaNext /\ UNCHANGED corrVars
  BY <1>0, <1>1 DEF TypeOK, corrVars
<1>2. CASE runCorrelations
  BY <1>0, <1>2, ActiveRows DEF TypeOK, runCorrelations
<1>3. ASSUME NEW v \in Versions, runSchemaCorrelation(v)
      PROVE  TypeOK'
  <2>1. sched' \in [at : {"idle", "publish", "stopped"}, todo : SUBSET Versions]
    BY <1>0, <1>3 DEF TypeOK, runSchemaCorrelation, Done
  <2>2. lastJob + 1 \in Jobs
    <3>1. IsFiniteSet(sched.todo) /\ Cardinality(sched.todo) \in Nat
      BY <1>0, FiniteVersions DEF TypeOK
    <3>2. Cardinality(sched.todo) # 0
      BY <1>3, <3>1, FS_EmptySet DEF runSchemaCorrelation
    <3>3. lastJob + Cardinality(sched.todo) <= MaxJobs
      BY <1>3 DEF IInv, RequestInv, runSchemaCorrelation
    <3>4. QED BY <1>0, <3>1, <3>2, <3>3, CorrelationAssumption DEF TypeOK, Jobs
  <2>3. [ver |-> v, id |-> table[v].id] \in Requests
    BY <1>0 DEF TypeOK, SchemaTypeOK, Rows, Requests
  <2>4. lastJob + 1 \in 0 .. MaxJobs
    BY <2>2 DEF Jobs
  <2>5. /\ lastJob' \in 0 .. MaxJobs /\ request' \in [Jobs -> Requests] /\ jobMsgs' \subseteq Jobs
    BY <1>0, <1>3, <2>2, <2>3, <2>4 DEF TypeOK, runSchemaCorrelation
  <2>6. QED BY <1>0, <1>3, <2>1, <2>5 DEF TypeOK, runSchemaCorrelation
<1>4. CASE SchedulerStops
  BY <1>0, <1>4 DEF TypeOK, SchedulerStops
<1>5. ASSUME NEW w \in SearchWorkers, takeJob(w)
      PROVE  TypeOK'
  BY <1>0, <1>5 DEF TypeOK, takeJob
<1>6. ASSUME NEW w \in SearchWorkers, handleCorrelationJob(w)
      PROVE  TypeOK'
  <2>1. PICK j \in Jobs, M \in SUBSET Keys :
            /\ running' = running \ {<<j, w>>}
            /\ \/ resMsgs' = resMsgs \cup {[job |-> j, by |-> w, matches |-> M]}
               \/ UNCHANGED resMsgs
    BY <1>6 DEF handleCorrelationJob
  <2>2. [job |-> j, by |-> w, matches |-> M] \in Results
    BY DEF Results
  <2>3. QED BY <1>0, <1>6, <2>1, <2>2 DEF TypeOK, handleCorrelationJob
<1>7. ASSUME NEW h \in RespondWorkers, handleCorrelationResult(h)
      PROVE  TypeOK'
  <2>1. PICK m \in resMsgs :
            /\ resMsgs' = resMsgs \ {m}
            /\ \/ handling' = [handling EXCEPT ![h] = [job |-> m.job, todo |-> m.matches]]
               \/ UNCHANGED handling
    BY <1>7 DEF handleCorrelationResult
  <2>2. [job |-> m.job, todo |-> m.matches] \in [job : Jobs \cup {0}, todo : SUBSET Keys]
    BY <1>0 DEF TypeOK, Results
  <2>3. QED BY <1>0, <1>7, <2>1, <2>2 DEF TypeOK, handleCorrelationResult
<1>8. ASSUME NEW h \in RespondWorkers, publishAlert(h)
      PROVE  TypeOK'
  <2>1. PICK j \in Jobs, k \in Keys :
              /\ handling[h].job = j
              /\ handling' \in [RespondWorkers -> [job : Jobs \cup {0}, todo : SUBSET Keys]]
              /\ \/ UNCHANGED <<count, alerts>>
                 \/ /\ count' = [count EXCEPT ![<<j, k>>] = count[<<j, k>>] + 1]
                    /\ alerts' = alerts \cup {[job |-> j, id |-> request[j].id,
                                               ver |-> request[j].ver,
                                               view |-> request[j].ver]}
              /\ UNCHANGED <<main, sched, lastJob, request, jobMsgs, running, resMsgs>>
    BY <1>8, PublishCases
  <2>2. [job |-> j, id |-> request[j].id, ver |-> request[j].ver, view |-> request[j].ver]
           \in Alerts
    <3>1. j <= lastJob
      BY <2>1 DEF IInv, PipelineInv, NotYetAlerted
    <3>2. request[j].id \in Schemas /\ request[j].ver \in Versions
      BY <3>1 DEF IInv, RequestInv
    <3>3. QED BY <3>2 DEF Alerts
  <2>3. count' \in [Jobs \X Keys -> Nat]
    <3>1. count \in [Jobs \X Keys -> Nat] /\ <<j, k>> \in Jobs \X Keys
      BY <1>0 DEF TypeOK
    <3>2. count[<<j, k>>] + 1 \in Nat
      BY <3>1
    <3>3. QED BY <2>1, <3>1, <3>2
  <2>4. alerts' \subseteq Alerts
    BY <1>0, <2>1, <2>2 DEF TypeOK
  <2>5. QED BY <1>0, <2>1, <2>3, <2>4 DEF TypeOK
<1>9. CASE Shutdown \/ Unsubscribe \/ Close \/ LoseMessage \/ UNCHANGED vars
  BY <1>0, <1>9 DEF TypeOK, Shutdown, Unsubscribe, Close, LoseMessage, vars
<1>10. QED
  BY <1>1, <1>2, <1>3, <1>4, <1>5, <1>6, <1>7, <1>8, <1>9 DEF Next, Scheduler

(* Job ids are only drawn, and what a job was made for stays. *)
LEMMA JobsStay ==
    ASSUME IInv, [Next]_vars
    PROVE  /\ lastJob \in Int /\ lastJob' \in Int /\ lastJob <= lastJob'
           /\ \A j \in Jobs : j <= lastJob => request'[j] = request[j]
<1>0. lastJob \in 0 .. MaxJobs /\ request \in [Jobs -> Requests] /\ MaxJobs \in Nat
  BY CorrelationAssumption DEF IInv, TypeOK
<1>1. CASE UNCHANGED <<lastJob, request>>
  BY <1>0, <1>1
<1>2. ASSUME NEW v \in Versions, runSchemaCorrelation(v)
      PROVE  \/ UNCHANGED <<lastJob, request>>
             \/ /\ lastJob' = lastJob + 1
                /\ request' = [request EXCEPT ![lastJob + 1] = [ver |-> v, id |-> table[v].id]]
  BY <1>2 DEF runSchemaCorrelation
<1>3. ASSUME NEW v \in Versions, lastJob' = lastJob + 1,
             request' = [request EXCEPT ![lastJob + 1] = [ver |-> v, id |-> table[v].id]]
      PROVE  /\ lastJob' \in Int /\ lastJob <= lastJob'
             /\ \A j \in Jobs : j <= lastJob => request'[j] = request[j]
  <2>1. ASSUME NEW j \in Jobs, j <= lastJob PROVE j # lastJob + 1
    BY <1>0, <2>1 DEF Jobs
  <2>2. QED BY <1>0, <1>3, <2>1
<1>4. ASSUME NEW w \in SearchWorkers, takeJob(w) \/ handleCorrelationJob(w)
      PROVE  UNCHANGED <<lastJob, request>>
  BY <1>4 DEF takeJob, handleCorrelationJob
<1>5. ASSUME NEW h \in RespondWorkers, handleCorrelationResult(h) \/ publishAlert(h)
      PROVE  UNCHANGED <<lastJob, request>>
  BY <1>5 DEF handleCorrelationResult, publishAlert
<1>6. ASSUME \/ SchemaNext /\ UNCHANGED corrVars
             \/ runCorrelations \/ SchedulerStops \/ Shutdown \/ Unsubscribe \/ Close
             \/ LoseMessage \/ UNCHANGED vars
      PROVE  UNCHANGED <<lastJob, request>>
  BY <1>6 DEF corrVars, runCorrelations, SchedulerStops, Shutdown, Unsubscribe, Close,
        LoseMessage, vars
<1>7. CASE \E v \in Versions : runSchemaCorrelation(v)
  <2>1. PICK v \in Versions : runSchemaCorrelation(v)
    BY <1>7
  <2>2. lastJob \in Int
    BY <1>0
  <2>3. CASE /\ lastJob' = lastJob + 1
             /\ request' = [request EXCEPT ![lastJob + 1] = [ver |-> v, id |-> table[v].id]]
    BY <1>3, <2>2, <2>3
  <2>4. QED BY <1>1, <1>2, <2>1, <2>3
<1>8. QED BY <1>1, <1>4, <1>5, <1>6, <1>7 DEF Next, Scheduler

(* What a job was made for is a row that exists, also after every step:    *)
(* the jobs that were there keep their rows, a new one is for a row of the *)
(* list.                                                                   *)
LEMMA RequestStep ==
    ASSUME IInv, [Next]_vars
    PROVE  RequestInv'
<1>0. /\ sched \in [at : {"idle", "publish", "stopped"}, todo : SUBSET Versions]
      /\ lastJob \in 0 .. MaxJobs /\ request \in [Jobs -> Requests] /\ MaxJobs \in Nat
      /\ table \in [Versions -> Rows] /\ NoSchema \notin Schemas
  BY CorrelationAssumption, SchemaAssumption DEF IInv, TypeOK, SchemaTypeOK
<1>1. \A v \in sched.todo : v \in Versions /\ Exists(v) /\ Exists(v)'
  <2>1. \A v \in sched.todo : v \in Versions /\ Exists(v)
    BY <1>0 DEF IInv, RequestInv
  <2>2. QED BY <2>1, RowsStay DEF Exists
<1>2. ASSUME NEW j \in Jobs, j <= lastJob
      PROVE  /\ request'[j].ver \in Versions
             /\ request'[j].id \in Schemas
             /\ table'[request'[j].ver].id = request'[j].id
  <2>1. request'[j] = request[j]
    BY <1>2, JobsStay
  <2>2. /\ request[j].ver \in Versions /\ request[j].id \in Schemas
        /\ table[request[j].ver].id = request[j].id
    BY <1>2 DEF IInv, RequestInv
  <2>3. Exists(request[j].ver)
    BY <1>0, <2>2 DEF Exists
  <2>4. table'[request[j].ver].id = table[request[j].ver].id
    BY <2>2, <2>3, RowsStay
  <2>5. QED BY <2>1, <2>2, <2>4
<1>3. CASE UNCHANGED <<sched, lastJob>>
  <2>1. sched.at = "publish" => lastJob + Cardinality(sched.todo) <= MaxJobs
    BY DEF IInv, RequestInv
  <2>2. QED BY <1>1, <1>2, <1>3, <2>1 DEF RequestInv
<1>4. CASE runCorrelations
  <2> DEFINE active == ListPage(ListSchemas(FALSE, FALSE), 1, ListLimit)
  <2>1. /\ sched' = [at |-> "publish", todo |-> active] /\ lastJob' = lastJob /\ table' = table
        /\ lastJob + Cardinality(active) <= MaxJobs
    BY <1>4 DEF runCorrelations, schemaVars
  <2>2. \A v \in active : Exists(v)
    BY ActiveRows
  <2> HIDE DEF active
  <2>3. QED BY <1>2, <2>1, <2>2 DEF RequestInv, Exists
<1>5. CASE SchedulerStops
  <2>1. sched'.todo = sched.todo /\ sched'.at = "stopped" /\ lastJob' = lastJob
    BY <1>0, <1>5 DEF SchedulerStops
  <2>2. QED BY <1>1, <1>2, <2>1 DEF RequestInv
<1>6. ASSUME NEW v \in Versions, runSchemaCorrelation(v)
      PROVE  RequestInv'
  <2>1. /\ v \in sched.todo /\ sched.at = "publish"
        /\ sched'.todo = sched.todo \ {v}
    BY <1>6 DEF runSchemaCorrelation, Done
  <2>2. /\ IsFiniteSet(sched.todo) /\ Cardinality(sched.todo) \in Nat
    BY <1>0, FiniteVersions
  <2>3. Cardinality(sched'.todo) = Cardinality(sched.todo) - 1
    BY <2>1, <2>2, FS_RemoveElement
  <2>4. lastJob + Cardinality(sched.todo) <= MaxJobs
    BY <2>1 DEF IInv, RequestInv
  <2>5. \/ lastJob' = lastJob
        \/ /\ lastJob' = lastJob + 1
           /\ request' = [request EXCEPT ![lastJob + 1] = [ver |-> v, id |-> table[v].id]]
    BY <1>6 DEF runSchemaCorrelation
  <2>6. lastJob' + Cardinality(sched'.todo) <= MaxJobs
    BY <1>0, <2>2, <2>3, <2>4, <2>5
  <2>7. \A x \in sched'.todo : Exists(x)'
    BY <1>1, <2>1
  <2>8. ASSUME NEW j \in Jobs, j <= lastJob'
        PROVE  /\ request'[j].ver \in Versions
               /\ request'[j].id \in Schemas
               /\ table'[request'[j].ver].id = request'[j].id
    <3>1. CASE j <= lastJob
      BY <1>2, <3>1
    <3>2. CASE ~(j <= lastJob)
      <4>1. j = lastJob + 1 /\ lastJob' = lastJob + 1
        BY <1>0, <2>5, <2>8, <3>2 DEF Jobs
      <4>2. request'[j] = [ver |-> v, id |-> table[v].id]
        BY <1>0, <2>5, <4>1
      <4>3. table' = table
        BY <1>6 DEF runSchemaCorrelation, schemaVars
      <4>4. table[v].id \in Schemas
        BY <1>0, <1>1, <2>1 DEF Exists, Rows
      <4>5. QED BY <4>2, <4>3, <4>4
    <3>3. QED BY <3>1, <3>2
  <2>9. QED BY <2>6, <2>7, <2>8 DEF RequestInv
<1>7. ASSUME \/ SchemaNext /\ UNCHANGED corrVars
             \/ Shutdown \/ Unsubscribe \/ Close \/ LoseMessage \/ UNCHANGED vars
             \/ \E w \in SearchWorkers : takeJob(w) \/ handleCorrelationJob(w)
             \/ \E h \in RespondWorkers : handleCorrelationResult(h) \/ publishAlert(h)
      PROVE  UNCHANGED <<sched, lastJob>>
  BY <1>7 DEF corrVars, Shutdown, Unsubscribe, Close, LoseMessage, vars, takeJob,
        handleCorrelationJob, handleCorrelationResult, publishAlert
<1>8. QED BY <1>3, <1>4, <1>5, <1>6, <1>7 DEF Next, Scheduler

(* An alert that was published keeps its provenance, and a new one takes   *)
(* it from the request of its job.                                         *)
LEMMA ProvenanceStep ==
    ASSUME IInv, [Next]_vars
    PROVE  AlertProvenance' /\ AlertedIsDrawn'
<1>0. /\ alerts \subseteq Alerts /\ request \in [Jobs -> Requests] /\ NoSchema \notin Schemas
  BY SchemaAssumption DEF IInv, TypeOK
<1>1. ASSUME NEW a \in Alerts, a.job <= lastJob, request[a.job] = [ver |-> a.ver, id |-> a.id],
             table[a.ver].id = a.id, a.view = a.ver
      PROVE  /\ request'[a.job] = [ver |-> a.ver, id |-> a.id]
             /\ table'[a.ver].id = a.id /\ a.view = a.ver /\ a.job <= lastJob'
  <2>1. a.job \in Jobs /\ a.ver \in Versions /\ a.id \in Schemas /\ a.job \in Int
    BY DEF Alerts, Jobs
  <2>2. Exists(a.ver)
    BY <1>0, <1>1, <2>1 DEF Exists
  <2>3. table'[a.ver].id = table[a.ver].id
    BY <2>1, <2>2, RowsStay
  <2>4. request'[a.job] = request[a.job] /\ a.job <= lastJob'
    BY <1>1, <2>1, JobsStay
  <2>5. QED BY <1>1, <2>3, <2>4
<1>2. \A a \in alerts : /\ a \in Alerts /\ a.job <= lastJob
                        /\ request[a.job] = [ver |-> a.ver, id |-> a.id]
                        /\ table[a.ver].id = a.id /\ a.view = a.ver
  BY <1>0 DEF IInv, AlertProvenance, AlertedIsDrawn
<1>3. CASE alerts' = alerts
  BY <1>1, <1>2, <1>3 DEF AlertProvenance, AlertedIsDrawn
<1>4. ASSUME NEW h \in RespondWorkers, publishAlert(h)
      PROVE  AlertProvenance' /\ AlertedIsDrawn'
  <2>1. PICK j \in Jobs :
            /\ handling[h].job = j
            /\ \/ UNCHANGED alerts
               \/ alerts' = alerts \cup {[job |-> j, id |-> request[j].id,
                                          ver |-> request[j].ver, view |-> request[j].ver]}
    BY <1>4, PublishCases
  <2>2. PICK n : n = [job |-> j, id |-> request[j].id, ver |-> request[j].ver,
                      view |-> request[j].ver]
    OBVIOUS
  <2>3. j <= lastJob
    BY <2>1 DEF IInv, PipelineInv, NotYetAlerted
  <2>4. /\ request[j].id \in Schemas /\ request[j].ver \in Versions
        /\ table[request[j].ver].id = request[j].id
    BY <2>3 DEF IInv, RequestInv
  <2>5. n \in Alerts /\ n.job = j /\ n.id = request[j].id /\ n.ver = request[j].ver
        /\ n.view = request[j].ver
    BY <2>2, <2>4 DEF Alerts
  <2>6. request[j] = [ver |-> n.ver, id |-> n.id]
    BY <1>0, <2>5 DEF Requests
  <2>7. /\ request'[n.job] = [ver |-> n.ver, id |-> n.id]
        /\ table'[n.ver].id = n.id /\ n.view = n.ver /\ n.job <= lastJob'
    BY <1>1, <2>3, <2>4, <2>5, <2>6
  <2>8. alerts' = alerts \/ alerts' = alerts \cup {n}
    BY <2>1, <2>2
  <2>9. QED BY <1>1, <1>2, <2>7, <2>8 DEF AlertProvenance, AlertedIsDrawn
<1>5. ASSUME \/ SchemaNext /\ UNCHANGED corrVars
             \/ runCorrelations \/ SchedulerStops
             \/ \E v \in Versions : runSchemaCorrelation(v)
             \/ Shutdown \/ Unsubscribe \/ Close \/ LoseMessage \/ UNCHANGED vars
             \/ \E w \in SearchWorkers : takeJob(w) \/ handleCorrelationJob(w)
             \/ \E h \in RespondWorkers : handleCorrelationResult(h)
      PROVE  UNCHANGED alerts
  BY <1>5 DEF corrVars, runCorrelations, SchedulerStops, runSchemaCorrelation, Shutdown,
        Unsubscribe, Close, LoseMessage, vars, takeJob, handleCorrelationJob,
        handleCorrelationResult
<1>6. QED BY <1>3, <1>4, <1>5 DEF Next, Scheduler

(* The scheduler publishes only while it runs, and Stop waits for it. *)
LEMMA StoppedStep ==
    ASSUME IInv, [Next]_vars
    PROVE  StoppedFirst'
<1>1. StoppedFirst /\ sched \in [at : {"idle", "publish", "stopped"}, todo : SUBSET Versions]
  BY DEF IInv, TypeOK
<1>2. CASE Scheduler
  <2>1. sched.at \in {"idle", "publish"} /\ main' = main
    BY <1>2 DEF Scheduler, runCorrelations, runSchemaCorrelation
  <2>2. QED BY <1>1, <2>1 DEF StoppedFirst
<1>3. CASE SchedulerStops
  BY <1>1, <1>3 DEF StoppedFirst, SchedulerStops
<1>4. CASE Shutdown \/ Unsubscribe \/ Close
  BY <1>1, <1>4 DEF StoppedFirst, Shutdown, Unsubscribe, Close
<1>5. ASSUME \/ SchemaNext /\ UNCHANGED corrVars
             \/ LoseMessage \/ UNCHANGED vars
             \/ \E w \in SearchWorkers : takeJob(w) \/ handleCorrelationJob(w)
             \/ \E h \in RespondWorkers : handleCorrelationResult(h) \/ publishAlert(h)
      PROVE  UNCHANGED <<main, sched>>
  BY <1>5 DEF corrVars, LoseMessage, vars, takeJob, handleCorrelationJob,
        handleCorrelationResult, publishAlert
<1>6. QED BY <1>1, <1>2, <1>3, <1>4, <1>5 DEF Next, StoppedFirst

-----------------------------------------------------------------------------
(* One alert per match.                                                    *)

(* What the pipeline's invariant speaks of. *)
PipelineTypes ==
    /\ lastJob \in Int /\ Jobs \subseteq Int /\ 0 \notin Jobs
    /\ jobMsgs \subseteq Jobs /\ running \subseteq Jobs \X SearchWorkers
    /\ \A m \in resMsgs : m.job \in Jobs /\ m.matches \subseteq Keys
    /\ \A h \in RespondWorkers : handling[h].job \in Jobs \cup {0} /\ handling[h].todo \subseteq Keys

(* They follow from the types. *)
LEMMA PipelineTyping == IInv => PipelineTypes
<1> SUFFICES ASSUME IInv PROVE PipelineTypes
  OBVIOUS
<1>1. Jobs \subseteq Int /\ 0 \notin Jobs /\ lastJob \in Int
  BY CorrelationAssumption DEF IInv, TypeOK, Jobs
<1>2. \A m \in resMsgs : m.job \in Jobs /\ m.matches \subseteq Keys
  BY DEF IInv, TypeOK, Results
<1>3. \A h \in RespondWorkers : handling[h].job \in Jobs \cup {0} /\ handling[h].todo \subseteq Keys
  BY DEF IInv, TypeOK
<1>4. QED BY <1>1, <1>2, <1>3 DEF IInv, TypeOK, PipelineTypes

(* Losing messages, or doing nothing to the pipeline. *)
LEMMA PipelineShrinks ==
    ASSUME IInv, jobMsgs' \subseteq jobMsgs, resMsgs' \subseteq resMsgs,
           UNCHANGED <<lastJob, running, handling, count>>
    PROVE  PipelineInv'
<1>1. PipelineInv
  BY DEF IInv
<1>2. OnePlace'
  BY <1>1 DEF PipelineInv, OnePlace
<1>3. NotYetAlerted'
  BY <1>1 DEF PipelineInv, NotYetAlerted
<1>4. OneAlertPerMatch'
  BY <1>1 DEF PipelineInv, OneAlertPerMatch
<1>5. QED BY <1>2, <1>3, <1>4 DEF PipelineInv

(* A new job: its id is drawn, so nothing in the pipeline has it yet. *)
LEMMA PipelineDraw ==
    ASSUME IInv, lastJob + 1 \in Jobs, lastJob' = lastJob + 1,
           jobMsgs' = jobMsgs \cup {lastJob + 1},
           UNCHANGED <<running, resMsgs, handling, count>>
    PROVE  PipelineInv'
<1>0. PipelineTypes /\ PipelineInv
  BY PipelineTyping DEF IInv
<1>1. /\ \A w \in SearchWorkers : <<lastJob + 1, w>> \notin running
      /\ \A m \in resMsgs : m.job # lastJob + 1
      /\ \A h \in RespondWorkers : handling[h].job # lastJob + 1
  <2>1. ASSUME NEW w \in SearchWorkers, <<lastJob + 1, w>> \in running PROVE FALSE
    <3>1. <<lastJob + 1, w>>[1] <= lastJob
      BY <1>0, <2>1 DEF PipelineInv, NotYetAlerted
    <3>2. QED BY <1>0, <3>1 DEF PipelineTypes
  <2>2. \A m \in resMsgs : m.job # lastJob + 1
    BY <1>0 DEF PipelineInv, NotYetAlerted, PipelineTypes
  <2>3. \A h \in RespondWorkers : handling[h].job # lastJob + 1
    BY <1>0 DEF PipelineInv, NotYetAlerted, PipelineTypes
  <2>4. QED BY <2>1, <2>2, <2>3
<1>2. OnePlace'
  BY <1>0, <1>1 DEF PipelineInv, OnePlace
<1>3. NotYetAlerted'
  <2>1. /\ \A j \in Jobs : j > lastJob => \A k \in Keys : count[<<j, k>>] = 0
        /\ \A j \in jobMsgs : j <= lastJob /\ \A k \in Keys : count[<<j, k>>] = 0
        /\ \A p \in running : p[1] <= lastJob /\ \A k \in Keys : count[<<p[1], k>>] = 0
        /\ \A m \in resMsgs : m.job <= lastJob /\ \A k \in Keys : count[<<m.job, k>>] = 0
        /\ \A h \in RespondWorkers :
              /\ handling[h].job <= lastJob
              /\ handling[h].todo # {} => handling[h].job # 0
              /\ \A k \in handling[h].todo : count[<<handling[h].job, k>>] = 0
    BY <1>0 DEF PipelineInv, NotYetAlerted
  <2>2. \A j \in Jobs : j > lastJob' => j > lastJob
    BY <1>0 DEF PipelineTypes
  <2>3. \A j \in Int : j <= lastJob => j <= lastJob'
    BY <1>0 DEF PipelineTypes
  <2>4. \A j \in jobMsgs' : j <= lastJob' /\ \A k \in Keys : count[<<j, k>>] = 0
    <3>1. lastJob + 1 > lastJob /\ lastJob + 1 <= lastJob'
      BY <1>0 DEF PipelineTypes
    <3>2. QED BY <1>0, <2>1, <2>3, <3>1 DEF PipelineTypes
  <2>5. \A p \in running : p[1] \in Int
    BY <1>0 DEF PipelineTypes
  <2>6. \A p \in running : p[1] <= lastJob'
    BY <2>1, <2>3, <2>5
  <2>7. \A m \in resMsgs : m.job <= lastJob'
    BY <1>0, <2>1, <2>3 DEF PipelineTypes
  <2>8. \A h \in RespondWorkers : handling[h].job <= lastJob'
    <3>1. ASSUME NEW h \in RespondWorkers PROVE handling[h].job \in Int
      <4>1. handling[h].job \in Jobs \cup {0} /\ Jobs \subseteq Int
        BY <1>0 DEF PipelineTypes
      <4>2. CASE handling[h].job \in Jobs
        BY <4>1, <4>2, Zenon
      <4>3. CASE handling[h].job = 0
        BY <4>3
      <4>4. QED BY <4>1, <4>2, <4>3, Zenon
    <3>2. QED BY <2>1, <2>3, <3>1
  <2>9. QED BY <2>1, <2>2, <2>4, <2>6, <2>7, <2>8 DEF NotYetAlerted
<1>4. OneAlertPerMatch'
  BY <1>0 DEF PipelineInv, OneAlertPerMatch
<1>5. QED BY <1>2, <1>3, <1>4 DEF PipelineInv

(* The queue group gives a job to one search worker. *)
LEMMA PipelineTake ==
    ASSUME IInv, NEW w \in SearchWorkers, takeJob(w)
    PROVE  PipelineInv'
<1>0. PipelineTypes /\ PipelineInv
  BY PipelineTyping DEF IInv
<1>1. PICK j \in jobMsgs : running' = running \cup {<<j, w>>} /\ jobMsgs' = jobMsgs \ {j}
  BY DEF takeJob
<1>2. UNCHANGED <<lastJob, resMsgs, handling, count>>
  BY DEF takeJob
<1>3. /\ \A x \in SearchWorkers : <<j, x>> \notin running
      /\ \A m \in resMsgs : m.job # j
      /\ \A h \in RespondWorkers : handling[h].job # j
  BY <1>0 DEF PipelineInv, OnePlace
<1>4. \A i, x : <<i, x>> \in running' <=> <<i, x>> \in running \/ (i = j /\ x = w)
  BY <1>1
<1>5. OnePlace'
  <2>1. \A i \in jobMsgs' : i \in jobMsgs /\ i # j
    BY <1>1
  <2>2. \A i \in Jobs : \A y, x \in SearchWorkers :
            <<i, y>> \in running' /\ <<i, x>> \in running' => y = x
    BY <1>0, <1>3, <1>4 DEF PipelineInv, OnePlace
  <2>3. /\ \A i \in jobMsgs' : \A x \in SearchWorkers : <<i, x>> \notin running'
        /\ \A m \in resMsgs : \A x \in SearchWorkers : <<m.job, x>> \notin running'
        /\ \A h \in RespondWorkers : \A x \in SearchWorkers : <<handling[h].job, x>> \notin running'
    BY <1>0, <1>3, <1>4, <2>1 DEF PipelineInv, OnePlace
  <2>4. QED BY <1>0, <1>2, <2>1, <2>2, <2>3 DEF PipelineInv, OnePlace
<1>6. NotYetAlerted'
  <2>1. <<j, w>>[1] = j /\ j <= lastJob /\ \A k \in Keys : count[<<j, k>>] = 0
    BY <1>0 DEF PipelineInv, NotYetAlerted
  <2>2. \A p \in running' : p[1] <= lastJob /\ \A k \in Keys : count[<<p[1], k>>] = 0
    BY <1>0, <1>1, <2>1 DEF PipelineInv, NotYetAlerted
  <2>3. QED BY <1>0, <1>1, <1>2, <2>2 DEF PipelineInv, NotYetAlerted
<1>7. OneAlertPerMatch'
  BY <1>0, <1>2 DEF PipelineInv, OneAlertPerMatch
<1>8. QED BY <1>5, <1>6, <1>7 DEF PipelineInv

(* The worker that has the job publishes its only result, or nothing. *)
LEMMA PipelineResult ==
    ASSUME IInv, NEW w \in SearchWorkers, handleCorrelationJob(w)
    PROVE  PipelineInv'
<1>0. PipelineTypes /\ PipelineInv
  BY PipelineTyping DEF IInv
<1>1. PICK j \in Jobs, M \in SUBSET Keys :
          /\ <<j, w>> \in running
          /\ running' = running \ {<<j, w>>}
          /\ \/ resMsgs' = resMsgs \cup {[job |-> j, by |-> w, matches |-> M]}
             \/ UNCHANGED resMsgs
  BY DEF handleCorrelationJob
<1>2. UNCHANGED <<lastJob, jobMsgs, handling, count>>
  BY DEF handleCorrelationJob
<1>3. PICK n : n = [job |-> j, by |-> w, matches |-> M]
  OBVIOUS
<1>4. n.job = j /\ n.matches = M
  BY <1>3
<1>5. resMsgs' \subseteq resMsgs \cup {n}
  BY <1>1, <1>3
<1>6. /\ \A i \in jobMsgs : i # j
      /\ \A m \in resMsgs : m.job # j
      /\ \A h \in RespondWorkers : handling[h].job # j
  BY <1>0, <1>1 DEF PipelineInv, OnePlace
<1>7. \A x \in SearchWorkers : <<j, x>> \notin running'
  BY <1>0, <1>1 DEF PipelineInv, OnePlace
<1>8. OnePlace'
  BY <1>0, <1>1, <1>2, <1>4, <1>5, <1>6, <1>7 DEF PipelineInv, OnePlace
<1>9. NotYetAlerted'
  <2>1. <<j, w>>[1] = j
    OBVIOUS
  <2>2. j <= lastJob /\ \A k \in Keys : count[<<j, k>>] = 0
    BY <1>0, <1>1, <2>1 DEF PipelineInv, NotYetAlerted
  <2>3. \A m \in resMsgs' : m.job <= lastJob /\ \A k \in Keys : count[<<m.job, k>>] = 0
    BY <1>0, <1>4, <1>5, <2>2 DEF PipelineInv, NotYetAlerted
  <2>4. QED BY <1>0, <1>1, <1>2, <2>3 DEF PipelineInv, NotYetAlerted
<1>10. OneAlertPerMatch'
  BY <1>0, <1>2 DEF PipelineInv, OneAlertPerMatch
<1>11. QED BY <1>8, <1>9, <1>10 DEF PipelineInv

(* A result goes to one respond worker, or is dropped. *)
LEMMA PipelineHandle ==
    ASSUME IInv, NEW h \in RespondWorkers, handleCorrelationResult(h)
    PROVE  PipelineInv'
<1>0. PipelineTypes /\ PipelineInv
  BY PipelineTyping DEF IInv
<1>1. PICK m \in resMsgs :
          /\ resMsgs' = resMsgs \ {m}
          /\ \/ handling' = [handling EXCEPT ![h] = [job |-> m.job, todo |-> m.matches]]
             \/ UNCHANGED handling
  BY DEF handleCorrelationResult
<1>2. UNCHANGED <<lastJob, jobMsgs, running, count>>
  BY DEF handleCorrelationResult
<1>3. CASE UNCHANGED handling
  BY <1>1, <1>2, <1>3, PipelineShrinks
<1>4. CASE handling' = [handling EXCEPT ![h] = [job |-> m.job, todo |-> m.matches]]
  <2>1. /\ handling'[h].job = m.job /\ handling'[h].todo = m.matches
        /\ \A g \in RespondWorkers : g # h => handling'[g] = handling[g]
    BY <1>4 DEF IInv, TypeOK
  <2>2. /\ \A i \in jobMsgs : m.job # i
        /\ \A x \in SearchWorkers : <<m.job, x>> \notin running
        /\ \A n \in resMsgs : n # m => n.job # m.job
        /\ \A g \in RespondWorkers : handling[g].job # m.job
    BY <1>0 DEF PipelineInv, OnePlace
  <2>3. OnePlace'
    BY <1>0, <1>1, <1>2, <2>1, <2>2 DEF PipelineInv, OnePlace
  <2>4. /\ m.job <= lastJob /\ m.job # 0 /\ m.matches \subseteq Keys
        /\ \A k \in Keys : count[<<m.job, k>>] = 0
    BY <1>0 DEF PipelineInv, NotYetAlerted, PipelineTypes
  <2>5. \A g \in RespondWorkers :
            /\ handling'[g].job <= lastJob
            /\ handling'[g].todo # {} => handling'[g].job # 0
            /\ \A k \in handling'[g].todo : count[<<handling'[g].job, k>>] = 0
    BY <1>0, <2>1, <2>4 DEF PipelineInv, NotYetAlerted
  <2>6. NotYetAlerted'
    BY <1>0, <1>1, <1>2, <2>5 DEF PipelineInv, NotYetAlerted
  <2>7. OneAlertPerMatch'
    BY <1>0, <1>2 DEF PipelineInv, OneAlertPerMatch
  <2>8. QED BY <2>3, <2>6, <2>7 DEF PipelineInv
<1>5. QED BY <1>1, <1>3, <1>4

(* The alert for a match: no other worker has the job, and the match is    *)
(* taken off the list with it.                                             *)
LEMMA PipelinePublish ==
    ASSUME IInv, NEW h \in RespondWorkers, publishAlert(h)
    PROVE  PipelineInv'
<1>0. PipelineTypes /\ PipelineInv /\ count \in [Jobs \X Keys -> Nat]
  BY PipelineTyping DEF IInv, TypeOK
<1>1. PICK j \in Jobs, k \in Keys :
          /\ handling[h].job = j /\ k \in handling[h].todo
          /\ handling'[h].job \in {0, j}
          /\ handling'[h].todo \subseteq handling[h].todo \ {k}
          /\ handling'[h].todo # {} => handling'[h].job = j
          /\ \A g \in RespondWorkers : g # h => handling'[g] = handling[g]
          /\ \/ UNCHANGED count
             \/ count' = [count EXCEPT ![<<j, k>>] = count[<<j, k>>] + 1]
          /\ UNCHANGED <<lastJob, jobMsgs, running, resMsgs>>
  BY PublishCases
<1>2. /\ \A g \in RespondWorkers : handling'[g].job \in {0, handling[g].job}
      /\ j # 0 /\ j <= lastJob /\ 0 <= lastJob
  <2>1. j <= lastJob
    BY <1>0, <1>1 DEF PipelineInv, NotYetAlerted
  <2>2. 0 <= lastJob /\ j # 0
    BY <1>0 DEF IInv, TypeOK, PipelineTypes
  <2>3. QED BY <1>1, <2>1, <2>2
<1>3. /\ 0 \notin jobMsgs
      /\ \A m \in resMsgs : m.job # 0
      /\ \A w \in SearchWorkers : <<0, w>> \notin running
  BY <1>0 DEF PipelineTypes
<1>4. OnePlace'
  <2>1. \A i \in jobMsgs : \A g \in RespondWorkers : handling'[g].job # i
    BY <1>0, <1>2, <1>3 DEF PipelineInv, OnePlace
  <2>2. \A g \in RespondWorkers : \A w \in SearchWorkers : <<handling'[g].job, w>> \notin running
    BY <1>0, <1>2, <1>3 DEF PipelineInv, OnePlace
  <2>3. \A m \in resMsgs : \A g \in RespondWorkers : handling'[g].job # m.job
    BY <1>0, <1>2, <1>3 DEF PipelineInv, OnePlace
  <2>4. \A f, g \in RespondWorkers :
            handling'[f].job = handling'[g].job /\ handling'[f].job # 0 => f = g
    BY <1>0, <1>2 DEF PipelineInv, OnePlace
  <2>5. QED BY <1>0, <1>1, <2>1, <2>2, <2>3, <2>4 DEF PipelineInv, OnePlace
<1>5. count[<<j, k>>] = 0
  BY <1>0, <1>1 DEF PipelineInv, NotYetAlerted
<1>6. ASSUME NEW i \in Jobs, NEW l \in Keys, ~(i = j /\ l = k)
      PROVE  count'[<<i, l>>] = count[<<i, l>>]
  <2>1. <<i, l>> # <<j, k>> /\ <<i, l>> \in Jobs \X Keys
    BY <1>6
  <2>2. QED BY <1>0, <1>1, <2>1
<1>7. \A i \in Jobs : i # j => \A l \in Keys : count'[<<i, l>>] = count[<<i, l>>]
  BY <1>6
<1>8. NotYetAlerted'
  <2>1. \A i \in Jobs : i > lastJob => i # j /\ \A l \in Keys : count'[<<i, l>>] = 0
    <3>1. \A i \in Jobs : i > lastJob => i # j
      BY <1>0, <1>2 DEF PipelineTypes
    <3>2. QED BY <1>0, <1>7, <3>1 DEF PipelineInv, NotYetAlerted
  <2>2. \A i \in jobMsgs : i <= lastJob /\ \A l \in Keys : count'[<<i, l>>] = 0
    <3>1. \A i \in jobMsgs : i \in Jobs /\ i # j
      BY <1>0, <1>1 DEF PipelineTypes, PipelineInv, OnePlace
    <3>2. QED BY <1>0, <1>7, <3>1 DEF PipelineInv, NotYetAlerted
  <2>3. \A p \in running : p[1] <= lastJob /\ \A l \in Keys : count'[<<p[1], l>>] = 0
    <3>1. ASSUME NEW p \in running PROVE p[1] \in Jobs /\ p[1] # j
      <4>1. p[1] \in Jobs /\ p[2] \in SearchWorkers /\ p = <<p[1], p[2]>>
        BY <1>0 DEF PipelineTypes
      <4>2. QED BY <1>0, <1>1, <4>1 DEF PipelineInv, OnePlace
    <3>2. QED BY <1>0, <1>7, <3>1 DEF PipelineInv, NotYetAlerted
  <2>4. \A m \in resMsgs : m.job <= lastJob /\ \A l \in Keys : count'[<<m.job, l>>] = 0
    <3>1. \A m \in resMsgs : m.job \in Jobs /\ m.job # j
      BY <1>0, <1>1 DEF PipelineTypes, PipelineInv, OnePlace
    <3>2. QED BY <1>0, <1>7, <3>1 DEF PipelineInv, NotYetAlerted
  <2>5. ASSUME NEW g \in RespondWorkers
        PROVE  /\ handling'[g].job <= lastJob
               /\ handling'[g].todo # {} => handling'[g].job # 0
               /\ \A l \in handling'[g].todo : count'[<<handling'[g].job, l>>] = 0
    <3>0. /\ handling[g].job <= lastJob
          /\ handling[g].todo # {} => handling[g].job # 0
          /\ \A l \in handling[g].todo : count[<<handling[g].job, l>>] = 0
          /\ handling[g].todo \subseteq Keys /\ handling[g].job \in Jobs \cup {0}
      BY <1>0 DEF PipelineTypes, PipelineInv, NotYetAlerted
    <3>1. CASE g = h
      BY <1>1, <1>2, <1>6, <3>0, <3>1
    <3>2. CASE g # h
      <4>1. handling'[g] = handling[g]
        BY <1>1, <3>2
      <4>2. handling[g].job # j
        BY <1>0, <1>1, <1>2, <3>2 DEF PipelineInv, OnePlace
      <4>3. ASSUME NEW l \in handling[g].todo PROVE count'[<<handling[g].job, l>>] = 0
        BY <1>7, <3>0, <4>2, <4>3
      <4>4. QED BY <3>0, <4>1, <4>3
    <3>3. QED BY <3>1, <3>2
  <2>6. QED BY <1>1, <2>1, <2>2, <2>3, <2>4, <2>5 DEF NotYetAlerted
<1>9. OneAlertPerMatch'
  <2>1. ASSUME NEW p \in Jobs \X Keys PROVE count'[p] <= 1
    <3>1. CASE p = <<j, k>>
      BY <1>0, <1>1, <1>5, <3>1
    <3>2. CASE p # <<j, k>>
      BY <1>0, <1>1, <3>2 DEF PipelineInv, OneAlertPerMatch
    <3>3. QED BY <3>1, <3>2
  <2>2. QED BY <2>1 DEF OneAlertPerMatch
<1>10. QED BY <1>4, <1>8, <1>9 DEF PipelineInv

(* Every step leaves a job in one place and alerts a match at most once. *)
LEMMA PipelineStep ==
    ASSUME IInv, [Next]_vars
    PROVE  PipelineInv'
<1>1. ASSUME NEW v \in Versions, runSchemaCorrelation(v)
      PROVE  PipelineInv'
  <2>1. \/ UNCHANGED <<lastJob, jobMsgs, running, resMsgs, handling, count>>
        \/ /\ lastJob' = lastJob + 1 /\ jobMsgs' = jobMsgs \cup {lastJob + 1}
           /\ UNCHANGED <<running, resMsgs, handling, count>>
    BY <1>1 DEF runSchemaCorrelation
  <2>2. CASE UNCHANGED <<lastJob, jobMsgs, running, resMsgs, handling, count>>
    BY <2>2, PipelineShrinks
  <2>3. CASE /\ lastJob' = lastJob + 1 /\ jobMsgs' = jobMsgs \cup {lastJob + 1}
             /\ UNCHANGED <<running, resMsgs, handling, count>>
    <3>1. lastJob' \in 0 .. MaxJobs /\ lastJob \in 0 .. MaxJobs
      BY TypeStep DEF IInv, TypeOK
    <3>2. lastJob + 1 \in Jobs
      BY <2>3, <3>1, CorrelationAssumption DEF Jobs
    <3>3. QED BY <2>3, <3>2, PipelineDraw
  <2>4. QED BY <2>1, <2>2, <2>3
<1>2. ASSUME \/ SchemaNext /\ UNCHANGED corrVars
             \/ runCorrelations \/ SchedulerStops \/ Shutdown \/ Unsubscribe \/ Close
             \/ LoseMessage \/ UNCHANGED vars
      PROVE  /\ jobMsgs' \subseteq jobMsgs /\ resMsgs' \subseteq resMsgs
             /\ UNCHANGED <<lastJob, running, handling, count>>
  BY <1>2 DEF corrVars, runCorrelations, SchedulerStops, Shutdown, Unsubscribe, Close,
        LoseMessage, vars
<1>3. CASE \/ SchemaNext /\ UNCHANGED corrVars
           \/ runCorrelations \/ SchedulerStops \/ Shutdown \/ Unsubscribe \/ Close
           \/ LoseMessage \/ UNCHANGED vars
  BY <1>2, <1>3, PipelineShrinks
<1>4. QED
  BY <1>1, <1>3, PipelineTake, PipelineResult, PipelineHandle, PipelinePublish
  DEF Next, Scheduler

(* Nothing is under way when the services start. *)
LEMMA InitInv == Init => IInv
<1> SUFFICES ASSUME Init PROVE IInv
  OBVIOUS
<1>1. SchemaInv /\ SchemaTypeOK
  BY SchemaInitInv DEF Init, SchemaInv
<1>2. TypeOK
  <2>1. NoRequest \in Requests
    BY DEF NoRequest, Requests
  <2>2. NotHandling \in [job : Jobs \cup {0}, todo : SUBSET Keys]
    BY DEF NotHandling
  <2>3. /\ request \in [Jobs -> Requests]
        /\ handling \in [RespondWorkers -> [job : Jobs \cup {0}, todo : SUBSET Keys]]
    BY <2>1, <2>2 DEF Init
  <2>4. sched \in [at : {"idle", "publish", "stopped"}, todo : SUBSET Versions]
    BY DEF Init
  <2>5. lastJob \in 0 .. MaxJobs /\ count \in [Jobs \X Keys -> Nat]
    BY CorrelationAssumption DEF Init
  <2>6. QED BY <1>1, <2>3, <2>4, <2>5 DEF Init, TypeOK
<1>3. RequestInv
  <2>1. \A j \in Jobs : ~(j <= 0)
    BY CorrelationAssumption DEF Jobs
  <2>2. QED BY <2>1 DEF Init, RequestInv
<1>4. AlertProvenance /\ AlertedIsDrawn /\ StoppedFirst
  BY DEF Init, AlertProvenance, AlertedIsDrawn, StoppedFirst
<1>5. \A h \in RespondWorkers : handling[h].job = 0 /\ handling[h].todo = {}
  BY DEF Init, NotHandling
<1>6. OnePlace
  BY <1>5 DEF Init, OnePlace
<1>7. NotYetAlerted
  <2>1. \A j \in Jobs, k \in Keys : count[<<j, k>>] = 0
    BY DEF Init
  <2>2. QED BY <1>5, <2>1 DEF Init, NotYetAlerted
<1>8. OneAlertPerMatch
  BY DEF Init, OneAlertPerMatch
<1>9. QED BY <1>1, <1>2, <1>3, <1>4, <1>6, <1>7, <1>8 DEF IInv, PipelineInv

(* The scheduler, the workers, the API and the shutdown, interleaved in    *)
(* any way, keep every variable in its type and a job in one place.        *)
THEOREM CorrelationInvariance == Spec => []IInv
<1>1. IInv /\ [Next]_vars => IInv'
  BY TypeStep, RowsStay, RequestStep, ProvenanceStep, PipelineStep, StoppedStep DEF IInv
<1>2. QED BY <1>1, InitInv, PTL DEF Spec

(* An alert names the version its job was made for and the schema that     *)
(* version belongs to, whatever the API did between the scheduler's list   *)
(* and the alert.                                                          *)
THEOREM AlertProvenanceHolds == Spec => []AlertProvenance
<1>1. IInv => AlertProvenance
  BY DEF IInv
<1>2. QED BY <1>1, CorrelationInvariance, PTL

(* No match of a job is alerted twice, for any number of search and        *)
(* respond workers, with losses and failed publishes.                      *)
THEOREM OneAlertPerMatchHolds == Spec => []OneAlertPerMatch
<1>1. IInv => OneAlertPerMatch
  BY DEF IInv, PipelineInv
<1>2. QED BY <1>1, CorrelationInvariance, PTL

(* After Scheduler.Stop has returned no job is published. *)
THEOREM QuietAfterStopHolds == Spec => QuietAfterStop
<1>1. IInv /\ [Next]_vars => [(main \in {"unsubscribed", "closed"}) => lastJob' = lastJob]_vars
  <2> SUFFICES ASSUME IInv, [Next]_vars, main \in {"unsubscribed", "closed"}
               PROVE  lastJob' = lastJob
    OBVIOUS
  <2>1. sched.at = "stopped"
    BY DEF IInv, StoppedFirst
  <2>2. CASE Scheduler
    BY <2>1, <2>2 DEF Scheduler, runCorrelations, runSchemaCorrelation
  <2>3. ASSUME NEW w \in SearchWorkers, takeJob(w) \/ handleCorrelationJob(w)
        PROVE  lastJob' = lastJob
    BY <2>3 DEF takeJob, handleCorrelationJob
  <2>4. ASSUME NEW h \in RespondWorkers, handleCorrelationResult(h) \/ publishAlert(h)
        PROVE  lastJob' = lastJob
    BY <2>4 DEF handleCorrelationResult, publishAlert
  <2>5. CASE \/ SchemaNext /\ UNCHANGED corrVars
             \/ SchedulerStops \/ Shutdown \/ Unsubscribe \/ Close
             \/ LoseMessage \/ UNCHANGED vars
    BY <2>5 DEF corrVars, SchedulerStops, Shutdown, Unsubscribe, Close, LoseMessage, vars
  <2>6. QED BY <2>2, <2>3, <2>4, <2>5 DEF Next
<1>2. QED BY <1>1, CorrelationInvariance, PTL DEF Spec, QuietAfterStop
=============================================================================
