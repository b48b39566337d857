----------------------------- MODULE FilterChips -----------------------------
(***************************************************************************)
(* The search console of the web frontend: the filter bar, where a user    *)
(* collects chips (components/FilterBar.tsx), and the query builder that   *)
(* turns them into the query of QueryLanguage (utils/queryBuilder.ts, with *)
(* the tables of types/eventClasses.ts).                                   *)
(*                                                                         *)
(* A text is a sequence of letters, Star and Slash among them.  An address *)
(* ending in Slash is a network.                                           *)
(***************************************************************************)
EXTENDS QueryLanguage, TLC

CONSTANT MaxChips   \* chips in the bar

VARIABLE console    \* the chips, in order, and the time range selected

Star == 0
Slash == 9

-----------------------------------------------------------------------------
(***************************************************************************)
(* types/eventClasses.ts.                                                  *)
(***************************************************************************)
Field(path, type) == [path |-> path, type |-> type]

FIELD_FILTERS ==
  [username |-> Field("actor.user.name", "text"),
   source_ip |-> Field("src_endpoint.ip", "ip"),
   status |-> Field("status", "enum"),
   auth_protocol |-> Field("auth_protocol", "enum"),
   destination_host |-> Field("dst_endpoint.hostname", "text"),
   session_id |-> Field("session.uid", "text"),
   mfa_status |-> Field("auth_factor", "text"),
   dest_ip |-> Field("dst_endpoint.ip", "ip"),
   protocol |-> Field("connection_info.protocol_name", "enum"),
   port |-> Field("dst_endpoint.port", "number"),
   direction |-> Field("traffic.direction", "enum"),
   boundary |-> Field("traffic.boundary", "enum"),
   bytes_transferred |-> Field("traffic.bytes", "number"),
   process_name |-> Field("process.name", "text"),
   user |-> Field("actor.user.name", "text"),
   parent_process |-> Field("parent_process.name", "text"),
   command_line |-> Field("process.cmd_line", "text"),
   pid |-> Field("process.pid", "number"),
   executable_hash |-> Field("process.file.hashes", "text"),
   file_path |-> Field("file.path", "text"),
   operation |-> Field("activity_name", "text"),
   file_size |-> Field("file.size", "number"),
   file_hash |-> Field("file.hashes", "text"),
   modified_time |-> Field("file.modified_time", "text"),
   query_hostname |-> Field("query.hostname", "text"),
   record_type |-> Field("query.type", "enum"),
   response_code |-> Field("rcode", "enum"),
   dns_server |-> Field("dst_endpoint.ip", "ip"),
   answer_count |-> Field("answers", "number"),
   ttl |-> Field("ttl", "number"),
   method |-> Field("http_request.http_method", "enum"),
   url_path |-> Field("http_request.url.path", "text"),
   status_code |-> Field("http_response.code", "enum"),
   client_ip |-> Field("src_endpoint.ip", "ip"),
   user_agent |-> Field("http_request.user_agent", "text"),
   content_type |-> Field("http_response.content_type", "text"),
   response_size |-> Field("http_response.length", "number"),
   tactic |-> Field("attack_tactic", "text"),
   technique |-> Field("attack_technique", "text"),
   severity |-> Field("severity", "enum"),
   risk_score |-> Field("risk_score", "number"),
   analytic_name |-> Field("analytic.name", "text"),
   confidence |-> Field("confidence", "enum"),
   affected_resources |-> Field("resources[0].name", "text")]

\* The filters of a class, the secondary ones too.
EVENT_CLASSES ==
  (3002 :> {"username", "source_ip", "status", "auth_protocol",
            "destination_host", "session_id", "mfa_status"}) @@
  (4001 :> {"source_ip", "dest_ip", "protocol", "port", "direction", "boundary",
            "bytes_transferred"}) @@
  (1007 :> {"process_name", "user", "parent_process", "command_line", "pid",
            "executable_hash"}) @@
  (4006 :> {"file_path", "operation", "user", "file_size", "file_hash",
            "modified_time"}) @@
  (4003 :> {"query_hostname", "record_type", "response_code", "dns_server",
            "answer_count", "ttl"}) @@
  (4002 :> {"method", "url_path", "status_code", "client_ip", "user_agent",
            "content_type", "response_size"}) @@
  (2004 :> {"tactic", "technique", "severity", "risk_score", "analytic_name",
            "confidence", "affected_resources"})

EVENT_CLASS_DEFAULT_FIELDS ==
  (3002 :> <<"time", "severity", "actor.user.name", "src_endpoint.ip", "status",
             "auth_protocol.name">>) @@
  (4001 :> <<"time", "severity", "src_endpoint.ip", "src_endpoint.port",
             "dst_endpoint.ip", "dst_endpoint.port",
             "connection_info.protocol_name">>) @@
  (1007 :> <<"time", "severity", "process.name", "process.pid",
             "process.cmd_line", "actor.user.name">>) @@
  (4006 :> <<"time", "severity", "file.path", "activity_name",
             "actor.user.name", "file.size">>) @@
  (4003 :> <<"time", "severity", "query.hostname", "query.type", "rcode",
             "answers">>) @@
  (4002 :> <<"time", "severity", "http_request.http_method",
             "http_request.url.path", "http_response.code",
             "src_endpoint.ip">>) @@
  (2004 :> <<"time", "severity", "finding.title", "attack_tactic",
             "attack_technique", "risk_score">>)

-----------------------------------------------------------------------------
(***************************************************************************)
(* utils/queryBuilder.ts.                                                  *)
(***************************************************************************)
ClassChip(uid) == [type |-> "event-class", field |-> "", value |-> <<uid>>]
FieldChip(id, value) == [type |-> "field", field |-> id, value |-> value]

ClassChips(chips) == SelectSeq(chips, LAMBDA c : c.type = "event-class")
FieldChips(chips) == SelectSeq(chips, LAMBDA c : c.type = "field")

StarFirst(v) == v[1] = Star
StarLast(v) == v[Len(v)] = Star

determineOperator(id, v) ==
  LET type == FIELD_FILTERS[id].type
  IN  CASE type = "ip" /\ Slash \in Range(v) -> "cidr"
        [] type = "text" /\ StarFirst(v) /\ StarLast(v) -> "contains"
        [] type = "text" /\ StarFirst(v) /\ ~StarLast(v) -> "endsWith"
        [] type = "text" /\ ~StarFirst(v) /\ StarLast(v) -> "startsWith"
        [] OTHER -> "eq"

\* The wildcard of either end is removed from a text.
normalizeValue(id, v) ==
  IF FIELD_FILTERS[id].type # "text" THEN v
  ELSE LET rest == IF StarFirst(v) THEN Tail(v) ELSE v
       IN  IF rest # << >> /\ StarLast(rest) THEN Front(rest) ELSE rest

\* The addresses a network holds (QueryLanguage: the value of "cidr").
Network(v) == {Front(v), Front(v) \o <<1>>, Front(v) \o <<2>>}

FieldCondition(id, v) ==
  LET op == determineOperator(id, v)
      value == normalizeValue(id, v)
  IN  Condition(Path(FIELD_FILTERS[id].path), op,
                IF FIELD_FILTERS[id].type = "number" THEN "number" ELSE "text",
                IF op = "cidr" THEN Network(value) ELSE {value})

\* The values of one field.
GroupConditions(id, values) == [i \in DOMAIN values |-> FieldCondition(id, values[i])]


FieldGroup(id, values) ==
  LET conditions == GroupConditions(id, values)
  IN  IF Len(values) = 1 THEN conditions[1]
      ELSE IF \A i \in DOMAIN conditions : conditions[i].op = "eq"
      THEN Condition(conditions[1].path, "in", "array",
                     UNION {conditions[i].value : i \in DOMAIN conditions})
      ELSE Or(conditions)

\* Classes first, then the fields in the order of their first chip.
buildFilterExpression(chips) ==
  LET classes == ClassChips(chips)
      fields == FieldChips(chips)
      ids == SelectSeq([i \in DOMAIN fields |-> [at |-> i, id |-> fields[i].field]],
                       LAMBDA f : \A j \in 1 .. f.at - 1 : fields[j].field # f.id)
      ValuesOf(id) == LET own == SelectSeq(fields, LAMBDA c : c.field = id)
                    IN  [i \in DOMAIN own |-> own[i].value]
      conditions ==
        [i \in DOMAIN classes |->
           Condition(Path("class_uid"), "eq", "number", {classes[i].value})]
        \o [i \in DOMAIN ids |-> FieldGroup(ids[i].id, ValuesOf(ids[i].id))]
  IN  IF conditions = << >> THEN Nil
      ELSE IF Len(conditions) = 1 THEN conditions[1] ELSE And(conditions)

\* A relative range is the last two instants of QueryLanguage.
buildTimeRange(selected) ==
  CASE selected = "all" -> Nil
    [] selected = "24h" -> [NoRange EXCEPT !.last = 2]
    [] selected = "custom" -> [NoRange EXCEPT !.start = 1, !.end = 2]

buildSelectFields(chips) ==
  LET classes == ClassChips(chips)
      names == IF classes = << >> THEN << >>
               ELSE EVENT_CLASS_DEFAULT_FIELDS[classes[1].value[1]]
  IN  [i \in DOMAIN names |-> Path(names[i])]

buildQuery(chips, selected) ==
  [filter |-> buildFilterExpression(chips), range |-> buildTimeRange(selected),
   select |-> buildSelectFields(chips), aggs |-> << >>,
   sort |-> <<[path |-> Path("time"), order |-> "desc"]>>,
   limit |-> 50, offset |-> 0, cursor |-> FALSE]

-----------------------------------------------------------------------------
(***************************************************************************)
(* components/FilterBar.tsx.                                               *)
(***************************************************************************)
\* What a user may enter for a field (FieldFilterDropdown.tsx).
Inputs(type) ==
  CASE type = "text" -> {<<1>>, <<1, Star>>, <<Star, 2>>, <<Star, 1, Star>>, <<Star>>}
    [] type = "ip" -> {<<1>>, <<2>>, <<1, Slash>>}
    [] type \in {"enum", "number"} -> {<<1>>, <<2>>}

\* Choosing a class starts afresh.
handleEventClassSelect ==
  \E uid \in DOMAIN EVENT_CLASSES :
    console' = [console EXCEPT !.chips = <<ClassChip(uid)>>]

\* Fields are offered for the class of the first class chip.
handleFieldFilterSelect ==
  /\ ClassChips(console.chips) # << >>
  /\ Len(console.chips) < MaxChips
  /\ \E id \in EVENT_CLASSES[ClassChips(console.chips)[1].value[1]] :
       \E v \in Inputs(FIELD_FILTERS[id].type) :
         console' = [console EXCEPT !.chips = Append(@, FieldChip(id, v))]

handleRemoveFilter ==
  \E i \in DOMAIN console.chips :
    console' = [console EXCEPT !.chips = RemoveAt(@, i)]

\* SearchConsole.tsx
setTimeRange ==
  \E selected \in {"all", "24h", "custom"} :
    console' = [console EXCEPT !.selected = selected]

ConsoleInit == console = [at |-> "console", chips |-> << >>, selected |-> "24h"]

ConsoleNext ==
  /\ console.at = "console"
  /\ handleEventClassSelect \/ handleFieldFilterSelect \/ handleRemoveFilter
     \/ setTimeRange

-----------------------------------------------------------------------------
(***************************************************************************)
(* What is checked.                                                        *)
(***************************************************************************)
\* What a chip says of an event, in the words of its label: a star stands for
\* anything at its end of the text.
ChipSays(c, e) ==
  IF c.type = "event-class" THEN e["class_uid"] = c.value
  ELSE LET x == e[FIELD_FILTERS[c.field].path]
           core == SelectSeq(c.value, LAMBDA letter : letter \notin {Star, Slash})
       IN  x # << >> /\
           IF Slash \in Range(c.value) THEN IsPrefix(core, x)
           ELSE \E i \in 0 .. Len(x) - Len(core) :
                  /\ SubSeq(x, i + 1, i + Len(core)) = core
                  /\ i = 0 \/ StarFirst(c.value)
                  /\ i + Len(core) = Len(x) \/ StarLast(c.value)

\* Events that have, or lack, what the chips ask about.
ConsoleEvents(chips) ==
  LET paths == {FIELD_FILTERS[c.field].path : c \in Range(FieldChips(chips))}
  IN  {known @@ ("class_uid" :> uid) @@ ("time" :> time) :
         known \in [paths -> {<< >>, <<1>>, <<2>>, <<1, 2>>}],
         uid \in {c.value : c \in Range(ClassChips(chips))} \cup {<<6003>>},
         time \in {Now - 3, Now}}

ConsoleQuery == buildQuery(console.chips, console.selected)

=============================================================================
