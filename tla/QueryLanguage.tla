---------------------------- MODULE QueryLanguage ----------------------------
(***************************************************************************)
(* The canonical query language of the search service: ExecuteQuery        *)
(* validates a query (search/internal/validator/query.go), translates it   *)
(* to the OpenSearch query DSL (search/internal/translator/opensearch.go)  *)
(* and runs it.  What a DSL query means is OpenSearch's (Matches below).   *)
(*                                                                         *)
(* A path is a name with or without the leading dot, well formed or not.   *)
(* Every value is a set of sequences of numbers: a number or a text is a   *)
(* set of one, an array a set, and kind tells which it is.  The words of a *)
(* text are separated by Space.  An event gives each field such a          *)
(* sequence, << >> when it lacks the field.                                *)
(***************************************************************************)
EXTENDS OcsfFields, Integers, Sequences, SequencesExt, FiniteSets

VARIABLE query   \* the query and what became of it

Path(name) == [dot |-> TRUE, wellFormed |-> TRUE, name |-> name]
NoPath == [dot |-> FALSE, wellFormed |-> TRUE, name |-> ""]

\* Limits of NewQueryValidator.
maxAggregations == 10
maxResultSize == 10000
maxFilterDepth == 10
maxSelectFields == 100
maxSortFields == 10

-----------------------------------------------------------------------------
(***************************************************************************)
(* Filters.  Nil is an absent filter or condition.                         *)
(***************************************************************************)
Nil == [type |-> "nil"]
Condition(path, op, kind, value) ==
  [type |-> "", path |-> path, op |-> op, kind |-> kind, value |-> value]
Compound(type, conditions, condition) ==
  [type |-> type, conditions |-> conditions, condition |-> condition]
And(conditions) == Compound("and", conditions, Nil)
Or(conditions) == Compound("or", conditions, Nil)
Not(condition) == Compound("not", << >>, condition)

IsSimpleCondition(f) == f.type = "" /\ f.path.name # ""
IsCompoundCondition(f) == f.type # ""

Operators == {"eq", "ne", "gt", "gte", "lt", "lte", "in", "contains",
              "startsWith", "endsWith", "regex", "exists", "cidr"}

\* A plausible mistake: the validator knows an operator the translator lacks.
isKnownOperator(op) == op \in Operators \cup {"nin"}
isValidOperator(op) == op \in Operators

validateFieldPath(path) == path.name # "" /\ path.dot /\ path.wellFormed

\* A regular expression that does not compile, or a network without "/", is
\* of kind "badText".
validateSimpleCondition(f) ==
  /\ validateFieldPath(f.path)
  /\ isValidOperator(f.op)
  /\ f.kind = "nil" => f.op = "exists"
  /\ f.op = "in" => f.kind = "array"
  /\ f.op = "exists" => f.kind = "bool"
  /\ f.op \in {"regex", "cidr"} => f.kind = "text"

RECURSIVE validateFilterWithDepth(_, _)

validateCompoundConditionWithDepth(f, depth) ==
  /\ f.type \in {"and", "or", "not"}
  /\ f.type # "not" =>
       /\ f.conditions # << >>
       /\ \A i \in DOMAIN f.conditions :
            validateFilterWithDepth(f.conditions[i], depth + 1)
  /\ f.type = "not" => /\ f.condition # Nil
                       /\ validateFilterWithDepth(f.condition, depth + 1)

validateFilterWithDepth(f, depth) ==
  /\ depth <= maxFilterDepth
  /\ IF IsSimpleCondition(f) THEN validateSimpleCondition(f)
     ELSE IsCompoundCondition(f) /\ validateCompoundConditionWithDepth(f, depth)

RECURSIVE collectFilterFields(_)
collectFilterFields(f) ==
  IF f = Nil THEN {}
  ELSE IF f.type = "" THEN {f.path.name} \ {""}
  ELSE collectFilterFields(f.condition) \cup
       UNION {collectFilterFields(f.conditions[i]) : i \in DOMAIN f.conditions}

-----------------------------------------------------------------------------
(***************************************************************************)
(* Aggregations, time range, sort and page.                                *)
(***************************************************************************)
Agg(type, path, aggs) ==
  [type |-> type, name |-> "a", path |-> path, size |-> 10, interval |-> "1h",
   order |-> "_count", top |-> 0, sort |-> << >>, aggs |-> aggs]

AggTypes == {"terms", "date_histogram", "avg", "sum", "min", "max", "stats",
             "cardinality", "top_hits"}

SortIsValid(s) == validateFieldPath(s.path) /\ s.order \in {"", "asc", "desc"}

RECURSIVE validateAggregations(_)
validateAggregations(aggs) ==
  /\ Len(aggs) <= maxAggregations
  /\ \A i \in DOMAIN aggs :
       LET agg == aggs[i]
       IN  /\ agg.type \in AggTypes
           /\ agg.name # ""
           /\ agg.path.name # "" => validateFieldPath(agg.path)
           /\ agg.type = "terms" => /\ agg.path.name # ""
                                    /\ agg.size > 0
                                    /\ agg.order \in {"", "_count", "_key"}
           /\ agg.type = "date_histogram" =>
                agg.path.name # "" /\ agg.interval # ""
           /\ agg.type = "top_hits" =>
                /\ agg.top \in 0 .. 100
                /\ \A j \in DOMAIN agg.sort : SortIsValid(agg.sort[j])
           /\ validateAggregations(agg.aggs)

\* A plausible mistake: the fields of nested aggregations are not collected.
TopAggregationFields(agg) ==
  ({agg.path.name} \cup {agg.sort[i].path.name : i \in DOMAIN agg.sort}) \ {""}

RECURSIVE collectAggregationFields(_)
collectAggregationFields(agg) ==
  (({agg.path.name} \cup {agg.sort[i].path.name : i \in DOMAIN agg.sort})
     \cup UNION {collectAggregationFields(agg.aggs[i]) : i \in DOMAIN agg.aggs})
  \ {""}

\* Times are seconds; 0 is an absent bound, last = 0 an absent relative range.
NoRange == [start |-> 0, end |-> 0, last |-> 0]
validateTimeRange(tr) ==
  /\ (tr.start # 0 \/ tr.end # 0) # (tr.last # 0)
  /\ tr.start # 0 /\ tr.end # 0 => tr.start <= tr.end

validatePagination(q) ==
  /\ q.limit >= 0
  /\ q.limit > maxResultSize => q.cursor
  /\ q.offset >= 0
  /\ ~(q.offset > 0 /\ q.cursor)

collectFields(q) ==
  ({q.select[i].name : i \in DOMAIN q.select}
     \cup collectFilterFields(q.filter)
     \cup UNION {collectAggregationFields(q.aggs[i]) : i \in DOMAIN q.aggs}
     \cup {q.sort[i].path.name : i \in DOMAIN q.sort}) \ {""}

Validate(q) ==
  /\ \A name \in collectFields(q) : IsValidField(name)
  /\ Len(q.select) <= maxSelectFields
  /\ \A i \in DOMAIN q.select : validateFieldPath(q.select[i])
  /\ q.filter # Nil => validateFilterWithDepth(q.filter, 0)
  /\ q.range # Nil => validateTimeRange(q.range)
  /\ validateAggregations(q.aggs)
  /\ Len(q.sort) <= maxSortFields
  /\ \A i \in DOMAIN q.sort : SortIsValid(q.sort[i])
  /\ validatePagination(q)

-----------------------------------------------------------------------------
(***************************************************************************)
(* The translator.                                                         *)
(***************************************************************************)
translateFieldPath(path) == path.name

\* A query that cannot be translated.
Untranslatable == [q |-> "error"]
Leaf(q, field, value) == [q |-> q, field |-> field, value |-> value]
\* minimum is minimum_should_match: OpenSearch requires one alternative when
\* it is left out, and none beside a must.
Bool(must, should, mustNot) ==
  [q |-> "bool", must |-> must, should |-> should, must_not |-> mustNot,
   minimum |-> IF must = << >> /\ should # << >> THEN 1 ELSE 0]

shouldUseTermQuery(field, kind) ==
  kind \in {"number", "bool"} \/ field \in ExactNames

Equals(f) ==
  LET field == translateFieldPath(f.path)
  IN  Leaf(IF shouldUseTermQuery(field, f.kind) THEN "term" ELSE "match",
           field, f.value)

translateSimpleCondition(f) ==
  LET field == translateFieldPath(f.path)
  IN  CASE f.op = "eq" -> Equals(f)
        [] f.op = "ne" -> Bool(<< >>, << >>, <<Equals(f)>>)
        [] f.op \in {"gt", "gte", "lt", "lte"} -> Leaf(f.op, field, f.value)
        [] f.op = "in" -> Leaf("terms", field, f.value)
        [] f.op = "contains" -> Leaf("*v*", field, f.value)
        [] f.op = "startsWith" -> Leaf("v*", field, f.value)
        [] f.op = "endsWith" -> Leaf("*v", field, f.value)
        [] f.op = "regex" -> Leaf("regexp", field, f.value)
        [] f.op = "exists" /\ f.value = {<<1>>} -> Leaf("exists", field, {})
        [] f.op = "exists" /\ f.value # {<<1>>} ->
             Bool(<< >>, << >>, <<Leaf("exists", field, {})>>)
        [] f.op = "cidr" -> Leaf("term", field, f.value)
        [] OTHER -> Untranslatable

RECURSIVE translateFilter(_)

translateCompoundCondition(f) ==
  LET translated == [i \in DOMAIN f.conditions |-> translateFilter(f.conditions[i])]
  IN  CASE f.type = "and" -> Bool(translated, << >>, << >>)
        [] f.type = "or" -> [Bool(<< >>, translated, << >>) EXCEPT !.minimum = 1]
        [] f.type = "not" /\ f.condition # Nil ->
             Bool(<< >>, << >>, <<translateFilter(f.condition)>>)
        [] OTHER -> Untranslatable

translateFilter(f) ==
  IF IsSimpleCondition(f) THEN translateSimpleCondition(f)
  ELSE IF IsCompoundCondition(f) THEN translateCompoundCondition(f)
  ELSE Untranslatable

Now == 3

\* The bounds of the range query on "time"; a missing end is now.
buildTimeRangeFilter(tr) ==
  IF tr.last # 0
  THEN [q |-> "time", gte |-> Now - tr.last, lte |-> Now, relative |-> TRUE]
  ELSE [q |-> "time", gte |-> tr.start,
        lte |-> IF tr.end # 0 THEN tr.end ELSE Now, relative |-> FALSE]

\* A plausible mistake: the alternatives of the filter become clauses of the
\* outer query, where the time range makes them optional.
OptionalAlternatives(filter, range) ==
  LET own == IF filter # Nil THEN <<translateFilter(filter)>> ELSE << >>
      time == IF range # Nil THEN <<buildTimeRangeFilter(range)>> ELSE << >>
  IN  IF filter.type = "or" THEN Bool(time, own[1].should, << >>)
      ELSE Bool(own \o time, << >>, << >>)

buildBoolQuery(filter, range) ==
  Bool((IF filter # Nil THEN <<translateFilter(filter)>> ELSE << >>)
         \o (IF range # Nil THEN <<buildTimeRangeFilter(range)>> ELSE << >>),
       << >>, << >>)

ensureKeywordField(field) == field \notin UnanalyzedNames

\* The fields an aggregation reads in the index, nested ones included, and
\* whether it reads the keyword subfield.
Reads(type, field, keyword) == [type |-> type, field |-> field, keyword |-> keyword]
RECURSIVE translateAggregation(_)
translateAggregation(agg) ==
  LET field == translateFieldPath(agg.path)
      own == CASE agg.type \in {"terms", "cardinality"} ->
                    {Reads(agg.type, field, ensureKeywordField(field))}
               [] agg.type = "top_hits" ->
                    IF agg.sort = << >> THEN {Reads("sort", "time", FALSE)}
                    ELSE {Reads("sort", translateFieldPath(agg.sort[i].path), FALSE) :
                            i \in DOMAIN agg.sort}
               [] OTHER -> {Reads(agg.type, field, FALSE)}
  IN  own \cup UNION {translateAggregation(agg.aggs[i]) : i \in DOMAIN agg.aggs}

buildAggregations(aggs) == UNION {translateAggregation(aggs[i]) : i \in DOMAIN aggs}

\* match_all is a bool query without clauses.  The cursor is not used.
Translate(q) ==
  [query |-> buildBoolQuery(q.filter, q.range),
   source |-> {translateFieldPath(q.select[i]) : i \in DOMAIN q.select},
   sort |-> IF q.sort = << >> THEN <<[field |-> "time", order |-> "desc"]>>
            ELSE [i \in DOMAIN q.sort |->
                    [field |-> translateFieldPath(q.sort[i].path),
                     order |-> IF q.sort[i].order = "" THEN "desc"
                               ELSE q.sort[i].order]],
   size |-> IF q.limit > 0 THEN q.limit ELSE 100,
   from |-> q.offset, aggs |-> buildAggregations(q.aggs)]

\* Some clause cannot be translated: Translate returns an error.
RECURSIVE Translated(_)
Translated(d) ==
  /\ d # Untranslatable
  /\ d.q = "bool" => \A clauses \in {d.must, d.should, d.must_not} :
                       \A i \in DOMAIN clauses : Translated(clauses[i])

-----------------------------------------------------------------------------
(***************************************************************************)
(* OpenSearch.  A text field is analysed: the index has its words, and a   *)
(* match query is analysed in the same way.  Every other field is one      *)
(* term, its value.  A regular expression and a network are sets of the    *)
(* values they match.                                                      *)
(***************************************************************************)
Space == 8
Patterns == {"*v*", "v*", "*v", "regexp"}

\* A value may not be null, and patterns are only for strings; sorting and
\* computing are not for texts, nor computing for keywords.
LeafAnswered(d) ==
  /\ d.q # "exists" => d.value # {}
  /\ d.q \in Patterns => FieldType(d.field) \in {"text", "keyword"}
AggAnswered(a) ==
  /\ a.field # ""
  /\ ~a.keyword => FieldType(a.field) # "text"
  /\ a.type \in {"date_histogram", "avg", "sum", "min", "max", "stats"} =>
       FieldType(a.field) \in NumberTypes \cup {"date"}

RECURSIVE QueryAnswered(_)
QueryAnswered(d) ==
  CASE d.q = "bool" -> \A clause \in Range(d.must \o d.should \o d.must_not) :
                         QueryAnswered(clause)
    [] d.q = "time" -> TRUE
    [] OTHER -> LeafAnswered(d)

Answered(dsl) ==
  /\ QueryAnswered(dsl.query)
  /\ \A a \in dsl.aggs : AggAnswered(a)
  /\ \A s \in Range(dsl.sort) : FieldType(s.field) # "text"

Words(x) ==
  {SubSeq(x, i, j) : <<i, j>> \in
     {<<i, j>> \in (1 .. Len(x)) \X (1 .. Len(x)) :
        /\ i <= j /\ \A k \in i .. j : x[k] # Space
        /\ i = 1 \/ x[i - 1] = Space
        /\ j = Len(x) \/ x[j + 1] = Space}}

\* The terms the index has for the value of a field.
Terms(field, x) ==
  CASE x = << >> \/ FieldType(field) \in {"disabled", "object", "nested"} -> {}
    [] FieldType(field) = "text" -> Words(x)
    [] OTHER -> {x}

Only(value) == CHOOSE v \in value : TRUE
Infix(v, x) == \E i \in 0 .. Len(x) - Len(v) : SubSeq(x, i + 1, i + Len(v)) = v

\* A leaf query selects the term x.
TermMatches(d, x) ==
  CASE d.q = "gt" -> x[1] > Only(d.value)[1]
    [] d.q = "gte" -> x[1] >= Only(d.value)[1]
    [] d.q = "lt" -> x[1] < Only(d.value)[1]
    [] d.q = "lte" -> x[1] <= Only(d.value)[1]
    [] d.q = "*v*" -> Infix(Only(d.value), x)
    [] d.q = "v*" -> IsPrefix(Only(d.value), x)
    [] d.q = "*v" -> IsSuffix(Only(d.value), x)
    [] d.q = "exists" -> TRUE
    [] d.q = "match" -> x \in Terms(d.field, Only(d.value))
    [] d.q \in {"term", "terms", "regexp"} -> x \in d.value

RECURSIVE Matches(_, _)
Matches(d, e) ==
  CASE d.q = "bool" ->
         /\ \A i \in DOMAIN d.must : Matches(d.must[i], e)
         /\ Cardinality({i \in DOMAIN d.should : Matches(d.should[i], e)}) >= d.minimum
         /\ \A i \in DOMAIN d.must_not : ~Matches(d.must_not[i], e)
    [] d.q = "time" -> d.gte <= e.time /\ e.time <= d.lte
    [] OTHER ->
         d.field \in DOMAIN e
         /\ \E x \in Terms(d.field, e[d.field]) : TermMatches(d, x)

-----------------------------------------------------------------------------
(***************************************************************************)
(* The two ways to run a query: POST /events/query, and a saved search,    *)
(* whose query is not validated.  Both first confine it to the client of   *)
(* the caller, {} when the caller belongs to none.                         *)
(***************************************************************************)
ClientFilter(client) == Condition(Path("client_id"), "eq", "text", client)

\* A plausible mistake: the client's filter is one more alternative.
AlternativeClient(q, client) ==
  IF client = {} THEN q
  ELSE [q EXCEPT !.filter = IF q.filter = Nil THEN ClientFilter(client)
                            ELSE Or(<<q.filter, ClientFilter(client)>>)]

InjectClient(q, client) ==
  IF client = {} THEN q
  ELSE [q EXCEPT !.filter = IF q.filter = Nil THEN ClientFilter(client)
                            ELSE And(<<q.filter, ClientFilter(client)>>)]

\* Translate, and the request to OpenSearch, which may refuse it.
Send(q) ==
  LET dsl == Translate(q)
  IN  IF ~Translated(dsl.query) THEN [at |-> "failed", via |-> query.via]
      ELSE [at |-> IF Answered(dsl) THEN "sent" ELSE "unanswered",
            via |-> query.via, client |-> query.client, q |-> q, dsl |-> dsl]

ExecuteQuery ==
  /\ query.at = "asked" /\ query.via = "events"
  /\ LET q == InjectClient(query.q, query.client)
     IN  query' = IF Validate(q) THEN Send(q)
                  ELSE [at |-> "refused", via |-> "events", q |-> query.q]

RunSavedSearch ==
  /\ query.at = "asked" /\ query.via = "saved"
  /\ query' = Send(InjectClient(query.q, query.client))

-----------------------------------------------------------------------------
(***************************************************************************)
(* The queries asked.                                                      *)
(***************************************************************************)
Severity == Path("severity_id")
Message == Path("message")        \* a text
Program == Path("process.name")   \* a keyword
Address == Path("src_endpoint.ip")

NumberConditions ==
  {Condition(Severity, op, "number", {<<n>>}) :
     op \in {"eq", "ne", "gt", "gte", "lt", "lte", "nin"}, n \in {1, 2}}
TextConditions ==
  {Condition(path, op, "text", {t}) :
     path \in {Program, Message},
     op \in {"eq", "ne", "contains", "startsWith", "endsWith", "regex"},
     t \in {<<1>>, <<1, 2>>, <<2, Space, 1>>}}
OtherConditions ==
  {Condition(Severity, "in", "array", {<<1>>, <<3>>}),
   Condition(Severity, "in", "number", {<<1>>}),
   Condition(Message, "exists", "bool", {<<1>>}),
   Condition(Message, "exists", "bool", {<<0>>}),
   Condition(Message, "exists", "nil", {}),
   Condition(Message, "eq", "nil", {}),
   Condition(Message, "regex", "badText", {<<1>>}),
   Condition(Severity, "contains", "text", {<<1>>}),
   Condition(Program, "in", "array", {<<1>>, <<2, Space, 1>>}),
   Condition(Address, "cidr", "text", {<<1>>, <<2>>}),
   Condition(Address, "cidr", "badText", {<<1>>}),
   Condition(Path("no_such_field"), "eq", "number", {<<1>>}),
   Condition([Severity EXCEPT !.dot = FALSE], "eq", "number", {<<1>>}),
   Condition([Severity EXCEPT !.wellFormed = FALSE], "eq", "number", {<<1>>}),
   Condition(NoPath, "eq", "number", {<<1>>})}
Conditions == NumberConditions \cup TextConditions \cup OtherConditions

Basic == {Condition(Severity, "gt", "number", {<<1>>}),
          Condition(Severity, "ne", "number", {<<2>>}),
          Condition(Program, "contains", "text", {<<2>>}),
          Condition(Path("no_such_field"), "eq", "number", {<<1>>})}
Level1 == {Not(c) : c \in Basic}
          \cup {Compound(t, <<c, d>>, Nil) : t \in {"and", "or"}, c, d \in Basic}
Level2 == {Not(f) : f \in Level1}
          \cup {Compound(t, <<f, c>>, Nil) : t \in {"and", "or"},
                                            f \in Level1, c \in Basic}
Malformed == {And(<< >>), Or(<< >>), Not(Nil), Compound("xor", << >>, Nil)}

\* n negations or conjunctions around a condition.
RECURSIVE Nested(_, _)
Nested(type, n) ==
  IF n = 0 THEN Condition(Severity, "eq", "number", {<<1>>})
  ELSE IF type = "not" THEN Not(Nested(type, n - 1))
  ELSE And(<<Nested(type, n - 1)>>)
Deep == {Nested(type, n) : type \in {"and", "not"}, n \in 8 .. 12}

Aggs == {Agg(t, p, << >>) : t \in AggTypes \cup {"percentiles"},
                                  p \in {Severity, Path("severity"), Message, NoPath}}
NestedAggs ==
  {[a EXCEPT !.aggs = <<b>>] : a \in {Agg("terms", Severity, << >>)},
     b \in Aggs \cup {Agg("avg", Path("no_such_field"), << >>),
                      [Agg("top_hits", NoPath, << >>) EXCEPT
                         !.sort = <<[path |-> Path("no_such_field"),
                                     order |-> "asc"]>>]}}

Query(filter, range, aggs, limit, offset, cursor) ==
  [filter |-> filter, range |-> range, aggs |-> aggs, limit |-> limit,
   offset |-> offset, cursor |-> cursor, select |-> <<Severity>>,
   sort |-> << >>]

Ranges == [start : {0, 1, 2}, end : {0, 2}, last : {0, 2}]

Filters == Conditions \cup Level1 \cup Level2 \cup Malformed \cup Deep

Asked(via, client, q) == [at |-> "asked", via |-> via, client |-> client, q |-> q]

QueryInit ==
  \/ \E f \in Filters :
       query = Asked("events", {}, Query(f, Nil, << >>, 0, 0, FALSE))
  \/ \E f \in Filters \cup {Nil}, client \in {{}, {<<1>>}} :
       query = Asked("saved", client, Query(f, Nil, << >>, 0, 0, FALSE))
  \/ \E f \in Basic \cup {Nil} :
       query = Asked("events", {<<1>>}, Query(f, Nil, << >>, 0, 0, FALSE))
  \/ \E r \in Ranges, f \in Basic \cup {Or(<<c, d>>) : c, d \in Basic} \cup {Nil} :
       query = Asked("events", {}, Query(f, r, << >>, 0, 0, FALSE))
  \/ \E a \in Aggs \cup NestedAggs :
       query = Asked("events", {}, Query(Nil, Nil, <<a>>, 0, 0, FALSE))
  \/ \E limit \in {-1, 0, 50, 10000, 10001}, offset \in {-1, 0, 50},
        cursor \in BOOLEAN, order \in {"", "asc", "up"} :
       query = Asked("events", {},
                     [Query(Nil, Nil, << >>, limit, offset, cursor) EXCEPT
                        !.sort = <<[path |-> Severity, order |-> order]>>])

-----------------------------------------------------------------------------
(***************************************************************************)
(* What is checked.                                                        *)
(***************************************************************************)
Sent == query.at = "sent"
Accepted == query.at \in {"sent", "unanswered"} /\ query.via = "events"

Texts == {<< >>, <<1>>, <<1, 2>>, <<2, Space, 1>>}
Event(severity, text, time, client) ==
  ("severity_id" :> severity) @@ ("process.name" :> text) @@ ("message" :> text)
  @@ ("time" :> time) @@ ("src_endpoint.ip" :> <<1>>) @@ ("client_id" :> client)
Events(times, client) ==
  {Event(severity, text, time, client) :
     severity \in {<< >>, <<1>>, <<2>>, <<3>>}, text \in Texts, time \in times}

\* What a filter says of an event, in the words of pkg/model/query.go.
RECURSIVE Holds(_, _)
Holds(f, e) ==
  CASE f.type = "and" -> \A i \in DOMAIN f.conditions : Holds(f.conditions[i], e)
    [] f.type = "or" -> \E i \in DOMAIN f.conditions : Holds(f.conditions[i], e)
    [] f.type = "not" -> ~Holds(f.condition, e)
    [] f.type = "" ->
         LET x == e[f.path.name]
             has == x # << >>
         IN  CASE f.op \in {"eq", "in", "regex", "cidr"} -> has /\ x \in f.value
               [] f.op = "ne" -> ~(has /\ x \in f.value)
               [] f.op = "gt" -> has /\ x[1] > Only(f.value)[1]
               [] f.op = "gte" -> has /\ ~(x[1] < Only(f.value)[1])
               [] f.op = "lt" -> has /\ x[1] < Only(f.value)[1]
               [] f.op = "lte" -> has /\ ~(x[1] > Only(f.value)[1])
               [] f.op = "contains" ->
                    \E i, j \in 0 .. Len(x) :
                      SubSeq(x, i + 1, j) \in f.value
               [] f.op = "startsWith" ->
                    \E j \in 0 .. Len(x) : SubSeq(x, 1, j) \in f.value
               [] f.op = "endsWith" ->
                    \E i \in 1 .. Len(x) : SubSeq(x, i, Len(x)) \in f.value
               [] f.op = "exists" -> has = (f.value = {<<1>>})

RECURSIVE FieldsOf(_)
FieldsOf(d) ==
  CASE d.q = "bool" -> UNION {FieldsOf(c) : c \in Range(d.must \o d.should \o d.must_not)}
    [] d.q \in {"time", "error"} -> {}
    [] OTHER -> {d.field}
Unanalysed(d) == \A field \in FieldsOf(d) : FieldType(field) # "text"

\* A query over fields that are not analysed selects the events its filter
\* describes, and only those within its relative time range: the clauses of the
\* bool queries keep the structure of conjunctions, alternatives and negations,
\* for events that lack the field too.  On an analysed field a filter for a
\* value still finds every event with that value.  (An absolute range is sent
\* in seconds: what OpenSearch makes of it depends on the date format of the
\* mapping.)
SelectsItsEvents ==
  Sent /\ query.via = "events" /\ (query.q.range = Nil \/ query.q.range.last # 0) =>
    \A e \in Events(0 .. Now + 1, <<1>>) :
      LET range == query.q.range
          described == /\ query.q.filter # Nil => Holds(query.q.filter, e)
                       /\ range # Nil => e.time \in (Now - range.last) .. Now
          selected == Matches(query.dsl.query, e)
      IN  /\ Unanalysed(query.dsl.query) => (selected <=> described)
          /\ query.q.filter # Nil /\ query.q.filter.type = ""
             /\ query.q.filter.op = "eq" => (described => selected)

\* What the validator accepts the translator can translate, however it is
\* composed (validator/query.go and translator/opensearch.go list the
\* operators separately).
AcceptedIsTranslated == query.at = "failed" => query.via # "events"

\* Every field an accepted query reads, in its filter, its aggregations at any
\* level and its sort, may be queried, and the index gives it the type it is
\* documented with, unless the field is mapped dynamically.  (It need not
\* have the keyword subfield an aggregation asks for.)
FieldsAreMapped ==
  Accepted =>
    \A field \in FieldsOf(query.dsl.query)
                 \cup ({a.field : a \in query.dsl.aggs} \ {""})
                 \cup {s.field : s \in Range(query.dsl.sort)}
                 \cup query.dsl.source :
      /\ IsValidField(field)
      /\ IsDynamic(field) \/ OCSFMappings[field] = ValidFields[field]

\* Validator and translator agree on the language: what one accepts the other
\* sends on as the same query, over fields that may be queried, as far as the
\* mapping indexes whole values.
TranslationKeepsMeaning ==
  SelectsItsEvents /\ AcceptedIsTranslated /\ FieldsAreMapped

\* A query confined to a client selects events of that client only, whatever
\* its own filter is, unvalidated saved queries included (EventsByAction,
\* RunSavedSearch).
ClientSeesOwnEvents ==
  Sent /\ query.client # {} =>
    \A e \in Events({Now}, <<2>>) : ~Matches(query.dsl.query, e)

\* "Validate that all field paths exist in the OpenSearch mapping"
\* (search/internal/validator/query.go:54): a query whose fields may all be
\* queried is not refused because the service itself confined it to the
\* caller's client, which is a field of the mapping too.
ValidQueryIsAnswered == query.at = "refused" => ~Validate(query.q)
=============================================================================
