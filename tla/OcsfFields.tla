----------------------------- MODULE OcsfFields -----------------------------
(***************************************************************************)
(* The two tables a query's field has to agree with: the fields queries    *)
(* may name (common/fields/fields.go, with the type they are documented    *)
(* to have) and the explicit mapping of the event indices                  *)
(* (getOCSFMappings of ingest/internal/storage/opensearch.go).  Names are  *)
(* written without the leading dot.                                        *)
(***************************************************************************)
EXTENDS TLC

Typed(type, names) == [n \in names |-> type]

ValidFields ==
  Typed("date",
    {"time", "@timestamp", "file.modified_time"}) @@
  Typed("integer",
    {"class_uid", "category_uid", "activity_id", "severity_id", "status_id",
     "process.pid", "src_endpoint.port", "dst_endpoint.port", "risk_score",
     "device.type_id"}) @@
  Typed("long",
    {"type_uid", "file.size", "traffic.bytes", "traffic.packets"}) @@
  Typed("ip",
    {"src_endpoint.ip", "dst_endpoint.ip", "device.ip"}) @@
  Typed("keyword",
    {"class", "class_name", "category", "category_name", "activity",
     "activity_name", "severity", "status", "metadata.version",
     "metadata.product.name", "metadata.product.vendor_name",
     "metadata.product.version", "metadata.log_name",
     "metadata.log_provider", "user.name", "user.uid", "user.email",
     "user.domain", "process.name", "process.uid", "process.file.path",
     "process.file.name", "file.path", "file.name", "file.type",
     "src_endpoint.hostname", "dst_endpoint.hostname",
     "connection_info.protocol_name", "connection_info.direction",
     "connection_info.boundary", "query.hostname", "query.type",
     "query.class", "response_code", "attack_tactic", "attack_tactic_uid",
     "attack_technique", "attack_technique_uid", "auth_protocol",
     "device.hostname", "device.type", "device.os.name", "device.os.type"}) @@
  Typed("text",
    {"status_detail", "message", "process.cmd_line"}) @@
  Typed("nested",
    {"answers", "attacks", "resources"}) @@
  Typed("object",
    {"actor.user", "actor.process", "process.parent_process", "process.file",
     "http_request", "http_response", "finding", "properties"})

\* Names below the wildcard prefixes are accepted whatever they are; these
\* stand for them.
WildcardFields == {"actor.user.name", "metadata.uid", "raw.data"}

IsValidField(name) == name \in DOMAIN ValidFields \cup WildcardFields

\* The explicit mapping, in two halves; a field it does not list is mapped
\* when the first event that has it is indexed.
EventMappings ==
  Typed("date",
    {"time", "@timestamp", "file.modified_time"}) @@
  Typed("integer",
    {"class_uid", "category_uid", "activity_id", "severity_id", "status_id",
     "process.pid"}) @@
  Typed("long",
    {"type_uid", "file.size"}) @@
  Typed("ip",
    {"ingest_source_ip"}) @@
  Typed("keyword",
    {"client_id", "hec_token_id", "metadata.version",
     "metadata.product.name", "metadata.product.vendor_name",
     "metadata.product.version", "metadata.log_name",
     "metadata.log_provider", "class_name", "category_name", "activity_name",
     "severity", "status", "user.name", "user.uid", "user.email",
     "user.domain", "process.name", "process.uid", "file.path", "file.name",
     "file.type"}) @@
  Typed("text",
    {"status_detail", "message", "process.cmd_line"}) @@
  Typed("object",
    {"user", "actor", "actor.user", "actor.process", "process",
     "process.parent_process", "file"})

EndpointMappings ==
  Typed("integer",
    {"src_endpoint.port", "dst_endpoint.port", "risk_score"}) @@
  Typed("long",
    {"traffic.bytes", "traffic.packets"}) @@
  Typed("ip",
    {"src_endpoint.ip", "dst_endpoint.ip"}) @@
  Typed("keyword",
    {"src_endpoint.hostname", "dst_endpoint.hostname",
     "connection_info.protocol_name", "connection_info.direction",
     "connection_info.boundary", "query.hostname", "query.type",
     "query.class", "response_code", "attack_tactic", "attack_tactic_uid",
     "attack_technique", "attack_technique_uid", "auth_protocol"}) @@
  Typed("text",
    {"raw_data"}) @@
  Typed("nested",
    {"answers", "attacks", "resources"}) @@
  Typed("object",
    {"src_endpoint", "dst_endpoint", "connection_info", "traffic", "query",
     "http_request", "http_response", "finding", "properties", "raw"})

OCSFMappings == EventMappings @@ EndpointMappings

\* A field the index has no type for until an event brings it.
IsDynamic(name) == name \notin DOMAIN OCSFMappings

\* The type the index gives a field.  The dynamic template maps a string to
\* text with a keyword subfield; what is below "raw" is not indexed.
FieldType(name) ==
  IF ~IsDynamic(name) THEN OCSFMappings[name]
  ELSE IF name = "raw.data" THEN "disabled"
  ELSE IF name \in DOMAIN ValidFields /\ ValidFields[name] \in {"integer", "long"}
  THEN "long" ELSE "text"

NumberTypes == {"integer", "long"}

\* The queryable names with a suffix that shouldUseTermQuery looks for (ip,
\* uid, id, port, code), that contain "_uid" or "_id", or that it lists.
ExactNames ==
  {"activity_id", "attack_tactic_uid", "attack_technique_uid",
   "category_uid", "class_uid", "client_id", "device.ip", "device.type_id",
   "dst_endpoint.ip", "dst_endpoint.port", "process.uid", "response_code",
   "severity", "severity_id", "src_endpoint.ip", "src_endpoint.port",
   "status", "status_id", "type_uid", "user.uid"}

\* Those ensureKeywordField leaves as they are: listed numeric and date
\* fields, and names ending in _id, _uid, _code, .port, .ip or _ip.
UnanalyzedNames ==
  {"activity_id", "attack_tactic_uid", "attack_technique_uid",
   "category_uid", "class_uid", "device.ip", "device.type_id",
   "dst_endpoint.ip", "dst_endpoint.port", "response_code", "severity_id",
   "src_endpoint.ip", "src_endpoint.port", "status_id", "time", "type_uid"}

=============================================================================
