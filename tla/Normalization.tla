---------------------------- MODULE Normalization ----------------------------
(***************************************************************************)
(* The normalization pipeline of ingest: what becomes of one HEC request   *)
(* between IngestEvent or IngestRaw and the bulk storage.  The registry    *)
(* picks the first normalizer that supports the source type (the OCSF      *)
(* passthrough, the generated ones in registry order, the HEC fallback),   *)
(* the normalizer builds an OCSF event, and the chain of validators lets   *)
(* it through to storage or sends the request to the dead-letter queue.    *)
(*                                                                         *)
(* Body is the JSON value the sender wrote (nested in the HEC wrapper on   *)
(* /event, the whole request on /raw); an absent field is "" or 0.         *)
(* Instants are counted in 10^6 seconds since 1970, so the passthrough's   *)
(* threshold of 10^12 is 10^6 here.                                        *)
(***************************************************************************)
EXTENDS ClassNormalizers, ClassValidators, FiniteSets

VARIABLE pipeline   \* the request in the pipeline and what became of it

CONSTANT Instants   \* the times events happen at

MillisThreshold == 1000000

\* After September 2001, when milliseconds pass the threshold, and before
\* seconds do.
ASSUME InstantsAssumption == Instants \subseteq 1001 .. MillisThreshold

Shapes == {"object", "mistyped", "text"}
Blank == [shape |-> "object", class_uid |-> 0, category_uid |-> 0,
          activity_id |-> 0, type_uid |-> 0, class |-> "", category |-> "",
          time |-> 0, user |-> "", action |-> "", status |-> "",
          severity |-> "", status_id |-> 0, product |-> ""]

-----------------------------------------------------------------------------
(***************************************************************************)
(* The envelope.                                                           *)
(***************************************************************************)
determineSourceType(body) ==
  IF body.shape # "object" THEN "ocsf:generic"
  ELSE CASE body.class_uid \in 3001 .. 3006 -> "ocsf:iam"
         [] body.class_uid \in 4001 .. 4012 -> "ocsf:network"
         [] body.class_uid \in 1001 .. 1007 -> "ocsf:system"
         [] body.class_uid \in 2001 .. 2004 -> "ocsf:findings"
         [] body.class_uid \in 5001 .. 5003 -> "ocsf:discovery"
         [] body.class_uid \in 6001 .. 6004 -> "ocsf:application"
         [] OTHER -> "ocsf:generic"

\* On /event the payload is the HEC event marshalled again: at top level it
\* has the wrapper's time, and the sender's value only under "event".  On
\* /raw it is the body.
Envelope(request) ==
  IF request.endpoint = "event"
  THEN [sourceType |-> IF request.sourceType = ""
                       THEN determineSourceType(request.body)
                       ELSE request.sourceType,
        top |-> [Blank EXCEPT !.time = request.time],
        event |-> request.body]
  ELSE [sourceType |-> request.sourceType, top |-> request.body,
        event |-> [Blank EXCEPT !.shape = "text"]]

-----------------------------------------------------------------------------
(***************************************************************************)
(* The generated normalizers.                                              *)
(***************************************************************************)
AnyOf(s, words) == \E word \in words : ContainsWord(s, word)

AuthenticationActivity(action) ==
  CASE AnyOf(action, {"logout", "logoff", "signout", "sign_out"}) -> 1
    [] AnyOf(action, {"login", "logon", "signin", "sign_in"}) -> 2
    [] OTHER -> 0

ProcessActivityActivity(action) ==
  CASE AnyOf(action, {"launch", "start", "create", "exec"}) -> 1
    [] AnyOf(action, {"terminate", "exit", "kill", "stop"}) -> 2
    [] OTHER -> 0

NetworkActivityActivity(action) ==
  IF AnyOf(action, {"close", "disconnect", "terminate"}) THEN 1
  ELSE IF AnyOf(action, {"open", "connect", "establish"}) THEN 2
  ELSE IF AnyOf(action, {"refuse", "reject", "deny"}) THEN 3 ELSE 0

determineActivityID(class, action) ==
  CASE class = Authentication -> AuthenticationActivity(action)
    [] class = ProcessActivity -> ProcessActivityActivity(action)
    [] class = NetworkActivity -> NetworkActivityActivity(action)
    [] OTHER -> 0

ExtractStatus(status) ==
  CASE AnyOf(status, {"success", "ok"}) -> 1
    [] AnyOf(status, {"fail", "error"}) -> 2
    [] OTHER -> 0

ExtractSeverity(sev) ==
  CASE AnyOf(sev, {"critical", "fatal"}) -> 5
    [] AnyOf(sev, {"high", "error"}) -> 4
    [] AnyOf(sev, {"medium", "warn"}) -> 3
    [] AnyOf(sev, {"low", "info"}) -> 2
    [] OTHER -> 0

\* A number is read as seconds; without one the time of receipt is taken.
ExtractTimestamp(top, receivedAt) ==
  IF top.time # 0 THEN top.time ELSE receivedAt

Failed == [ok |-> FALSE]

\* Normalize of every generated normalizer.
NormalizeAs(n, envelope, receivedAt) ==
  LET top == envelope.top
      activityID == determineActivityID(n.class, top.action)
  IN  IF top.shape = "text" THEN Failed
      ELSE [ok |-> TRUE,
            event |->
              [category_uid |-> n.class.category_uid,
               class_uid |-> n.class.class_uid, activity_id |-> activityID,
               type_uid |-> ComputeTypeUID(n.class.category_uid,
                                           n.class.class_uid, activityID),
               category |-> n.class.category, class |-> n.class.class,
               activity |-> "", time |-> ExtractTimestamp(top, receivedAt),
               user |-> top.user, status_id |-> ExtractStatus(top.status),
               severity_id |-> ExtractSeverity(top.severity),
               product |-> "TelHawk Stack", version |-> "1.1.0"]]

-----------------------------------------------------------------------------
(***************************************************************************)
(* The OCSF passthrough and the HEC fallback.                              *)
(***************************************************************************)
\* A plausible mistake: the wrapper's time replaces the event's own.
WrapperTime(envelope) ==
  IF envelope.top.time # 0 THEN envelope.top.time ELSE envelope.event.time

\* The time of the event: its own, or the wrapper's when it has none.
OcsfTime(envelope) ==
  IF envelope.event.shape # "text" /\ envelope.event.time # 0
  THEN envelope.event.time ELSE envelope.top.time

\* A number above the threshold is in milliseconds, any other in seconds.
ReadTime(number) ==
  IF number > MillisThreshold THEN number \div 1000 ELSE number

NormalizeOcsf(envelope) ==
  LET wrapped == envelope.event.shape # "text"
      body == IF wrapped THEN envelope.event ELSE envelope.top
  IN  IF envelope.top.shape = "text" \/ body.shape = "mistyped" THEN Failed
      ELSE [ok |-> TRUE,
            event |->
              [category_uid |-> body.category_uid, class_uid |-> body.class_uid,
               activity_id |-> body.activity_id, type_uid |-> body.type_uid,
               category |-> IF body.category = "" /\ body.category_uid # 0
                            THEN CategoryName(body.category_uid)
                            ELSE body.category,
               class |-> IF body.class = "" /\ body.class_uid # 0
                         THEN ClassName(body.class_uid) ELSE body.class,
               activity |-> IF body.class_uid # 0 /\ body.activity_id # 0
                            THEN ActivityName(body.class_uid, body.activity_id)
                            ELSE "",
               time |-> ReadTime(OcsfTime(envelope)), user |-> body.user,
               status_id |-> body.status_id, severity_id |-> 0,
               product |-> body.product, version |-> "1.1.0"]]

NormalizeHec(envelope, receivedAt) ==
  IF envelope.top.shape = "text" THEN Failed
  ELSE [ok |-> TRUE,
        event |-> [category_uid |-> 0, class_uid |-> 0, activity_id |-> 0,
                   type_uid |-> ComputeTypeUID(0, 0, 0), category |-> "other",
                   class |-> "base_event", activity |-> "ingest:hec",
                   time |-> ExtractTimestamp(envelope.top, receivedAt),
                   user |-> "", status_id |-> 0, severity_id |-> 0,
                   product |-> "TelHawk Stack", version |-> "1.1.0"]]

-----------------------------------------------------------------------------
(***************************************************************************)
(* The registry, the chain of validators and Process.                      *)
(***************************************************************************)
OcsfSourceTypes == {"ocsf:iam", "ocsf:network", "ocsf:system", "ocsf:findings",
                    "ocsf:discovery", "ocsf:application", "ocsf:generic"}

Supporting(sourceType) ==
  {i \in DOMAIN AllNormalizers : SupportsClass(AllNormalizers[i], sourceType)}

\* The first supporting normalizer: its kind, and the class of a generated one.
Find(sourceType) ==
  LET supporting == Supporting(sourceType)
  IN  CASE sourceType \in OcsfSourceTypes -> [kind |-> "ocsf"]
        [] sourceType \notin OcsfSourceTypes /\ supporting # {} ->
             [kind |-> "class",
              n |-> AllNormalizers[CHOOSE i \in supporting :
                                     \A j \in supporting : i <= j]]
        [] supporting = {} /\ sourceType = "hec" -> [kind |-> "hec"]
        [] OTHER -> [kind |-> "none"]

BasicValidate(event) ==
  /\ event.class_uid = 0 => event.class = "base_event"
  /\ event.category # ""
  /\ event.time # 0
  /\ event.product # ""
  /\ event.version # ""

\* A validator is asked only for the classes it supports; the basic one
\* supports every event that has a class.
ChainValidate(event) ==
  /\ event.class # "" => BasicValidate(event)
  /\ \A v \in AllValidators : v.class = event.class => ValidateClass(v, event)

Normalize(envelope, receivedAt) ==
  LET found == Find(envelope.sourceType)
  IN  CASE found.kind = "ocsf" -> NormalizeOcsf(envelope)
        [] found.kind = "class" -> NormalizeAs(found.n, envelope, receivedAt)
        [] found.kind = "hec" -> NormalizeHec(envelope, receivedAt)
        [] OTHER -> Failed

ReceivedAt == 1800   \* later than every instant an event states

\* Pipeline.Process: the outcome of a request, stored or dead-lettered.
Process(request) ==
  LET result == Normalize(Envelope(request), ReceivedAt)
  IN  IF result.ok /\ ChainValidate(result.event)
      THEN [at |-> "stored", request |-> request, event |-> result.event]
      ELSE [at |-> "dead", request |-> request]

-----------------------------------------------------------------------------
(***************************************************************************)
(* The requests.  Logs are what a device sends: no OCSF fields, an action, *)
(* perhaps a user, an outcome and a level.  OcsfBodies are events of the   *)
(* declared classes and activities, with or without their class name;      *)
(* ShortBodies carry the number of the class within its category, the one  *)
(* the generated validators compare with.                                  *)
(***************************************************************************)
Actions == {"", "login", "logoff", "connect", "disconnect", "deny", "start",
            "stop"}
UserFields == {"", "alice"}
ClassFields(c) == {"", c.class}

\* A time a sender writes: none, in seconds or in milliseconds.
Seconds == {0} \cup Instants
Times == Seconds \cup {1000 * i : i \in Instants}

ActionLog(action, user) == [Blank EXCEPT !.action = action, !.user = user]
OutcomeLog(status, severity, time) ==
  [Blank EXCEPT !.status = status, !.severity = severity, !.time = time]
ShapedLog(shape) == [Blank EXCEPT !.shape = shape]

Logs ==
  {ActionLog(a, u) : a \in Actions, u \in UserFields}
  \cup {OutcomeLog(s, v, t) :
          s \in {"success", "error"}, v \in {"warn", "fatal"}, t \in Seconds}
  \cup {ShapedLog(s) : s \in Shapes}

SourceTypes == UNION {n.words \cup {n.class.class} :
                        n \in {AllNormalizers[i] : i \in DOMAIN AllNormalizers}}
               \cup OcsfSourceTypes \cup {"hec", "unheard_of", ""}

OcsfBody(c, activity, class, time) ==
  [Blank EXCEPT !.category_uid = c.category_uid, !.class_uid = c.class_uid,
                !.activity_id = activity,
                !.type_uid = ComputeTypeUID(c.category_uid, c.class_uid, activity),
                !.class = class, !.time = time, !.product = "sensor"]

OcsfBodies ==
  UNION {{OcsfBody(c, a, class, t) :
            a \in c.activities \cup {0}, class \in ClassFields(c), t \in Times} :
         c \in Classes}

ShortBody(v, activity, user, status, time) ==
  [Blank EXCEPT !.category_uid = 3, !.class_uid = v.uid, !.class = v.class,
                !.activity_id = activity, !.user = user, !.status_id = status,
                !.time = time, !.product = "sensor"]

ShortBodies ==
  {ShortBody(v, a, u, s, t) :
     v \in {AuthenticationValidator, IncidentFindingValidator},
     a \in {0, 1, 50}, u \in UserFields, s \in {0, 99, 100}, t \in Instants}

Request(endpoint, sourceType, time, body) ==
  [endpoint |-> endpoint, sourceType |-> sourceType, time |-> time,
   body |-> body]

NormalizationInit ==
  \E endpoint \in {"event", "raw"}, time \in Seconds :
    /\ endpoint = "raw" => time = 0
    /\ \/ \E body \in Logs, sourceType \in SourceTypes :
            pipeline = [at |-> "received",
                        request |-> Request(endpoint, sourceType, time, body)]
       \/ \E body \in OcsfBodies \cup ShortBodies,
             sourceType \in {"", "ocsf:generic"} :
            pipeline = [at |-> "received",
                        request |-> Request(endpoint, sourceType, time, body)]

ProcessRequest ==
  /\ pipeline.at = "received"
  /\ pipeline' = Process(pipeline.request)

NormalizationSpec == NormalizationInit /\ [][ProcessRequest]_pipeline

-----------------------------------------------------------------------------
(***************************************************************************)
(* What is checked.                                                        *)
(***************************************************************************)
Stored == pipeline.at = "stored"
FoundFor(request) == Find(Envelope(request).sourceType)

\* type_uid tells every class and activity apart (ComputeTypeUID with the
\* constants of all the generated classes).
TypeUidIdentifies ==
  Stored =>
    LET event == pipeline.event
    IN  \A c \in Classes : \A a \in c.activities \cup {0} :
          ComputeTypeUID(c.category_uid, c.class_uid, a) = event.type_uid
          => event.class_uid = c.class_uid /\ event.activity_id = a

\* An event of a declared class and activity that arrives without names is
\* stored with its own: the tables of mappings.go know every class, category
\* and activity the generated classes declare, give no two classes the same
\* name, and name an activity as the package of its class does.
NamesAreKnown ==
  Stored /\ pipeline.request.body.class_uid \in {c.class_uid : c \in Classes} =>
    LET event == pipeline.event
    IN  /\ "Unknown" \notin {event.class, event.category}
        /\ event.activity_id # 0 => event.activity # ""
        /\ event.class_uid \in DOMAIN ActivityConstants /\ event.activity_id # 0 =>
             event.activity = ActivityConstants[event.class_uid][event.activity_id]
        /\ \A c \in Classes :
             c.class_uid # event.class_uid
             => event.class \notin {c.class, ClassName(c.class_uid)}


\* What the branches of determineActivityID say that they return.
ActionMeans ==
  [login |-> "Logon", logoff |-> "Logoff", start |-> "Launch",
   stop |-> "Terminate", connect |-> "Open", disconnect |-> "Close",
   deny |-> "Refuse"]
ActionsOf ==
  Authentication.class_uid :> {"login", "logoff"} @@
  ProcessActivity.class_uid :> {"start", "stop"} @@
  NetworkActivity.class_uid :> {"connect", "disconnect", "deny"}

\* "Activity ID determined as "Logon" from "login" keyword"
\* (docs/ocsf/NORMALIZATION_INTEGRATION.md:258): the activity a normalizer
\* stores for a log is the one the log's action names, in the words of
\* mappings.go by which searches find it.
LoggedActionIsStored ==
  Stored /\ FoundFor(pipeline.request).kind = "class" =>
    LET event == pipeline.event
        action == Envelope(pipeline.request).top.action
    IN  /\ event.class_uid \in DOMAIN ActionsOf
        /\ action \in ActionsOf[event.class_uid]
        => ActivityName(event.class_uid, event.activity_id) = ActionMeans[action]

\* An OCSF event keeps its identity and its time through the passthrough,
\* nested or not, typed by the sender or by determineSourceType: its own time
\* wins over the wrapper's, in seconds or milliseconds.  (A time of 0 means
\* none; milliseconds before September 2001 are read as seconds, so Instants
\* lie after it.)
PassthroughKeepsEvent ==
  Stored /\ FoundFor(pipeline.request).kind = "ocsf" =>
    LET body == pipeline.request.body
        event == pipeline.event
        sent == IF body.time # 0 THEN body.time ELSE pipeline.request.time
    IN  body.shape = "object" =>
          /\ <<event.category_uid, event.class_uid, event.activity_id,
               event.type_uid, event.user>>
               = <<body.category_uid, body.class_uid, body.activity_id,
                   body.type_uid, body.user>>
          /\ event.time \in {sent, sent \div 1000}
          /\ event.time \in Instants \cup {0}
          /\ event.time = 0 => sent = 0

=============================================================================
