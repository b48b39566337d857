------------------------------ MODULE AuditLog ------------------------------
(***************************************************************************)
(* The audit log of the authenticate service (internal/audit, models/      *)
(* audit.go).  Every operation ends with Log, which inserts a row and has  *)
(* a goroutine forward the record to ingest as an event.  Ingest takes an  *)
(* event only with a valid HEC token, which it asks authenticate about     *)
(* unless the answer is cached; and that question is an operation, too.    *)
(*                                                                         *)
(* The list Logger keeps in memory is left out: nothing reads it.          *)
(***************************************************************************)
EXTENDS Integers, FiniteSets

CONSTANTS
  ClientActions,   \* actions of other clients of the API
  MaxAuditCalls    \* calls of each kind

AuditActions == {"login", "logout", "register", "user_create", "token_refresh",
                 "token_validate", "token_revoke", "hec_token_create",
                 "hec_token_revoke", "hec_token_validate", "user_update",
                 "user_delete", "password_reset", "password_change"}

ASSUME ClientActionsAssumption == ClientActions \subseteq AuditActions

VARIABLES
  auditCalls,    \* how often other clients called, by action
  auditRows,     \* the rows of audit_log, by action
  forwarding,    \* goroutines in ForwardEvent that have not posted yet
  forwarded,     \* goroutines started, by action
  posted,        \* events at ingest whose token is to be checked
  validating,    \* questions about the token on their way to authenticate
  answerCached   \* ingest's cached answer for authenticate's token is fresh

auditVars ==
  <<auditCalls, auditRows, forwarding, forwarded, posted, validating, answerCached>>

None == [a \in AuditActions |-> 0]
Plus(f, a) == [f EXCEPT ![a] = @ + 1]

-----------------------------------------------------------------------------
\* A plausible mistake: the questions of ingest are forwarded like the rest.
ForwardsValidation(a) == a \notin {"token_validate", "token_refresh"}

ShouldForwardToIngest(a) ==
  a \notin {"token_validate", "token_refresh", "hec_token_validate"}

\* An insert that fails is ignored.
Log(a) ==
  /\ auditRows' \in {auditRows, Plus(auditRows, a)}
  /\ IF ShouldForwardToIngest(a)
     THEN forwarding' = Plus(forwarding, a) /\ forwarded' = Plus(forwarded, a)
     ELSE UNCHANGED <<forwarding, forwarded>>

\* An operation that another client asks for, a sender of events that ingest
\* has to ask about included.
ClientCall(a) ==
  /\ auditCalls[a] < MaxAuditCalls
  /\ auditCalls' = Plus(auditCalls, a)
  /\ Log(a)
  /\ UNCHANGED <<posted, validating, answerCached>>

\* The goroutine posts the event once; an error is only logged.  A post that
\* timed out may have arrived.
ForwardEvent(a) ==
  /\ forwarding[a] > 0
  /\ forwarding' = [forwarding EXCEPT ![a] = @ - 1]
  /\ posted' \in {posted, posted + 1}
  /\ UNCHANGED <<auditCalls, auditRows, forwarded, validating, answerCached>>

\* ingest, as authenticate meets it: client.ValidateHECToken.
IngestChecksToken ==
  /\ posted > 0
  /\ posted' = posted - 1
  /\ validating' = IF answerCached THEN validating ELSE validating + 1
  /\ UNCHANGED <<auditCalls, auditRows, forwarding, forwarded, answerCached>>

\* The answer, valid or not, is cached if it arrives.
ValidateHECToken ==
  /\ validating > 0
  /\ validating' = validating - 1
  /\ Log("hec_token_validate")
  /\ answerCached' \in {answerCached, TRUE}
  /\ UNCHANGED <<auditCalls, posted>>

AnswerExpires ==
  /\ answerCached
  /\ answerCached' = FALSE
  /\ UNCHANGED <<auditCalls, auditRows, forwarding, forwarded, posted, validating>>

AuditInit ==
  /\ auditCalls = None /\ auditRows = None
  /\ forwarding = None /\ forwarded = None
  /\ posted = 0 /\ validating = 0 /\ answerCached = FALSE

AuditNext ==
  \/ \E a \in ClientActions : ClientCall(a)
  \/ \E a \in ClientActions \cup {"hec_token_validate"} : ForwardEvent(a)
  \/ IngestChecksToken \/ ValidateHECToken \/ AnswerExpires

AuditSpec == AuditInit /\ [][AuditNext]_auditVars

-----------------------------------------------------------------------------
\* "Would cause infinite loop (validates during ingest)" (models/audit.go): what
\* forwarding itself makes ingest ask is never forwarded.  Only calls of other
\* clients start a forward, and one each, however often the cached answer
\* expires, an answer is lost or events are in flight at once.
NoFeedback == \A a \in AuditActions : forwarded[a] <= auditCalls[a]
=============================================================================
