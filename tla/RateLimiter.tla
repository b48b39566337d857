----------------------------- MODULE RateLimiter -----------------------------
(***************************************************************************)
(* The sliding-window rate limiter of the ingest service                   *)
(* (internal/ratelimit/ratelimit.go): a request reads its clock, and then  *)
(* a Lua script prunes, counts and adds atomically in Redis.  Requests of  *)
(* several instances read the clock in one order and run the script in     *)
(* another.  The unit of time is the 256 ns that a nanosecond clock keeps  *)
(* in a double: requests of one unit are one member of the sorted set.     *)
(***************************************************************************)
EXTENDS Integers, FiniteSets

CONSTANTS
  Askers,      \* requests under one key, an address or a token
  RateLimit,   \* how many a window admits
  Window,      \* its length
  Expiry,      \* the lifetime Redis gives the key, a minute in the script
  MaxInstant   \* bound on the clock

\* The window is configured, the expiry is not: either may be the longer.
ASSUME RateAssumption ==
  RateLimit \in Nat /\ Window \in Nat \ {0} /\ Expiry \in Nat

VARIABLES
  instant,     \* the clock
  window,      \* the sorted set: the instants in it
  expireAt,    \* when the key expires
  asker        \* asker[a]: a request's progress

rateVars == <<instant, window, expireAt, asker>>

RateInit ==
  /\ instant = 1
  /\ window = {}
  /\ expireAt = 0
  /\ asker = [a \in Askers |-> [at |-> "idle", now |-> 0]]

\* Time passes; Redis drops the key.
Elapse ==
  /\ instant < MaxInstant
  /\ instant' = instant + 1
  /\ window' = IF instant' >= expireAt THEN {} ELSE window
  /\ UNCHANGED <<expireAt, asker>>

ReadClock(a) ==
  /\ asker[a].at = "idle"
  /\ asker' = [asker EXCEPT ![a] = [at |-> "read", now |-> instant]]
  /\ UNCHANGED <<instant, window, expireAt>>

Pruned(now) == {t \in window : t > now - Window}

BelowLimit(now) == Cardinality(Pruned(now)) < RateLimit

\* A plausible mistake: a refused request is counted too.
CountsRefused(now, allowed) == Pruned(now) \cup {now}
Recorded(now, allowed) == Pruned(now) \cup (IF allowed THEN {now} ELSE {})

RunScript(a) ==
  /\ asker[a].at = "read"
  /\ LET now == asker[a].now
         allowed == BelowLimit(now)
     IN  /\ window' = Recorded(now, allowed)
         /\ expireAt' = IF allowed THEN instant + Expiry ELSE expireAt
         /\ asker' = [asker EXCEPT ![a].at = IF allowed THEN "allowed" ELSE "limited"]
  /\ UNCHANGED instant

\* Redis fails, or the script takes longer than a second.
ScriptFails(a) ==
  /\ asker[a].at = "read"
  /\ asker' = [asker EXCEPT ![a].at = "error"]
  /\ UNCHANGED <<instant, window, expireAt>>

RateNext ==
  \/ Elapse
  \/ \E a \in Askers : ReadClock(a) \/ RunScript(a) \/ ScriptFails(a)

RateSpec == RateInit /\ [][RateNext]_rateVars

-----------------------------------------------------------------------------
(***************************************************************************)
(* What is checked.                                                        *)
(***************************************************************************)
\* The instants of the requests admitted, and of those after a time.
Admitted == {asker[a].now : a \in {b \in Askers : asker[b].at = "allowed"}}
AdmittedAfter(time) == {n \in Admitted : n > time}

\* Nobody is refused for nothing: whoever is refused has as many admitted
\* requests in the window before its clock, or after it, as the limit allows,
\* in whatever order clocks are read and scripts run, whenever the key expires,
\* and although requests were refused and failed meanwhile (Allow).
RefusalIsEarned ==
  \A a \in Askers : asker[a].at = "limited" =>
    Cardinality(AdmittedAfter(asker[a].now - Window)) >= RateLimit
=============================================================================
