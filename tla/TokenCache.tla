------------------------------ MODULE TokenCache -----------------------------
(***************************************************************************)
(* HEC token validation.  The ingest service keeps what the authenticate   *)
(* service said of a token in a cache with a lifetime and a capacity       *)
(* (ingest/internal/authclient/client.go); several handlers use it at      *)
(* once, and no lock is held while authenticate is asked.  Tokens are      *)
(* created and revoked behind its back (authenticate, auth_service.go).    *)
(***************************************************************************)
EXTENDS Integers, FiniteSets

CONSTANTS Tokens,       \* HEC tokens
          Handlers,     \* ingest requests under way together
          CacheTTL,     \* lifetime of an entry, in clock ticks
          CallTimeout,  \* timeout of the HTTP client, in clock ticks
          MaxSize,      \* capacity of the cache (10000 in the code)
          NoToken,      \* not a token
          Faults        \* "db": authenticate's database fails; "net": the call fails

ASSUME CacheAssumption ==
    /\ CacheTTL \in Nat
    /\ CallTimeout \in Nat
    /\ MaxSize \in Nat \ {0}
    /\ NoToken \notin Tokens
    /\ Faults \subseteq {"db", "net"}

(* Ages are counted up to here, one tick past anything that is compared. *)
Cap == CacheTTL + CallTimeout + 1

VARIABLES token,  \* hec_tokens: state, and ticks since it was revoked
          cache,  \* cache[t]: what is cached, and ticks since it was set
          call,   \* call[h]: the validation under way
          late    \* late[h]: ticks since revocation of the token accepted last

vars == <<token, cache, call, late>>

NoEntry == [kind |-> "none", age |-> 0]
NoCall == [at |-> "idle", token |-> NoToken, age |-> 0, result |-> "none"]
Ask(t) == [at |-> "asked", token |-> t, age |-> 0, result |-> "none"]

TokenRows == [state : {"none", "active", "revoked"}, since : 0 .. Cap]
CacheRows == [kind : {"none", "valid", "invalid"}, age : 0 .. Cap]
Calls == [at : {"idle", "asked", "answered"}, token : Tokens \cup {NoToken},
          age : 0 .. CallTimeout, result : {"none", "valid", "invalid"}]

TypeOK ==
    /\ token \in [Tokens -> TokenRows]
    /\ cache \in [Tokens -> CacheRows]
    /\ call \in [Handlers -> Calls]
    /\ late \in [Handlers -> 0 .. Cap]

Init ==
    /\ token = [t \in Tokens |-> [state |-> "none", since |-> 0]]
    /\ cache = [t \in Tokens |-> NoEntry]
    /\ call = [h \in Handlers |-> NoCall]
    /\ late = [h \in Handlers |-> 0]

-----------------------------------------------------------------------------
(* The authenticate service.                                               *)

(* A fresh token, without an expiry. *)
CreateHECToken(t) ==
    /\ token[t].state = "none"
    /\ token' = [token EXCEPT ![t].state = "active"]
    /\ UNCHANGED <<cache, call, late>>

RevokeHECToken(t) ==
    /\ token[t].state = "active"
    /\ token' = [token EXCEPT ![t].state = "revoked"]
    /\ UNCHANGED <<cache, call, late>>

(* The answer to a call.  An error of the database is answered like a      *)
(* token that does not exist.                                              *)
ValidateHECToken(h) ==
    /\ call[h].at = "asked"
    /\ \E ok \in BOOLEAN :
          /\ ok => token[call[h].token].state = "active"
          /\ ~ok => token[call[h].token].state # "active" \/ "db" \in Faults
          /\ call' = [call EXCEPT ![h].at = "answered",
                                  ![h].result = IF ok THEN "valid" ELSE "invalid"]
    /\ UNCHANGED <<token, cache, late>>

-----------------------------------------------------------------------------
(* The cache.                                                              *)

Entries == {t \in Tokens : cache[t].kind # "none"}

(* The handler goes on with a valid token, and answers 403 otherwise. *)
Accept(h, t, valid) == late' = [late EXCEPT ![h] = IF valid THEN token[t].since ELSE 0]

Fresh(t) == cache[t].kind # "none" /\ cache[t].age <= CacheTTL

(* Mutation of get: a hit renews the entry. *)
GetRenews(h, t) ==
    /\ call[h].at = "idle"
    /\ \/ /\ Fresh(t)
          /\ Accept(h, t, cache[t].kind = "valid")
          /\ cache' = [cache EXCEPT ![t].age = 0]
          /\ UNCHANGED call
       \/ /\ ~Fresh(t)
          /\ call' = [call EXCEPT ![h] = Ask(t)]
          /\ UNCHANGED <<cache, late>>
    /\ UNCHANGED token

(* get: an entry that has not ended is the answer; otherwise authenticate  *)
(* is asked.                                                               *)
get(h, t) ==
    /\ call[h].at = "idle"
    /\ \/ /\ Fresh(t)
          /\ Accept(h, t, cache[t].kind = "valid")
          /\ UNCHANGED call
       \/ /\ ~Fresh(t)
          /\ call' = [call EXCEPT ![h] = Ask(t)]
          /\ UNCHANGED late
    /\ UNCHANGED <<token, cache>>

(* At capacity any entry makes room, also for a token that has one. *)
Evict ==
    IF Cardinality(Entries) >= MaxSize THEN {Entries \ {t} : t \in Entries} ELSE {Entries}

(* Mutation of set: the capacity is not looked at. *)
SetWithoutEvict(h) ==
    /\ call[h].at = "answered"
    /\ cache' = [cache EXCEPT ![call[h].token] = [kind |-> call[h].result, age |-> 0]]
    /\ Accept(h, call[h].token, call[h].result = "valid")
    /\ call' = [call EXCEPT ![h] = NoCall]
    /\ UNCHANGED token

(* set, and the answer is used. *)
set(h) ==
    /\ call[h].at = "answered"
    /\ \E kept \in Evict :
          cache' = [t \in Tokens |->
                      IF t = call[h].token THEN [kind |-> call[h].result, age |-> 0]
                      ELSE IF t \in kept THEN cache[t] ELSE NoEntry]
    /\ Accept(h, call[h].token, call[h].result = "valid")
    /\ call' = [call EXCEPT ![h] = NoCall]
    /\ UNCHANGED token

(* An error or a timeout of the call: nothing is cached. *)
CallFails(h) ==
    /\ call[h].at # "idle"
    /\ "net" \in Faults \/ call[h].age = CallTimeout
    /\ call' = [call EXCEPT ![h] = NoCall]
    /\ UNCHANGED <<token, cache, late>>

cleanup ==
    /\ \E t \in Entries : ~Fresh(t)
    /\ cache' = [t \in Tokens |-> IF Fresh(t) THEN cache[t] ELSE NoEntry]
    /\ UNCHANGED <<token, call, late>>

-----------------------------------------------------------------------------
Older(n) == IF n < Cap THEN n + 1 ELSE n

(* Time passes; no call outlives its timeout. *)
Tick ==
    /\ \A h \in Handlers : call[h].at # "idle" => call[h].age < CallTimeout
    /\ token' = [t \in Tokens |->
                   [token[t] EXCEPT !.since = IF token[t].state = "revoked"
                                              THEN Older(token[t].since) ELSE 0]]
    /\ cache' = [t \in Tokens |->
                   [cache[t] EXCEPT !.age = IF cache[t].kind # "none"
                                            THEN Older(cache[t].age) ELSE 0]]
    /\ call' = [h \in Handlers |->
                  [call[h] EXCEPT !.age = IF call[h].at # "idle" THEN call[h].age + 1
                                          ELSE 0]]
    /\ UNCHANGED late

Next ==
    \/ \E t \in Tokens : CreateHECToken(t) \/ RevokeHECToken(t)
    \/ \E h \in Handlers :
          \/ \E t \in Tokens : get(h, t)
          \/ ValidateHECToken(h)
          \/ set(h)
          \/ CallFails(h)
    \/ cleanup
    \/ Tick

Spec == Init /\ [][Next]_vars

(* The clock goes on, and with it the timeouts of the calls. *)
Fairness ==
    /\ WF_vars(Tick)
    /\ \A h \in Handlers : WF_vars(set(h) \/ CallFails(h))

FairSpec == Spec /\ Fairness

-----------------------------------------------------------------------------
(* Properties.                                                             *)

(* A revoked token is accepted for no longer than the lifetime of an entry  *)
(* and the time one call may take: an answer given just before the          *)
(* revocation may be cached that late.                                      *)
RevocationTakesEffect ==
    \A h \in Handlers : late[h] <= CacheTTL + CallTimeout

(* The cache never exceeds its capacity, whichever handlers set an entry    *)
(* in whatever order.                                                       *)
CacheIsBounded == Cardinality(Entries) <= MaxSize

(* What was cached is not the answer for ever, however often it is used: a  *)
(* refusal that a failing database caused does not stick.                   *)
EntriesEnd == \A t \in Tokens : Fresh(t) ~> ~Fresh(t)
=============================================================================
