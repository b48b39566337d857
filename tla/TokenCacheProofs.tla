--------------------------- MODULE TokenCacheProofs --------------------------
(***************************************************************************)
(* The type invariant of TokenCache, the bound on how long a revoked token *)
(* is accepted, and the bound on the size of the cache, for every number   *)
(* of tokens (infinitely many too) and handlers, every lifetime, timeout   *)
(* and capacity.                                                           *)
(***************************************************************************)
EXTENDS TokenCache, FiniteSetTheorems, TLAPS

(* What makes the bound inductive: a "valid" in the cache is older than the *)
(* revocation, but for the time of one call; a "valid" on its way is older  *)
(* than the revocation altogether; and a token that is not revoked has no   *)
(* revocation time.                                                         *)
NotRevokedIsZero == \A t \in Tokens : token[t].state # "revoked" => token[t].since = 0

CachedIsRecent ==
    \A t \in Tokens : cache[t].kind = "valid" => token[t].since <= cache[t].age + CallTimeout

AnsweredIsRecent ==
    \A h \in Handlers :
        /\ call[h].at # "idle" => call[h].token \in Tokens
        /\ call[h].at = "answered" => call[h].result # "none"
        /\ (call[h].at = "answered" /\ call[h].result = "valid") =>
              token[call[h].token].since <= call[h].age

IInv ==
    /\ TypeOK
    /\ NotRevokedIsZero
    /\ CachedIsRecent
    /\ AnsweredIsRecent
    /\ RevocationTakesEffect

(* The values that are stored have their types.                             *)
LEMMA Constants ==
    /\ Cap \in Nat /\ CacheTTL + CallTimeout < Cap /\ CacheTTL < Cap
    /\ NoEntry \in CacheRows
    /\ NoCall \in Calls
    /\ \A t \in Tokens : Ask(t) \in Calls
    /\ \A n \in 0 .. Cap : Older(n) \in 0 .. Cap /\ n <= Older(n)
BY CacheAssumption DEF Cap, NoEntry, NoCall, Ask, Older, CacheRows, Calls

(* Nothing is revoked, cached or asked at the start.                        *)
LEMMA InitIInv == Init => IInv
<1> SUFFICES ASSUME Init PROVE IInv
  OBVIOUS
<1> USE CacheAssumption, Constants DEF Init
<1>1. TypeOK
  BY DEF TypeOK, TokenRows
<1>2. NotRevokedIsZero /\ CachedIsRecent /\ AnsweredIsRecent
  BY DEF NotRevokedIsZero, CachedIsRecent, AnsweredIsRecent, NoEntry, NoCall
<1>3. RevocationTakesEffect
  BY DEF RevocationTakesEffect
<1> QED BY <1>1, <1>2, <1>3 DEF IInv

(* Every step keeps the types: ages saturate at Cap, calls at their timeout. *)
LEMMA TypeStep == TypeOK /\ AnsweredIsRecent /\ [Next]_vars => TypeOK'
<1> SUFFICES ASSUME TypeOK, AnsweredIsRecent, [Next]_vars PROVE TypeOK'
  OBVIOUS
<1> USE Constants DEF TypeOK
<1>1. ASSUME NEW t \in Tokens, CreateHECToken(t) PROVE TypeOK'
  BY <1>1 DEF CreateHECToken, TokenRows
<1>2. ASSUME NEW t \in Tokens, RevokeHECToken(t) PROVE TypeOK'
  BY <1>2 DEF RevokeHECToken, TokenRows
<1>3. ASSUME NEW h \in Handlers, NEW t \in Tokens, get(h, t) PROVE TypeOK'
  <2>1. token[t].since \in 0 .. Cap /\ 0 \in 0 .. Cap
    BY DEF TokenRows
  <2>2. late' \in [Handlers -> 0 .. Cap]
    BY <1>3, <2>1 DEF get, Accept
  <2>3. call' \in [Handlers -> Calls]
    BY <1>3 DEF get
  <2> QED BY <1>3, <2>2, <2>3 DEF get
<1>4. ASSUME NEW h \in Handlers, ValidateHECToken(h) PROVE TypeOK'
  <2>1. PICK r \in {"valid", "invalid"} :
            call' = [call EXCEPT ![h].at = "answered", ![h].result = r]
    BY <1>4 DEF ValidateHECToken
  <2>2. call' \in [Handlers -> Calls]
    BY <2>1 DEF Calls
  <2> QED BY <1>4, <2>2 DEF ValidateHECToken
<1>5. ASSUME NEW h \in Handlers, set(h) PROVE TypeOK'
  <2>1. call[h].token \in Tokens /\ [kind |-> call[h].result, age |-> 0] \in CacheRows
    BY <1>5 DEF set, AnsweredIsRecent, Calls, CacheRows
  <2>2. token[call[h].token].since \in 0 .. Cap /\ 0 \in 0 .. Cap
    BY <2>1 DEF TokenRows
  <2>3. cache' \in [Tokens -> CacheRows]
    BY <1>5, <2>1 DEF set
  <2>4. late' \in [Handlers -> 0 .. Cap]
    BY <1>5, <2>2 DEF set, Accept
  <2> QED BY <1>5, <2>3, <2>4 DEF set
<1>6. ASSUME NEW h \in Handlers, CallFails(h) PROVE TypeOK'
  BY <1>6 DEF CallFails
<1>7. ASSUME cleanup PROVE TypeOK'
  BY <1>7 DEF cleanup
<1>8. ASSUME Tick PROVE TypeOK'
  <2>1. token' \in [Tokens -> TokenRows]
    <3>1. ASSUME NEW t \in Tokens PROVE token'[t] \in TokenRows
      <4>1. token[t] \in TokenRows /\ token[t].since \in 0 .. Cap /\ 0 \in 0 .. Cap
        BY <3>1 DEF TokenRows
      <4>2. PICK n \in 0 .. Cap : token'[t] = [token[t] EXCEPT !.since = n]
        BY <1>8, <3>1, <4>1 DEF Tick
      <4> QED BY <4>1, <4>2 DEF TokenRows
    <3> QED BY <1>8, <3>1 DEF Tick
  <2>2. cache' \in [Tokens -> CacheRows]
    <3>1. ASSUME NEW t \in Tokens PROVE cache'[t] \in CacheRows
      <4>1. cache[t] \in CacheRows /\ cache[t].age \in 0 .. Cap /\ 0 \in 0 .. Cap
        BY <3>1 DEF CacheRows
      <4>2. PICK n \in 0 .. Cap : cache'[t] = [cache[t] EXCEPT !.age = n]
        BY <1>8, <3>1, <4>1 DEF Tick
      <4> QED BY <4>1, <4>2 DEF CacheRows
    <3> QED BY <1>8, <3>1 DEF Tick
  <2>3. call' \in [Handlers -> Calls]
    <3>1. ASSUME NEW h \in Handlers PROVE call'[h] \in Calls
      <4>1. /\ call[h] \in Calls /\ call[h].age \in 0 .. CallTimeout
            /\ 0 \in 0 .. CallTimeout
        BY <3>1, CacheAssumption DEF Calls
      <4>2. call[h].at # "idle" => call[h].age + 1 \in 0 .. CallTimeout
        BY <1>8, <3>1, <4>1, CacheAssumption DEF Tick
      <4>3. PICK n \in 0 .. CallTimeout : call'[h] = [call[h] EXCEPT !.age = n]
        BY <1>8, <3>1, <4>1, <4>2 DEF Tick
      <4> QED BY <4>1, <4>3 DEF Calls
    <3> QED BY <1>8, <3>1 DEF Tick
  <2> QED BY <1>8, <2>1, <2>2, <2>3 DEF Tick
<1>9. ASSUME UNCHANGED vars PROVE TypeOK'
  BY <1>9 DEF vars
<1> QED BY <1>1, <1>2, <1>3, <1>4, <1>5, <1>6, <1>7, <1>8, <1>9 DEF Next

(* Every step keeps the bound.  Only Tick makes a revocation older, and it  *)
(* ages calls and entries along with it; set moves the age of a call, at    *)
(* most CallTimeout, into an entry of age 0; get accepts an entry no older  *)
(* than CacheTTL.                                                           *)
LEMMA BoundStep == IInv /\ [Next]_vars => (NotRevokedIsZero /\ CachedIsRecent
                                           /\ AnsweredIsRecent /\ RevocationTakesEffect)'
<1> DEFINE Bound == NotRevokedIsZero /\ CachedIsRecent /\ AnsweredIsRecent
                    /\ RevocationTakesEffect
<1> SUFFICES ASSUME IInv, [Next]_vars PROVE Bound'
  OBVIOUS
<1>0. /\ TypeOK /\ NotRevokedIsZero /\ CachedIsRecent /\ AnsweredIsRecent
      /\ RevocationTakesEffect
  BY DEF IInv
<1>a. /\ CacheTTL \in Nat /\ CallTimeout \in Nat /\ Cap \in Nat
      /\ CacheTTL + CallTimeout < Cap
  BY CacheAssumption, Constants
<1>t. \A t \in Tokens : /\ token[t].since \in 0 .. Cap
                         /\ cache[t].age \in 0 .. Cap
  BY <1>0 DEF TypeOK, TokenRows, CacheRows
<1>c. \A h \in Handlers : call[h].age \in 0 .. CallTimeout /\ late[h] \in 0 .. Cap
  BY <1>0 DEF TypeOK, Calls
<1> USE <1>0, <1>a, <1>t, <1>c
<1>1. ASSUME NEW t \in Tokens, CreateHECToken(t) PROVE Bound'
  BY <1>1 DEF CreateHECToken, TypeOK, TokenRows, NotRevokedIsZero, CachedIsRecent,
             AnsweredIsRecent, RevocationTakesEffect
<1>2. ASSUME NEW t \in Tokens, RevokeHECToken(t) PROVE Bound'
  BY <1>2 DEF RevokeHECToken, TypeOK, TokenRows, NotRevokedIsZero, CachedIsRecent,
             AnsweredIsRecent, RevocationTakesEffect
<1>3. ASSUME NEW h \in Handlers, NEW t \in Tokens, get(h, t) PROVE Bound'
  <2>1. NotRevokedIsZero' /\ CachedIsRecent'
    BY <1>3 DEF get, NotRevokedIsZero, CachedIsRecent
  <2>2. AnsweredIsRecent'
    BY <1>3 DEF get, AnsweredIsRecent, TypeOK, Ask
  <2>3. RevocationTakesEffect'
    BY <1>3 DEF get, Accept, Fresh, TypeOK, CachedIsRecent, RevocationTakesEffect
  <2> QED BY <2>1, <2>2, <2>3
<1>4. ASSUME NEW h \in Handlers, ValidateHECToken(h) PROVE Bound'
  <2>1. PICK ok \in BOOLEAN :
            /\ ok => token[call[h].token].state = "active"
            /\ call' = [call EXCEPT ![h].at = "answered",
                                    ![h].result = IF ok THEN "valid" ELSE "invalid"]
    BY <1>4 DEF ValidateHECToken
  <2>2. call[h].token \in Tokens /\ call[h] \in Calls
    BY <1>4 DEF ValidateHECToken, AnsweredIsRecent, TypeOK
  <2>3. ok => token[call[h].token].since = 0
    BY <2>1, <2>2 DEF NotRevokedIsZero
  <2>4. AnsweredIsRecent'
    BY <1>4, <2>1, <2>2, <2>3 DEF ValidateHECToken, AnsweredIsRecent, TypeOK, Calls
  <2> QED BY <1>4, <2>4 DEF ValidateHECToken, NotRevokedIsZero, CachedIsRecent,
                           RevocationTakesEffect
<1>5. ASSUME NEW h \in Handlers, set(h) PROVE Bound'
  <2>1. /\ call[h].token \in Tokens
        /\ call[h].result = "valid" => token[call[h].token].since <= call[h].age
    BY <1>5 DEF set, AnsweredIsRecent
  <2>2. NotRevokedIsZero' /\ AnsweredIsRecent'
    BY <1>5 DEF set, NotRevokedIsZero, AnsweredIsRecent, TypeOK, NoCall
  <2>3. CachedIsRecent'
    BY <1>5, <2>1 DEF set, CachedIsRecent, NoEntry
  <2>4. RevocationTakesEffect'
    BY <1>5, <2>1 DEF set, Accept, TypeOK, RevocationTakesEffect
  <2> QED BY <2>2, <2>3, <2>4
<1>6. ASSUME NEW h \in Handlers, CallFails(h) PROVE Bound'
  BY <1>6 DEF CallFails, TypeOK, NoCall, NotRevokedIsZero, CachedIsRecent, AnsweredIsRecent,
             RevocationTakesEffect
<1>7. ASSUME cleanup PROVE Bound'
  BY <1>7 DEF cleanup, NoEntry, NotRevokedIsZero, CachedIsRecent, AnsweredIsRecent,
             RevocationTakesEffect
<1>8. ASSUME Tick PROVE Bound'
  <2>1. \A t \in Tokens :
            /\ token'[t].state = token[t].state
            /\ token'[t].since = IF token[t].state = "revoked"
                                 THEN Older(token[t].since) ELSE 0
            /\ cache'[t].kind = cache[t].kind
            /\ cache'[t].age = IF cache[t].kind # "none" THEN Older(cache[t].age) ELSE 0
    BY <1>8 DEF Tick, TypeOK, TokenRows, CacheRows
  <2>2. \A h \in Handlers :
            /\ call'[h].at = call[h].at /\ call'[h].token = call[h].token
            /\ call'[h].result = call[h].result
            /\ call'[h].age = IF call[h].at # "idle" THEN call[h].age + 1 ELSE 0
    BY <1>8 DEF Tick, TypeOK, Calls
  <2>3. NotRevokedIsZero'
    BY <2>1 DEF NotRevokedIsZero
  <2>4. CachedIsRecent'
    BY <2>1 DEF CachedIsRecent, Older
  <2>5. AnsweredIsRecent'
    BY <2>1, <2>2 DEF AnsweredIsRecent, Older
  <2>6. RevocationTakesEffect'
    BY <1>8 DEF Tick, RevocationTakesEffect
  <2> QED BY <2>3, <2>4, <2>5, <2>6
<1>9. ASSUME UNCHANGED vars PROVE Bound'
  BY <1>9 DEF vars, NotRevokedIsZero, CachedIsRecent, AnsweredIsRecent, RevocationTakesEffect
<1> QED BY <1>1, <1>2, <1>3, <1>4, <1>5, <1>6, <1>7, <1>8, <1>9 DEF Next

(* The strengthening is an invariant.                                       *)
LEMMA InductiveInvariant == Spec => []IInv
<1>1. IInv /\ [Next]_vars => IInv'
  BY TypeStep, BoundStep DEF IInv
<1> QED BY InitIInv, <1>1, PTL DEF Spec

(* Tokens, cache, calls and ages keep their types (client.go:44-151).       *)
THEOREM TokenCacheType == Spec => []TypeOK
<1>1. IInv => TypeOK
  BY DEF IInv
<1> QED BY InductiveInvariant, <1>1, PTL

(* No handler accepts a token revoked longer ago than the lifetime of a     *)
(* cache entry and the timeout of one call, whatever the number of tokens   *)
(* and handlers, the capacity and the failures (client.go:68-139).          *)
THEOREM RevocationBound == Spec => []RevocationTakesEffect
<1>1. IInv => RevocationTakesEffect
  BY DEF IInv
<1> QED BY InductiveInvariant, <1>1, PTL

-----------------------------------------------------------------------------
(* The number of entries.  Any number of answers may be on their way into  *)
(* the cache; each makes room before it is stored.                         *)
FiniteAndBounded == IsFiniteSet(Entries) /\ Cardinality(Entries) <= MaxSize

(* Fewer entries stay within the capacity. *)
LEMMA FewerEntries ==
    ASSUME FiniteAndBounded, Entries' \subseteq Entries
    PROVE  FiniteAndBounded'
<1>1. IsFiniteSet(Entries') /\ Cardinality(Entries') <= Cardinality(Entries)
  BY FS_Subset DEF FiniteAndBounded
<1>2. Cardinality(Entries') \in Nat /\ Cardinality(Entries) \in Nat /\ MaxSize \in Nat
  BY <1>1, FS_CardinalityType, CacheAssumption DEF FiniteAndBounded
<1> QED BY <1>1, <1>2 DEF FiniteAndBounded

(* What is kept when an answer is stored leaves room for one more. *)
LEMMA EvictMakesRoom ==
    ASSUME FiniteAndBounded, NEW kept \in Evict
    PROVE  IsFiniteSet(kept) /\ Cardinality(kept) + 1 <= MaxSize
<1>1. /\ IsFiniteSet(Entries) /\ Cardinality(Entries) \in Nat /\ MaxSize \in Nat
      /\ Cardinality(Entries) <= MaxSize
  BY FS_CardinalityType, CacheAssumption DEF FiniteAndBounded
<1>2. CASE Cardinality(Entries) >= MaxSize
  <2>1. PICK t \in Entries : kept = Entries \ {t}
    BY <1>2 DEF Evict
  <2>2. IsFiniteSet(Entries \ {t}) /\ Cardinality(Entries \ {t}) = Cardinality(Entries) - 1
    BY <1>1, FS_RemoveElement
  <2> QED BY <1>1, <2>1, <2>2
<1>3. CASE ~(Cardinality(Entries) >= MaxSize)
  BY <1>1, <1>3 DEF Evict
<1> QED BY <1>2, <1>3

(* Every step keeps the number of entries within the capacity. *)
LEMMA SizeStep == TypeOK /\ FiniteAndBounded /\ [Next]_vars => FiniteAndBounded'
<1> SUFFICES ASSUME TypeOK, FiniteAndBounded, [Next]_vars PROVE FiniteAndBounded'
  OBVIOUS
<1>1. ASSUME NEW h \in Handlers, set(h) PROVE FiniteAndBounded'
  <2>1. PICK kept \in Evict :
            cache' = [t \in Tokens |->
                        IF t = call[h].token THEN [kind |-> call[h].result, age |-> 0]
                        ELSE IF t \in kept THEN cache[t] ELSE NoEntry]
    BY <1>1 DEF set
  <2>2. Entries' \subseteq kept \cup {call[h].token}
    BY <2>1 DEF Entries, NoEntry
  <2>3. IsFiniteSet(kept) /\ Cardinality(kept) \in Nat /\ Cardinality(kept) + 1 <= MaxSize
    BY EvictMakesRoom, FS_CardinalityType
  <2>4. /\ IsFiniteSet(kept \cup {call[h].token})
        /\ Cardinality(kept \cup {call[h].token}) <= Cardinality(kept) + 1
        /\ Cardinality(kept \cup {call[h].token}) \in Nat
    <3>1. /\ IsFiniteSet(kept \cup {call[h].token})
          /\ \/ Cardinality(kept \cup {call[h].token}) = Cardinality(kept)
             \/ Cardinality(kept \cup {call[h].token}) = Cardinality(kept) + 1
      BY <2>3, FS_AddElement
    <3> QED BY <2>3, <3>1
  <2>5. /\ IsFiniteSet(Entries')
        /\ Cardinality(Entries') <= Cardinality(kept \cup {call[h].token})
    BY <2>2, <2>4, FS_Subset
  <2>6. Cardinality(Entries') \in Nat /\ MaxSize \in Nat
    BY <2>5, FS_CardinalityType, CacheAssumption
  <2> QED BY <2>3, <2>4, <2>5, <2>6 DEF FiniteAndBounded
<1>2. CASE cleanup
  <2>1. Entries' \subseteq Entries
    BY <1>2 DEF cleanup, Entries, NoEntry
  <2> QED BY <2>1, FewerEntries
<1>3. CASE Tick
  <2>1. \A t \in Tokens : cache'[t].kind = cache[t].kind
    BY <1>3 DEF Tick, TypeOK, CacheRows
  <2>2. Entries' \subseteq Entries
    BY <2>1 DEF Entries
  <2> QED BY <2>2, FewerEntries
<1>4. ASSUME cache' = cache PROVE FiniteAndBounded'
  BY <1>4 DEF FiniteAndBounded, Entries
<1>5. ASSUME NEW h \in Handlers, NEW t \in Tokens,
             \/ CreateHECToken(t) \/ RevokeHECToken(t) \/ get(h, t)
             \/ ValidateHECToken(h) \/ CallFails(h)
      PROVE  FiniteAndBounded'
  BY <1>4, <1>5 DEF CreateHECToken, RevokeHECToken, get, ValidateHECToken, CallFails
<1>6. ASSUME NEW t \in Tokens, CreateHECToken(t) \/ RevokeHECToken(t)
      PROVE  FiniteAndBounded'
  BY <1>4, <1>6 DEF CreateHECToken, RevokeHECToken
<1>7. ASSUME NEW h \in Handlers, ValidateHECToken(h) \/ CallFails(h)
      PROVE  FiniteAndBounded'
  BY <1>4, <1>7 DEF ValidateHECToken, CallFails
<1>8. CASE UNCHANGED vars
  BY <1>4, <1>8 DEF vars
<1> QED BY <1>1, <1>2, <1>3, <1>5, <1>6, <1>7, <1>8 DEF Next

(* The cache holds at most MaxSize entries, whichever handlers store their *)
(* answers in whatever order (client.go:68-139): the eviction and the      *)
(* insertion are under one lock, and a token that is already cached costs  *)
(* another its place but never adds one.                                   *)
THEOREM CacheBound == Spec => []CacheIsBounded
<1>1. Init => FiniteAndBounded
  <2> SUFFICES ASSUME Init PROVE FiniteAndBounded
    OBVIOUS
  <2>1. Entries = {}
    BY DEF Init, Entries, NoEntry
  <2> QED BY <2>1, FS_EmptySet, CacheAssumption DEF FiniteAndBounded
<1>2. FiniteAndBounded => CacheIsBounded
  BY DEF FiniteAndBounded, CacheIsBounded
<1> QED BY <1>1, <1>2, SizeStep, TokenCacheType, PTL DEF Spec
=============================================================================
