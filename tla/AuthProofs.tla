----------------------------- MODULE AuthProofs ------------------------------
(***************************************************************************)
(* Proofs about users and sessions, for every set of users, admins,        *)
(* sessions and tabs and every lifetime.                                   *)
(*                                                                         *)
(* Authority only fades: an account once deleted stays deleted, a session  *)
(* once ended stays ended, and a session's row names the same user and     *)
(* token for ever.  So a session that is live when a request is answered   *)
(* was live when the request began, and backed it, unless a login has made *)
(* it since; that is carried through the request, step by step.            *)
(***************************************************************************)
EXTENDS AuthSessions, TLAPS

(* The positions of a protected request before its answer. *)
Phase == {"session", "permissions", "refresh", "mint"}

Fits(t, s) == sessions[s].token = req[t].access \/ s \in req[t].refresh

(* A refresh token is one session, and its row is there. *)
OneStored(R) == (\A s \in R : Stored(s)) /\ (\A r, s \in R : r = s)

(* What was there when the request began, and what backed it. *)
BegunInv(t) ==
    /\ \A s \in req[t].before : Stored(s)
    /\ OneStored(req[t].refresh)
    /\ req[t].at \in Phase =>
          /\ req[t].refresh \subseteq req[t].before
          /\ \A s \in req[t].before : Live(s) /\ Fits(t, s) => s \in req[t].backing
          /\ req[t].minted = NoToken \/ req[t].backing # {}

(* What the checks passed so far have established. *)
CheckedInv(t) ==
    /\ req[t].at = "login" => req[t].user \in Users /\ users[req[t].user].state # "none"
    /\ req[t].at = "mint" =>
          /\ req[t].refresh # {}
          /\ \A r \in req[t].refresh :
                users[sessions[r].user].state = "active" => r \in req[t].backing
    /\ (req[t].at = "permissions" /\ req[t].minted = NoToken) =>
          \E s \in Sessions :
             /\ Stored(s) /\ sessions[s].token = req[t].access
             /\ (s \in req[t].before /\ users[req[t].access.user].state = "active") =>
                   s \in req[t].backing
    /\ (req[t].at = "ok" /\ req[t].backing = {}) =>
          \E s \in Sessions \ req[t].before : Stored(s) /\ sessions[s].user = req[t].user

(* A session belongs to an account that was created, and so does its token. *)
SessionInv ==
    \A s \in Sessions : Stored(s) =>
        /\ sessions[s].user \in Users
        /\ users[sessions[s].user].state # "none"
        /\ sessions[s].token.user = sessions[s].user

RequestInv == \A t \in Tabs : BegunInv(t) /\ CheckedInv(t)

IInv == TypeOK /\ SessionInv /\ OneStored(jar.refresh) /\ RequestInv

-----------------------------------------------------------------------------
(* Types.                                                                  *)

Positions == {"idle", "login", "respond", "session", "permissions", "refresh",
              "mint", "logout", "ok", "refused"}

(* A request that moves on keeps what it carries. *)
LEMMA MoveOn ==
    ASSUME NEW r \in Requests, NEW x \in Positions
    PROVE  /\ [r EXCEPT !.at = x] \in Requests
           /\ [r EXCEPT !.at = x].at = x
           /\ [r EXCEPT !.at = x].access = r.access
           /\ [r EXCEPT !.at = x].refresh = r.refresh
           /\ [r EXCEPT !.at = x].minted = r.minted
           /\ [r EXCEPT !.at = x].roles = r.roles
           /\ [r EXCEPT !.at = x].user = r.user
           /\ [r EXCEPT !.at = x].backing = r.backing
           /\ [r EXCEPT !.at = x].before = r.before
BY DEF Requests, Positions

(* The values things start with. *)
LEMMA StartTypes ==
    /\ NoToken \in Tokens /\ NoSession \in SessionRows /\ EmptyJar \in Jars
    /\ NoRequest \in Requests /\ NoEdit \in Edits /\ NoRow \in UserRows
    /\ 0 \in Time /\ Time \subseteq Nat
<1>1. 0 \in Time /\ Time \subseteq Nat /\ 0 \in 0 .. MaxTime + SessionTTL /\ 0 \in 0 .. MaxTime + AccessTTL
  BY SessionAssumption DEF Time
<1>2. NoToken \in Tokens
  BY <1>1, AccountAssumption DEF NoToken, Tokens
<1>3. NoRow \in UserRows
  BY AccountAssumption DEF NoRow, UserRows, Passwords
<1>4. NoEdit \in Edits
  BY <1>3 DEF NoEdit, Edits
<1>5. NoSession \in SessionRows
  BY <1>1, <1>2 DEF NoSession, SessionRows
<1>6. EmptyJar \in Jars
  BY <1>1, <1>2 DEF EmptyJar, Jars
<1>7. NoRequest \in Requests
  BY <1>2, AccountAssumption DEF NoRequest, Requests
<1>8. QED BY <1>1, <1>2, <1>3, <1>4, <1>5, <1>6, <1>7

(* A new token. *)
LEMMA NewToken ==
    ASSUME TypeOK, NEW u \in Users \cup {NoUser}, NEW row, row.roles \in Roles
    PROVE  GenerateAccessToken(u, row) \in Tokens /\ GenerateAccessToken(u, row).user = u
BY DEF TypeOK, GenerateAccessToken, Tokens

(* The lifetimes of what is made now. *)
LEMMA Lifetimes ==
    ASSUME TypeOK
    PROVE  now + SessionTTL \in 0 .. MaxTime + SessionTTL /\ now + AccessTTL \in 0 .. MaxTime + AccessTTL
BY SessionAssumption DEF TypeOK, Time

(* The calls on accounts keep the types of the rows and the calls. *)
LEMMA AccountTypes ==
    ASSUME AccountTypeOK, AccountNext
    PROVE  AccountTypeOK'
<1>0. users \in [Users -> UserRows] /\ edit \in [Admins -> Edits]
  BY DEF AccountTypeOK
<1>1. PICK a \in Admins :
          \/ \E u \in Users, r \in Roles, p \in Passwords : CreateUser(a, u, r, p)
          \/ \E u \in Users, r \in Roles : UpdateUserDetails(a, u, r)
          \/ \E u \in Users, p \in Passwords : ResetPassword(a, u, p)
          \/ \E u \in Users : BeginDelete(a, u)
          \/ UpdateUser(a) \/ DeleteUser(a)
  BY DEF AccountNext
<1>2. ASSUME NEW u \in Users, NEW r \in Roles, NEW p \in Passwords, CreateUser(a, u, r, p)
      PROVE  AccountTypeOK'
  <2>1. [state |-> "active", roles |-> r, password |-> p] \in UserRows
    BY DEF UserRows
  <2>2. QED BY <1>0, <1>2, <2>1 DEF CreateUser, AccountTypeOK
<1>3. ASSUME NEW op \in {"roles", "password", "delete"}, NEW u \in Users, NEW copy \in UserRows,
             ReadUser(a, op, u, copy)
      PROVE  AccountTypeOK'
  <2>1. [at |-> "write", op |-> op, user |-> u, row |-> copy] \in Edits
    BY DEF Edits
  <2>2. QED BY <1>0, <1>3, <2>1 DEF ReadUser, AccountTypeOK
<1>4. ASSUME NEW u \in Users, NEW r \in Roles, UpdateUserDetails(a, u, r)
      PROVE  AccountTypeOK'
  <2>1. [users[u] EXCEPT !.roles = r] \in UserRows
    BY <1>0 DEF UserRows
  <2>2. QED BY <1>3, <1>4, <2>1 DEF UpdateUserDetails
<1>5. ASSUME NEW u \in Users, NEW p \in Passwords, ResetPassword(a, u, p)
      PROVE  AccountTypeOK'
  <2>1. [users[u] EXCEPT !.password = p] \in UserRows
    BY <1>0 DEF UserRows
  <2>2. QED BY <1>3, <1>5, <2>1 DEF ResetPassword
<1>6. ASSUME NEW u \in Users, BeginDelete(a, u)
      PROVE  AccountTypeOK'
  BY <1>0, <1>3, <1>6 DEF BeginDelete
<1>7. edit[a].row.roles \in Roles /\ edit[a].row.password \in Passwords
  BY <1>0 DEF Edits, UserRows
<1>8. CASE UpdateUser(a)
  <2>1. users' \in [Users -> UserRows]
    BY <1>0, <1>7, <1>8 DEF UpdateUser, UserRows
  <2>2. edit' \in [Admins -> Edits]
    BY <1>0, <1>8, StartTypes DEF UpdateUser, Return
  <2>3. QED BY <2>1, <2>2 DEF AccountTypeOK
<1>9. CASE DeleteUser(a)
  <2>1. users' \in [Users -> UserRows]
    BY <1>0, <1>9 DEF DeleteUser, UserRows
  <2>2. edit' \in [Admins -> Edits]
    BY <1>0, <1>9, StartTypes DEF DeleteUser, Return
  <2>3. QED BY <2>1, <2>2 DEF AccountTypeOK
<1>10. QED BY <1>1, <1>2, <1>4, <1>5, <1>6, <1>8, <1>9

-----------------------------------------------------------------------------
(* Authority only fades.                                                   *)

(* An account goes from not created to active to deleted. *)
LEMMA AccountsFade ==
    ASSUME AccountTypeOK, AccountNext \/ UNCHANGED accountVars, NEW u \in Users
    PROVE  /\ users[u].state # "none" => users'[u].state # "none"
           /\ users[u].state # "none" /\ users'[u].state = "active" => users[u].state = "active"
           /\ users[u].state = "deleted" => users'[u].state = "deleted"
<1>0. users \in [Users -> UserRows]
  BY DEF AccountTypeOK
<1>1. CASE users' = users
  BY <1>1
<1>2. ASSUME NEW a \in Admins, NEW v \in Users, NEW r \in Roles, NEW p \in Passwords,
             CreateUser(a, v, r, p)
      PROVE  users'[u] = users[u] \/ (users[u].state = "none" /\ users'[u].state = "active")
  BY <1>0, <1>2 DEF CreateUser
<1>3. ASSUME NEW a \in Admins, UpdateUser(a)
      PROVE  users'[u].state = users[u].state
  BY <1>0, <1>3 DEF UpdateUser, UserRows
<1>4. ASSUME NEW a \in Admins, DeleteUser(a)
      PROVE  users'[u] = users[u] \/ users'[u].state = "deleted"
  BY <1>0, <1>4 DEF DeleteUser, UserRows
<1>5. ASSUME NEW a \in Admins, NEW v \in Users,
             \/ \E r \in Roles : UpdateUserDetails(a, v, r)
             \/ \E p \in Passwords : ResetPassword(a, v, p)
             \/ BeginDelete(a, v)
      PROVE  users' = users
  BY <1>5 DEF UpdateUserDetails, ResetPassword, BeginDelete, ReadUser
<1>6. CASE AccountNext
  BY <1>1, <1>2, <1>3, <1>4, <1>5, <1>6 DEF AccountNext
<1>7. QED BY <1>1, <1>6 DEF accountVars

(* A step changes the accounts as AccountNext does, or not at all. *)
LEMMA AccountStep ==
    ASSUME [Next]_vars
    PROVE  AccountNext \/ UNCHANGED accountVars
<1>1. ASSUME NEW t \in Tabs,
             \/ LoginLookup(t) \/ CreateSession(t) \/ LoginRespond(t) \/ Protect(t)
             \/ ValidateToken(t) \/ ValidatePermissions(t) \/ RefreshToken(t)
             \/ MintRefreshed(t) \/ CallFails(t) \/ Logout(t) \/ LogoutRespond(t)
      PROVE  UNCHANGED accountVars
  BY <1>1, Zenon DEF LoginLookup, CreateSession, LoginRespond, Protect, ValidateToken,
        ValidatePermissions, RefreshToken, MintRefreshed, CallFails, Logout, LogoutRespond
<1>2. CASE Tick
  BY <1>2 DEF Tick
<1>3. CASE UNCHANGED vars
  BY <1>3 DEF vars, accountVars
<1>4. QED BY <1>1, <1>2, <1>3 DEF Next

(* A session's row is inserted once, and later only revoked; the clock     *)
(* does not go back.                                                       *)
LEMMA SessionStep ==
    ASSUME TypeOK, [Next]_vars
    PROVE  /\ now' = now \/ (now' = now + 1 /\ now < MaxTime)
           /\ \A s \in Sessions :
                 \/ sessions'[s] = sessions[s]
                 \/ ~Stored(s)
                 \/ sessions'[s] = [sessions[s] EXCEPT !.revoked = TRUE]
<1>0. sessions \in [Sessions -> SessionRows]
  BY DEF TypeOK
<1>1. ASSUME NEW t \in Tabs,
             \/ LoginLookup(t) \/ LoginRespond(t) \/ Protect(t)
             \/ ValidateToken(t) \/ ValidatePermissions(t) \/ RefreshToken(t)
             \/ MintRefreshed(t) \/ CallFails(t) \/ LogoutRespond(t)
      PROVE  UNCHANGED <<now, sessions>>
  BY <1>1, Zenon DEF LoginLookup, LoginRespond, Protect, ValidateToken,
        ValidatePermissions, RefreshToken, MintRefreshed, CallFails, LogoutRespond
<1>2. ASSUME NEW t \in Tabs, CreateSession(t)
      PROVE  now' = now /\ \A s \in Sessions : sessions'[s] = sessions[s] \/ ~Stored(s)
  <2>1. PICK n \in Sessions :
           ~Stored(n) /\ \E row : sessions' = [sessions EXCEPT ![n] = row]
    BY <1>2, Zenon DEF CreateSession
  <2>2. QED BY <1>0, <1>2, <2>1 DEF CreateSession
<1>3. ASSUME NEW t \in Tabs, Logout(t)
      PROVE  /\ now' = now
             /\ \A s \in Sessions : \/ sessions'[s] = sessions[s]
                                    \/ sessions'[s] = [sessions[s] EXCEPT !.revoked = TRUE]
  BY <1>3 DEF Logout
<1>4. CASE Tick
  BY <1>4 DEF Tick
<1>5. CASE UNCHANGED vars \/ (AccountNext /\ UNCHANGED sessionVars)
  BY <1>5 DEF vars, sessionVars
<1>6. QED BY <1>1, <1>2, <1>3, <1>4, <1>5 DEF Next

(* A session keeps its user and its token, and once ended it stays ended. *)
LEMMA SessionsFade ==
    ASSUME IInv, [Next]_vars, NEW s \in Sessions, Stored(s)
    PROVE  /\ Stored(s)' /\ sessions'[s].user = sessions[s].user
           /\ sessions'[s].token = sessions[s].token
           /\ IsActive(s)' => IsActive(s)
           /\ Live(s)' => Live(s)
<1>0. /\ TypeOK /\ sessions[s] \in SessionRows /\ now \in Nat /\ sessions[s].expires \in Nat
  BY SessionAssumption DEF IInv, TypeOK, SessionRows, Time
<1>1. \/ sessions'[s] = sessions[s]
      \/ sessions'[s] = [sessions[s] EXCEPT !.revoked = TRUE]
  BY <1>0, SessionStep
<1>2. /\ sessions'[s].user = sessions[s].user /\ sessions'[s].token = sessions[s].token
      /\ sessions'[s].expires = sessions[s].expires
      /\ sessions[s].revoked => sessions'[s].revoked
  BY <1>0, <1>1 DEF SessionRows
<1>3. now' \in Nat /\ now <= now'
  BY <1>0, SessionStep
<1>4. IsActive(s)' => IsActive(s)
  BY <1>0, <1>2, <1>3 DEF IsActive
<1>5. users[sessions[s].user].state # "none" /\ sessions[s].user \in Users
  BY DEF IInv, SessionInv
<1>6. users'[sessions[s].user].state = "active" => users[sessions[s].user].state = "active"
  BY <1>0, <1>5, AccountStep, AccountsFade DEF TypeOK
<1>7. Stored(s)'
  BY <1>2 DEF Stored
<1>8. Live(s)' => Live(s)
  BY <1>2, <1>4, <1>6 DEF Live
<1>9. QED BY <1>2, <1>4, <1>7, <1>8

(* A request that does not move keeps what is known of it. *)
LEMMA OthersKeep ==
    ASSUME IInv, [Next]_vars, NEW t \in Tabs, req'[t] = req[t]
    PROVE  BegunInv(t)' /\ CheckedInv(t)'
<1>0. /\ req[t] \in Requests /\ req[t].before \subseteq Sessions /\ req[t].refresh \subseteq Sessions
      /\ BegunInv(t) /\ CheckedInv(t)
  BY DEF IInv, TypeOK, Requests, RequestInv
<1>1. \A s \in Sessions : Stored(s) =>
          /\ Stored(s)' /\ sessions'[s].user = sessions[s].user
          /\ sessions'[s].token = sessions[s].token
          /\ Live(s)' => Live(s)
  BY SessionsFade
<1>2. \A u \in Users : users[u].state # "none" =>
          /\ users'[u].state # "none"
          /\ users'[u].state = "active" => users[u].state = "active"
  BY AccountStep, AccountsFade DEF IInv, TypeOK
<1>3. \A s \in Sessions : Stored(s) =>
          /\ sessions[s].user \in Users /\ users[sessions[s].user].state # "none"
          /\ sessions[s].token.user = sessions[s].user
  BY DEF IInv, SessionInv
<1>4. BegunInv(t)'
  <2>1. /\ \A s \in req[t].before : Stored(s)'
        /\ \A s \in req[t].refresh : Stored(s)'
        /\ \A r, s \in req[t].refresh : r = s
    BY <1>0, <1>1 DEF BegunInv, OneStored
  <2>2. req[t].at \in Phase =>
            /\ req[t].refresh \subseteq req[t].before
            /\ \A s \in req[t].before : Live(s)' /\ Fits(t, s)' => s \in req[t].backing
            /\ req[t].minted = NoToken \/ req[t].backing # {}
    BY <1>0, <1>1 DEF BegunInv, Fits
  <2>3. QED BY <2>1, <2>2 DEF BegunInv, OneStored
<1>5. CheckedInv(t)'
  <2>1. req[t].at = "login" => req[t].user \in Users /\ users'[req[t].user].state # "none"
    BY <1>0, <1>2 DEF CheckedInv
  <2>2. req[t].at = "mint" =>
            /\ req[t].refresh # {}
            /\ \A r \in req[t].refresh :
                  users'[sessions'[r].user].state = "active" => r \in req[t].backing
    BY <1>0, <1>1, <1>2, <1>3 DEF CheckedInv, BegunInv, OneStored
  <2>3. ASSUME req[t].at = "permissions", req[t].minted = NoToken
        PROVE  \E s \in Sessions :
                  /\ Stored(s)' /\ sessions'[s].token = req[t].access
                  /\ (s \in req[t].before /\ users'[req[t].access.user].state = "active") =>
                        s \in req[t].backing
    <3>1. PICK s \in Sessions :
              /\ Stored(s) /\ sessions[s].token = req[t].access
              /\ (s \in req[t].before /\ users[req[t].access.user].state = "active") =>
                    s \in req[t].backing
      BY <1>0, <2>3 DEF CheckedInv
    <3>2. req[t].access.user \in Users /\ users[req[t].access.user].state # "none"
      BY <1>3, <3>1
    <3>3. QED BY <1>1, <1>2, <3>1, <3>2
  <2>4. (req[t].at = "ok" /\ req[t].backing = {}) =>
            \E s \in Sessions \ req[t].before : Stored(s)' /\ sessions'[s].user = req[t].user
    BY <1>0, <1>1 DEF CheckedInv
  <2>5. QED BY <2>1, <2>2, <2>3, <2>4 DEF CheckedInv
<1>6. QED BY <1>4, <1>5

-----------------------------------------------------------------------------
(* The steps of a request.                                                 *)

(* A request that is over, or not one that is to be protected: only the    *)
(* sessions it names have to be there.                                     *)
LEMMA Settled ==
    ASSUME NEW t \in Tabs, req'[t].at \in {"idle", "respond", "logout", "refused"},
           \A s \in req'[t].before : Stored(s)',
           \A s \in req'[t].refresh : Stored(s)',
           \A r, s \in req'[t].refresh : r = s
    PROVE  BegunInv(t)' /\ CheckedInv(t)'
<1>1. req'[t].at \notin Phase
  BY DEF Phase
<1>2. BegunInv(t)'
  BY <1>1 DEF BegunInv, OneStored
<1>3. CheckedInv(t)'
  BY DEF CheckedInv
<1>4. QED BY <1>2, <1>3

(* A refusal, wherever the request was. *)
LEMMA Refused ==
    ASSUME IInv, [Next]_vars, NEW t \in Tabs, Refuse(t)
    PROVE  req'[t] \in Requests /\ BegunInv(t)' /\ CheckedInv(t)'
<1>0. /\ req \in [Tabs -> Requests] /\ req[t] \in Requests /\ BegunInv(t)
      /\ req[t].before \subseteq Sessions /\ req[t].refresh \subseteq Sessions
  BY DEF IInv, TypeOK, RequestInv, Requests
<1>1. req'[t] = [req[t] EXCEPT !.at = "refused"] /\ "refused" \in Positions
  BY <1>0 DEF Refuse, Goto, Positions
<1>2. /\ req'[t] \in Requests /\ req'[t].at = "refused"
      /\ req'[t].before = req[t].before /\ req'[t].refresh = req[t].refresh
  BY <1>0, <1>1, MoveOn
<1>3. /\ \A s \in req'[t].before : Stored(s)'
      /\ \A s \in req'[t].refresh : Stored(s)'
      /\ \A r, s \in req'[t].refresh : r = s
  BY <1>0, <1>2, SessionsFade DEF BegunInv, OneStored
<1>4. QED BY <1>2, <1>3, Settled

(* Nothing but requests and the cookie jar changes. *)
LEMMA SameView ==
    ASSUME UNCHANGED <<users, now, sessions>>, NEW s
    PROVE  (Stored(s)' <=> Stored(s)) /\ (IsActive(s)' <=> IsActive(s)) /\ (Live(s)' <=> Live(s))
BY DEF Stored, IsActive, Live

(* Within a protected request only its position and the minted token       *)
(* change.                                                                 *)
LEMMA MovedOn ==
    ASSUME IInv, NEW t \in Tabs, NEW x \in Positions, UNCHANGED <<users, now, sessions>>,
           req[t].at \in Phase, Goto(t, [req[t] EXCEPT !.at = x])
    PROVE  /\ req'[t] \in Requests /\ BegunInv(t)'
           /\ req'[t].at = x /\ req'[t].access = req[t].access
           /\ req'[t].refresh = req[t].refresh /\ req'[t].minted = req[t].minted
           /\ req'[t].backing = req[t].backing /\ req'[t].before = req[t].before
<1>0. req \in [Tabs -> Requests] /\ req[t] \in Requests /\ BegunInv(t)
  BY DEF IInv, TypeOK, RequestInv
<1>1. req'[t] = [req[t] EXCEPT !.at = x]
  BY <1>0 DEF Goto
<1>2. /\ req'[t] \in Requests /\ req'[t].at = x /\ req'[t].access = req[t].access
      /\ req'[t].refresh = req[t].refresh /\ req'[t].minted = req[t].minted
      /\ req'[t].backing = req[t].backing /\ req'[t].before = req[t].before
  BY <1>0, <1>1, MoveOn
<1>3. \A s : (Stored(s)' <=> Stored(s)) /\ (Live(s)' <=> Live(s))
  BY SameView
<1>4. \A s : Fits(t, s)' <=> Fits(t, s)
  BY <1>2 DEF Fits
<1>5. BegunInv(t)'
  BY <1>0, <1>2, <1>3, <1>4 DEF BegunInv, OneStored
<1>6. QED BY <1>2, <1>5

(* A token that is not valid: the refresh cookie is tried, or 401. *)
LEMMA InvalidStep ==
    ASSUME IInv, [Next]_vars, NEW t \in Tabs, UNCHANGED <<users, now, sessions>>,
           req[t].at \in Phase, Invalid(t)
    PROVE  req'[t] \in Requests /\ BegunInv(t)' /\ CheckedInv(t)'
<1>1. CASE Goto(t, [req[t] EXCEPT !.at = "refresh"])
  <2>1. "refresh" \in Positions
    BY DEF Positions
  <2>2. req'[t] \in Requests /\ BegunInv(t)' /\ req'[t].at = "refresh"
    BY <1>1, <2>1, MovedOn
  <2>3. CheckedInv(t)'
    BY <2>2 DEF CheckedInv
  <2>4. QED BY <2>2, <2>3
<1>2. CASE Refuse(t)
  BY <1>2, Refused
<1>3. QED BY <1>1, <1>2 DEF Invalid

(* ValidateToken: a session that is active now and was there when the      *)
(* request began backed it, if its account still exists.                   *)
LEMMA ValidateTokenStep ==
    ASSUME IInv, [Next]_vars, NEW t \in Tabs, ValidateToken(t)
    PROVE  req'[t] \in Requests /\ BegunInv(t)' /\ CheckedInv(t)'
<1>0. UNCHANGED <<users, now, sessions>> /\ req[t].at = "session" /\ req[t].at \in Phase
  BY DEF ValidateToken, accountVars, Phase
<1>1. CASE Invalid(t)
  BY <1>0, <1>1, InvalidStep
<1>2. CASE /\ \E s \in GetSessionByAccessToken(Current(t)) : IsActive(s)
           /\ Goto(t, [req[t] EXCEPT !.at = "permissions"])
  <2>1. "permissions" \in Positions
    BY DEF Positions
  <2>2. /\ req'[t] \in Requests /\ BegunInv(t)' /\ req'[t].at = "permissions"
        /\ req'[t].access = req[t].access /\ req'[t].minted = req[t].minted
        /\ req'[t].backing = req[t].backing /\ req'[t].before = req[t].before
    BY <1>0, <1>2, <2>1, MovedOn
  <2>3. PICK s \in Sessions : Stored(s) /\ sessions[s].token = Current(t) /\ IsActive(s)
    BY <1>2 DEF GetSessionByAccessToken
  <2>4. ASSUME req[t].minted = NoToken, s \in req[t].before,
               users[req[t].access.user].state = "active"
        PROVE  s \in req[t].backing
    <3>1. sessions[s].token = req[t].access
      BY <2>3, <2>4 DEF Current
    <3>2. sessions[s].user = req[t].access.user
      BY <2>3, <3>1 DEF IInv, SessionInv
    <3>3. Live(s) /\ Fits(t, s)
      BY <2>3, <2>4, <3>1, <3>2 DEF Live, Fits
    <3>4. QED BY <1>0, <2>4, <3>3 DEF IInv, RequestInv, BegunInv
  <2>5. req[t].minted = NoToken => sessions[s].token = req[t].access
    BY <2>3 DEF Current
  <2>6. Stored(s)'
    BY <1>0, <2>3 DEF Stored
  <2>7. CheckedInv(t)'
    BY <1>0, <2>2, <2>4, <2>5, <2>6 DEF CheckedInv
  <2>8. QED BY <2>2, <2>7
<1>3. QED BY <1>1, <1>2 DEF ValidateToken

(* ValidatePermissions: the account exists, so the session that was found  *)
(* backed the request or is newer than it.                                 *)
LEMMA ValidatePermissionsStep ==
    ASSUME IInv, [Next]_vars, NEW t \in Tabs, ValidatePermissions(t)
    PROVE  req'[t] \in Requests /\ BegunInv(t)' /\ CheckedInv(t)'
<1>0. /\ UNCHANGED <<users, now, sessions>> /\ req[t].at = "permissions" /\ req[t].at \in Phase
      /\ req \in [Tabs -> Requests] /\ req[t] \in Requests /\ BegunInv(t) /\ CheckedInv(t)
  BY DEF ValidatePermissions, accountVars, Phase, IInv, TypeOK, RequestInv
<1>1. CASE Invalid(t)
  BY <1>0, <1>1, InvalidStep
<1>2. CASE /\ GetUserByID(Current(t).user)
           /\ Goto(t, [req[t] EXCEPT !.at = "ok", !.user = Current(t).user,
                                     !.roles = Current(t).roles])
  <2>1. Current(t) \in Tokens
    BY <1>0 DEF Current, Requests
  <2>2. Current(t).user \in Users \cup {NoUser} /\ Current(t).roles \in Roles
    BY <2>1 DEF Tokens
  <2>3. PICK r : r = [req[t] EXCEPT !.at = "ok", !.user = Current(t).user,
                                    !.roles = Current(t).roles]
    OBVIOUS
  <2>4. req'[t] = r
    BY <1>0, <1>2, <2>3 DEF Goto
  <2>5. /\ r \in Requests /\ r.at = "ok" /\ r.user = Current(t).user
        /\ r.backing = req[t].backing /\ r.before = req[t].before /\ r.refresh = req[t].refresh
    BY <1>0, <2>2, <2>3 DEF Requests
  <2>6. BegunInv(t)'
    <3>1. r.at \notin Phase
      BY <2>5 DEF Phase
    <3>2. \A s : Stored(s)' <=> Stored(s)
      BY <1>0, SameView
    <3>3. QED BY <1>0, <2>4, <2>5, <3>1, <3>2 DEF BegunInv, OneStored
  <2>7. ASSUME r.backing = {}
        PROVE  \E s \in Sessions \ r.before : Stored(s)' /\ sessions'[s].user = r.user
    <3>1. req[t].minted = NoToken /\ Current(t) = req[t].access
      BY <1>0, <2>5, <2>7 DEF BegunInv, Current
    <3>2. PICK s \in Sessions :
              /\ Stored(s) /\ sessions[s].token = req[t].access
              /\ (s \in req[t].before /\ users[req[t].access.user].state = "active") =>
                    s \in req[t].backing
      BY <1>0, <3>1 DEF CheckedInv
    <3>3. s \notin r.before
      BY <1>2, <2>5, <2>7, <3>1, <3>2 DEF GetUserByID
    <3>4. sessions[s].user = r.user
      BY <2>5, <3>1, <3>2 DEF IInv, SessionInv
    <3>5. QED BY <1>0, <3>2, <3>3, <3>4 DEF Stored
  <2>8. CheckedInv(t)'
    BY <2>4, <2>5, <2>7 DEF CheckedInv
  <2>9. QED BY <2>4, <2>5, <2>6, <2>8
<1>3. QED BY <1>1, <1>2 DEF ValidatePermissions

(* RefreshToken: the session of the refresh cookie was there when the      *)
(* request began; if its account still exists, it backed the request.      *)
LEMMA RefreshTokenStep ==
    ASSUME IInv, [Next]_vars, NEW t \in Tabs, RefreshToken(t)
    PROVE  req'[t] \in Requests /\ BegunInv(t)' /\ CheckedInv(t)'
<1>0. /\ UNCHANGED <<users, now, sessions>> /\ req[t].at = "refresh" /\ req[t].at \in Phase
      /\ BegunInv(t) /\ req[t].refresh \subseteq Sessions
  BY DEF RefreshToken, accountVars, Phase, IInv, RequestInv, TypeOK, Requests
<1>1. CASE Refuse(t)
  BY <1>1, Refused
<1>2. CASE /\ \E s \in req[t].refresh : IsActive(s)
           /\ Goto(t, [req[t] EXCEPT !.at = "mint"])
  <2>1. "mint" \in Positions
    BY DEF Positions
  <2>2. /\ req'[t] \in Requests /\ BegunInv(t)' /\ req'[t].at = "mint"
        /\ req'[t].refresh = req[t].refresh /\ req'[t].backing = req[t].backing
    BY <1>0, <1>2, <2>1, MovedOn
  <2>3. ASSUME NEW r \in req[t].refresh, users[sessions[r].user].state = "active"
        PROVE  r \in req[t].backing
    <3>1. IsActive(r) /\ Stored(r) /\ r \in req[t].before
      BY <1>0, <1>2 DEF BegunInv, OneStored
    <3>2. Live(r) /\ Fits(t, r)
      BY <2>3, <3>1 DEF Live, Fits
    <3>3. QED BY <1>0, <3>1, <3>2 DEF BegunInv
  <2>4. CheckedInv(t)'
    BY <1>0, <1>2, <2>2, <2>3 DEF CheckedInv
  <2>5. QED BY <2>2, <2>4
<1>3. QED BY <1>1, <1>2 DEF RefreshToken

(* MintRefreshed: a token is only minted for a request that was backed. *)
LEMMA MintRefreshedStep ==
    ASSUME IInv, [Next]_vars, NEW t \in Tabs, MintRefreshed(t)
    PROVE  req'[t] \in Requests /\ BegunInv(t)' /\ CheckedInv(t)'
<1>0. /\ UNCHANGED <<users, now, sessions>> /\ req[t].at = "mint" /\ req[t].at \in Phase
      /\ req \in [Tabs -> Requests] /\ req[t] \in Requests
      /\ BegunInv(t) /\ CheckedInv(t) /\ req[t].refresh \subseteq Sessions
  BY DEF MintRefreshed, accountVars, Phase, IInv, RequestInv, TypeOK, Requests
<1>1. PICK c : c = CHOOSE s \in req[t].refresh : TRUE
  OBVIOUS
<1>2. CASE Refuse(t)
  BY <1>2, Refused
<1>3. CASE /\ GetUserByID(sessions[c].user)
           /\ Goto(t, [req[t] EXCEPT !.at = "session",
                           !.minted = GenerateAccessToken(sessions[c].user,
                                                          users[sessions[c].user])])
  <2>1. c \in req[t].refresh
    BY <1>0, <1>1 DEF CheckedInv
  <2>2. Stored(c) /\ c \in Sessions
    BY <1>0, <2>1 DEF BegunInv, OneStored
  <2>3. sessions[c].user \in Users
    BY <2>2 DEF IInv, SessionInv
  <2>4. req[t].backing # {}
    BY <1>0, <1>3, <2>1 DEF CheckedInv, GetUserByID
  <2>5. users[sessions[c].user].roles \in Roles
    BY <2>3 DEF IInv, TypeOK, AccountTypeOK, UserRows
  <2>6. PICK tok \in Tokens : tok = GenerateAccessToken(sessions[c].user, users[sessions[c].user])
    BY <2>3, <2>5, NewToken DEF IInv
  <2>7. PICK r : r = [req[t] EXCEPT !.at = "session", !.minted = tok]
    OBVIOUS
  <2>8. req'[t] = r
    BY <1>0, <1>3, <2>6, <2>7 DEF Goto
  <2>9. /\ r \in Requests /\ r.at = "session" /\ r.access = req[t].access
        /\ r.backing = req[t].backing /\ r.before = req[t].before /\ r.refresh = req[t].refresh
    BY <1>0, <2>7 DEF Requests
  <2>10. \A s : (Stored(s)' <=> Stored(s)) /\ (Live(s)' <=> Live(s)) /\ (Fits(t, s)' <=> Fits(t, s))
    BY <1>0, <2>8, <2>9, SameView DEF Fits
  <2>11. BegunInv(t)'
    BY <1>0, <2>4, <2>8, <2>9, <2>10 DEF BegunInv, OneStored
  <2>12. CheckedInv(t)'
    BY <2>8, <2>9 DEF CheckedInv
  <2>13. QED BY <2>8, <2>9, <2>11, <2>12
<1>4. QED BY <1>1, <1>2, <1>3 DEF MintRefreshed

(* The authenticate service does not answer. *)
LEMMA CallFailsStep ==
    ASSUME IInv, [Next]_vars, NEW t \in Tabs, CallFails(t)
    PROVE  req'[t] \in Requests /\ BegunInv(t)' /\ CheckedInv(t)'
<1>1. CASE Refuse(t)
  BY <1>1, Refused
<1>2. CASE req[t].at \in {"session", "permissions"} /\ Invalid(t)
  <2>1. UNCHANGED <<users, now, sessions>> /\ req[t].at \in Phase
    BY <1>2 DEF CallFails, accountVars, Phase
  <2>2. QED BY <1>2, <2>1, InvalidStep
<1>3. QED BY <1>1, <1>2 DEF CallFails

(* A protected request begins: what backs it is recorded. *)
LEMMA ProtectStep ==
    ASSUME IInv, [Next]_vars, NEW t \in Tabs, Protect(t)
    PROVE  req'[t] \in Requests /\ BegunInv(t)' /\ CheckedInv(t)'
<1>0. /\ UNCHANGED <<users, now, sessions>> /\ req \in [Tabs -> Requests]
      /\ jar \in Jars /\ OneStored(jar.refresh)
  BY DEF Protect, accountVars, IInv, TypeOK
<1>1. /\ SentAccess \in Tokens /\ SentRefresh \subseteq Sessions /\ SentRefresh \subseteq jar.refresh
  BY <1>0, StartTypes DEF SentAccess, SentRefresh, Jars
<1>2. PICK B : B = {s \in GetSessionByAccessToken(SentAccess) \cup SentRefresh : Live(s)}
  OBVIOUS
<1>3. PICK F : F = {s \in Sessions : Stored(s)}
  OBVIOUS
<1>4. B \subseteq Sessions /\ F \subseteq Sessions
  BY <1>1, <1>2, <1>3 DEF GetSessionByAccessToken
<1>5. PICK x \in {"refused", "session"} :
          req'[t] = [NoRequest EXCEPT !.at = x, !.access = SentAccess, !.refresh = SentRefresh,
                                      !.backing = B, !.before = F]
  BY <1>0, <1>2, <1>3 DEF Protect, Goto
<1>6. /\ req'[t] \in Requests /\ req'[t].at = x /\ req'[t].access = SentAccess
      /\ req'[t].refresh = SentRefresh /\ req'[t].minted = NoToken
      /\ req'[t].backing = B /\ req'[t].before = F
  <2>1. PICK n \in Requests : n = NoRequest
    BY StartTypes
  <2>2. n.minted = NoToken
    BY <2>1 DEF NoRequest
  <2>3. PICK a \in Tokens, R \in SUBSET Sessions : a = SentAccess /\ R = SentRefresh
    BY <1>1
  <2>4. req'[t] = [n EXCEPT !.at = x, !.access = a, !.refresh = R, !.backing = B, !.before = F]
    BY <1>5, <2>1, <2>3
  <2>5. /\ req'[t] \in Requests /\ req'[t].at = x /\ req'[t].access = a
        /\ req'[t].refresh = R /\ req'[t].minted = n.minted
        /\ req'[t].backing = B /\ req'[t].before = F
    BY <1>4, <2>4 DEF Requests
  <2>6. QED BY <2>2, <2>3, <2>5
<1>7. \A s : (Stored(s)' <=> Stored(s)) /\ (Live(s)' <=> Live(s))
  BY <1>0, SameView
<1>8. /\ \A s \in F : Stored(s)'
      /\ \A s \in SentRefresh : Stored(s)'
      /\ \A r, s \in SentRefresh : r = s
      /\ SentRefresh \subseteq F
  BY <1>0, <1>1, <1>3, <1>7 DEF OneStored
<1>9. \A s \in F : Live(s)' /\ Fits(t, s)' => s \in B
  <2>1. ASSUME NEW s \in F, Live(s)', Fits(t, s)' PROVE s \in B
    <3>1. Live(s) /\ Stored(s) /\ s \in Sessions
      BY <1>3, <1>7, <2>1
    <3>2. sessions[s].token = SentAccess \/ s \in SentRefresh
      BY <1>0, <1>6, <2>1 DEF Fits
    <3>3. QED BY <1>2, <3>1, <3>2 DEF GetSessionByAccessToken
  <2>2. QED BY <2>1
<1>10. BegunInv(t)'
  BY <1>6, <1>8, <1>9 DEF BegunInv, OneStored
<1>11. CheckedInv(t)'
  BY <1>6 DEF CheckedInv
<1>12. QED BY <1>6, <1>10, <1>11

(* A login goes on with an account that was read as active. *)
LEMMA LoginLookupStep ==
    ASSUME IInv, NEW t \in Tabs, LoginLookup(t)
    PROVE  req'[t] \in Requests /\ BegunInv(t)' /\ CheckedInv(t)'
<1>0. req \in [Tabs -> Requests] /\ UNCHANGED <<users, now, sessions>> /\ users \in [Users -> UserRows]
  BY DEF LoginLookup, accountVars, IInv, TypeOK, AccountTypeOK
<1>1. PICK u \in Users : /\ GetUserByUsername(u)
                         /\ req'[t] = [NoRequest EXCEPT !.at = "login", !.user = u,
                                                        !.roles = users[u].roles]
  BY <1>0 DEF LoginLookup, Goto
<1>2. users[u].roles \in Roles /\ users[u].state # "none"
  BY <1>0, <1>1 DEF UserRows, GetUserByUsername
<1>3. /\ req'[t] \in Requests /\ req'[t].at = "login" /\ req'[t].user = u
      /\ req'[t].refresh = {} /\ req'[t].before = {}
  BY <1>1, <1>2, StartTypes DEF Requests, NoRequest
<1>4. BegunInv(t)'
  BY <1>3 DEF BegunInv, OneStored, Phase
<1>5. CheckedInv(t)'
  BY <1>0, <1>2, <1>3 DEF CheckedInv
<1>6. QED BY <1>3, <1>4, <1>5

(* An empty request. *)
LEMMA EmptyStep ==
    ASSUME IInv, NEW t \in Tabs, LoginRespond(t) \/ LogoutRespond(t) \/ Logout(t)
    PROVE  req'[t] \in Requests /\ BegunInv(t)' /\ CheckedInv(t)'
<1>0. req \in [Tabs -> Requests]
  BY DEF IInv, TypeOK
<1>1. req'[t] = NoRequest \/ req'[t] = [NoRequest EXCEPT !.at = "logout"]
  BY <1>0 DEF LoginRespond, LogoutRespond, Logout, Goto
<1>2. /\ req'[t] \in Requests /\ req'[t].at \in {"idle", "logout"}
      /\ req'[t].refresh = {} /\ req'[t].before = {}
  BY <1>1, StartTypes DEF Requests, NoRequest
<1>3. QED BY <1>2, Settled

(* The session of a login: its user was read from the table, and its token *)
(* names the same user.                                                    *)
LEMMA CreateSessionStep ==
    ASSUME IInv, [Next]_vars, NEW t \in Tabs, CreateSession(t)
    PROVE  /\ req'[t] \in Requests /\ BegunInv(t)' /\ CheckedInv(t)'
           /\ sessions' \in [Sessions -> SessionRows] /\ SessionInv'
<1>0. /\ req \in [Tabs -> Requests] /\ req[t] \in Requests /\ UNCHANGED <<users, now, jar>>
      /\ BegunInv(t) /\ CheckedInv(t) /\ req[t].at = "login" /\ TypeOK
      /\ sessions \in [Sessions -> SessionRows] /\ req[t].before \subseteq Sessions
  BY DEF CreateSession, accountVars, IInv, TypeOK, RequestInv, Requests
<1>1. req[t].user \in Users /\ users[req[t].user].state # "none" /\ req[t].roles \in Roles
  BY <1>0 DEF CheckedInv, Requests
<1>2. PICK tok \in Tokens : tok = GenerateAccessToken(req[t].user, req[t]) /\ tok.user = req[t].user
  BY <1>0, <1>1, NewToken
<1>3. PICK row : row = [user |-> req[t].user, token |-> tok, expires |-> now + SessionTTL,
                        revoked |-> FALSE]
  OBVIOUS
<1>4. row \in SessionRows /\ row.user = req[t].user /\ row.token = tok
  BY <1>0, <1>1, <1>3, Lifetimes DEF SessionRows
<1>5. PICK n \in Sessions :
          /\ ~Stored(n) /\ sessions' = [sessions EXCEPT ![n] = row]
          /\ Goto(t, [req[t] EXCEPT !.at = "respond", !.access = tok, !.refresh = {n}])
  BY <1>2, <1>3, Zenon DEF CreateSession
<1>6. /\ sessions'[n] = row /\ sessions' \in [Sessions -> SessionRows]
      /\ \A s \in Sessions : s # n => sessions'[s] = sessions[s]
  BY <1>0, <1>4, <1>5
<1>7. Stored(n)'
  BY <1>1, <1>4, <1>6, AccountAssumption DEF Stored
<1>8. PICK r : r = [req[t] EXCEPT !.at = "respond", !.access = tok, !.refresh = {n}]
  OBVIOUS
<1>9. req'[t] = r
  BY <1>0, <1>5, <1>8 DEF Goto
<1>10. r \in Requests /\ r.at = "respond" /\ r.refresh = {n} /\ r.before = req[t].before
  BY <1>0, <1>8 DEF Requests
<1>11. \A s \in req[t].before : Stored(s)'
  BY <1>0, SessionsFade DEF BegunInv
<1>12. BegunInv(t)' /\ CheckedInv(t)'
  BY <1>7, <1>9, <1>10, <1>11, Settled
<1>13. SessionInv'
  BY <1>0, <1>1, <1>2, <1>4, <1>6 DEF IInv, SessionInv, Stored
<1>14. QED BY <1>6, <1>9, <1>10, <1>12, <1>13

-----------------------------------------------------------------------------
(* The invariant.                                                          *)

(* Sessions that are not inserted by a step keep theirs. *)
LEMMA SessionsKeep ==
    ASSUME IInv, [Next]_vars, \A s \in Sessions : Stored(s)' => Stored(s)
    PROVE  SessionInv'
<1>1. ASSUME NEW s \in Sessions, Stored(s)'
      PROVE  /\ sessions'[s].user \in Users
             /\ users'[sessions'[s].user].state # "none"
             /\ sessions'[s].token.user = sessions'[s].user
  <2>1. Stored(s)
    BY <1>1
  <2>2. /\ sessions[s].user \in Users /\ users[sessions[s].user].state # "none"
        /\ sessions[s].token.user = sessions[s].user
    BY <2>1 DEF IInv, SessionInv
  <2>3. sessions'[s].user = sessions[s].user /\ sessions'[s].token = sessions[s].token
    BY <2>1, SessionsFade
  <2>4. users'[sessions[s].user].state # "none"
    BY <2>2, AccountStep, AccountsFade DEF IInv, TypeOK
  <2>5. QED BY <2>2, <2>3, <2>4
<1>2. QED BY <1>1 DEF SessionInv

(* The cookie jar only holds refresh tokens of sessions that are there. *)
LEMMA JarStep ==
    ASSUME IInv, [Next]_vars, NEW t \in Tabs,
           \/ UNCHANGED jar \/ jar' = EmptyJar \/ SetAccessCookie(t)
           \/ jar' = [access |-> req[t].access, accessEnds |-> now + AccessTTL,
                      refresh |-> req[t].refresh, refreshEnds |-> now + SessionTTL]
    PROVE  jar' \in Jars /\ OneStored(jar.refresh)'
<1>0. /\ jar \in Jars /\ req[t] \in Requests /\ TypeOK
      /\ OneStored(jar.refresh) /\ OneStored(req[t].refresh)
  BY DEF IInv, TypeOK, RequestInv, BegunInv
<1>1. jar.refresh \subseteq Sessions /\ req[t].refresh \subseteq Sessions /\ req[t].access \in Tokens
      /\ req[t].minted \in Tokens
  BY <1>0 DEF Jars, Requests
<1>2. /\ [jar EXCEPT !.access = req[t].minted, !.accessEnds = now + AccessTTL] \in Jars
      /\ [jar EXCEPT !.access = req[t].minted, !.accessEnds = now + AccessTTL].refresh = jar.refresh
  BY <1>0, <1>1, Lifetimes DEF Jars
<1>3. [access |-> req[t].access, accessEnds |-> now + AccessTTL,
       refresh |-> req[t].refresh, refreshEnds |-> now + SessionTTL] \in Jars
  BY <1>0, <1>1, Lifetimes DEF Jars
<1>4. EmptyJar \in Jars /\ EmptyJar.refresh = {}
  BY StartTypes DEF EmptyJar
<1>5. /\ jar' \in Jars
      /\ jar'.refresh = jar.refresh \/ jar'.refresh = {} \/ jar'.refresh = req[t].refresh
  <2>1. CASE UNCHANGED jar
    BY <1>0, <2>1
  <2>2. CASE jar' = EmptyJar
    BY <1>4, <2>2
  <2>3. CASE SetAccessCookie(t)
    BY <1>0, <1>2, <2>3 DEF SetAccessCookie
  <2>4. CASE jar' = [access |-> req[t].access, accessEnds |-> now + AccessTTL,
                     refresh |-> req[t].refresh, refreshEnds |-> now + SessionTTL]
    BY <1>3, <2>4
  <2>5. QED BY <2>1, <2>2, <2>3, <2>4
<1>6. \A s \in jar'.refresh : Stored(s)'
  BY <1>0, <1>1, <1>5, SessionsFade DEF OneStored
<1>7. \A r, s \in jar'.refresh : r = s
  BY <1>0, <1>5 DEF OneStored
<1>8. QED BY <1>5, <1>6, <1>7 DEF OneStored

(* The steps of the tabs, together. *)
TabStep(t) ==
    \/ LoginLookup(t) \/ CreateSession(t) \/ LoginRespond(t) \/ Protect(t)
    \/ ValidateToken(t) \/ ValidatePermissions(t) \/ RefreshToken(t)
    \/ MintRefreshed(t) \/ CallFails(t) \/ Logout(t) \/ LogoutRespond(t)

(* A tab's step is about its own request. *)
LEMMA TabFrame ==
    ASSUME NEW t \in Tabs, TabStep(t)
    PROVE  /\ \E r : Goto(t, r)
           /\ UNCHANGED <<accountVars, now>>
           /\ \/ UNCHANGED jar \/ jar' = EmptyJar \/ SetAccessCookie(t)
              \/ jar' = [access |-> req[t].access, accessEnds |-> now + AccessTTL,
                         refresh |-> req[t].refresh, refreshEnds |-> now + SessionTTL]
           /\ \/ CreateSession(t)
              \/ UNCHANGED sessions
              \/ sessions' = [s \in Sessions |->
                                IF s \in SentRefresh THEN [sessions[s] EXCEPT !.revoked = TRUE]
                                ELSE sessions[s]]
<1>1. CASE LoginLookup(t)
  BY <1>1, Zenon DEF LoginLookup
<1>2. CASE CreateSession(t)
  BY <1>2, Zenon DEF CreateSession
<1>3. CASE LoginRespond(t) \/ Protect(t) \/ Logout(t) \/ LogoutRespond(t)
  BY <1>3, Zenon DEF LoginRespond, Protect, Logout, LogoutRespond
<1>4. ASSUME Invalid(t) PROVE (\E r : Goto(t, r)) /\ (UNCHANGED jar \/ SetAccessCookie(t))
  BY <1>4, Zenon DEF Invalid, Refuse
<1>5. CASE ValidateToken(t)
  BY <1>4, <1>5, Zenon DEF ValidateToken
<1>6. CASE ValidatePermissions(t)
  BY <1>4, <1>6, Zenon DEF ValidatePermissions
<1>7. CASE RefreshToken(t) \/ MintRefreshed(t)
  BY <1>7, Zenon DEF RefreshToken, MintRefreshed, Refuse
<1>8. CASE CallFails(t)
  BY <1>4, <1>8, Zenon DEF CallFails, Refuse
<1>9. QED BY <1>1, <1>2, <1>3, <1>5, <1>6, <1>7, <1>8 DEF TabStep

(* A step of a tab keeps the invariant. *)
LEMMA TabKeeps ==
    ASSUME IInv, [Next]_vars, NEW t \in Tabs, TabStep(t)
    PROVE  IInv'
<1>0. TypeOK /\ req \in [Tabs -> Requests] /\ sessions \in [Sessions -> SessionRows]
  BY DEF IInv, TypeOK
<1>1. PICK r : req' = [req EXCEPT ![t] = r]
  BY TabFrame DEF Goto
<1>2. req'[t] \in Requests /\ BegunInv(t)' /\ CheckedInv(t)'
  BY LoginLookupStep, CreateSessionStep, EmptyStep, ProtectStep, ValidateTokenStep,
     ValidatePermissionsStep, RefreshTokenStep, MintRefreshedStep, CallFailsStep DEF TabStep
<1>3. \A x \in Tabs : x # t => req'[x] = req[x]
  BY <1>0, <1>1
<1>4. RequestInv'
  <2>1. ASSUME NEW x \in Tabs PROVE BegunInv(x)' /\ CheckedInv(x)'
    <3>1. CASE x = t
      BY <1>2, <3>1
    <3>2. CASE x # t
      BY <1>3, <3>2, OthersKeep
    <3>3. QED BY <3>1, <3>2
  <2>2. QED BY <2>1 DEF RequestInv
<1>5. req' \in [Tabs -> Requests]
  BY <1>0, <1>1, <1>2
<1>6. jar' \in Jars /\ OneStored(jar.refresh)'
  BY TabFrame, JarStep
<1>7. sessions' \in [Sessions -> SessionRows] /\ SessionInv'
  <2>1. CASE CreateSession(t)
    BY <2>1, CreateSessionStep
  <2>2. CASE UNCHANGED sessions
    BY <1>0, <2>2, SessionsKeep DEF Stored
  <2>3. CASE sessions' = [s \in Sessions |->
                            IF s \in SentRefresh THEN [sessions[s] EXCEPT !.revoked = TRUE]
                            ELSE sessions[s]]
    <3>1. ASSUME NEW s \in Sessions
          PROVE  /\ [sessions[s] EXCEPT !.revoked = TRUE] \in SessionRows
                 /\ [sessions[s] EXCEPT !.revoked = TRUE].user = sessions[s].user
      BY <1>0 DEF SessionRows
    <3>2. sessions' \in [Sessions -> SessionRows] /\ \A s \in Sessions : sessions'[s].user = sessions[s].user
      BY <1>0, <2>3, <3>1
    <3>3. QED BY <3>2, SessionsKeep DEF Stored
  <2>4. QED BY <2>1, <2>2, <2>3, TabFrame
<1>8. AccountTypeOK' /\ now' \in Time
  BY <1>0, TabFrame DEF TypeOK, AccountTypeOK, accountVars
<1>9. QED BY <1>4, <1>5, <1>6, <1>7, <1>8 DEF IInv, TypeOK

(* Steps that no tab takes: the clock, the calls on accounts, stuttering. *)
LEMMA WorldKeeps ==
    ASSUME IInv, [Next]_vars, UNCHANGED <<sessions, jar, req>>,
           AccountTypeOK', now' \in Time
    PROVE  IInv'
<1>1. RequestInv'
  BY OthersKeep DEF RequestInv
<1>2. SessionInv'
  BY SessionsKeep DEF Stored
<1>3. OneStored(jar.refresh)'
  BY DEF IInv, OneStored, Stored
<1>4. TypeOK'
  BY DEF IInv, TypeOK
<1>5. QED BY <1>1, <1>2, <1>3, <1>4 DEF IInv

(* Nobody has logged in yet. *)
LEMMA InitInv == Init => IInv
<1> SUFFICES ASSUME Init PROVE IInv
  OBVIOUS
<1>1. TypeOK
  BY StartTypes DEF Init, AccountInit, TypeOK, AccountTypeOK
<1>2. \A s \in Sessions : ~Stored(s)
  BY DEF Init, Stored, NoSession
<1>3. SessionInv
  BY <1>2 DEF SessionInv
<1>4. OneStored(jar.refresh)
  BY DEF Init, OneStored, EmptyJar
<1>5. \A t \in Tabs : req[t].at = "idle" /\ req[t].before = {} /\ req[t].refresh = {}
  BY DEF Init, NoRequest
<1>6. RequestInv
  BY <1>5 DEF RequestInv, BegunInv, CheckedInv, OneStored, Phase
<1>7. QED BY <1>1, <1>3, <1>4, <1>6 DEF IInv

(* The tabs' requests, the admins' calls and the clock, interleaved in any *)
(* way, keep the types and what each request has established.              *)
THEOREM AuthInvariance == Spec => []IInv
<1>1. IInv /\ [Next]_vars => IInv'
  <2> SUFFICES ASSUME IInv, [Next]_vars PROVE IInv'
    OBVIOUS
  <2>0. AccountTypeOK /\ now \in Time
    BY DEF IInv, TypeOK
  <2>1. ASSUME NEW t \in Tabs, TabStep(t) PROVE IInv'
    BY <2>1, TabKeeps
  <2>2. CASE Tick
    <3>1. now' \in Time
      BY <2>0, <2>2, SessionAssumption DEF Tick, Time
    <3>2. AccountTypeOK'
      BY <2>0, <2>2 DEF Tick, accountVars, AccountTypeOK
    <3>3. QED BY <2>2, <3>1, <3>2, WorldKeeps DEF Tick
  <2>3. CASE AccountNext /\ UNCHANGED sessionVars
    BY <2>0, <2>3, AccountTypes, WorldKeeps DEF sessionVars
  <2>4. CASE UNCHANGED vars
    <3>1. AccountTypeOK' /\ now' \in Time /\ UNCHANGED <<sessions, jar, req>>
      BY <2>0, <2>4 DEF vars, AccountTypeOK
    <3>2. QED BY <3>1, WorldKeeps
  <2>5. QED BY <2>1, <2>2, <2>3, <2>4 DEF Next, TabStep
<1>2. QED BY <1>1, InitInv, PTL DEF Spec

(* A request is served only if a live session backed it when it began, or  *)
(* a login has made one for its user since: logout, expiry and deletion    *)
(* hold although token, session and account are checked in separate steps  *)
(* and a refresh may come between.                                         *)
THEOREM EndedIsRefusedHolds == Spec => []EndedIsRefused
<1>1. IInv => EndedIsRefused
  BY DEF IInv, RequestInv, CheckedInv, EndedIsRefused
<1>2. QED BY <1>1, AuthInvariance, PTL

(* A deleted account stays deleted under every interleaving of calls that  *)
(* read the row before the deletion and write it after.                    *)
THEOREM DeletedForGoodHolds == Spec => DeletedForGood
<1>1. IInv /\ [Next]_vars =>
          [\A u \in Users : users[u].state = "deleted" => users'[u].state = "deleted"]_users
  <2> SUFFICES ASSUME IInv, [Next]_vars, NEW u \in Users, users[u].state = "deleted"
               PROVE  users'[u].state = "deleted"
    OBVIOUS
  <2>1. QED BY AccountStep, AccountsFade DEF IInv, TypeOK
<1>2. QED BY <1>1, AuthInvariance, PTL DEF Spec, DeletedForGood
=============================================================================
