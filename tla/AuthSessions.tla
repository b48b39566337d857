----------------------------- MODULE AuthSessions ----------------------------
(***************************************************************************)
(* Sessions of the web gateway's users.  A browser with several tabs and   *)
(* one cookie jar logs in, makes requests and logs out through the gateway *)
(* (web/backend/internal/auth/middleware.go, handlers/auth.go), which asks *)
(* the authenticate service (service/auth_service.go) to log in, validate, *)
(* refresh and revoke.  The access token is a JWT without a unique id, so  *)
(* it is its claims; the refresh token is random and names the session.    *)
(***************************************************************************)
EXTENDS UserAccounts

CONSTANTS Sessions,    \* rows of the sessions table
          Tabs,        \* requests of the browser that are under way together
          AccessTTL,   \* accessTTL and expires_in: lifetime of a JWT and its cookie
          SessionTTL,  \* lifetime of a session and of the refresh cookie
          MaxTime,     \* bound on the clock
          Unreliable   \* TRUE if the authenticate service may fail to answer

ASSUME SessionAssumption ==
    /\ AccessTTL \in Nat /\ SessionTTL \in Nat /\ MaxTime \in Nat
    /\ Unreliable \in BOOLEAN

Time == 0 .. MaxTime

VARIABLES now,       \* the clock, in the JWT's unit
          sessions,  \* sessions table
          jar,       \* the browser's cookies and when they end
          req        \* req[t]: the request of a tab, and how the last one ended

sessionVars == <<now, sessions, jar, req>>
vars == <<users, edit, now, sessions, jar, req>>

Tokens == [user : Users \cup {NoUser}, roles : Roles, iat : Time]
NoToken == [user |-> NoUser, roles |-> Viewer, iat |-> 0]

(* A row that is not there has no user. *)
SessionRows == [user : Users \cup {NoUser}, token : Tokens,
                expires : 0 .. MaxTime + SessionTTL, revoked : BOOLEAN]
NoSession == [user |-> NoUser, token |-> NoToken, expires |-> 0, revoked |-> FALSE]

(* A cookie jar: access token, refresh token (a set with its session). *)
Jars == [access : Tokens, accessEnds : 0 .. MaxTime + AccessTTL,
         refresh : SUBSET Sessions, refreshEnds : 0 .. MaxTime + SessionTTL]
EmptyJar == [access |-> NoToken, accessEnds |-> 0, refresh |-> {}, refreshEnds |-> 0]

(* A request: where it is, the tokens sent, the token a refresh gave, and  *)
(* history: the live sessions that backed it when it began, and the        *)
(* sessions there were.                                                    *)
Requests == [at : {"idle", "login", "respond", "session", "permissions", "refresh",
                   "mint", "logout", "ok", "refused"},
             access : Tokens, refresh : SUBSET Sessions, minted : Tokens,
             roles : Roles, user : Users \cup {NoUser},
             backing : SUBSET Sessions, before : SUBSET Sessions]
NoRequest == [at |-> "idle", access |-> NoToken, refresh |-> {}, minted |-> NoToken,
              roles |-> Viewer, user |-> NoUser,
              backing |-> {}, before |-> {}]

Ended == {"idle", "ok", "refused"}

TypeOK ==
    /\ AccountTypeOK
    /\ now \in Time
    /\ sessions \in [Sessions -> SessionRows]
    /\ jar \in Jars
    /\ req \in [Tabs -> Requests]

Init ==
    /\ AccountInit
    /\ now = 0
    /\ sessions = [s \in Sessions |-> NoSession]
    /\ jar = EmptyJar
    /\ req = [t \in Tabs |-> NoRequest]

-----------------------------------------------------------------------------
(* Tokens and sessions.                                                    *)

GenerateAccessToken(u, row) == [user |-> u, roles |-> row.roles, iat |-> now]

ValidateAccessToken(tok) == tok # NoToken /\ now < tok.iat + AccessTTL

Stored(s) == sessions[s].user # NoUser

(* Session.IsActive. *)
IsActive(s) == ~sessions[s].revoked /\ now < sessions[s].expires

(* The rows with this access_token: the column is not unique. *)
GetSessionByAccessToken(tok) == {s \in Sessions : Stored(s) /\ sessions[s].token = tok}

(* A session that can back a request: active, of an account that exists. *)
Live(s) == Stored(s) /\ IsActive(s) /\ users[sessions[s].user].state = "active"

SentAccess == IF now < jar.accessEnds THEN jar.access ELSE NoToken
SentRefresh == IF now < jar.refreshEnds THEN jar.refresh ELSE {}

Goto(t, r) == req' = [req EXCEPT ![t] = r]

Refuse(t) == Goto(t, [req[t] EXCEPT !.at = "refused"])

-----------------------------------------------------------------------------
(* Login.                                                                  *)

(* The user is read, active and the password matches; else 401. *)
LoginLookup(t) ==
    /\ req[t].at \in Ended
    /\ \E u \in Users :
          /\ GetUserByUsername(u)
          /\ Goto(t, [NoRequest EXCEPT !.at = "login", !.user = u, !.roles = users[u].roles])
    /\ UNCHANGED <<accountVars, now, sessions, jar>>

(* Both tokens are made from the row that was read, and the session is     *)
(* inserted.                                                               *)
CreateSession(t) ==
    /\ req[t].at = "login"
    /\ \E s \in Sessions :
          LET tok == GenerateAccessToken(req[t].user, req[t])
          IN  /\ ~Stored(s)
              /\ sessions' = [sessions EXCEPT ![s] =
                    [user |-> req[t].user, token |-> tok, expires |-> now + SessionTTL,
                     revoked |-> FALSE]]
              /\ Goto(t, [req[t] EXCEPT !.at = "respond", !.access = tok, !.refresh = {s}])
    /\ UNCHANGED <<accountVars, now, jar>>

(* The answer sets both cookies. *)
LoginRespond(t) ==
    /\ req[t].at = "respond"
    /\ jar' = [access |-> req[t].access, accessEnds |-> now + AccessTTL,
               refresh |-> req[t].refresh, refreshEnds |-> now + SessionTTL]
    /\ Goto(t, NoRequest)
    /\ UNCHANGED <<accountVars, now, sessions>>

-----------------------------------------------------------------------------
(* A protected request.                                                    *)

(* The cookies that have not ended are sent; without an access token the   *)
(* answer is 401 at once.                                                  *)
Protect(t) ==
    /\ req[t].at \in Ended
    /\ jar # EmptyJar
    /\ Goto(t, [NoRequest EXCEPT
                  !.at = IF SentAccess = NoToken THEN "refused" ELSE "session",
                  !.access = SentAccess,
                  !.refresh = SentRefresh,
                  !.backing = {s \in GetSessionByAccessToken(SentAccess) \cup SentRefresh :
                                  Live(s)},
                  !.before = {s \in Sessions : Stored(s)}])
    /\ UNCHANGED <<accountVars, now, sessions, jar>>

(* The token to validate: the one sent, after a refresh the new one. *)
Current(t) == IF req[t].minted = NoToken THEN req[t].access ELSE req[t].minted

(* The answer carries the new access token, even if it is 401. *)
SetAccessCookie(t) ==
    jar' = IF req[t].minted = NoToken THEN jar
           ELSE [jar EXCEPT !.access = req[t].minted, !.accessEnds = now + AccessTTL]

(* Not valid: the first time the refresh cookie is tried, if there is one. *)
Invalid(t) ==
    \/ /\ req[t].minted = NoToken
       /\ req[t].refresh # {}
       /\ Goto(t, [req[t] EXCEPT !.at = "refresh"])
       /\ UNCHANGED jar
    \/ /\ req[t].minted # NoToken \/ req[t].refresh = {}
       /\ Refuse(t)
       /\ SetAccessCookie(t)

(* Mutation of ValidateToken: the session is found but not asked whether   *)
(* it is active.                                                           *)
ValidateWithoutIsActive(t) ==
    /\ req[t].at = "session"
    /\ \/ /\ ValidateAccessToken(Current(t))
          /\ GetSessionByAccessToken(Current(t)) # {}
          /\ Goto(t, [req[t] EXCEPT !.at = "permissions"])
          /\ UNCHANGED jar
       \/ /\ \/ ~ValidateAccessToken(Current(t))
             \/ GetSessionByAccessToken(Current(t)) = {}
          /\ Invalid(t)
    /\ UNCHANGED <<accountVars, now, sessions>>

(* ValidateToken: signature and expiry, then the session.  QueryRow takes  *)
(* any of the rows.                                                        *)
ValidateToken(t) ==
    LET rows == GetSessionByAccessToken(Current(t))
    IN  /\ req[t].at = "session"
        /\ \/ /\ ValidateAccessToken(Current(t))
              /\ \E s \in rows : IsActive(s)
              /\ Goto(t, [req[t] EXCEPT !.at = "permissions"])
              /\ UNCHANGED jar
           \/ /\ \/ ~ValidateAccessToken(Current(t))
                 \/ rows = {}
                 \/ \E s \in rows : ~IsActive(s)
              /\ Invalid(t)
        /\ UNCHANGED <<accountVars, now, sessions>>

(* GetUserPermissionsVersion fails for a deleted account, which is a 500   *)
(* and not valid for the gateway.  Otherwise the request is served as the  *)
(* token's user with the token's roles.  No code changes                   *)
(* permissions_version, so the versions never differ.                      *)
ValidatePermissions(t) ==
    /\ req[t].at = "permissions"
    /\ \/ /\ GetUserByID(Current(t).user)
          /\ Goto(t, [req[t] EXCEPT !.at = "ok", !.user = Current(t).user,
                                    !.roles = Current(t).roles])
          /\ SetAccessCookie(t)
       \/ /\ ~GetUserByID(Current(t).user)
          /\ Invalid(t)
    /\ UNCHANGED <<accountVars, now, sessions>>

(* RefreshToken: the session of the refresh token must be active ...       *)
RefreshToken(t) ==
    /\ req[t].at = "refresh"
    /\ \/ /\ \E s \in req[t].refresh : IsActive(s)
          /\ Goto(t, [req[t] EXCEPT !.at = "mint"])
       \/ /\ \E s \in req[t].refresh : ~IsActive(s)
          /\ Refuse(t)
    /\ UNCHANGED <<accountVars, now, sessions, jar>>

(* ... and its user exist; the new access token is stored nowhere.         *)
MintRefreshed(t) ==
    LET u == sessions[CHOOSE s \in req[t].refresh : TRUE].user
    IN  /\ req[t].at = "mint"
        /\ \/ /\ GetUserByID(u)
              /\ Goto(t, [req[t] EXCEPT !.at = "session",
                                        !.minted = GenerateAccessToken(u, users[u])])
           \/ /\ ~GetUserByID(u)
              /\ Refuse(t)
        /\ UNCHANGED <<accountVars, now, sessions, jar>>

(* A call to the authenticate service fails: 401.  If only its database    *)
(* does not answer, a token that is being validated counts as not valid.   *)
CallFails(t) ==
    /\ Unreliable
    /\ \/ /\ req[t].at \in {"login", "session", "permissions", "refresh", "mint"}
          /\ Refuse(t)
          /\ SetAccessCookie(t)
       \/ /\ req[t].at \in {"session", "permissions"}
          /\ Invalid(t)
    /\ UNCHANGED <<accountVars, now, sessions>>

-----------------------------------------------------------------------------
(* Logout and time.                                                        *)

(* RevokeSession; a failure is only logged. *)
Logout(t) ==
    /\ req[t].at \in Ended
    /\ jar # EmptyJar
    /\ Goto(t, [NoRequest EXCEPT !.at = "logout"])
    /\ \/ sessions' = [s \in Sessions |->
                         IF s \in SentRefresh THEN [sessions[s] EXCEPT !.revoked = TRUE]
                         ELSE sessions[s]]
       \/ Unreliable /\ UNCHANGED sessions
    /\ UNCHANGED <<accountVars, now, jar>>

(* The cookies are cleared in any case. *)
LogoutRespond(t) ==
    /\ req[t].at = "logout"
    /\ jar' = EmptyJar
    /\ Goto(t, NoRequest)
    /\ UNCHANGED <<accountVars, now, sessions>>

Tick ==
    /\ now < MaxTime
    /\ now' = now + 1
    /\ UNCHANGED <<accountVars, sessions, jar, req>>

Next ==
    \/ AccountNext /\ UNCHANGED sessionVars
    \/ \E t \in Tabs :
          \/ LoginLookup(t)
          \/ CreateSession(t)
          \/ LoginRespond(t)
          \/ Protect(t)
          \/ ValidateToken(t)
          \/ ValidatePermissions(t)
          \/ RefreshToken(t)
          \/ MintRefreshed(t)
          \/ CallFails(t)
          \/ Logout(t)
          \/ LogoutRespond(t)
    \/ Tick

Spec == Init /\ [][Next]_vars

-----------------------------------------------------------------------------
(* Properties.                                                             *)

(* Logout, expiry and deletion hold: a request is served only if a live     *)
(* session backed it when it began, or a login since then made a session    *)
(* of its user (in the same second it gets the very same token).            *)
EndedIsRefused ==
    \A t \in Tabs :
        (req[t].at = "ok" /\ req[t].backing = {}) =>
            \E s \in Sessions \ req[t].before : sessions[s].user = req[t].user
=============================================================================
