----------------------------- MODULE UserAccounts ----------------------------
(***************************************************************************)
(* The users table of the authenticate service and the admin calls on it   *)
(* (authenticate/internal/service/auth_service.go, repository/postgres.go).*)
(* The accounts of the model share one username: the index on it keeps all *)
(* but one of them deleted or not yet created.  Every SQL statement is     *)
(* atomic; a call is a read and then a write without a transaction.        *)
(***************************************************************************)
EXTENDS Naturals

CONSTANTS Users,        \* user ids, all with the same username
          Admins,       \* concurrent admin calls
          Roles,        \* values of the roles column
          MaxPassword,  \* passwords are numbered up to this bound
          Viewer,       \* the role of a user created without one
          NoUser        \* not a user

ASSUME AccountAssumption ==
    /\ MaxPassword \in Nat
    /\ Viewer \in Roles
    /\ NoUser \notin Users

Passwords == 0 .. MaxPassword

VARIABLES users,  \* users table
          edit    \* edit[a]: the admin call in progress

accountVars == <<users, edit>>

UserRows == [state : {"none", "active", "deleted"}, roles : Roles, password : Passwords]
NoRow == [state |-> "none", roles |-> Viewer, password |-> 0]

Edits == [at : {"idle", "write"}, op : {"none", "roles", "password", "delete"},
          user : Users \cup {NoUser}, row : UserRows]
NoEdit == [at |-> "idle", op |-> "none", user |-> NoUser, row |-> NoRow]

AccountTypeOK ==
    /\ users \in [Users -> UserRows]
    /\ edit \in [Admins -> Edits]

AccountInit ==
    /\ users = [u \in Users |-> NoRow]
    /\ edit = [a \in Admins |-> NoEdit]

-----------------------------------------------------------------------------
(* WHERE ... AND deleted_at IS NULL: both lookups see active rows only. *)
GetUserByID(u) == users[u].state = "active"

GetUserByUsername(u) == users[u].state = "active"

Return(a) == edit' = [edit EXCEPT ![a] = NoEdit]

(* The unique index on the username lets the INSERT through; otherwise the *)
(* answer is ErrUserExists and nothing happens.                            *)
UsernameIsFree == \A u \in Users : users[u].state # "active"

(* Mutation of CreateUser: a request without roles makes a user without. *)
CreateWithoutRole(a, u, r, p) ==
    /\ edit[a].at = "idle"
    /\ users[u].state = "none"
    /\ UsernameIsFree
    /\ users' = [users EXCEPT ![u] = [state |-> "active", roles |-> NoUser, password |-> p]]
    /\ UNCHANGED edit

(* A new id; a request without roles makes a viewer. *)
CreateUser(a, u, r, p) ==
    /\ edit[a].at = "idle"
    /\ users[u].state = "none"
    /\ UsernameIsFree
    /\ users' = [users EXCEPT ![u] = [state |-> "active", roles |-> r, password |-> p]]
    /\ UNCHANGED edit

(* The first half of the other calls: the row is read, else the answer is  *)
(* ErrUserNotFound, and the copy changed.                                  *)
ReadUser(a, op, u, copy) ==
    /\ edit[a].at = "idle"
    /\ GetUserByID(u)
    /\ edit' = [edit EXCEPT ![a] = [at |-> "write", op |-> op, user |-> u, row |-> copy]]
    /\ UNCHANGED users

UpdateUserDetails(a, u, r) == ReadUser(a, "roles", u, [users[u] EXCEPT !.roles = r])

ResetPassword(a, u, p) == ReadUser(a, "password", u, [users[u] EXCEPT !.password = p])

BeginDelete(a, u) == ReadUser(a, "delete", u, users[u])

(* Mutation of UpdateUser: the lifecycle columns are written back too. *)
UpdateWholeRow(a) ==
    /\ edit[a].at = "write"
    /\ edit[a].op \in {"roles", "password"}
    /\ users' = [users EXCEPT ![edit[a].user] = edit[a].row]
    /\ Return(a)

(* UPDATE ... WHERE version_id = $1: roles and password of the copy.  The  *)
(* version_id of a user never changes, so the row is always found.         *)
UpdateUser(a) ==
    /\ edit[a].at = "write"
    /\ edit[a].op \in {"roles", "password"}
    /\ users' = [users EXCEPT ![edit[a].user].roles = edit[a].row.roles,
                              ![edit[a].user].password = edit[a].row.password]
    /\ Return(a)

(* UPDATE ... SET deleted_at WHERE id = $1 AND deleted_at IS NULL: if the   *)
(* row was deleted meanwhile, none is affected (ErrUserNotFound).           *)
DeleteUser(a) ==
    /\ edit[a].at = "write"
    /\ edit[a].op = "delete"
    /\ users' = [users EXCEPT ![edit[a].user].state = "deleted"]
    /\ Return(a)

AccountNext ==
    \E a \in Admins :
        \/ \E u \in Users :
              \/ \E r \in Roles, p \in Passwords : CreateUser(a, u, r, p)
              \/ \E r \in Roles : UpdateUserDetails(a, u, r)
              \/ \E p \in Passwords : ResetPassword(a, u, p)
              \/ BeginDelete(a, u)
        \/ UpdateUser(a)
        \/ DeleteUser(a)

AccountSpec == AccountInit /\ [][AccountNext]_accountVars

-----------------------------------------------------------------------------
(* Properties.                                                             *)

(* A deleted account stays deleted whatever call, begun before the          *)
(* deletion, writes its copy of the row afterwards.                         *)
DeletedForGood ==
    [][\A u \in Users : users[u].state = "deleted" => users'[u].state = "deleted"]_users
=============================================================================
