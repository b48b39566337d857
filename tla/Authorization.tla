---------------------------- MODULE Authorization ----------------------------
(***************************************************************************)
(* Roles, permissions and scopes of the authenticate service               *)
(* (internal/models/user.go, rbac.go; middleware/permission.go): who may   *)
(* act where, and on whom.  Three users with any roles are compared.       *)
(*                                                                         *)
(* A scope is an organization and a client, "" when it has none: platform, *)
(* organization or client tier.  A role in UserRoles is the role and       *)
(* whether its assignment is still active.                                 *)
(***************************************************************************)
EXTENDS Integers, FiniteSets

VARIABLE decision   \* three users, and what was decided about them

\* The organization each client belongs to (clientBelongsToOrg).
Clients == {"c1", "c2", "c3"}
Organizations == {"o1", "o2"}
OrgOf == [c1 |-> "o1", c2 |-> "o1", c3 |-> "o2"]
clientBelongsToOrg(client, org) == OrgOf[client] = org

Scope(org, client) == [org |-> org, client |-> client]
Platform == Scope("", "")
Scopes == {Platform} \cup {Scope(o, "") : o \in Organizations}
          \cup {Scope(OrgOf[c], c) : c \in Clients}

Role(ordinal, protected, permissions) ==
  [ordinal |-> ordinal, protected |-> protected, permissions |-> permissions]

-----------------------------------------------------------------------------
(***************************************************************************)
(* The methods of User.                                                    *)
(***************************************************************************)
ActiveRoles(u) == {ur.role : ur \in {r \in u.roles : r.active}}

HasProtectedRole(u) ==
  \E role \in ActiveRoles(u) : role.protected /\ role.ordinal = 0

Can(u, permission) ==
  \/ HasProtectedRole(u)
  \/ \E role \in ActiveRoles(u) : permission \in role.permissions

\* 100 for a user without an active role.
LowestOrdinal(u) ==
  LET ordinals == {100} \cup {role.ordinal : role \in ActiveRoles(u)}
  IN  CHOOSE n \in ordinals : \A m \in ordinals : n <= m

\* -1 for a user without an active role.
HighestOrdinal(u) ==
  LET ordinals == {-1} \cup {role.ordinal : role \in ActiveRoles(u)}
  IN  CHOOSE n \in ordinals : \A m \in ordinals : n >= m

GetScopeTier(u) ==
  IF u.scope.client # "" THEN "client"
  ELSE IF u.scope.org # "" THEN "organization" ELSE "platform"

\* A plausible mistake: the client is looked up in the target's organization.
TrustedTargetOrg(u, permission, target) ==
  /\ Can(u, permission)
  /\ CASE GetScopeTier(u) = "platform" -> TRUE
       [] GetScopeTier(u) = "organization" ->
            /\ target # Platform
            /\ target.client = "" => target.org = u.scope.org
       [] GetScopeTier(u) = "client" -> target.client = u.scope.client

CanActInScope(u, permission, target) ==
  /\ Can(u, permission)
  /\ CASE GetScopeTier(u) = "platform" -> TRUE
       [] GetScopeTier(u) = "organization" ->
            /\ target # Platform
            /\ target.org \in {"", u.scope.org}
            /\ target.client # "" => clientBelongsToOrg(target.client, u.scope.org)
       [] GetScopeTier(u) = "client" ->
            /\ target.client = u.scope.client
            /\ target.org \in {"", u.scope.org}

\* A plausible mistake: the weakest role of the target is compared.
ComparesWeakest(u, target, permission) ==
  /\ ~HasProtectedRole(target)
  /\ Can(u, permission)
  /\ LowestOrdinal(u) <= HighestOrdinal(target)
  /\ CanActInScope(u, permission, target.scope)

\* CanManageUser with "users:update", CanResetPassword with
\* "users:reset_password".
CanManageUser(u, target, permission) ==
  /\ ~HasProtectedRole(target)
  /\ Can(u, permission)
  /\ LowestOrdinal(u) <= LowestOrdinal(target)
  /\ CanActInScope(u, permission, target.scope)

CanAssignRole(u, role) ==
  /\ ~role.protected
  /\ Can(u, "users:assign_roles")
  /\ role.ordinal >= LowestOrdinal(u)

-----------------------------------------------------------------------------
(***************************************************************************)
(* Three users.                                                            *)
(***************************************************************************)
Root == Role(0, TRUE, {})
Admin == Role(10, FALSE, {"users:update", "users:assign_roles"})
Lead == Role(20, FALSE, {"users:update"})
Analyst == Role(50, FALSE, {})

RoleSets == {{}, {Root}, {Admin}, {Lead}, {Admin, Analyst}, {Lead, Analyst}}

User(scope, roles, revoked) ==
  [scope |-> scope, roles |-> {[role |-> r, active |-> TRUE] : r \in roles}
                              \cup {[role |-> r, active |-> FALSE] : r \in revoked}]

UserScopes == Scopes \ {Scope("o2", "")}

Users ==
  {User(scope, roles, revoked) : scope \in UserScopes, roles \in RoleSets,
                                 revoked \in {{}, {Root}}}

\* Revoked roles are added to one of the three only.
NothingRevoked(u) == \A ur \in u.roles : ur.active

AuthorizationInit ==
  \E a \in Users, b, c \in {u \in Users : NothingRevoked(u)} :
    decision = [at |-> "asked", a |-> a, b |-> b, c |-> c]

Decide ==
  /\ decision.at = "asked"
  /\ decision' =
       [at |-> "decided", a |-> decision.a, b |-> decision.b, c |-> decision.c,
        manages |-> {p \in {"a", "b", "c"} \X {"a", "b", "c"} :
                       CanManageUser(decision[p[1]], decision[p[2]], "users:update")},
        assigns |-> {role \in {Root, Admin, Lead, Analyst} :
                       CanAssignRole(decision.a, role)},
        acts |-> {s \in Scopes : CanActInScope(decision.a, "users:update", s)}]

AuthorizationSpec == AuthorizationInit /\ [][Decide]_decision

-----------------------------------------------------------------------------
(***************************************************************************)
(* What is checked.                                                        *)
(***************************************************************************)
\* The clients below a scope.
Reach(scope) ==
  {c \in Clients : /\ scope.org \in {"", OrgOf[c]}
                   /\ scope.client \in {"", c}}

\* Management is a hierarchy: who manages a manager manages whom that manager
\* manages, although each decision weighs permission, ordinals and scope of
\* its own two users only.  And whoever gives a user they manage a role they
\* may assign still manages that user (CanManageUser, CanAssignRole).
ManagementIsTransitive ==
  decision.at = "decided" =>
    /\ \A x, y, z \in {"a", "b", "c"} :
         <<x, y>> \in decision.manages /\ <<y, z>> \in decision.manages
         => <<x, z>> \in decision.manages
    /\ <<"a", "b">> \in decision.manages =>
         \A role \in decision.assigns :
           CanManageUser(decision.a,
                         [decision.b EXCEPT
                            !.roles = @ \cup {[role |-> role, active |-> TRUE]}],
                         "users:update")

\* A user acts exactly in the scopes below their own: all the clients of the
\* scope acted in are clients of the user's scope, and acting in a scope
\* includes acting in every scope inside it (CanActInScope).
ActingFollowsTheTree ==
  decision.at = "decided" =>
    \A s \in decision.acts :
      /\ Reach(s) \subseteq Reach(decision.a.scope)
      /\ s = Platform => decision.a.scope = Platform
      /\ \A t \in Scopes : Reach(t) \subseteq Reach(s) /\ t # Platform
                             /\ (t.client = "" => s.client = "")
                           => t \in decision.acts

\* Authority follows the tree of platform, organizations and clients, whether
\* it is exercised over users or in scopes.
AuthorityIsAHierarchy == ManagementIsTransitive /\ ActingFollowsTheTree
=============================================================================
