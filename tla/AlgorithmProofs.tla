---------------------------- MODULE AlgorithmProofs ----------------------------
(***************************************************************************)
(* Proofs about the algorithms that only read what they are given.  The    *)
(* theorems about operators are about any users, roles and requests, of    *)
(* which the runs take a few; from them follow the invariants of the runs. *)
(***************************************************************************)
EXTENDS Authorization, Normalization, Paging, Aggregation, SequenceTheorems,
        FiniteSetTheorems, FunctionTheorems, WellFoundedInduction, TLAPS

-----------------------------------------------------------------------------
(***************************************************************************)
(* Users.  An ordinal is a number; a role assigned twice, active and not,  *)
(* counts as active.                                                       *)
(***************************************************************************)
Permissions == {"users:update", "users:reset_password", "users:assign_roles"}
AnyRole == [ordinal : Nat, protected : BOOLEAN, permissions : SUBSET Permissions]
AnyUser == [scope : Scopes, roles : SUBSET [role : AnyRole, active : BOOLEAN]]

\* Every nonempty set of naturals has a least element.
LEMMA LeastNatural ==
  ASSUME NEW S \in SUBSET Nat, S # {}
  PROVE  \E n \in S : \A m \in S : n <= m
<1>1. PICK n \in S : \A m \in S : ~(<<m, n>> \in OpToRel(<, Nat))
  BY NatLessThanWellFounded, WFMin
<1>2. \A m \in S : ~(m < n)
  BY <1>1, Zenon DEF OpToRel
<1> QED
  BY <1>2

\* The strongest role of a user: one of the user's, or 100, and the least of them.
LEMMA LowestOrdinalIsLeast ==
  ASSUME NEW u \in AnyUser
  PROVE  /\ LowestOrdinal(u) \in Nat /\ LowestOrdinal(u) <= 100
         /\ \A role \in ActiveRoles(u) : LowestOrdinal(u) <= role.ordinal
         /\ LowestOrdinal(u) = 100 \/ \E role \in ActiveRoles(u) : LowestOrdinal(u) = role.ordinal
<1> DEFINE ordinals == {100} \cup {role.ordinal : role \in ActiveRoles(u)}
<1>1. \A role \in ActiveRoles(u) : role.ordinal \in Nat
  BY DEF ActiveRoles, AnyUser, AnyRole
<1>2. ordinals \subseteq Nat /\ ordinals # {}
  BY <1>1
<1>3. LowestOrdinal(u) \in ordinals /\ \A m \in ordinals : LowestOrdinal(u) <= m
  <2>1. \E n \in ordinals : \A m \in ordinals : n <= m
    BY <1>2, LeastNatural
  <2> HIDE DEF ordinals
  <2>2. LowestOrdinal(u) = CHOOSE n \in ordinals : \A m \in ordinals : n <= m
    BY DEF LowestOrdinal, ordinals
  <2> QED
    BY <2>1, <2>2
<1> QED
  BY <1>1, <1>2, <1>3

\* The tree: a client is in one organization, and every organization has one.
LEMMA ScopesAreATree ==
  /\ \A s \in Scopes : /\ s = [org |-> s.org, client |-> s.client]
                       /\ s.client # "" => s.client \in Clients /\ s.org = OrgOf[s.client]
                       /\ s.client = "" => s.org = "" \/ s.org \in Organizations
                       /\ s = Platform <=> s.org = ""
                       /\ s.org # "" \/ s.client = ""
  /\ \A c \in Clients : c # "" /\ OrgOf[c] \in Organizations
  /\ \A o \in Organizations : o # "" /\ \E c \in Clients : OrgOf[c] = o
<1>0. OrgOf["c1"] = "o1" /\ OrgOf["c2"] = "o1" /\ OrgOf["c3"] = "o2"
  BY DEF OrgOf
<1>1. \A c \in Clients : c # "" /\ OrgOf[c] \in Organizations
  BY <1>0 DEF Clients, Organizations
<1>2. \A o \in Organizations : o # "" /\ \E c \in Clients : OrgOf[c] = o
  BY <1>0 DEF Clients, Organizations
<1>3. ASSUME NEW s \in Scopes
      PROVE  /\ s = [org |-> s.org, client |-> s.client]
             /\ s.client # "" => s.client \in Clients /\ s.org = OrgOf[s.client]
             /\ s.client = "" => s.org = "" \/ s.org \in Organizations
             /\ s = Platform <=> s.org = ""
             /\ s.org # "" \/ s.client = ""
  <2>1. CASE s = Platform
    BY <2>1 DEF Platform, Scope
  <2>2. CASE s \in {Scope(o, "") : o \in Organizations}
    <3>1. PICK o \in Organizations : s = [org |-> o, client |-> ""]
      BY <2>2 DEF Scope
    <3> QED
      BY <1>2, <3>1 DEF Platform, Scope
  <2>3. CASE s \in {Scope(OrgOf[c], c) : c \in Clients}
    <3>1. PICK c \in Clients : s = [org |-> OrgOf[c], client |-> c]
      BY <2>3 DEF Scope
    <3>2. s.org = OrgOf[c] /\ s.client = c /\ c # "" /\ OrgOf[c] # ""
      BY <1>1, <1>2, <3>1
    <3> QED
      BY <3>1, <3>2 DEF Platform, Scope
  <2> QED
    BY <2>1, <2>2, <2>3 DEF Scopes
<1> QED
  BY <1>1, <1>2, <1>3

\* Scope t lies in scope s: what CanActInScope decides about the two scopes.
Inside(t, s) ==
  \/ s = Platform
  \/ s.client = "" /\ t.org = s.org
  \/ t = s

\* CanActInScope asks for the permission and for a scope inside the user's own.
LEMMA ActsInside ==
  ASSUME NEW u \in AnyUser, NEW p, NEW t \in Scopes
  PROVE  CanActInScope(u, p, t) <=> Can(u, p) /\ Inside(t, u.scope)
<1>0. u.scope \in Scopes
  BY DEF AnyUser
<1>1. CASE GetScopeTier(u) = "platform"
  BY <1>0, <1>1, ScopesAreATree DEF CanActInScope, GetScopeTier, Inside
<1>2. CASE GetScopeTier(u) = "organization"
  <2>1. u.scope.client = "" /\ u.scope.org # "" /\ u.scope # Platform
    BY <1>0, <1>2, ScopesAreATree DEF GetScopeTier
  <2>2. CanActInScope(u, p, t) <=>
          /\ Can(u, p) /\ t # Platform /\ t.org \in {"", u.scope.org}
          /\ t.client # "" => OrgOf[t.client] = u.scope.org
    BY <1>2 DEF CanActInScope, clientBelongsToOrg
  <2>3. /\ t = Platform <=> t.org = ""
        /\ t.client # "" => t.org = OrgOf[t.client]
    BY ScopesAreATree
  <2> QED
    BY <2>1, <2>2, <2>3 DEF Inside
<1>3. CASE GetScopeTier(u) = "client"
  <2>1. u.scope.client # "" /\ u.scope # Platform /\ u.scope.org = OrgOf[u.scope.client]
    BY <1>0, <1>3, ScopesAreATree DEF GetScopeTier
  <2>2. CanActInScope(u, p, t) <=>
          Can(u, p) /\ t.client = u.scope.client /\ t.org \in {"", u.scope.org}
    BY <1>3 DEF CanActInScope
  <2>3. t.client # "" => t.org = OrgOf[t.client]
    BY ScopesAreATree
  <2>4. t.client = u.scope.client /\ t.org = u.scope.org => t = u.scope
    BY <1>0, ScopesAreATree
  <2>5. t.client = u.scope.client /\ t.org \in {"", u.scope.org} => t.org = u.scope.org
    BY <2>1, <2>3
  <2> QED
    BY <2>1, <2>2, <2>4, <2>5 DEF Inside
<1> QED
  BY <1>1, <1>2, <1>3 DEF GetScopeTier

\* Being inside is transitive.
LEMMA InsideIsTransitive ==
  ASSUME NEW r \in Scopes, NEW s \in Scopes, NEW t \in Scopes, Inside(t, s), Inside(s, r)
  PROVE  Inside(t, r)
<1>1. /\ t = Platform <=> t.org = ""
      /\ s = Platform <=> s.org = ""
      /\ r = Platform <=> r.org = ""
  BY ScopesAreATree
<1>2. CASE r = Platform \/ s = r
  BY <1>2 DEF Inside
<1>3. CASE r # Platform /\ r.client = "" /\ s.org = r.org
  BY <1>1, <1>3 DEF Inside
<1> QED
  BY <1>2, <1>3 DEF Inside

\* Who manages a manager manages whom that manager manages, whoever the three
\* are and whatever roles they have (CanManageUser).
THEOREM ManagingIsTransitive ==
  ASSUME NEW x \in AnyUser, NEW y \in AnyUser, NEW z \in AnyUser, NEW p,
         CanManageUser(x, y, p), CanManageUser(y, z, p)
  PROVE  CanManageUser(x, z, p)
<1>1. x.scope \in Scopes /\ y.scope \in Scopes /\ z.scope \in Scopes
  BY DEF AnyUser
<1>2. Inside(y.scope, x.scope) /\ Inside(z.scope, y.scope)
  BY <1>1, ActsInside DEF CanManageUser
<1>3. Inside(z.scope, x.scope)
  BY <1>1, <1>2, InsideIsTransitive
<1>4. LowestOrdinal(x) <= LowestOrdinal(z)
  BY LowestOrdinalIsLeast DEF CanManageUser
<1>5. CanActInScope(x, p, z.scope)
  BY <1>1, <1>3, ActsInside DEF CanManageUser
<1> QED
  BY <1>4, <1>5 DEF CanManageUser

\* Giving a managed user a role one may assign does not put the user out of
\* one's reach (CanAssignRole).
THEOREM AssigningKeepsManaging ==
  ASSUME NEW x \in AnyUser, NEW y \in AnyUser, NEW p, NEW role \in AnyRole,
         CanManageUser(x, y, p), CanAssignRole(x, role)
  PROVE  CanManageUser(x, [y EXCEPT !.roles = @ \cup {[role |-> role, active |-> TRUE]}], p)
<1> DEFINE w == [y EXCEPT !.roles = @ \cup {[role |-> role, active |-> TRUE]}]
<1>1. w \in AnyUser /\ w.scope = y.scope
      /\ w.roles = y.roles \cup {[role |-> role, active |-> TRUE]}
  <2>1. PICK roles \in SUBSET [role : AnyRole, active : BOOLEAN] :
          roles = y.roles \cup {[role |-> role, active |-> TRUE]}
    <3>1. y.roles \in SUBSET [role : AnyRole, active : BOOLEAN]
      BY DEF AnyUser
    <3>2. [role |-> role, active |-> TRUE] \in [role : AnyRole, active : BOOLEAN]
      OBVIOUS
    <3> QED
      BY <3>1, <3>2
  <2>2. w = [y EXCEPT !.roles = roles]
    BY <2>1
  <2> HIDE DEF w
  <2> QED
    BY <2>1, <2>2 DEF AnyUser
<1>2. ActiveRoles(w) = ActiveRoles(y) \cup {role}
  <2> HIDE DEF w
  <2>1. \A r \in ActiveRoles(w) : r \in ActiveRoles(y) \cup {role}
    BY <1>1 DEF ActiveRoles
  <2>2. role \in ActiveRoles(w)
    <3>1. [role |-> role, active |-> TRUE] \in w.roles
      BY <1>1
    <3> QED
      BY <3>1 DEF ActiveRoles
  <2>3. \A r \in ActiveRoles(y) : r \in ActiveRoles(w)
    BY <1>1 DEF ActiveRoles
  <2> QED
    BY <2>1, <2>2, <2>3
<1> HIDE DEF w
<1>3. ~HasProtectedRole(w)
  BY <1>2 DEF HasProtectedRole, CanManageUser, CanAssignRole
<1>4. LowestOrdinal(x) <= LowestOrdinal(w)
  <2>1. LowestOrdinal(x) \in Nat /\ LowestOrdinal(x) <= 100
    BY LowestOrdinalIsLeast
  <2>2. LowestOrdinal(w) = 100 \/ \E r \in ActiveRoles(w) : LowestOrdinal(w) = r.ordinal
    BY <1>1, LowestOrdinalIsLeast
  <2>3. \A r \in ActiveRoles(y) : r.ordinal \in Nat /\ LowestOrdinal(y) <= r.ordinal
    BY LowestOrdinalIsLeast DEF ActiveRoles, AnyUser, AnyRole
  <2>4. LowestOrdinal(x) <= LowestOrdinal(y) /\ LowestOrdinal(y) \in Nat
    BY LowestOrdinalIsLeast DEF CanManageUser
  <2>5. role.ordinal \in Nat /\ LowestOrdinal(x) <= role.ordinal
    BY <2>1 DEF CanAssignRole, AnyRole
  <2> QED
    BY <1>2, <2>1, <2>2, <2>3, <2>4, <2>5
<1> QED
  BY <1>1, <1>3, <1>4 DEF CanManageUser, w

\* The clients below a scope, for each kind of scope.
LEMMA InsideReach ==
  ASSUME NEW s \in Scopes, NEW t \in Scopes
  PROVE  /\ Inside(t, s) => Reach(t) \subseteq Reach(s)
         /\ Reach(t) \subseteq Reach(s) /\ t # Platform /\ (t.client = "" => s.client = "")
            => Inside(t, s)
<1>1. /\ t = Platform <=> t.org = ""
      /\ s = Platform <=> s.org = ""
      /\ t.client # "" => t.client \in Clients /\ t.org = OrgOf[t.client]
      /\ s.client # "" => s.client \in Clients /\ s.org = OrgOf[s.client]
      /\ t.client = "" => t.org = "" \/ t.org \in Organizations
      /\ t.org # "" \/ t.client = ""
      /\ s.org # "" \/ s.client = ""
      /\ t = [org |-> t.org, client |-> t.client]
      /\ s = [org |-> s.org, client |-> s.client]
  BY ScopesAreATree
<1>2. Inside(t, s) => Reach(t) \subseteq Reach(s)
  BY <1>1 DEF Inside, Reach
<1>3. ASSUME Reach(t) \subseteq Reach(s), t # Platform, t.client = "" => s.client = ""
      PROVE  Inside(t, s)
  <2>1. PICK c \in Reach(t) : t.client # "" => c = t.client
    <3>1. CASE t.client # ""
      BY <1>1, <3>1 DEF Reach
    <3>2. CASE t.client = ""
      <4>1. PICK c \in Clients : OrgOf[c] = t.org
        BY <1>1, <1>3, <3>2, ScopesAreATree
      <4> QED
        BY <3>2, <4>1 DEF Reach
    <3> QED
      BY <3>1, <3>2
  <2>2. c \in Reach(s) /\ t.org = OrgOf[c]
    BY <1>1, <1>3, <2>1 DEF Reach
  <2>3. s.org \in {"", OrgOf[c]} /\ s.client \in {"", c}
    BY <2>2 DEF Reach
  <2> QED
    BY <1>1, <1>3, <2>1, <2>2, <2>3 DEF Inside
<1> QED
  BY <1>2, <1>3

\* The roles of a run are roles.
LEMMA RolesAreRoles ==
  Root \in AnyRole /\ Admin \in AnyRole /\ Lead \in AnyRole /\ Analyst \in AnyRole
<1>1. /\ {"users:update", "users:assign_roles"} \in SUBSET Permissions
      /\ {"users:update"} \in SUBSET Permissions /\ {} \in SUBSET Permissions
  BY DEF Permissions
<1>2. ASSUME NEW n \in Nat, NEW b \in BOOLEAN, NEW ps \in SUBSET Permissions
      PROVE  Role(n, b, ps) \in AnyRole
  BY DEF Role, AnyRole
<1> QED
  BY <1>1, <1>2 DEF Root, Admin, Lead, Analyst

\* The three users of a run are users.
LEMMA UsersAreUsers == Users \subseteq AnyUser
<1>1. \A r \in {Root, Admin, Lead, Analyst} : r \in AnyRole
  BY RolesAreRoles
<1>2. \A roles \in RoleSets \cup {{}, {Root}} : \A r \in roles : r \in AnyRole
  BY <1>1 DEF RoleSets
<1>3. ASSUME NEW scope \in Scopes, NEW roles \in RoleSets, NEW revoked \in {{}, {Root}}
      PROVE  User(scope, roles, revoked) \in AnyUser
  <2>1. {[role |-> r, active |-> TRUE] : r \in roles}
        \cup {[role |-> r, active |-> FALSE] : r \in revoked}
        \in SUBSET [role : AnyRole, active : BOOLEAN]
    <3>1. ASSUME NEW ur \in {[role |-> r, active |-> TRUE] : r \in roles}
          PROVE  ur \in [role : AnyRole, active : BOOLEAN]
      <4>1. PICK r \in roles : ur = [role |-> r, active |-> TRUE]
        OBVIOUS
      <4>2. r \in AnyRole
        BY <1>2
      <4> QED
        BY <4>1, <4>2
    <3>2. ASSUME NEW ur \in {[role |-> r, active |-> FALSE] : r \in revoked}
          PROVE  ur \in [role : AnyRole, active : BOOLEAN]
      <4>1. PICK r \in revoked : ur = [role |-> r, active |-> FALSE]
        OBVIOUS
      <4>2. r \in AnyRole
        BY <1>2
      <4> QED
        BY <4>1, <4>2
    <3> QED
      BY <3>1, <3>2
  <2> QED
    BY <2>1 DEF AnyUser, User
<1>4. ASSUME NEW u \in Users
      PROVE  u \in AnyUser
  <2>1. PICK scope \in UserScopes, roles \in RoleSets, revoked \in {{}, {Root}} :
          u = User(scope, roles, revoked)
    BY DEF Users
  <2> QED
    BY <1>3, <2>1 DEF UserScopes
<1> QED
  BY <1>4

\* What a decision holds: three users, and what the methods say of them.
DecisionInv ==
  /\ \A x \in {"a", "b", "c"} : decision[x] \in AnyUser
  /\ decision.at = "decided" =>
       /\ decision.manages = {p \in {"a", "b", "c"} \X {"a", "b", "c"} :
                                CanManageUser(decision[p[1]], decision[p[2]], "users:update")}
       /\ decision.assigns = {role \in {Root, Admin, Lead, Analyst} :
                                CanAssignRole(decision.a, role)}
       /\ decision.acts = {s \in Scopes : CanActInScope(decision.a, "users:update", s)}

\* The record of a decision keeps its users.
LEMMA DecisionInvariance == AuthorizationSpec => []DecisionInv
<1>1. AuthorizationInit => DecisionInv
  <2> SUFFICES ASSUME NEW a \in Users, NEW b \in Users, NEW c \in Users,
                      decision = [at |-> "asked", a |-> a, b |-> b, c |-> c]
               PROVE  DecisionInv
    BY DEF AuthorizationInit
  <2> QED
    BY UsersAreUsers DEF DecisionInv
<1>2. DecisionInv /\ [Decide]_decision => DecisionInv'
  <2> SUFFICES ASSUME DecisionInv, Decide
               PROVE  DecisionInv'
    BY DEF DecisionInv
  <2>1. PICK d : d = decision
    OBVIOUS
  <2>2. d["a"] \in AnyUser /\ d["b"] \in AnyUser /\ d["c"] \in AnyUser
    BY <2>1 DEF DecisionInv
  <2>3. PICK manages : manages = {p \in {"a", "b", "c"} \X {"a", "b", "c"} :
                                    CanManageUser(d[p[1]], d[p[2]], "users:update")}
    OBVIOUS
  <2>4. PICK assigns : assigns = {role \in {Root, Admin, Lead, Analyst} :
                                    CanAssignRole(d.a, role)}
    OBVIOUS
  <2>5. PICK acts : acts = {s \in Scopes : CanActInScope(d.a, "users:update", s)}
    OBVIOUS
  <2>6. decision' = [at |-> "decided", a |-> d.a, b |-> d.b, c |-> d.c,
                     manages |-> manages, assigns |-> assigns, acts |-> acts]
    BY <2>1, <2>3, <2>4, <2>5 DEF Decide
  <2>7. /\ decision'["a"] = d["a"] /\ decision'["b"] = d["b"] /\ decision'["c"] = d["c"]
        /\ decision'.manages = manages /\ decision'.assigns = assigns
        /\ decision'.acts = acts
    BY <2>6
  <2>8. \A p \in {"a", "b", "c"} \X {"a", "b", "c"} :
          decision'[p[1]] = d[p[1]] /\ decision'[p[2]] = d[p[2]]
    BY <2>7
  <2> QED
    BY <2>2, <2>3, <2>4, <2>5, <2>7, <2>8 DEF DecisionInv
<1> QED
  BY <1>1, <1>2, PTL DEF AuthorizationSpec

\* Authority is a hierarchy over users and over scopes: the decisions about two
\* users, or a user and a scope, compose (CanManageUser, CanAssignRole,
\* CanActInScope).
THEOREM AuthorityIsAHierarchyHolds == AuthorizationSpec => []AuthorityIsAHierarchy
<1>1. DecisionInv => AuthorityIsAHierarchy
  <2> SUFFICES ASSUME DecisionInv, decision.at = "decided"
               PROVE  AuthorityIsAHierarchy
    BY DEF AuthorityIsAHierarchy, ManagementIsTransitive, ActingFollowsTheTree
  <2>0. /\ \A x \in {"a", "b", "c"} : decision[x] \in AnyUser
        /\ \A x, y \in {"a", "b", "c"} :
             <<x, y>> \in decision.manages
             <=> CanManageUser(decision[x], decision[y], "users:update")
    BY DEF DecisionInv
  <2>1. ASSUME NEW x \in {"a", "b", "c"}, NEW y \in {"a", "b", "c"}, NEW z \in {"a", "b", "c"},
               <<x, y>> \in decision.manages, <<y, z>> \in decision.manages
        PROVE  <<x, z>> \in decision.manages
    BY <2>0, <2>1, ManagingIsTransitive
  <2>2. ASSUME <<"a", "b">> \in decision.manages, NEW role \in decision.assigns
        PROVE  CanManageUser(decision.a,
                             [decision.b EXCEPT
                                !.roles = @ \cup {[role |-> role, active |-> TRUE]}],
                             "users:update")
    <3>1. role \in AnyRole /\ CanAssignRole(decision.a, role)
      BY RolesAreRoles DEF DecisionInv
    <3>2. /\ decision.a \in AnyUser /\ decision.b \in AnyUser
          /\ CanManageUser(decision.a, decision.b, "users:update")
      BY <2>0, <2>2
    <3> QED
      BY <3>1, <3>2, AssigningKeepsManaging
  <2>3. ASSUME NEW s \in decision.acts
        PROVE  /\ Reach(s) \subseteq Reach(decision.a.scope)
               /\ s = Platform => decision.a.scope = Platform
               /\ \A t \in Scopes : Reach(t) \subseteq Reach(s) /\ t # Platform
                                      /\ (t.client = "" => s.client = "")
                                    => t \in decision.acts
    <3>1. /\ decision.a \in AnyUser /\ s \in Scopes
          /\ CanActInScope(decision.a, "users:update", s)
      BY <2>0 DEF DecisionInv
    <3>2. decision.a.scope \in Scopes
      BY <3>1 DEF AnyUser
    <3>3. Can(decision.a, "users:update") /\ Inside(s, decision.a.scope)
      BY <3>1, ActsInside
    <3>4. Reach(s) \subseteq Reach(decision.a.scope)
      BY <3>1, <3>2, <3>3, InsideReach
    <3>5. s = Platform => decision.a.scope = Platform
      BY <3>1, <3>2, <3>3, ScopesAreATree DEF Inside
    <3>6. ASSUME NEW t \in Scopes, Reach(t) \subseteq Reach(s), t # Platform,
                 t.client = "" => s.client = ""
          PROVE  t \in decision.acts
      <4>1. Inside(t, s)
        BY <3>1, <3>6, InsideReach
      <4>2. Inside(t, decision.a.scope)
        BY <3>1, <3>2, <3>3, <4>1, InsideIsTransitive
      <4>3. CanActInScope(decision.a, "users:update", t)
        BY <3>1, <3>3, <4>2, ActsInside
      <4> QED
        BY <4>3 DEF DecisionInv
    <3> QED
      BY <3>4, <3>5, <3>6
  <2> QED
    BY <2>1, <2>2, <2>3 DEF AuthorityIsAHierarchy, ManagementIsTransitive, ActingFollowsTheTree
<1> QED
  BY <1>1, DecisionInvariance, PTL

-----------------------------------------------------------------------------
(***************************************************************************)
(* Events in OCSF.  A request is timely when its times are instants after  *)
(* September 2001, in seconds or, in the body, in milliseconds.            *)
(***************************************************************************)
Timely(request) ==
  /\ request.endpoint \in {"event", "raw"}
  /\ request.time \in Seconds
  /\ request.endpoint = "raw" => request.time = 0
  /\ request.body.time \in Times

Received == /\ pipeline.at = "received"
            /\ Timely(pipeline.request)

\* What the passthrough reads of a time is the instant the sender meant.
LEMMA ReadTimeIsTheInstant ==
  ASSUME NEW t \in Times
  PROVE  /\ ReadTime(t) \in {t, t \div 1000}
         /\ ReadTime(t) \in Instants \cup {0}
         /\ ReadTime(t) = 0 => t = 0
<1>1. \A i \in Instants : i \in 1001 .. MillisThreshold
  BY InstantsAssumption
<1>2. MillisThreshold \in Int /\ 1000 * 1001 > MillisThreshold /\ MillisThreshold > 0
  BY SMT DEF MillisThreshold
<1>3. CASE t \in Seconds
  <2>1. t = 0 \/ t \in Instants
    BY <1>3 DEF Seconds
  <2>2. t \in Int /\ 0 <= t /\ t <= MillisThreshold
    BY <1>1, <1>2, <2>1, SMT
  <2>3. ReadTime(t) = t
    BY <1>2, <2>2, SMT DEF ReadTime
  <2> QED
    BY <2>1, <2>3
<1>4. CASE t \in {1000 * i : i \in Instants}
  <2>1. PICK i \in Instants : t = 1000 * i
    BY <1>4
  <2>2. i \in Int /\ 1001 <= i
    BY <1>1, <1>2, SMT
  <2>3. t > MillisThreshold /\ t \div 1000 = i /\ i # 0
    BY <1>2, <2>1, <2>2, SMT
  <2>4. ReadTime(t) = i /\ i = t \div 1000
    BY <2>3 DEF ReadTime
  <2> QED
    BY <2>3, <2>4
<1> QED
  BY <1>3, <1>4 DEF Times

\* A request the passthrough is found for is stored with the numbers, the user
\* and the instant of the event in its body, on either endpoint: Process of
\* pipeline.go with ocsf_passthrough.go, for any body whose times are timely.
THEOREM PassthroughIsFaithful ==
  ASSUME NEW request, Timely(request),
         FoundFor(request).kind = "ocsf", request.body.shape = "object",
         Process(request).at = "stored"
  PROVE  LET event == Process(request).event
             body == request.body
             sent == IF body.time # 0 THEN body.time ELSE request.time
         IN  /\ event.category_uid = body.category_uid
             /\ event.class_uid = body.class_uid
             /\ event.activity_id = body.activity_id
             /\ event.type_uid = body.type_uid
             /\ event.user = body.user
             /\ event.time = ReadTime(sent)
             /\ sent \in Times
<1>1. PICK envelope : envelope = Envelope(request)
  OBVIOUS
<1>2. PICK body : body = request.body
  OBVIOUS
<1>3. PICK sent : sent = IF body.time # 0 THEN body.time ELSE request.time
  OBVIOUS
<1>4. sent \in Times
  BY <1>2, <1>3 DEF Timely, Times
<1>5. /\ envelope.top.shape = "object"
      /\ (IF envelope.event.shape # "text" THEN envelope.event ELSE envelope.top) = body
      /\ OcsfTime(envelope) = sent
  <2>1. CASE request.endpoint = "event"
    <3>1. envelope.event = body /\ envelope.top = [Blank EXCEPT !.time = request.time]
      BY <1>1, <1>2, <2>1 DEF Envelope
    <3>2. envelope.top.shape = "object" /\ envelope.top.time = request.time
      BY <3>1 DEF Blank
    <3> QED
      BY <1>2, <1>3, <3>1, <3>2 DEF OcsfTime
  <2>2. CASE request.endpoint = "raw"
    <3>1. envelope.event = [Blank EXCEPT !.shape = "text"] /\ envelope.top = body
      BY <1>1, <1>2, <2>2 DEF Envelope
    <3>2. envelope.event.shape = "text"
      BY <3>1 DEF Blank
    <3>3. request.time = 0
      BY <2>2 DEF Timely
    <3> QED
      BY <1>2, <1>3, <3>1, <3>2, <3>3 DEF OcsfTime
  <2> QED
    BY <2>1, <2>2 DEF Timely
<1>6. PICK result : result = Normalize(envelope, ReceivedAt)
  OBVIOUS
<1>7. Process(request).event = result.event
  BY <1>1, <1>6 DEF Process
<1>8. result = NormalizeOcsf(envelope)
  BY <1>1, <1>6 DEF Normalize, FoundFor
<1>9. /\ result.event.category_uid = body.category_uid
      /\ result.event.class_uid = body.class_uid
      /\ result.event.activity_id = body.activity_id
      /\ result.event.type_uid = body.type_uid
      /\ result.event.user = body.user
      /\ result.event.time = ReadTime(sent)
  BY <1>2, <1>5, <1>8 DEF NormalizeOcsf
<1> QED
  BY <1>2, <1>3, <1>4, <1>7, <1>9

\* Every request the runs enumerate is timely.
LEMMA RequestsAreTimely ==
  ASSUME NormalizationInit
  PROVE  Received
<1>1. \A body \in Logs : body.time \in Times
  <2>1. \A a \in Actions, u \in UserFields : ActionLog(a, u).time = 0
    BY DEF ActionLog, Blank
  <2>2. \A s \in {"success", "error"}, v \in {"warn", "fatal"}, t \in Seconds :
          OutcomeLog(s, v, t).time = t
    BY DEF OutcomeLog, Blank
  <2>3. \A s \in Shapes : ShapedLog(s).time = 0
    BY DEF ShapedLog, Blank
  <2> QED
    BY <2>1, <2>2, <2>3 DEF Logs, Times, Seconds
<1>2. \A body \in OcsfBodies : body.time \in Times
  <2>1. \A c \in Classes : \A a \in c.activities \cup {0}, class \in ClassFields(c), t \in Times :
          OcsfBody(c, a, class, t).time = t
    BY DEF OcsfBody, Blank
  <2> QED
    BY <2>1 DEF OcsfBodies
<1>3. \A body \in ShortBodies : body.time \in Times
  <2>1. \A v \in {AuthenticationValidator, IncidentFindingValidator},
           a \in {0, 1, 50}, u \in UserFields, s \in {0, 99, 100}, t \in Instants :
          ShortBody(v, a, u, s, t).time = t
    BY DEF ShortBody, Blank
  <2> QED
    BY <2>1 DEF ShortBodies, Times, Seconds
<1>4. PICK endpoint \in {"event", "raw"}, time \in Seconds,
           body \in Logs \cup OcsfBodies \cup ShortBodies :
         /\ endpoint = "raw" => time = 0
         /\ \E sourceType : pipeline = [at |-> "received",
                               request |-> Request(endpoint, sourceType, time, body)]
  BY DEF NormalizationInit
<1> QED
  BY <1>1, <1>2, <1>3, <1>4 DEF Received, Timely, Request

\* A request is timely until it is processed, and what became of it is what
\* Process makes of a timely request.
PipelineInv ==
  \/ Received
  \/ /\ Timely(pipeline.request)
     /\ pipeline = Process(pipeline.request)

\* A request of the runs is timely, before Process and after it.
LEMMA PipelineInvariance == NormalizationSpec => []PipelineInv
<1>1. NormalizationInit => PipelineInv
  BY RequestsAreTimely DEF PipelineInv
<1>2. PipelineInv /\ [ProcessRequest]_pipeline => PipelineInv'
  <2> SUFFICES ASSUME PipelineInv, [ProcessRequest]_pipeline
               PROVE  PipelineInv'
    OBVIOUS
  <2>1. CASE UNCHANGED pipeline
    BY <2>1 DEF PipelineInv, Received
  <2>2. CASE ProcessRequest
    <3>1. PICK request : request = pipeline.request
      OBVIOUS
    <3>2. PICK outcome : outcome = Process(request)
      OBVIOUS
    <3>3. outcome.at # "received" /\ outcome.request = request
      BY <3>2 DEF Process
    <3>4. Timely(request)
      BY <2>2, <3>1, <3>2, <3>3, Zenon DEF PipelineInv, Received
    <3> QED
      BY <2>2, <3>1, <3>2, <3>3, <3>4 DEF PipelineInv, ProcessRequest
  <2> QED
    BY <2>1, <2>2
<1> QED
  BY <1>1, <1>2, PTL DEF NormalizationSpec

\* An OCSF event keeps its identity and its time through the passthrough
\* (ocsf_passthrough.go), whatever instants after September 2001 the body and
\* the wrapper state, in whichever unit.
THEOREM PassthroughKeepsEventHolds == NormalizationSpec => []PassthroughKeepsEvent
<1>1. PipelineInv => PassthroughKeepsEvent
  <2> SUFFICES ASSUME PipelineInv, Stored,
                      FoundFor(pipeline.request).kind = "ocsf",
                      pipeline.request.body.shape = "object"
               PROVE  PassthroughKeepsEvent
    BY Zenon DEF PassthroughKeepsEvent
  <2>1. PICK request : request = pipeline.request
    OBVIOUS
  <2>2. Timely(request) /\ pipeline = Process(request)
    BY <2>1 DEF PipelineInv, Received, Stored
  <2>3. PICK event : event = pipeline.event
    OBVIOUS
  <2>4. PICK sent : sent = IF request.body.time # 0 THEN request.body.time ELSE request.time
    OBVIOUS
  <2>5. /\ event.category_uid = request.body.category_uid
        /\ event.class_uid = request.body.class_uid
        /\ event.activity_id = request.body.activity_id
        /\ event.type_uid = request.body.type_uid
        /\ event.user = request.body.user
        /\ event.time = ReadTime(sent)
        /\ sent \in Times
    BY <2>1, <2>2, <2>3, <2>4, PassthroughIsFaithful DEF Stored
  <2>6. /\ event.time \in {sent, sent \div 1000}
        /\ event.time \in Instants \cup {0}
        /\ event.time = 0 => sent = 0
    BY <2>5, ReadTimeIsTheInstant
  <2> QED
    BY <2>1, <2>3, <2>4, <2>5, <2>6 DEF PassthroughKeepsEvent
<1> QED
  BY <1>1, PipelineInvariance, PTL

\* What the classes of each category write in the field category.
CategoryFields == {"system", "findings", "iam", "network", "discovery",
                   "application", "remediation", "unmanned_systems"}

\* Every class of common/ocsf/events has a number above the thousand of its
\* category and names its category.
LEMMA ClassesAreNumbered ==
  \A c \in Classes : c.class_uid \in 1000 .. 8999 /\ c.category \in CategoryFields
  BY SMTT(60) DEF Classes, CategoryFields, EventClass,
      AccountChange, AdminGroupQuery, AirborneBroadcastActivity, ApiActivity,
      ApplicationError, ApplicationLifecycle,
      ApplicationSecurityPostureFinding, Authentication, AuthorizeSession,
      CloudResourcesInventoryInfo, ComplianceFinding, ConfigState,
      DataSecurityFinding, DatastoreActivity, DetectionFinding,
      DeviceConfigStateChange, DhcpActivity, DiscoveryResult, DnsActivity,
      DroneFlightsActivity, EmailActivity, EmailFileActivity,
      EmailUrlActivity, EntityManagement, EventLogActvity, EvidenceInfo,
      FileActivity, FileHosting, FileQuery, FileRemediationActivity, Finding,
      FolderQuery, FtpActivity, GroupManagement, HttpActivity,
      IamAnalysisFinding, IncidentFinding, InventoryInfo, JobQuery,
      KernelActivity, KernelExtensionActivity, KernelObjectQuery,
      MemoryActivity, ModuleActivity, ModuleQuery, NetworkActivity,
      NetworkConnectionQuery, NetworkFileActivity,
      NetworkRemediationActivity, NetworksQuery, NtpActivity,
      OsintInventoryInfo, PatchState, PeripheralActivity,
      PeripheralDeviceQuery, ProcessActivity, ProcessQuery,
      ProcessRemediationActivity, RdpActivity, RemediationActivity,
      ScanActivity, ScheduledJobActivity, ScriptActivity, SecurityFinding,
      ServiceQuery, SessionQuery, SmbActivity, SoftwareInfo, SshActivity,
      StartupItemQuery, TunnelActivity, UserAccess, UserInventory, UserQuery,
      VulnerabilityFinding, WebResourceAccessActivity, WebResourcesActivity

\* Every generated normalizer creates one of these classes.
LEMMA NormalizersCreateClasses ==
  \A i \in DOMAIN AllNormalizers : AllNormalizers[i].class \in Classes
<1>1. \A c, words : ClassNormalizer(c, words).class = c
  BY DEF ClassNormalizer
<1> QED
  BY <1>1, SMTT(60) DEF AllNormalizers, Classes,
      ApiActivityNormalizer, ApplicationErrorNormalizer,
      ApplicationLifecycleNormalizer, DatastoreActivityNormalizer,
      FileHostingNormalizer, ScanActivityNormalizer,
      WebResourceAccessActivityNormalizer, WebResourcesActivityNormalizer,
      AdminGroupQueryNormalizer, CloudResourcesInventoryInfoNormalizer,
      ConfigStateNormalizer, DeviceConfigStateChangeNormalizer,
      EvidenceInfoNormalizer, FileQueryNormalizer, FolderQueryNormalizer,
      InventoryInfoNormalizer, JobQueryNormalizer,
      KernelObjectQueryNormalizer, ModuleQueryNormalizer,
      NetworkConnectionQueryNormalizer, NetworksQueryNormalizer,
      OsintInventoryInfoNormalizer, PatchStateNormalizer,
      PeripheralDeviceQueryNormalizer, ProcessQueryNormalizer,
      ServiceQueryNormalizer, SessionQueryNormalizer, SoftwareInfoNormalizer,
      StartupItemQueryNormalizer, UserInventoryNormalizer,
      UserQueryNormalizer, ApplicationSecurityPostureFindingNormalizer,
      ComplianceFindingNormalizer, DataSecurityFindingNormalizer,
      DetectionFindingNormalizer, IamAnalysisFindingNormalizer,
      IncidentFindingNormalizer, SecurityFindingNormalizer,
      VulnerabilityFindingNormalizer, AccountChangeNormalizer,
      AuthenticationNormalizer, AuthorizeSessionNormalizer,
      EntityManagementNormalizer, GroupManagementNormalizer,
      UserAccessNormalizer, DhcpActivityNormalizer, DnsActivityNormalizer,
      EmailActivityNormalizer, EmailFileActivityNormalizer,
      EmailUrlActivityNormalizer, FtpActivityNormalizer,
      HttpActivityNormalizer, NetworkActivityNormalizer,
      NetworkFileActivityNormalizer, NtpActivityNormalizer,
      RdpActivityNormalizer, SmbActivityNormalizer, SshActivityNormalizer,
      TunnelActivityNormalizer, FileRemediationActivityNormalizer,
      NetworkRemediationActivityNormalizer,
      ProcessRemediationActivityNormalizer, RemediationActivityNormalizer,
      EventLogActvityNormalizer, FileActivityNormalizer,
      KernelActivityNormalizer, KernelExtensionActivityNormalizer,
      MemoryActivityNormalizer, ModuleActivityNormalizer,
      PeripheralActivityNormalizer, ProcessActivityNormalizer,
      ScheduledJobActivityNormalizer, ScriptActivityNormalizer,
      AirborneBroadcastActivityNormalizer, DroneFlightsActivityNormalizer

\* The normalizer found for a source type creates one of the declared classes:
\* Find returns the first that supports it (normalizer.go).
LEMMA FoundCreatesClass ==
  ASSUME NEW sourceType, Find(sourceType).kind = "class"
  PROVE  Find(sourceType).n.class \in Classes
<1>1. PICK supporting : supporting = Supporting(sourceType)
  OBVIOUS
<1>2. supporting \in SUBSET Nat /\ supporting \subseteq DOMAIN AllNormalizers
  BY <1>1 DEF Supporting, AllNormalizers
<1>3. PICK first : first = CHOOSE i \in supporting : \A j \in supporting : i <= j
  OBVIOUS
<1>4. supporting # {} /\ Find(sourceType).n = AllNormalizers[first]
  <2>1. CASE sourceType \in OcsfSourceTypes
    <3>1. Find(sourceType) = [kind |-> "ocsf"]
      BY <2>1, Zenon DEF Find
    <3> QED
      BY <3>1
  <2>2. CASE sourceType \notin OcsfSourceTypes /\ supporting # {}
    <3>1. Find(sourceType) = [kind |-> "class", n |-> AllNormalizers[first]]
      BY <1>1, <1>3, <2>2 DEF Find
    <3> QED
      BY <2>2, <3>1
  <2>3. CASE sourceType \notin OcsfSourceTypes /\ supporting = {}
    <3>1. Find(sourceType) \in {[kind |-> "hec"], [kind |-> "none"]}
      BY <1>1, <2>3 DEF Find
    <3> QED
      BY <3>1
  <2> QED
    BY <2>1, <2>2, <2>3
<1>5. first \in supporting
  <2>1. \E i \in supporting : \A j \in supporting : i <= j
    BY <1>2, <1>4, LeastNatural
  <2> QED
    BY <1>3, <2>1
<1> QED
  BY <1>2, <1>4, <1>5, NormalizersCreateClasses

\* A type_uid of 0 tells nothing; any other is that of a declared class and
\* one of its activities, which class_uid and activity_id name too.
HasTypeUid(uid, c, a) == uid = ComputeTypeUID(c.category_uid, c.class_uid, a)
TypedAs(event, c, a) ==
  /\ HasTypeUid(event.type_uid, c, a)
  /\ event.class_uid = c.class_uid
  /\ event.activity_id = a
Typed(event) ==
  \/ event.type_uid = 0
  \/ \E c \in Classes : \E a \in 0 .. 99 : TypedAs(event, c, a)

\* The number of a class is its category's thousand and less than a hundred.
LEMMA ClassesAreInCategories ==
  \A c \in Classes : /\ c.category_uid \in 1 .. 8
                     /\ c.class_uid - 1000 * c.category_uid \in 0 .. 99
  BY SMTT(60) DEF Classes, EventClass,
      AccountChange, AdminGroupQuery, AirborneBroadcastActivity, ApiActivity,
      ApplicationError, ApplicationLifecycle,
      ApplicationSecurityPostureFinding, Authentication, AuthorizeSession,
      CloudResourcesInventoryInfo, ComplianceFinding, ConfigState,
      DataSecurityFinding, DatastoreActivity, DetectionFinding,
      DeviceConfigStateChange, DhcpActivity, DiscoveryResult, DnsActivity,
      DroneFlightsActivity, EmailActivity, EmailFileActivity,
      EmailUrlActivity, EntityManagement, EventLogActvity, EvidenceInfo,
      FileActivity, FileHosting, FileQuery, FileRemediationActivity, Finding,
      FolderQuery, FtpActivity, GroupManagement, HttpActivity,
      IamAnalysisFinding, IncidentFinding, InventoryInfo, JobQuery,
      KernelActivity, KernelExtensionActivity, KernelObjectQuery,
      MemoryActivity, ModuleActivity, ModuleQuery, NetworkActivity,
      NetworkConnectionQuery, NetworkFileActivity,
      NetworkRemediationActivity, NetworksQuery, NtpActivity,
      OsintInventoryInfo, PatchState, PeripheralActivity,
      PeripheralDeviceQuery, ProcessActivity, ProcessQuery,
      ProcessRemediationActivity, RdpActivity, RemediationActivity,
      ScanActivity, ScheduledJobActivity, ScriptActivity, SecurityFinding,
      ServiceQuery, SessionQuery, SmbActivity, SoftwareInfo, SshActivity,
      StartupItemQuery, TunnelActivity, UserAccess, UserInventory, UserQuery,
      VulnerabilityFinding, WebResourceAccessActivity, WebResourcesActivity

\* The activities of a class have two digits.
LEMMA ActivitiesHaveTwoDigits ==
  \A c \in Classes : c.activities \subseteq 0 .. 99
  BY SMTT(60) DEF Classes, EventClass,
      AccountChange, AdminGroupQuery, AirborneBroadcastActivity, ApiActivity,
      ApplicationError, ApplicationLifecycle,
      ApplicationSecurityPostureFinding, Authentication, AuthorizeSession,
      CloudResourcesInventoryInfo, ComplianceFinding, ConfigState,
      DataSecurityFinding, DatastoreActivity, DetectionFinding,
      DeviceConfigStateChange, DhcpActivity, DiscoveryResult, DnsActivity,
      DroneFlightsActivity, EmailActivity, EmailFileActivity,
      EmailUrlActivity, EntityManagement, EventLogActvity, EvidenceInfo,
      FileActivity, FileHosting, FileQuery, FileRemediationActivity, Finding,
      FolderQuery, FtpActivity, GroupManagement, HttpActivity,
      IamAnalysisFinding, IncidentFinding, InventoryInfo, JobQuery,
      KernelActivity, KernelExtensionActivity, KernelObjectQuery,
      MemoryActivity, ModuleActivity, ModuleQuery, NetworkActivity,
      NetworkConnectionQuery, NetworkFileActivity,
      NetworkRemediationActivity, NetworksQuery, NtpActivity,
      OsintInventoryInfo, PatchState, PeripheralActivity,
      PeripheralDeviceQuery, ProcessActivity, ProcessQuery,
      ProcessRemediationActivity, RdpActivity, RemediationActivity,
      ScanActivity, ScheduledJobActivity, ScriptActivity, SecurityFinding,
      ServiceQuery, SessionQuery, SmbActivity, SoftwareInfo, SshActivity,
      StartupItemQuery, TunnelActivity, UserAccess, UserInventory, UserQuery,
      VulnerabilityFinding, WebResourceAccessActivity, WebResourcesActivity

\* The digits of a type_uid: the category, the number within it, the activity.
Digits(c, a, category, number) ==
  /\ c.class_uid = 1000 * category + number
  /\ ComputeTypeUID(c.category_uid, c.class_uid, a) = (category * 100 + number) * 100 + a

\* Every class and activity has such digits.
LEMMA TypeUidDigits ==
  ASSUME NEW c \in Classes, NEW a \in 0 .. 99
  PROVE  \E category \in 1 .. 8 : \E number \in 0 .. 99 : Digits(c, a, category, number)
<1>1. PICK category \in 1 .. 8 : category = c.category_uid
  BY ClassesAreInCategories
<1>2. PICK uid \in 1000 .. 8999 : uid = c.class_uid
  BY ClassesAreNumbered
<1>3. PICK number \in 0 .. 99 : number = uid - 1000 * category
  BY <1>1, <1>2, ClassesAreInCategories
<1>4. uid = 1000 * category + number
  BY <1>3
<1>5. uid % 1000 = number
  BY <1>4
<1>6. ~(uid < 100)
  OBVIOUS
<1>7. ComputeTypeUID(category, uid, a) = (category * 100 + number) * 100 + a
  BY <1>5, <1>6 DEF ComputeTypeUID
<1> QED
  BY <1>1, <1>2, <1>4, <1>7 DEF Digits

\* No class has the type_uid of the base event.
LEMMA TypeUidIsSet ==
  ASSUME NEW c \in Classes, NEW a \in 0 .. 99
  PROVE  ComputeTypeUID(c.category_uid, c.class_uid, a) # 0
<1>1. PICK category \in 1 .. 8, number \in 0 .. 99 : Digits(c, a, category, number)
  BY TypeUidDigits
<1>2. (category * 100 + number) * 100 + a # 0
  OBVIOUS
<1> QED
  BY <1>1, <1>2 DEF Digits

\* ComputeTypeUID tells the classes and their activities apart.
LEMMA TypeUidIsInjective ==
  ASSUME NEW c \in Classes, NEW d \in Classes, NEW a \in 0 .. 99, NEW b \in 0 .. 99,
         NEW uid, HasTypeUid(uid, c, a), HasTypeUid(uid, d, b)
  PROVE  c.class_uid = d.class_uid /\ a = b
<1>1. PICK category \in 1 .. 8, number \in 0 .. 99 : Digits(c, a, category, number)
  BY TypeUidDigits
<1>2. PICK category2 \in 1 .. 8, number2 \in 0 .. 99 : Digits(d, b, category2, number2)
  BY TypeUidDigits
<1>3. uid = (category * 100 + number) * 100 + a
  BY <1>1 DEF Digits, HasTypeUid
<1>4. uid = (category2 * 100 + number2) * 100 + b
  BY <1>2 DEF Digits, HasTypeUid
<1>5. category = category2 /\ number = number2 /\ a = b
  BY <1>3, <1>4
<1> QED
  BY <1>1, <1>2, <1>5 DEF Digits

\* A body the runs enumerate carries no type_uid or a true one.
LEMMA RequestsAreTyped ==
  ASSUME NormalizationInit
  PROVE  Typed(pipeline.request.body)
<1>1. \A body \in Logs : body.type_uid = 0
  <2>1. \A a \in Actions, u \in UserFields : ActionLog(a, u).type_uid = 0
    BY DEF ActionLog, Blank
  <2>2. \A s \in {"success", "error"}, v \in {"warn", "fatal"}, t \in Seconds :
          OutcomeLog(s, v, t).type_uid = 0
    BY DEF OutcomeLog, Blank
  <2>3. \A s \in Shapes : ShapedLog(s).type_uid = 0
    BY DEF ShapedLog, Blank
  <2> QED
    BY <2>1, <2>2, <2>3 DEF Logs
<1>2. \A body \in ShortBodies : body.type_uid = 0
  <2>1. \A v \in {AuthenticationValidator, IncidentFindingValidator},
           a \in {0, 1, 50}, u \in UserFields, s \in {0, 99, 100}, t \in Instants :
          ShortBody(v, a, u, s, t).type_uid = 0
    BY DEF ShortBody, Blank
  <2> QED
    BY <2>1 DEF ShortBodies
<1>3. ASSUME NEW body \in OcsfBodies
      PROVE  \E c \in Classes : \E a \in 0 .. 99 : TypedAs(body, c, a)
  <2>1. PICK c \in Classes :
          \E a \in c.activities \cup {0}, class \in ClassFields(c), t \in Times :
            body = OcsfBody(c, a, class, t)
    BY DEF OcsfBodies
  <2>2. PICK a \in c.activities \cup {0}, class \in ClassFields(c), t \in Times :
          body = OcsfBody(c, a, class, t)
    BY <2>1
  <2>3. a \in 0 .. 99
    BY ActivitiesHaveTwoDigits
  <2>4. TypedAs(body, c, a)
    BY <2>2 DEF TypedAs, HasTypeUid, OcsfBody, Blank
  <2> QED
    BY <2>3, <2>4
<1>4. PICK endpoint \in {"event", "raw"}, time \in Seconds,
           body \in Logs \cup OcsfBodies \cup ShortBodies :
         \E sourceType : pipeline = [at |-> "received",
                            request |-> Request(endpoint, sourceType, time, body)]
  BY DEF NormalizationInit
<1>5. pipeline.request.body = body
  BY <1>4 DEF Request
<1> QED
  BY <1>1, <1>2, <1>3, <1>5 DEF Typed

\* Every activity determineActivityID returns has two digits.
LEMMA ActivityIsSmall ==
  ASSUME NEW class, NEW action
  PROVE  determineActivityID(class, action) \in 0 .. 99
<1>1. AuthenticationActivity(action) \in 0 .. 99
  BY DEF AuthenticationActivity
<1>2. ProcessActivityActivity(action) \in 0 .. 99
  BY DEF ProcessActivityActivity
<1>3. NetworkActivityActivity(action) \in 0 .. 99
  BY DEF NetworkActivityActivity
<1> QED
  BY <1>1, <1>2, <1>3 DEF determineActivityID

\* What is stored of a body without a type_uid, or with a true one, has none or
\* a true one, whichever normalizer built it.
THEOREM StoredIsTyped ==
  ASSUME NEW request, Typed(request.body), Process(request).at = "stored"
  PROVE  Typed(Process(request).event)
<1>1. PICK envelope : envelope = Envelope(request)
  OBVIOUS
<1>2. PICK result : result = Normalize(envelope, ReceivedAt)
  OBVIOUS
<1>3. result.ok /\ Process(request).event = result.event
  BY <1>1, <1>2 DEF Process
<1>4. result # Failed
  BY <1>3 DEF Failed
<1>5. PICK found : found = Find(envelope.sourceType)
  OBVIOUS
<1>6. CASE found.kind = "ocsf"
  <2>1. result = NormalizeOcsf(envelope)
    BY <1>2, <1>5, <1>6 DEF Normalize
  <2>2. PICK body : body = IF envelope.event.shape # "text" THEN envelope.event
                           ELSE envelope.top
    OBVIOUS
  <2>3. /\ result.event.type_uid = body.type_uid
        /\ result.event.class_uid = body.class_uid
        /\ result.event.activity_id = body.activity_id
    BY <1>4, <2>1, <2>2 DEF NormalizeOcsf
  <2>4. body = request.body \/ body.type_uid = 0
    <3>1. CASE request.endpoint = "event"
      <4>1. /\ envelope.event = request.body
            /\ envelope.top = [Blank EXCEPT !.time = request.time]
        BY <1>1, <3>1 DEF Envelope
      <4>2. envelope.top.type_uid = 0
        BY <4>1 DEF Blank
      <4> QED
        BY <2>2, <4>1, <4>2
    <3>2. CASE request.endpoint # "event"
      <4>1. /\ envelope.event = [Blank EXCEPT !.shape = "text"]
            /\ envelope.top = request.body
        BY <1>1, <3>2 DEF Envelope
      <4>2. envelope.event.shape = "text"
        BY <4>1 DEF Blank
      <4> QED
        BY <2>2, <4>1, <4>2
    <3> QED
      BY <3>1, <3>2
  <2>5. Typed(body)
    BY <2>4 DEF Typed
  <2>6. PICK event : event = result.event
    OBVIOUS
  <2>7. \A c, a : TypedAs(body, c, a) => TypedAs(event, c, a)
    BY <2>3, <2>6 DEF TypedAs
  <2>8. Typed(event)
    BY <2>3, <2>5, <2>6, <2>7 DEF Typed
  <2> QED
    BY <1>3, <2>6, <2>8
<1>7. CASE found.kind = "class"
  <2>1. PICK c \in Classes : c = found.n.class
    BY <1>5, <1>7, FoundCreatesClass
  <2>2. result = NormalizeAs(found.n, envelope, ReceivedAt)
    BY <1>2, <1>5, <1>7 DEF Normalize
  <2>3. PICK a \in 0 .. 99 : a = determineActivityID(c, envelope.top.action)
    BY ActivityIsSmall
  <2>4. TypedAs(result.event, c, a)
    BY <1>4, <2>1, <2>2, <2>3 DEF NormalizeAs, TypedAs, HasTypeUid
  <2> QED
    BY <1>3, <2>4 DEF Typed
<1>8. CASE found.kind = "hec"
  <2>1. result = NormalizeHec(envelope, ReceivedAt)
    BY <1>2, <1>5, <1>8 DEF Normalize
  <2>2. ComputeTypeUID(0, 0, 0) = 0
    BY DEF ComputeTypeUID
  <2>3. result.event.type_uid = ComputeTypeUID(0, 0, 0)
    BY <1>4, <2>1 DEF NormalizeHec
  <2> QED
    BY <1>3, <2>2, <2>3 DEF Typed
<1>9. CASE found.kind \notin {"ocsf", "class", "hec"}
  <2>1. result = Failed
    BY <1>2, <1>5, <1>9 DEF Normalize
  <2> QED
    BY <1>4, <2>1
<1> QED
  BY <1>6, <1>7, <1>8, <1>9

\* type_uid tells every class and activity apart in what is stored
\* (ComputeTypeUID of constants.go with the constants of the generated classes
\* and the activities the normalizers choose): the numeric half of
\* StoredIsIdentified.
THEOREM TypeUidIdentifiesHolds == NormalizationSpec => []TypeUidIdentifies
<1> DEFINE TypedInv == Typed(pipeline.request.body)
<1>1. NormalizationInit => TypedInv
  BY RequestsAreTyped
<1>2. TypedInv /\ [ProcessRequest]_pipeline => TypedInv'
  <2> SUFFICES ASSUME TypedInv, [ProcessRequest]_pipeline
               PROVE  TypedInv'
    OBVIOUS
  <2>1. PICK request : request = pipeline.request
    OBVIOUS
  <2>2. Process(request).request = request
    BY DEF Process
  <2>3. pipeline'.request = request
    BY <2>1, <2>2 DEF ProcessRequest
  <2> QED
    BY <2>1, <2>3 DEF Typed, TypedAs
<1>3. TypedInv /\ PipelineInv => TypeUidIdentifies
  <2> SUFFICES ASSUME TypedInv, PipelineInv, Stored,
                      NEW c \in Classes, NEW a \in c.activities \cup {0},
                      ComputeTypeUID(c.category_uid, c.class_uid, a) = pipeline.event.type_uid
               PROVE  pipeline.event.class_uid = c.class_uid /\ pipeline.event.activity_id = a
    BY Zenon DEF TypeUidIdentifies
  <2>1. PICK request : request = pipeline.request
    OBVIOUS
  <2>2. pipeline = Process(request)
    BY <2>1 DEF PipelineInv, Received, Stored
  <2>3. PICK event : event = pipeline.event
    OBVIOUS
  <2>4. Typed(event)
    BY <2>1, <2>2, <2>3, StoredIsTyped DEF Stored
  <2>5. PICK activity \in 0 .. 99 : activity = a
    BY ActivitiesHaveTwoDigits
  <2>6. PICK uid : uid = event.type_uid
    OBVIOUS
  <2>7. HasTypeUid(uid, c, activity)
    BY <2>3, <2>5, <2>6 DEF HasTypeUid
  <2>8. uid # 0
    BY <2>7, TypeUidIsSet DEF HasTypeUid
  <2>9. PICK d \in Classes, b \in 0 .. 99 : TypedAs(event, d, b)
    BY <2>4, <2>6, <2>8 DEF Typed
  <2>10. HasTypeUid(uid, d, b)
    BY <2>6, <2>9 DEF TypedAs
  <2>11. c.class_uid = d.class_uid /\ activity = b
    BY <2>7, <2>10, TypeUidIsInjective
  <2> QED
    BY <2>3, <2>5, <2>9, <2>11 DEF TypedAs
<1> HIDE DEF TypedInv
<1>4. NormalizationSpec => []TypedInv
  BY <1>1, <1>2, PTL DEF NormalizationSpec
<1> QED
  BY <1>3, <1>4, PipelineInvariance, PTL

-----------------------------------------------------------------------------
(***************************************************************************)
(* Aggregation.  groupEvents is a loop, so what it computes is shown by    *)
(* induction on the events read: a least counterexample would follow an    *)
(* event for which the claim holds.                                        *)
(***************************************************************************)
\* What holds of 0 and, up to N, of the number after each one it holds of, holds
\* up to N.
LEMMA UpTo ==
  ASSUME NEW N \in Nat, NEW P \in SUBSET Nat, 0 \in P,
         \A n \in P : n < N => n + 1 \in P
  PROVE  \A n \in 0 .. N : n \in P
<1> DEFINE S == {n \in 0 .. N : n \notin P}
<1> SUFFICES ASSUME S # {} PROVE FALSE
  OBVIOUS
<1>1. S \in SUBSET Nat
  OBVIOUS
<1>2. PICK n \in S : \A m \in S : n <= m
  BY <1>1, LeastNatural
<1>3. n # 0 /\ n - 1 \in 0 .. N /\ n - 1 < N /\ n - 1 + 1 = n
  OBVIOUS
<1>4. n - 1 \in P
  BY <1>2, <1>3
<1> QED
  BY <1>3, <1>4

\* Keys of groups, the groups before the first event, and one event more.
Keys == Values \cup {Unknown}
NoGroups == [k \in Keys |-> <<>>]
Add(groups, e) == [groups EXCEPT ![KeyOf(e)] = Append(@, e)]
Groups == [Keys -> Seq(EventKinds)]

\* f groups the first N events one after the other.
Grouping(f, evs, N) ==
  /\ f \in [0 .. N -> Groups]
  /\ f[0] = NoGroups
  /\ \A n \in 0 .. N : n # 0 => f[n] = Add(f[n - 1], evs[n])

\* One event more.
LEMMA AddGroups ==
  ASSUME NEW groups \in Groups, NEW e \in EventKinds
  PROVE  /\ Add(groups, e) \in Groups /\ KeyOf(e) \in Keys
         /\ \A k \in Keys : Add(groups, e)[k]
                            = IF k = KeyOf(e) THEN Append(groups[k], e) ELSE groups[k]
<1>1. KeyOf(e) \in Keys
  BY DEF KeyOf, Keys, EventKinds, extractStringField
<1>2. \A k \in Keys : groups[k] \in Seq(EventKinds) /\ Append(groups[k], e) \in Seq(EventKinds)
  BY DEF Groups
<1> QED
  BY <1>1, <1>2 DEF Add, Groups

\* The loop over the events is what the recursive definition of groupEvents says.
LEMMA GroupingExists ==
  ASSUME NEW evs \in Seq(EventKinds), NEW N \in Nat, N <= Len(evs)
  PROVE  \E f : Grouping(f, evs, N)
<1> DEFINE P == {n \in Nat : n <= N => \E f : Grouping(f, evs, n)}
<1>1. 0 \in P
  <2> DEFINE f == [n \in 0 .. 0 |-> NoGroups]
  <2>1. NoGroups \in Groups
    BY DEF NoGroups, Groups
  <2>2. Grouping(f, evs, 0)
    BY <2>1 DEF Grouping
  <2> HIDE DEF f
  <2> QED
    BY <2>2
<1>2. ASSUME NEW n \in P, n < N PROVE n + 1 \in P
  <2>1. PICK f : Grouping(f, evs, n)
    BY <1>2
  <2> DEFINE g == [i \in 0 .. (n + 1) |-> IF i = n + 1 THEN Add(f[n], evs[n + 1]) ELSE f[i]]
  <2>2. n \in Nat /\ evs[n + 1] \in EventKinds
    BY <1>2
  <2>3. f[n] \in Groups /\ \A i \in 0 .. n : f[i] \in Groups
    BY <2>1, <2>2 DEF Grouping
  <2>4. Add(f[n], evs[n + 1]) \in Groups
    BY <2>2, <2>3, AddGroups
  <2>5. /\ g[n + 1] = Add(f[n], evs[n + 1])
        /\ \A i \in 0 .. n : g[i] = f[i]
    BY <2>2
  <2>6. g \in [0 .. (n + 1) -> Groups]
    BY <2>2, <2>3, <2>4
  <2> HIDE DEF g
  <2>7. \A i \in 0 .. (n + 1) : i # 0 => g[i] = Add(g[i - 1], evs[i])
    <3> SUFFICES ASSUME NEW i \in 0 .. (n + 1), i # 0 PROVE g[i] = Add(g[i - 1], evs[i])
      OBVIOUS
    <3>1. CASE i = n + 1
      <4>1. i - 1 = n /\ n \in 0 .. n
        BY <2>2, <3>1
      <4> QED
        BY <2>5, <3>1, <4>1
    <3>2. CASE i # n + 1
      <4>1. i \in 0 .. n /\ i - 1 \in 0 .. n
        BY <2>2, <3>2
      <4> QED
        BY <2>1, <2>5, <4>1 DEF Grouping
    <3> QED
      BY <3>1, <3>2
  <2>8. g[0] = NoGroups
    BY <2>1, <2>2, <2>5 DEF Grouping
  <2>9. Grouping(g, evs, n + 1)
    BY <2>6, <2>7, <2>8 DEF Grouping
  <2> QED
    BY <2>2, <2>9
<1>3. P \in SUBSET Nat
  OBVIOUS
<1> HIDE DEF P
<1>4. N \in P
  <2>1. \A n \in P : n < N => n + 1 \in P
    BY <1>2
  <2>2. \A n \in 0 .. N : n \in P
    BY <1>1, <1>3, <2>1, UpTo
  <2> QED
    BY <2>2
<1> QED
  BY <1>4 DEF P

\* groupEvents computes the grouping of all events.
LEMMA GroupEventsIsGrouping ==
  ASSUME NEW evs \in Seq(EventKinds)
  PROVE  \E f : Grouping(f, evs, Len(evs)) /\ groupEvents(evs) = f[Len(evs)]
<1> DEFINE N == Len(evs)
           IsGroups(g) == g = [n \in 0 .. N |->
                                 IF n = 0 THEN [k \in Values \cup {Unknown} |-> <<>>]
                                 ELSE [g[n - 1] EXCEPT ![KeyOf(evs[n])] = Append(@, evs[n])]]
           G == CHOOSE g : IsGroups(g)
<1>1. groupEvents(evs) = G[N]
  BY Zenon DEF groupEvents
<1>2. PICK f : Grouping(f, evs, N)
  BY GroupingExists
<1>3. IsGroups(f)
  BY <1>2 DEF Grouping, NoGroups, Keys, Add
<1>4. IsGroups(G)
  BY <1>3, Zenon
<1>5. NoGroups \in Groups /\ N \in Nat
  BY DEF NoGroups, Groups
<1>6. PICK h : h = G
  OBVIOUS
<1>7. IsGroups(h)
  BY <1>4, <1>6
<1> HIDE DEF G
<1>8. DOMAIN h = 0 .. N /\ h[0] = NoGroups
  BY <1>5, <1>7 DEF NoGroups, Keys
<1>9. \A n \in 0 .. N : n # 0 => h[n] = Add(h[n - 1], evs[n])
  BY <1>7 DEF Add
<1>10. h = [n \in 0 .. N |-> h[n]]
  BY <1>7
<1> HIDE DEF N, IsGroups
<1> DEFINE P == {n \in Nat : n <= N => h[n] \in Groups}
<1>11. 0 \in P /\ P \in SUBSET Nat
  BY <1>5, <1>8
<1>12. \A n \in P : n < N => n + 1 \in P
  <2> SUFFICES ASSUME NEW n \in P, n < N PROVE n + 1 \in P
    OBVIOUS
  <2>1. n \in Nat /\ h[n] \in Groups /\ n + 1 \in 0 .. N /\ n + 1 # 0 /\ n + 1 - 1 = n
    BY <1>5
  <2>2. evs[n + 1] \in EventKinds
    BY <2>1 DEF N
  <2>3. h[n + 1] = Add(h[n], evs[n + 1])
    BY <1>9, <2>1
  <2> QED
    BY <2>1, <2>2, <2>3, AddGroups
<1> HIDE DEF P
<1>13. \A n \in 0 .. N : n \in P
  BY <1>5, <1>11, <1>12, UpTo
<1>14. \A n \in 0 .. N : h[n] \in Groups
  BY <1>5, <1>13 DEF P
<1>15. h \in [0 .. N -> Groups]
  BY <1>10, <1>14
<1>16. Grouping(h, evs, N)
  BY <1>8, <1>9, <1>15 DEF Grouping
<1> QED
  BY <1>1, <1>6, <1>16 DEF N

\* The first n events of a group.
OfKey(evs, n, k) == {i \in 1 .. n : KeyOf(evs[i]) = k}

\* A group holds as many events as have its key.
LEMMA GroupLength ==
  ASSUME NEW evs \in Seq(EventKinds)
  PROVE  /\ groupEvents(evs) \in Groups
         /\ \A k \in Keys : /\ Cardinality(OfKey(evs, Len(evs), k)) \in Nat
                            /\ Cardinality(OfKey(evs, Len(evs), k)) <= Len(evs)
                            /\ Len(groupEvents(evs)[k]) = Cardinality(OfKey(evs, Len(evs), k))
<1>1. PICK N \in Nat : N = Len(evs)
  OBVIOUS
<1>2. PICK f : Grouping(f, evs, N) /\ groupEvents(evs) = f[N]
  BY <1>1, GroupEventsIsGrouping
<1> DEFINE Counts(n) == \A k \in Keys : Len(f[n][k]) = Cardinality(OfKey(evs, n, k))
           P == {n \in Nat : n <= N => Counts(n)}
<1>3. \A n \in Nat : \A k : /\ IsFiniteSet(OfKey(evs, n, k))
                             /\ Cardinality(OfKey(evs, n, k)) \in Nat
                             /\ Cardinality(OfKey(evs, n, k)) <= n
  <2> SUFFICES ASSUME NEW n \in Nat, NEW k
               PROVE  /\ IsFiniteSet(OfKey(evs, n, k))
                      /\ Cardinality(OfKey(evs, n, k)) \in Nat
                      /\ Cardinality(OfKey(evs, n, k)) <= n
    OBVIOUS
  <2>1. OfKey(evs, n, k) \in SUBSET (1 .. n)
    BY DEF OfKey
  <2>2. IsFiniteSet(1 .. n) /\ Cardinality(1 .. n) = n
    BY FS_Interval
  <2> QED
    BY <2>1, <2>2, FS_Subset, FS_CardinalityType
<1>4. 0 \in P
  <2>1. \A k : OfKey(evs, 0, k) = {}
    BY DEF OfKey
  <2>2. \A k \in Keys : f[0][k] = <<>>
    BY <1>2 DEF Grouping, NoGroups
  <2>3. Counts(0)
    <3> SUFFICES ASSUME NEW k \in Keys PROVE Len(f[0][k]) = Cardinality(OfKey(evs, 0, k))
      OBVIOUS
    <3>1. Cardinality(OfKey(evs, 0, k)) = 0
      BY <2>1, FS_EmptySet
    <3>2. Len(f[0][k]) = 0
      BY <2>2
    <3> QED
      BY <3>1, <3>2
  <2> QED
    BY <2>3
<1>5. ASSUME NEW n \in P, n < N PROVE n + 1 \in P
  <2>1. n \in Nat /\ n + 1 \in 0 .. N /\ n \in 0 .. N /\ n + 1 # 0 /\ n + 1 - 1 = n
    BY <1>5
  <2>2. Counts(n)
    BY <1>5
  <2> SUFFICES ASSUME NEW k \in Keys
               PROVE  Len(f[n + 1][k]) = Cardinality(OfKey(evs, n + 1, k))
    BY <2>1
  <2>3. PICK e \in EventKinds : e = evs[n + 1]
    BY <1>1, <2>1
  <2>4. f[n] \in Groups /\ f[n + 1] = Add(f[n], e)
    BY <1>2, <2>1, <2>3 DEF Grouping
  <2>5. f[n + 1][k] = IF k = KeyOf(e) THEN Append(f[n][k], e) ELSE f[n][k]
    BY <2>4, AddGroups
  <2>6. f[n][k] \in Seq(EventKinds) /\ Len(f[n][k]) = Cardinality(OfKey(evs, n, k))
    BY <2>2, <2>4 DEF Groups
  <2>7. CASE k = KeyOf(e)
    <3>1. OfKey(evs, n + 1, k) = OfKey(evs, n, k) \cup {n + 1} /\ n + 1 \notin OfKey(evs, n, k)
      BY <2>1, <2>3, <2>7 DEF OfKey
    <3>2. Cardinality(OfKey(evs, n, k) \cup {n + 1}) = Cardinality(OfKey(evs, n, k)) + 1
      BY <1>3, <2>1, <3>1, FS_AddElement
    <3>3. Len(Append(f[n][k], e)) = Len(f[n][k]) + 1
      BY <2>6
    <3> QED
      BY <2>5, <2>6, <2>7, <3>1, <3>2, <3>3
  <2>8. CASE k # KeyOf(e)
    <3>1. OfKey(evs, n + 1, k) = OfKey(evs, n, k)
      BY <2>1, <2>3, <2>8 DEF OfKey
    <3> QED
      BY <2>5, <2>6, <2>8, <3>1
  <2> QED
    BY <2>7, <2>8
<1>6. P \in SUBSET Nat /\ \A n \in P : n < N => n + 1 \in P
  BY <1>5
<1> HIDE DEF P
<1>7. \A n \in 0 .. N : n \in P
  BY <1>4, <1>6, UpTo
<1>8. Counts(N)
  BY <1>7 DEF P
<1>9. f[N] \in Groups
  BY <1>2 DEF Grouping
<1> QED
  BY <1>1, <1>2, <1>3, <1>8, <1>9

\* What a job of aggregateResults reports.
AggregationInv ==
  /\ events \in Seq(EventKinds) /\ grouped \in BOOLEAN /\ threshold \in Nat
  /\ done \in BOOLEAN
  /\ done => matches = aggregateResults(events, grouped, threshold)

\* A job answers what aggregateResults computes.
LEMMA AggregationInvariant == AggregationSpec => []AggregationInv
<1>1. AggregationInit => AggregationInv
  <2> SUFFICES ASSUME AggregationInit PROVE AggregationInv
    OBVIOUS
  <2>1. PICK n \in 0 .. MaxEvents : events \in [1 .. n -> EventKinds]
    BY DEF AggregationInit
  <2>2. events \in Seq(EventKinds)
    BY <2>1, AggregationAssumption
  <2>3. threshold \in Nat
    BY AggregationAssumption DEF AggregationInit
  <2> QED
    BY <2>2, <2>3, Zenon DEF AggregationInit, AggregationInv
<1>2. AggregationInv /\ [Aggregate]_aggregationVars => AggregationInv'
  <2> SUFFICES ASSUME AggregationInv, [Aggregate]_aggregationVars PROVE AggregationInv'
    OBVIOUS
  <2>1. CASE Aggregate
    <3>1. events' = events /\ grouped' = grouped /\ threshold' = threshold /\ done' = TRUE
      BY <2>1 DEF Aggregate
    <3>2. matches' = aggregateResults(events', grouped', threshold')
      BY <2>1, <3>1 DEF Aggregate
    <3> QED
      BY <3>1, <3>2, Zenon DEF AggregationInv
  <2>2. CASE UNCHANGED aggregationVars
    BY <2>2, Zenon DEF AggregationInv, aggregationVars
  <2> QED
    BY <2>1, <2>2
<1> QED
  BY <1>1, <1>2, PTL DEF AggregationSpec

\* The matches of a job are exactly the values that enough events carry, for any
\* number of events and any threshold.
THEOREM MatchesAreExactHolds == AggregationSpec => []MatchesAreExact
<1>1. AggregationInv => MatchesAreExact
  <2> SUFFICES ASSUME AggregationInv, done PROVE MatchesAreExact
    BY DEF MatchesAreExact
  <2>0. /\ events \in Seq(EventKinds) /\ threshold \in Nat
        /\ matches = aggregateResults(events, grouped, threshold)
    BY DEF AggregationInv
  <2>1. DOMAIN events = 1 .. Len(events) /\ Len(events) \in Nat
    BY <2>0
  <2>2. CASE ~grouped
    <3>1. matches = IF Len(events) >= threshold THEN {[key |-> All, count |-> Len(events)]} ELSE {}
      BY <2>0, <2>2 DEF aggregateResults
    <3>2. matches # {} <=> Len(events) >= threshold
      BY <3>1
    <3>3. \A m \in matches : m = [key |-> All, count |-> Len(events)]
      BY <3>1
    <3>4. \A m, n \in matches : m.key = n.key => m = n
      BY <3>3
    <3>5. \A m \in matches : m.count <= Len(events)
      BY <2>1, <3>3
    <3> QED
      BY <2>2, <3>2, <3>4, <3>5, Zenon DEF MatchesAreExact
  <2>3. CASE grouped
    <3>1. PICK groups \in Groups : groups = groupEvents(events)
      BY <2>0, GroupLength
    <3> DEFINE N(k) == Cardinality(OfKey(events, Len(events), k))
               M(k) == [key |-> k, count |-> N(k)]
    <3>2. \A k \in Keys : /\ N(k) \in Nat /\ N(k) <= Len(events) /\ Len(groups[k]) = N(k)
                          /\ groups[k] \in Seq(EventKinds)
      BY <2>0, <3>1, GroupLength DEF Groups
    <3>3. matches = {[key |-> k, count |-> Len(groups[k])] :
                       k \in {x \in DOMAIN groups : groups[x] # <<>> /\ Len(groups[x]) >= threshold}}
      BY <2>0, <2>3, <3>1 DEF aggregateResults
    <3>4. DOMAIN groups = Keys
      BY DEF Groups
    <3> HIDE DEF N
    <3>5. \A k \in Keys : groups[k] # <<>> <=> N(k) > 0
      BY <3>2
    <3>6. \A m : m \in matches <=> \E k \in Keys : N(k) > 0 /\ N(k) >= threshold /\ m = M(k)
      BY <3>2, <3>3, <3>4, <3>5
    <3>7. ASSUME NEW k \in Keys
          PROVE  /\ [key |-> k, count |-> N(k)] \in matches <=> N(k) > 0 /\ N(k) >= threshold
                 /\ \A m \in matches : m.key = k => m.count = N(k)
      <4>1. \A j \in Keys : M(j).key = j /\ M(j).count = N(j)
        OBVIOUS
      <4> HIDE DEF M
      <4>2. M(k) \in matches <=> N(k) > 0 /\ N(k) >= threshold
        BY <3>6, <4>1
      <4>3. \A m \in matches : m.key = k => m.count = N(k)
        BY <3>6, <4>1
      <4> QED
        BY <4>2, <4>3 DEF M
    <3>8. \A v \in Values \ {Unknown} : CountWith({v}) = N(v) /\ v \in Keys
      <4> SUFFICES ASSUME NEW v \in Values \ {Unknown}
                   PROVE  {i \in DOMAIN events : events[i].field \in {v}} = OfKey(events, Len(events), v)
        BY DEF CountWith, N, Keys
      <4>1. v # Absent /\ v # Unknown
        BY AggregationAssumption
      <4> QED
        BY <2>1, <4>1 DEF OfKey, KeyOf, extractStringField
    <3>9. CountWith({Absent, Unknown}) = N(Unknown) /\ Unknown \in Keys
      <4>1. {i \in DOMAIN events : events[i].field \in {Absent, Unknown}}
              = OfKey(events, Len(events), Unknown)
        BY <2>1 DEF OfKey, KeyOf, extractStringField
      <4> QED
        BY <4>1 DEF CountWith, N, Keys
    <3>10. \A m \in matches : \E k \in Keys : m.key = k /\ m = M(k) /\ m.count <= Len(events)
      BY <3>2, <3>6
    <3>11. \A m, n \in matches : m.key = n.key => m = n
      BY <3>10
    <3>12. \A m \in matches : m.count <= Len(events)
      BY <3>10
    <3>13. \A v \in Values \ {Unknown} :
             /\ [key |-> v, count |-> CountWith({v})] \in matches
                  <=> CountWith({v}) > 0 /\ CountWith({v}) >= threshold
             /\ \A m \in matches : m.key = v => m.count = CountWith({v})
      BY <3>7, <3>8
    <3>14. /\ [key |-> Unknown, count |-> CountWith({Absent, Unknown})] \in matches
                <=> CountWith({Absent, Unknown}) > 0 /\ CountWith({Absent, Unknown}) >= threshold
           /\ \A m \in matches : m.key = Unknown => m.count = CountWith({Absent, Unknown})
      BY <3>7, <3>9
    <3> QED
      BY <2>3, <3>11, <3>12, <3>13, <3>14, Zenon DEF MatchesAreExact
  <2> QED
    BY <2>2, <2>3
<1> QED
  BY <1>1, AggregationInvariant, PTL

-----------------------------------------------------------------------------
(***************************************************************************)
(* Paging.  A sorted list holds every item once, so an item's place is the *)
(* number of items that precede it.  What a walk has still to show is kept *)
(* behind the pages it has read: for an offset by that number, for a       *)
(* cursor by the order of time and version.                                *)
(***************************************************************************)
\* What a list may hold, and the state of a walk through one.
AnyItem == [id : Nat, time : Nat, version : Nat, disabled : BOOLEAN,
            malformed : BOOLEAN]
Walks == [at : {"ask", "counted", "done", "refused", "failed"}, list : Lists,
          limit : 1 .. MaxLimit, items : SUBSET AnyItem, start : SUBSET AnyItem,
          page : Nat \ {0}, total : Nat, cursor : AnyItem, seen : SUBSET Nat,
          repeated : BOOLEAN, changes : 0 .. MaxChanges, touched : SUBSET Nat,
          shrunk : BOOLEAN, late : BOOLEAN]

\* The items a list shows before x.
Before(list, items, x) == {y \in items : Precedes(list, y, x)}

\* Its order leaves no two items of the start undecided.
Ordered(l) == \A a, b \in l.start : a.id # b.id =>
            Precedes(l.list, a, b) \/ Precedes(l.list, b, a)

\* What a list holds: items as they were, and newer ones, which are active
\* unless one was disabled; every item has a version of its own.
Newer(l, y) ==
  /\ y.time > MaxItems /\ y.version > MaxItems
  /\ y.time <= MaxItems + l.changes /\ y.version <= MaxItems + l.changes
  /\ ~l.shrunk => ~y.disabled

\* The items there were, and those there are.
WalkItems(l) ==
  /\ IsFiniteSet(l.items) /\ IsFiniteSet(l.start)
  /\ \A x \in l.start : x.id = x.version /\ x.version <= MaxItems /\ x.time <= MaxItems
  /\ \A x, y \in l.start : x.version = y.version => x = y
  /\ \A y \in l.items : y \in l.start \/ Newer(l, y)
  /\ \A x, y \in l.items : x.version = y.version => x = y
  /\ l.changes = 0 => l.items = l.start /\ l.touched = {} /\ ~l.shrunk /\ ~l.late

\* An item that was neither shown nor touched is where it was, and still to come.
Pending(l) == {x \in Shown(l.start) : x.id \notin l.seen \cup l.touched}

\* What is counted is what there is, until something is created or hidden.
CountFits(l) ==
  l.at = "counted" /\ ~l.shrunk /\ ~l.late => l.total = Cardinality(l.items)

\* By offset: it lies behind the pages read.
OffsetReaches(l) ==
  l.list \in Offsets /\ ~l.shrunk /\ Ordered(l) /\ (l.at = "done" => ~l.late) =>
    \A x \in Pending(l) :
      /\ l.at # "done" /\ x \in l.items
      /\ Cardinality(Before(l.list, l.items, x)) >= (l.page - 1) * l.limit

\* By cursor: it comes after the last item shown.
CursorReaches(l) ==
  l.list = "after" =>
    \A x \in Pending(l) : ~x.disabled =>
      /\ l.at # "done" /\ x \in l.items
      /\ l.cursor # NoCursor => Later(l.cursor, x)

\* In a walk nobody disturbs what was shown lies before the next page.
OffsetShown(l) ==
  l.list \in Offsets /\ Ordered(l) =>
    \A x \in l.start : x.id \in l.seen =>
      Cardinality(Before(l.list, l.start, x)) < (l.page - 1) * l.limit

\* By cursor: what was shown is not after the last item shown.
CursorShown(l) ==
  l.list = "after" /\ (\A x \in l.start : ~x.disabled) =>
    \A x \in l.start : x.id \in l.seen /\ l.at # "done" => ~Later(l.cursor, x)

\* Nothing was shown twice.
Partitioned(l) ==
  Ordered(l) /\ (l.list = "after" => \A x \in l.start : ~x.disabled) => ~l.repeated

\* What is known of a walk while the list is as it was.
WalkShown(l) ==
  /\ l.list = "after" => l.at # "counted"
  /\ l.changes = 0 =>
    /\ l.seen \subseteq Ids(Shown(l.start))
    /\ OffsetShown(l) /\ CursorShown(l) /\ Partitioned(l)

\* The inductive invariant of a walk.
WalkInv(l) == /\ WalkItems(l) /\ CountFits(l)
              /\ OffsetReaches(l) /\ CursorReaches(l) /\ WalkShown(l)

-----------------------------------------------------------------------------
\* A sorted list holds every item once, and nothing before what it precedes.
LEMMA SortedIsEnumeration ==
  ASSUME NEW list, NEW items, IsFiniteSet(items), NEW s \in Sorted(list, items)
  PROVE  /\ Len(s) \in Nat /\ Len(s) = Cardinality(items) /\ DOMAIN s = 1 .. Len(s)
         /\ s \in [1 .. Len(s) -> items]
         /\ \A i, j \in 1 .. Len(s) : s[i] = s[j] => i = j
         /\ \A x \in items : \E i \in 1 .. Len(s) : s[i] = x
         /\ \A i, j \in 1 .. Len(s) : i < j => ~Precedes(list, s[j], s[i])
<1> DEFINE n == Cardinality(items)
<1>1. n \in Nat
  BY FS_CardinalityType
<1>2. /\ s \in [1 .. n -> items]
      /\ \A i, j \in 1 .. n : i # j => s[i] # s[j]
      /\ \A i, j \in DOMAIN s : i < j => ~Precedes(list, s[j], s[i])
  BY DEF Sorted, SetToSeqs
<1> HIDE DEF n
<1>3. DOMAIN s = 1 .. n /\ Len(s) = n
  BY <1>1, <1>2
<1>4. s \in Injection(1 .. n, items)
  BY <1>2, Fun_IsInj
<1>5. IsFiniteSet(1 .. n) /\ Cardinality(1 .. n) = n
  BY <1>1, FS_Interval
<1>6. s \in Surjection(1 .. n, items)
  BY <1>4, <1>5, FS_Injection DEF n
<1>7. \A x \in items : \E i \in 1 .. n : s[i] = x
  BY <1>6, Zenon DEF Surjection
<1> QED
  BY <1>1, <1>2, <1>3, <1>7 DEF n

\* The first k entries of a sequence, as a set.
FirstOf(s, k) == {s[j] : j \in 1 .. k}

\* The first k entries of a list without repetition are k items.
LEMMA FirstEntries ==
  ASSUME NEW S, NEW n \in Nat, NEW s \in [1 .. n -> S],
         \A i, j \in 1 .. n : s[i] = s[j] => i = j, NEW k \in 0 .. n
  PROVE  IsFiniteSet(FirstOf(s, k)) /\ Cardinality(FirstOf(s, k)) = k
<1> DEFINE T == {s[j] : j \in 1 .. k}
           f == [j \in 1 .. k |-> s[j]]
<1>1. f \in [1 .. k -> T] /\ \A i, j \in 1 .. k : f[i] = f[j] => i = j
  OBVIOUS
<1>2. \A t \in T : \E j \in 1 .. k : f[j] = t
  OBVIOUS
<1> HIDE DEF f
<1>3. f \in Bijection(1 .. k, T)
  BY <1>1, <1>2, Fun_IsBij
<1>4. ExistsBijection(1 .. k, T)
  BY <1>3, Fun_ExistsBij
<1>5. IsFiniteSet(1 .. k) /\ k \in Nat
  BY FS_Interval
<1> QED
  BY <1>4, <1>5, FS_Bijection, FS_CountingElements DEF FirstOf

\* Where an item stands in a sorted list: behind every item that precedes it,
\* and right behind them when every other item comes before or after it.
LEMMA PositionCounts ==
  ASSUME NEW list, NEW items, IsFiniteSet(items), NEW s \in Sorted(list, items),
         NEW p \in 1 .. Len(s), ~Precedes(list, s[p], s[p])
  PROVE  /\ Cardinality(Before(list, items, s[p])) \in Nat
         /\ Cardinality(Before(list, items, s[p])) <= p - 1
         /\ (\A y \in items : y # s[p] => Precedes(list, y, s[p]) \/ Precedes(list, s[p], y))
              => Cardinality(Before(list, items, s[p])) = p - 1
<1> DEFINE B == Before(list, items, s[p])
           F == FirstOf(s, p - 1)
<1>1. /\ Len(s) \in Nat /\ s \in [1 .. Len(s) -> items]
      /\ \A i, j \in 1 .. Len(s) : s[i] = s[j] => i = j
      /\ \A x \in items : \E i \in 1 .. Len(s) : s[i] = x
      /\ \A i, j \in 1 .. Len(s) : i < j => ~Precedes(list, s[j], s[i])
  BY SortedIsEnumeration
<1>2. IsFiniteSet(F) /\ Cardinality(F) = p - 1
  <2>1. p - 1 \in 0 .. Len(s)
    BY <1>1
  <2> QED
    BY <1>1, <2>1, FirstEntries
<1>3. B \subseteq F
  <2> SUFFICES ASSUME NEW y \in B PROVE y \in F
    OBVIOUS
  <2>1. y \in items /\ Precedes(list, y, s[p])
    BY DEF Before
  <2>2. PICK i \in 1 .. Len(s) : s[i] = y
    BY <1>1, <2>1
  <2>3. ~(i > p) /\ i # p
    BY <1>1, <2>1, <2>2
  <2>4. i \in 1 .. (p - 1)
    BY <1>1, <2>3
  <2> QED
    BY <2>2, <2>4 DEF FirstOf
<1>4. IsFiniteSet(B) /\ Cardinality(B) <= p - 1
  BY <1>2, <1>3, FS_Subset
<1>5. ASSUME \A y \in items : y # s[p] => Precedes(list, y, s[p]) \/ Precedes(list, s[p], y)
      PROVE  F = B
  <2> SUFFICES ASSUME NEW y \in F PROVE y \in B
    BY <1>3
  <2>1. PICK i \in 1 .. (p - 1) : y = s[i]
    BY DEF FirstOf
  <2>2. i \in 1 .. Len(s) /\ i < p /\ y \in items /\ y # s[p]
    BY <1>1, <2>1
  <2>3. ~Precedes(list, s[p], y)
    BY <1>1, <2>1, <2>2
  <2> QED
    BY <1>5, <2>2, <2>3 DEF Before
<1> QED
  BY <1>2, <1>4, <1>5, FS_CardinalityType

\* r is the page of at most limit entries behind the first offset of s.
IsPage(r, s, n, S, offset, limit) ==
  /\ Len(r) \in Nat /\ ToSet(r) \subseteq S
  /\ Len(r) < limit <=> n < offset + limit
  /\ \A p \in 1 .. n : offset < p /\ p <= offset + limit => s[p] \in ToSet(r)
  /\ \A y \in ToSet(r) :
       \E p \in 1 .. n : offset < p /\ p <= offset + limit /\ y = s[p]
  /\ ~(Len(r) < limit) => Last(r) = s[offset + limit]

\* A page: the entries at its positions, and short only when it ends the list.
LEMMA SliceIsAPage ==
  ASSUME NEW S, NEW n \in Nat, NEW s \in [1 .. n -> S],
         NEW offset \in Nat, NEW limit \in Nat \ {0},
         NEW r, r = Slice(s, offset, limit)
  PROVE  IsPage(r, s, n, S, offset, limit)
<1> DEFINE e == IF offset + limit < n THEN offset + limit ELSE n
<1>1. Len(s) = n
  OBVIOUS
<1>2. r = SubSeq(s, offset + 1, e)
  BY <1>1 DEF Slice
<1>3. e \in Int /\ offset + 1 \in Int /\ e <= n /\ e <= offset + limit
  OBVIOUS
<1>4. \A p \in 1 .. n : p <= offset + limit => p <= e
  OBVIOUS
<1>4a. ~(n < offset + limit) => e = offset + limit
  OBVIOUS
<1>4b. n < offset + limit => e = n
  OBVIOUS
<1> HIDE DEF e
<1>5. \A i \in (offset + 1) .. e : s[i] \in S
  BY <1>3
<1>6. /\ r \in Seq(S)
      /\ Len(r) = IF offset + 1 <= e THEN e - (offset + 1) + 1 ELSE 0
      /\ \A i \in 1 .. (e - (offset + 1) + 1) : r[i] = s[offset + 1 + i - 1]
  BY <1>2, <1>3, <1>5, SubSeqProperties
<1>7. DOMAIN r = 1 .. Len(r) /\ Len(r) \in Nat
  BY <1>6
<1>7a. \A i \in 1 .. Len(r) : i + offset \in 1 .. n /\ i + offset <= offset + limit /\ offset < i + offset
                              /\ r[i] = s[i + offset]
  <2> SUFFICES ASSUME NEW i \in 1 .. Len(r) 
               PROVE i + offset \in 1 .. n /\ i + offset <= offset + limit /\ offset < i + offset
                              /\ r[i] = s[i + offset]
    OBVIOUS
  <2>1. i \in 1 .. (e - (offset + 1) + 1)
    BY <1>3, <1>6, <1>7
  <2>2. r[i] = s[offset + 1 + i - 1] /\ offset + 1 + i - 1 = i + offset
    BY <1>6, <2>1
  <2> QED
    BY <1>3, <2>1, <2>2
<1>8. ASSUME NEW y \in ToSet(r)
      PROVE  \E p \in 1 .. n : offset < p /\ p <= offset + limit /\ y = s[p]
  <2>1. PICK i \in 1 .. Len(r) : y = r[i]
    BY <1>7 DEF ToSet
  <2> QED
    BY <2>1, <1>7a
<1>9. ASSUME NEW p \in 1 .. n, offset < p, p <= offset + limit
      PROVE  s[p] \in ToSet(r)
  <2>1. p - offset \in 1 .. Len(r)
    <3>1. p <= e /\ offset + 1 <= e
      BY <1>3, <1>4, <1>9
    <3>2. Len(r) = e - (offset + 1) + 1
      BY <1>6, <3>1
    <3> QED
      BY <1>3, <1>9, <3>1, <3>2
  <2>2. r[p - offset] = s[p]
    <3>1. (p - offset) + offset = p
      OBVIOUS
    <3> QED
      BY <2>1, <1>7a, <3>1
  <2> QED
    BY <1>7, <2>1, <2>2 DEF ToSet
<1>10. Len(r) < limit <=> n < offset + limit
  BY <1>3, <1>4a, <1>4b, <1>6
<1>11. ASSUME ~(Len(r) < limit) PROVE Last(r) = s[offset + limit]
  <2>1. Len(r) = limit /\ limit \in 1 .. Len(r)
    BY <1>4a, <1>6, <1>10, <1>11, <1>3
  <2>2. limit + offset = offset + limit
    OBVIOUS
  <2> QED
    BY <1>7a, <2>1, <2>2 DEF Last
<1>12. ToSet(r) \subseteq S
  BY <1>8
<1> QED
  BY <1>6, <1>7, <1>8, <1>9, <1>10, <1>11, <1>12 DEF IsPage

\* The same of a sorted list.
LEMMA PageOfSorted ==
  ASSUME NEW list, NEW items, IsFiniteSet(items), NEW s \in Sorted(list, items),
         NEW offset \in Nat, NEW limit \in Nat \ {0},
         NEW r, r = Slice(s, offset, limit)
  PROVE  IsPage(r, s, Len(s), items, offset, limit)
BY SortedIsEnumeration, SliceIsAPage

-----------------------------------------------------------------------------
\* The next page starts where this one ends.
LEMMA NextOffset ==
  ASSUME NEW page \in Nat \ {0}, NEW limit \in Nat \ {0}, NEW next, next = page + 1
  PROVE  /\ Offset(page, limit) \in Nat /\ Offset(page, limit) = (page - 1) * limit
         /\ (next - 1) * limit = Offset(page, limit) + limit
         /\ (next - 2) * limit = Offset(page, limit)
<1>1. PICK q \in Nat : page = q + 1
  BY page - 1 \in Nat
<1>2. page - 1 = q /\ next - 1 = q + 1 /\ next - 2 = q
  BY <1>1
<1>3. (q + 1) * limit = q * limit + limit /\ q * limit \in Nat
  OBVIOUS
<1> QED
  BY <1>2, <1>3 DEF Offset

\* No item precedes itself, in no list.
LEMMA PrecedesIsStrict ==
  ASSUME NEW list \in Lists, NEW a \in AnyItem
  PROVE  ~Precedes(list, a, a)
<1>1. /\ ~(a.version > a.version) /\ ~(a.time > a.time)
      /\ ~ActiveFirst(a, a) /\ ~Later(a, a)
  BY DEF AnyItem, ActiveFirst, Later
<1>2. CASE list = "schemas"
  BY <1>1, <1>2 DEF Precedes
<1>3. CASE list = "alerts"
  BY <1>1, <1>3 DEF Precedes
<1>4. CASE list = "searches"
  BY <1>1, <1>4 DEF Precedes
<1>5. CASE list = "after"
  BY <1>1, <1>5 DEF Precedes
<1> QED
  BY <1>2, <1>3, <1>4, <1>5 DEF Lists, Offsets

\* What is created or rewritten comes before all that was there at the start.
LEMMA NewerPrecedes ==
  ASSUME NEW l \in Walks, l.list \in Offsets, WalkItems(l), ~l.shrunk,
         NEW x \in l.start, NEW y \in AnyItem, Newer(l, y)
  PROVE  Precedes(l.list, y, x)
<1>1. x \in AnyItem /\ x.version <= MaxItems /\ x.time <= MaxItems
  BY DEF Walks, WalkItems
<1>2. y.version > MaxItems /\ y.time > MaxItems /\ y.disabled = FALSE
  BY DEF Newer, AnyItem
<1>3. y.version > x.version /\ y.time > x.time
  BY <1>1, <1>2, PagingAssumption DEF AnyItem
<1> QED
  BY <1>1, <1>2, <1>3 DEF Precedes, Offsets, ActiveFirst, AnyItem

\* An item that is as it was has its place in an ordered list: right behind the
\* items that precede it.
LEMMA PlaceOfItem ==
  ASSUME NEW l \in Walks, l.list \in Offsets, WalkItems(l), ~l.shrunk, Ordered(l),
         NEW x \in l.start, x \in l.items, NEW s \in Sorted(l.list, l.items)
  PROVE  \E p \in 1 .. Len(s) :
           s[p] = x /\ Cardinality(Before(l.list, l.items, x)) = p - 1
<1>1. IsFiniteSet(l.items) /\ l.items \subseteq AnyItem /\ l.list \in Lists
  BY DEF WalkItems, Walks
<1>2. PICK p \in 1 .. Len(s) : s[p] = x
  BY <1>1, SortedIsEnumeration
<1>3. ~Precedes(l.list, x, x)
  BY <1>1, PrecedesIsStrict
<1>4. ASSUME NEW y \in l.items, y # x
      PROVE  Precedes(l.list, y, x) \/ Precedes(l.list, x, y)
  <2>1. CASE y \in l.start
    <3>1. y.version # x.version /\ y.id = y.version /\ x.id = x.version
      BY <1>4, <2>1 DEF WalkItems
    <3> QED
      BY <2>1, <3>1 DEF Ordered
  <2>2. CASE Newer(l, y)
    BY <1>1, <2>2, NewerPrecedes
  <2> QED
    BY <2>1, <2>2 DEF WalkItems
<1> QED
  BY <1>1, <1>2, <1>3, <1>4, PositionCounts

\* A request: everything but the answer stays.
Paged(l, m, result, last) ==
  /\ m.list = l.list /\ m.start = l.start /\ m.items = l.items
  /\ m.changes = l.changes /\ m.touched = l.touched
  /\ m.shrunk = l.shrunk /\ m.late = l.late
  /\ m.at = IF last THEN "done" ELSE "ask"
  /\ m.seen = l.seen \cup Ids(Shown(ToSet(result)))
  /\ m.repeated = (l.repeated \/ Ids(Shown(ToSet(result))) \cap l.seen # {})
  /\ m.page = l.page + 1

\* A page keeps the items, and with them what is known of them.
LEMMA PagedItems ==
  ASSUME NEW l \in Walks, NEW m \in Walks, NEW r, NEW last \in BOOLEAN,
         Paged(l, m, r, last),
         WalkItems(l)
  PROVE  WalkItems(m) /\ (Ordered(m) <=> Ordered(l)) /\ CountFits(m)
<1>1. WalkItems(m) /\ (Ordered(m) <=> Ordered(l))
  BY DEF Paged, WalkItems, Ordered, Newer
<1>2. m.at # "counted"
  BY DEF Paged
<1> QED
  BY <1>1, <1>2 DEF CountFits

\* The last page announced ends no earlier than what was counted.
LEMMA LastPageEnds ==
  ASSUME NEW list, NEW page \in Nat \ {0}, NEW total \in Nat, NEW limit \in Nat \ {0},
         IsLastPage(list, page, total, limit)
  PROVE  total <= page * limit
<1>1. PICK a \in Nat : a = total + limit - 1
  BY total + limit - 1 \in Nat
<1>2. PICK k \in Nat : k = a \div limit
  OBVIOUS
<1>3. a < k * limit + limit /\ k * limit \in Nat
  BY <1>2
<1>4. k <= page
  <2>1. TotalPages(list, total, limit) = IF list = "alerts" /\ k < 1 THEN 1 ELSE k
    BY <1>1, <1>2 DEF TotalPages
  <2> QED
    BY <2>1 DEF IsLastPage
<1>5. PICK e \in Nat : page = k + e
  BY <1>4, page - k \in Nat
<1>6. page * limit = k * limit + e * limit /\ e * limit \in Nat
  BY <1>5
<1> QED
  BY <1>1, <1>3, <1>6

\* A page by number shows the items it should, and leaves the others for later.
LEMMA OffsetPage ==
  ASSUME NEW l \in Walks, l.list \in Offsets, WalkItems(l), l.at # "done",
         NEW s \in Sorted(l.list, l.items), NEW m \in Walks, NEW last \in BOOLEAN,
         m.limit = l.limit,
         Paged(l, m, Slice(s, Offset(l.page, l.limit), l.limit), last),
         last <=> IsLastPage(l.list, l.page, m.total, l.limit),
         ~l.shrunk /\ ~l.late => m.total = Cardinality(l.items),
         OffsetReaches(l)
  PROVE  OffsetReaches(m)
<1> DEFINE o == Offset(l.page, l.limit)
<1>0. PICK r : r = Slice(s, o, l.limit)
  OBVIOUS
<1> SUFFICES ASSUME ~m.shrunk, Ordered(m), m.at = "done" => ~m.late, NEW x \in Pending(m)
             PROVE  /\ m.at # "done" /\ x \in m.items
                    /\ Cardinality(Before(m.list, m.items, x)) >= (m.page - 1) * m.limit
  BY DEF OffsetReaches
<1>1. /\ m.list = l.list /\ m.limit = l.limit /\ m.start = l.start /\ m.items = l.items
      /\ m.touched = l.touched /\ m.shrunk = l.shrunk /\ m.late = l.late
      /\ m.page = l.page + 1
      /\ m.at = IF last THEN "done" ELSE "ask"
      /\ m.seen = l.seen \cup Ids(Shown(ToSet(r)))
  BY <1>0 DEF Paged
<1>2. Ordered(l) /\ ~l.shrunk
  BY <1>1 DEF Ordered
<1>3. /\ x \in l.start /\ x \in Pending(l) /\ ~x.malformed
      /\ x.id \notin Ids(Shown(ToSet(r)))
  BY <1>1 DEF Pending, Shown
<1>4. /\ l.at # "done" /\ x \in l.items
      /\ Cardinality(Before(l.list, l.items, x)) >= (l.page - 1) * l.limit
  BY <1>2, <1>3 DEF OffsetReaches
<1>5. l.page \in Nat \ {0} /\ l.limit \in Nat \ {0} /\ IsFiniteSet(l.items)
  BY PagingAssumption DEF Walks, WalkItems
<1>6. /\ o \in Nat /\ o = (l.page - 1) * l.limit
      /\ (m.page - 1) * l.limit = o + l.limit
  BY <1>1, <1>5, NextOffset
<1>7. PICK p \in 1 .. Len(s) :
        s[p] = x /\ Cardinality(Before(l.list, l.items, x)) = p - 1
  BY <1>2, <1>3, <1>4, PlaceOfItem
<1>8. /\ Len(s) \in Nat /\ s \in [1 .. Len(s) -> l.items]
      /\ Len(s) = Cardinality(l.items)
  BY <1>5, SortedIsEnumeration
<1> HIDE DEF o
<1>9. o < p /\ p <= o + l.limit => x \in ToSet(r)
  <2>1. IsPage(r, s, Len(s), l.items, o, l.limit)
    BY <1>0, <1>5, <1>6, PageOfSorted
  <2> QED
    BY <1>7, <2>1 DEF IsPage
<1>10. x \notin ToSet(r)
  BY <1>3 DEF Ids, Shown
<1>11. p > o + l.limit
  BY <1>4, <1>6, <1>7, <1>9, <1>10, <1>5
<1>12. m.at # "done"
  <2> SUFFICES ASSUME m.at = "done" PROVE FALSE
    OBVIOUS
  <2>1. last /\ m.total = Len(s)
    BY <1>1, <1>2, <1>8
  <2>2. Len(s) <= l.page * l.limit
    BY <1>5, <1>8, <2>1, LastPageEnds
  <2>3. m.page - 1 = l.page
    BY <1>1, <1>5
  <2> QED
    BY <1>5, <1>6, <1>7, <1>8, <1>11, <2>2, <2>3
<1> QED
  BY <1>1, <1>4, <1>5, <1>6, <1>7, <1>8, <1>11, <1>12

\* A page by number repeats nothing of a list nobody changes.
LEMMA OffsetPageShown ==
  ASSUME NEW l \in Walks, l.list \in Offsets, WalkItems(l), l.at # "done",
         NEW s \in Sorted(l.list, l.items), NEW m \in Walks, NEW last \in BOOLEAN,
         m.limit = l.limit,
         Paged(l, m, Slice(s, Offset(l.page, l.limit), l.limit), last),
         WalkShown(l), l.changes = 0
  PROVE  /\ m.seen \subseteq Ids(Shown(m.start))
         /\ OffsetShown(m) /\ Partitioned(m)
<1> DEFINE o == Offset(l.page, l.limit)
<1>0. PICK r : r = Slice(s, o, l.limit)
  OBVIOUS
<1>1. /\ m.list = l.list /\ m.limit = l.limit /\ m.start = l.start /\ m.items = l.items
      /\ m.page = l.page + 1
      /\ m.seen = l.seen \cup Ids(Shown(ToSet(r)))
      /\ m.repeated = (l.repeated \/ Ids(Shown(ToSet(r))) \cap l.seen # {})
  BY <1>0 DEF Paged
<1>2. l.items = l.start /\ ~l.shrunk /\ IsFiniteSet(l.items) /\ l.start \subseteq AnyItem
  BY DEF WalkItems, Walks
<1>3. l.page \in Nat \ {0} /\ l.limit \in Nat \ {0}
  BY PagingAssumption DEF Walks
<1>4. /\ o \in Nat /\ o = (l.page - 1) * l.limit
      /\ (m.page - 1) * l.limit = o + l.limit
      /\ (m.page - 2) * l.limit = o
  BY <1>1, <1>3, NextOffset
<1>5. Len(s) \in Nat /\ s \in [1 .. Len(s) -> l.items] /\ Len(s) = Cardinality(l.start)
  BY <1>2, SortedIsEnumeration
<1>6. l.seen \subseteq Ids(Shown(l.start)) /\ OffsetShown(l) /\ Partitioned(l)
  BY DEF WalkShown
<1> HIDE DEF o
<1>7. /\ ToSet(r) \subseteq l.items
      /\ \A y \in ToSet(r) :
           \E p \in 1 .. Len(s) : o < p /\ p <= o + l.limit /\ y = s[p]
  <2>1. IsPage(r, s, Len(s), l.items, o, l.limit)
    BY <1>0, <1>2, <1>3, <1>4, PageOfSorted
  <2> QED
    BY <2>1 DEF IsPage
<1>8. m.seen \subseteq Ids(Shown(m.start))
  BY <1>1, <1>2, <1>6, <1>7 DEF Ids, Shown
<1>9. ASSUME Ordered(l), NEW y \in ToSet(r)
      PROVE  /\ y \in l.start
             /\ o <= Cardinality(Before(l.list, l.start, y))
             /\ Cardinality(Before(l.list, l.start, y)) < o + l.limit
  <2>1. y \in l.start /\ y \in l.items
    BY <1>2, <1>7
  <2>2. PICK p \in 1 .. Len(s) :
          s[p] = y /\ Cardinality(Before(l.list, l.items, y)) = p - 1
    BY <1>2, <1>9, <2>1, PlaceOfItem
  <2>3. PICK q \in 1 .. Len(s) : o < q /\ q <= o + l.limit /\ y = s[q]
    BY <1>7
  <2>4. p = q
    BY <1>2, <2>2, <2>3, SortedIsEnumeration
  <2> QED
    BY <1>2, <1>3, <1>4, <1>5, <2>1, <2>2, <2>3, <2>4
<1>10. \A x \in l.start : x.id \in Ids(Shown(ToSet(r))) => x \in ToSet(r)
  <2> SUFFICES ASSUME NEW x \in l.start, NEW y \in ToSet(r), x.id = y.id
               PROVE  x = y
    BY DEF Ids, Shown
  <2>1. y \in l.start
    BY <1>2, <1>7
  <2> QED
    BY <2>1 DEF WalkItems
<1>11. OffsetShown(m)
  <2> SUFFICES ASSUME Ordered(m), NEW x \in m.start, x.id \in m.seen
               PROVE  Cardinality(Before(m.list, m.start, x)) < (m.page - 1) * m.limit
    BY DEF OffsetShown
  <2>1. Ordered(l)
    BY <1>1 DEF Ordered
  <2>2. CASE x.id \in Ids(Shown(ToSet(r)))
    <3>1. x \in ToSet(r)
      BY <1>1, <1>10, <2>2
    <3>2. Cardinality(Before(l.list, l.start, x)) < o + l.limit
      BY <1>9, <2>1, <3>1
    <3> QED
      BY <1>1, <1>4, <3>2
  <2>3. CASE x.id \in l.seen
    <3>1. Cardinality(Before(l.list, l.start, x)) < o
      BY <1>1, <1>4, <1>6, <2>1, <2>3 DEF OffsetShown
    <3>2. IsFiniteSet(Before(l.list, l.start, x))
      BY <1>2, FS_Subset DEF Before
    <3>3. Cardinality(Before(l.list, l.start, x)) \in Nat
      BY <3>2, FS_CardinalityType
    <3> QED
      BY <1>1, <1>3, <1>4, <3>1, <3>3
  <2> QED
    BY <1>1, <2>2, <2>3
<1>12. Partitioned(m)
  <2> SUFFICES ASSUME Ordered(m), m.repeated, m.list = "after" => \A x \in m.start : ~x.disabled
               PROVE  FALSE
    BY DEF Partitioned
  <2>1. Ordered(l) /\ ~l.repeated
    BY <1>1, <1>6 DEF Ordered, Partitioned
  <2>2. PICK y \in ToSet(r) : y.id \in l.seen
    <3>1. Ids(Shown(ToSet(r))) \cap l.seen # {}
      BY <1>1, <2>1
    <3> QED
      BY <3>1 DEF Ids, Shown
  <2>3. /\ y \in l.start
        /\ o <= Cardinality(Before(l.list, l.start, y))
        /\ Cardinality(Before(l.list, l.start, y)) < o
    BY <1>4, <1>6, <1>9, <2>1, <2>2 DEF OffsetShown
  <2>4. IsFiniteSet(Before(l.list, l.start, y))
    BY <1>2, FS_Subset DEF Before
  <2>5. Cardinality(Before(l.list, l.start, y)) \in Nat
    BY <2>4, FS_CardinalityType
  <2> QED
    BY <1>4, <2>3, <2>5
<1> QED
  BY <1>8, <1>11, <1>12

\* A list by cursor: the active items by time and version, then the others.
LEMMA PrecedesByCursor ==
  ASSUME NEW a \in AnyItem, NEW b \in AnyItem, ~a.disabled
  PROVE  /\ ~Precedes("after", a, b) => ~b.disabled /\ ~Later(a, b)
         /\ a.version # b.version => Later(a, b) \/ Later(b, a)
BY DEF Precedes, ActiveFirst, Later, AnyItem

\* The order of time and version.
LEMMA LaterIsAnOrder ==
  ASSUME NEW a \in AnyItem, NEW b \in AnyItem, NEW c \in AnyItem
  PROVE  /\ ~Later(a, a)
         /\ Later(a, b) /\ Later(b, c) => Later(a, c)
BY DEF Later, AnyItem

\* The page r of the items s behind the cursor of l, which m has shown.
CursorStep(l, m, s, r) ==
  /\ s \in Sorted("after", After(l.items, l.cursor))
  /\ r = Slice(s, 0, l.limit)
  /\ Paged(l, m, r, Len(r) < l.limit)
  /\ m.at # "done" => m.cursor = Last(r)

\* A page by cursor shows what is behind the cursor, and moves it no further.
LEMMA CursorPage ==
  ASSUME NEW l \in Walks, l.list = "after", WalkItems(l), l.at # "done",
         NEW m \in Walks, NEW s, NEW r, CursorStep(l, m, s, r),
         CursorReaches(l), l.cursor # NoCursor
  PROVE  CursorReaches(m)
<1> SUFFICES ASSUME NEW x \in Pending(m), ~x.disabled
             PROVE  /\ m.at # "done" /\ x \in m.items
                    /\ m.cursor # NoCursor => Later(m.cursor, x)
  BY DEF CursorReaches
<1>0. /\ s \in Sorted("after", After(l.items, l.cursor)) /\ r = Slice(s, 0, l.limit)
      /\ Paged(l, m, r, Len(r) < l.limit)
      /\ m.at # "done" => m.cursor = Last(r)
  BY DEF CursorStep
<1> DEFINE A == After(l.items, l.cursor)
<1>1. /\ m.start = l.start /\ m.items = l.items /\ m.touched = l.touched
      /\ m.at = IF Len(r) < l.limit THEN "done" ELSE "ask"
      /\ m.seen = l.seen \cup Ids(Shown(ToSet(r)))
  BY <1>0 DEF Paged
<1>2. /\ x \in l.start /\ x \in Pending(l) /\ ~x.malformed
      /\ x.id \notin Ids(Shown(ToSet(r)))
  BY <1>1 DEF Pending, Shown
<1>3. x \in l.items /\ Later(l.cursor, x)
  BY <1>2 DEF CursorReaches
<1>4. /\ x \in A /\ A \in SUBSET l.items /\ l.items \subseteq AnyItem /\ IsFiniteSet(l.items)
      /\ l.limit \in Nat \ {0}
  BY <1>3, PagingAssumption DEF After, WalkItems, Walks
<1>5. IsFiniteSet(A)
  BY <1>4, FS_Subset
<1>6. /\ Len(s) \in Nat /\ s \in [1 .. Len(s) -> A]
      /\ \E i \in 1 .. Len(s) : s[i] = x
      /\ \A i, j \in 1 .. Len(s) : s[i] = s[j] => i = j
      /\ \A i, j \in 1 .. Len(s) : i < j => ~Precedes("after", s[j], s[i])
  BY <1>4, <1>5, <1>0, SortedIsEnumeration
<1>7. IsPage(r, s, Len(s), A, 0, l.limit)
  BY <1>4, <1>5, <1>0, PageOfSorted
<1> HIDE DEF A
<1>8. /\ Len(r) < l.limit <=> Len(s) < 0 + l.limit
      /\ \A p \in 1 .. Len(s) : 0 < p /\ p <= 0 + l.limit => s[p] \in ToSet(r)
      /\ ~(Len(r) < l.limit) => Last(r) = s[0 + l.limit]
  BY <1>7 DEF IsPage
<1>9. PICK p \in 1 .. Len(s) : s[p] = x
  BY <1>6
<1>10. ~(p <= l.limit)
  <2>1. x \notin ToSet(r)
    BY <1>2 DEF Ids, Shown
  <2> QED
    BY <1>4, <1>8, <1>9, <2>1
<1>11. l.limit \in 1 .. Len(s) /\ l.limit < p /\ l.limit # p
  BY <1>4, <1>6, <1>9, <1>10
<1>12. m.at # "done" /\ m.cursor = s[l.limit]
  BY <1>0, <1>1, <1>4, <1>6, <1>8, <1>11
<1>13. s[l.limit] \in l.items /\ s[l.limit] # x /\ ~Precedes("after", x, s[l.limit])
  BY <1>4, <1>6, <1>9, <1>11
<1>14. s[l.limit].version # x.version /\ s[l.limit] \in AnyItem /\ x \in AnyItem
  BY <1>3, <1>4, <1>13 DEF WalkItems
<1> QED
  BY <1>1, <1>3, <1>12, <1>13, <1>14, PrecedesByCursor

\* A page by cursor of a list nobody changes repeats nothing.
LEMMA CursorPageShown ==
  ASSUME NEW l \in Walks, l.list = "after", WalkItems(l), l.at # "done",
         NEW m \in Walks, NEW s, NEW r, CursorStep(l, m, s, r),
         WalkShown(l), l.changes = 0
  PROVE  m.seen \subseteq Ids(Shown(m.start)) /\ CursorShown(m) /\ Partitioned(m)
<1>0. /\ s \in Sorted("after", After(l.items, l.cursor)) /\ r = Slice(s, 0, l.limit)
      /\ Paged(l, m, r, Len(r) < l.limit)
      /\ m.at # "done" => m.cursor = Last(r)
  BY DEF CursorStep
<1> DEFINE A == After(l.items, l.cursor)
<1>1. /\ m.start = l.start /\ m.items = l.items /\ m.list = l.list
      /\ m.at = IF Len(r) < l.limit THEN "done" ELSE "ask"
      /\ m.seen = l.seen \cup Ids(Shown(ToSet(r)))
      /\ m.repeated = (l.repeated \/ Ids(Shown(ToSet(r))) \cap l.seen # {})
  BY <1>0 DEF Paged
<1>2. /\ A \in SUBSET l.items /\ l.items \subseteq AnyItem /\ IsFiniteSet(l.items)
      /\ l.limit \in Nat \ {0} /\ l.items = l.start /\ l.cursor \in AnyItem
  BY PagingAssumption DEF After, WalkItems, Walks
<1>3. IsFiniteSet(A) /\ \A y \in A : Later(l.cursor, y)
  BY <1>2, FS_Subset DEF After
<1>4. /\ Len(s) \in Nat /\ s \in [1 .. Len(s) -> A]
      /\ \A i, j \in 1 .. Len(s) : i < j => ~Precedes("after", s[j], s[i])
  BY <1>3, <1>0, SortedIsEnumeration
<1>5. IsPage(r, s, Len(s), A, 0, l.limit)
  BY <1>2, <1>3, <1>0, PageOfSorted
<1> HIDE DEF A
<1>6. /\ Len(r) < l.limit <=> Len(s) < 0 + l.limit
      /\ ToSet(r) \subseteq A
      /\ \A y \in ToSet(r) :
           \E p \in 1 .. Len(s) : 0 < p /\ p <= 0 + l.limit /\ y = s[p]
      /\ ~(Len(r) < l.limit) => Last(r) = s[0 + l.limit]
  BY <1>5 DEF IsPage
<1>7. l.seen \subseteq Ids(Shown(l.start)) /\ CursorShown(l) /\ Partitioned(l)
  BY DEF WalkShown
<1>8. m.seen \subseteq Ids(Shown(m.start))
  BY <1>1, <1>2, <1>6, <1>7 DEF Ids, Shown
<1>9. \A x \in l.start : x.id \in Ids(Shown(ToSet(r))) => x \in ToSet(r)
  <2> SUFFICES ASSUME NEW x \in l.start, NEW y \in ToSet(r), x.id = y.id
               PROVE  x = y
    BY DEF Ids, Shown
  <2>1. y \in l.start
    BY <1>2, <1>6
  <2> QED
    BY <2>1 DEF WalkItems
<1>10. CursorShown(m)
  <2> SUFFICES ASSUME \A x \in m.start : ~x.disabled,
                      NEW x \in m.start, x.id \in m.seen, m.at # "done"
               PROVE  ~Later(m.cursor, x)
    BY DEF CursorShown
  <2>1. m.cursor = s[l.limit] /\ l.limit \in 1 .. Len(s)
    BY <1>0, <1>1, <1>2, <1>4, <1>6
  <2>2. /\ s[l.limit] \in A /\ s[l.limit] \in AnyItem /\ s[l.limit] \in l.start
        /\ x \in AnyItem /\ x \in l.start
    BY <1>1, <1>2, <1>4, <2>1
  <2>3. CASE x.id \in l.seen
    <3>1. ~Later(l.cursor, x)
      BY <1>1, <1>7, <2>2, <2>3 DEF CursorShown
    <3>2. Later(l.cursor, s[l.limit])
      BY <1>3, <2>2
    <3> QED
      BY <1>2, <2>1, <2>2, <3>1, <3>2, LaterIsAnOrder
  <2>4. CASE x.id \in Ids(Shown(ToSet(r)))
    <3>1. PICK p \in 1 .. Len(s) : p <= l.limit /\ x = s[p]
      BY <1>2, <1>6, <1>9, <2>2, <2>4
    <3>2. CASE p = l.limit
      BY <2>1, <2>2, <3>1, <3>2, LaterIsAnOrder
    <3>3. CASE p < l.limit
      <4>1. ~Precedes("after", s[l.limit], x)
        BY <1>4, <2>1, <3>1, <3>3
      <4>2. ~s[l.limit].disabled
        BY <1>1, <2>2
      <4> QED
        BY <2>1, <2>2, <4>1, <4>2, PrecedesByCursor
    <3> QED
      BY <1>2, <3>1, <3>2, <3>3
  <2> QED
    BY <1>1, <2>3, <2>4
<1>11. Partitioned(m)
  <2> SUFFICES ASSUME Ordered(m), m.repeated, \A x \in m.start : ~x.disabled
               PROVE  FALSE
    BY <1>1 DEF Partitioned
  <2>1. ~l.repeated
    BY <1>1, <1>7 DEF Ordered, Partitioned
  <2>2. PICK y \in ToSet(r) : y.id \in l.seen
    <3>1. Ids(Shown(ToSet(r))) \cap l.seen # {}
      BY <1>1, <2>1
    <3> QED
      BY <3>1 DEF Ids, Shown
  <2>3. y \in l.start /\ Later(l.cursor, y)
    BY <1>2, <1>3, <1>6
  <2> QED
    BY <1>1, <1>7, <2>2, <2>3 DEF CursorShown
<1> QED
  BY <1>8, <1>10, <1>11

-----------------------------------------------------------------------------
(***************************************************************************)
(* What others do: the request goes on as it was.                          *)
(***************************************************************************)
\* A change by another request takes the walk l to m.
Changed(l, m) ==
  /\ m.list = l.list /\ m.limit = l.limit /\ m.start = l.start /\ m.at = l.at
  /\ m.page = l.page /\ m.cursor = l.cursor /\ m.seen = l.seen
  /\ m.changes = l.changes + 1
  /\ l.touched \subseteq m.touched
  /\ (l.shrunk => m.shrunk) /\ (l.late => m.late) /\ m.total = l.total

\* The items a change leaves alone, and the newer one it may put in the list.
LEMMA ChangeItems ==
  ASSUME NEW l \in Walks, NEW m \in Walks, WalkItems(l), Changed(l, m),
         NEW kept \in SUBSET l.items, NEW new \in SUBSET AnyItem,
         m.items = kept \cup new, IsFiniteSet(new),
         \A y \in new : /\ y.time = Fresh(l) /\ y.version = Fresh(l)
                        /\ ~m.shrunk => ~y.disabled,
         \A y, z \in new : y = z
  PROVE  WalkItems(m) /\ \A y \in new : Newer(m, y) /\ y \notin l.items
<1>1. /\ m.start = l.start /\ m.changes = l.changes + 1 /\ (l.shrunk => m.shrunk)
      /\ l.changes \in Nat /\ MaxItems \in Nat
  BY PagingAssumption DEF Changed, Walks
<1>2. \A y \in new : Newer(m, y)
  BY <1>1 DEF Newer, Fresh
<1>3. \A y \in l.items : y \in AnyItem /\ y.version \in Nat /\ y.version <= MaxItems + l.changes
  BY <1>1 DEF WalkItems, Newer, Walks, AnyItem
<1>4. \A y \in new : y \notin l.items
  BY <1>1, <1>3 DEF Fresh
<1>5. IsFiniteSet(m.items)
  BY FS_Subset, FS_Union DEF WalkItems
<1>6. \A y \in m.items : y \in m.start \/ Newer(m, y)
  <2> SUFFICES ASSUME NEW y \in kept, ~(y \in l.start) PROVE Newer(m, y)
    BY <1>1, <1>2
  <2>1. Newer(l, y) /\ y \in AnyItem
    BY <1>3 DEF WalkItems
  <2> QED
    BY <1>1, <2>1 DEF Newer, AnyItem
<1>7. \A x, y \in m.items : x.version = y.version => x = y
  <2> SUFFICES ASSUME NEW x \in m.items, NEW y \in m.items, x.version = y.version
               PROVE  x = y
    OBVIOUS
  <2>1. \A z \in new : z.version = MaxItems + l.changes + 1
    BY DEF Fresh
  <2>2. \A z \in kept : z \in l.items /\ z.version # MaxItems + l.changes + 1
    BY <1>1, <1>3
  <2> QED
    BY <2>1, <2>2 DEF WalkItems
<1>8. m.changes # 0
  BY <1>1
<1> QED
  BY <1>1, <1>2, <1>4, <1>5, <1>6, <1>7, <1>8 DEF WalkItems

\* Changes put items before the one that is still to come, or touch it.
LEMMA ChangeReaches ==
  ASSUME NEW l \in Walks, NEW m \in Walks, WalkItems(l), WalkItems(m), Changed(l, m),
         l.list \in Offsets, l.at # "done", OffsetReaches(l),
         NEW new \in SUBSET AnyItem, \A y \in new : Newer(m, y) /\ y \notin l.items,
         \/ m.items = l.items \cup new
         \/ \E i \in l.items : i.id \in m.touched /\ new # {} /\ m.items = (l.items \ {i}) \cup new
         \/ m.shrunk
  PROVE  OffsetReaches(m)
<1> SUFFICES ASSUME ~m.shrunk, Ordered(m), NEW x \in Pending(m)
             PROVE  /\ m.at # "done" /\ x \in m.items
                    /\ Cardinality(Before(m.list, m.items, x)) >= (m.page - 1) * m.limit
  BY DEF OffsetReaches
<1>1. /\ m.list = l.list /\ m.limit = l.limit /\ m.start = l.start /\ m.at = l.at
      /\ m.page = l.page /\ m.seen = l.seen /\ l.touched \subseteq m.touched /\ ~l.shrunk
  BY DEF Changed
<1>2. Ordered(l) /\ x \in Pending(l) /\ x \in l.start /\ x.id \notin m.touched
  BY <1>1 DEF Ordered, Pending, Shown
<1> DEFINE B == Before(l.list, l.items, x)
           C == Before(m.list, m.items, x)
<1>3. x \in l.items /\ Cardinality(B) >= (l.page - 1) * l.limit
  BY <1>1, <1>2 DEF OffsetReaches
<1>4. \A y \in new : Precedes(l.list, y, x) /\ y \in AnyItem
  BY <1>1, <1>2, NewerPrecedes
<1>5. IsFiniteSet(B) /\ IsFiniteSet(C)
  <2>1. B \in SUBSET l.items /\ C \in SUBSET m.items /\ IsFiniteSet(l.items) /\ IsFiniteSet(m.items)
    BY DEF Before, WalkItems
  <2> QED
    BY <2>1, FS_Subset
<1>6. Cardinality(B) \in Nat /\ Cardinality(C) \in Nat
  BY <1>5, FS_CardinalityType
<1>7. (l.page - 1) * l.limit \in Int
  BY PagingAssumption DEF Walks
<1>8. CASE m.items = l.items \cup new
  <2>1. B \in SUBSET C
    BY <1>1, <1>8 DEF Before
  <2>2. Cardinality(B) <= Cardinality(C)
    BY <1>5, <2>1, FS_Subset
  <2> HIDE DEF B, C
  <2>3. Cardinality(C) >= (m.page - 1) * m.limit
    BY <1>1, <1>3, <1>6, <1>7, <2>2
  <2> QED
    BY <1>1, <1>3, <1>8, <2>3 DEF C
<1>9. ASSUME NEW i \in l.items, i.id \in m.touched, new # {}, m.items = (l.items \ {i}) \cup new
      PROVE  x \in m.items /\ Cardinality(C) >= (m.page - 1) * m.limit
  <2>1. x \in m.items
    BY <1>2, <1>3, <1>9
  <2>2. PICK y : y \in new
    BY <1>9
  <2>3. y \notin B /\ y \notin B \ {i}
    BY <2>2 DEF Before
  <2>4. (B \ {i}) \cup {y} \in SUBSET C
    BY <1>1, <1>4, <1>9, <2>2 DEF Before
  <2> HIDE DEF B, C
  <2>5. IsFiniteSet(B \ {i}) /\ Cardinality(B \ {i}) \in {Cardinality(B), Cardinality(B) - 1}
    BY <1>5, FS_RemoveElement
  <2>6. Cardinality((B \ {i}) \cup {y}) = Cardinality(B \ {i}) + 1
    BY <2>3, <2>5, FS_AddElement
  <2>7. Cardinality((B \ {i}) \cup {y}) <= Cardinality(C)
    BY <1>5, <2>4, FS_Subset
  <2>8. Cardinality(C) >= Cardinality(B)
    BY <1>6, <2>5, <2>6, <2>7
  <2> QED
    BY <1>1, <1>3, <1>6, <1>7, <2>1, <2>8
<1> QED
  BY <1>1, <1>8, <1>9

\* By cursor, what a change leaves alone is still behind the cursor.
LEMMA ChangeCursor ==
  ASSUME NEW l \in Walks, NEW m \in Walks, Changed(l, m), CursorReaches(l), l.at # "done",
         NEW new, \/ m.items = l.items \cup new
                  \/ \E i \in l.items : i.id \in m.touched /\ m.items = (l.items \ {i}) \cup new
  PROVE  CursorReaches(m)
<1> SUFFICES ASSUME m.list = "after", NEW x \in Pending(m), ~x.disabled
             PROVE  /\ m.at # "done" /\ x \in m.items
                    /\ m.cursor # NoCursor => Later(m.cursor, x)
  BY DEF CursorReaches
<1>1. /\ m.list = l.list /\ m.start = l.start /\ m.at = l.at /\ m.cursor = l.cursor
      /\ m.seen = l.seen /\ l.touched \subseteq m.touched
  BY DEF Changed
<1>2. x \in Pending(l) /\ x.id \notin m.touched
  BY <1>1 DEF Pending
<1>3. x \in l.items /\ (l.cursor # NoCursor => Later(l.cursor, x))
  BY <1>1, <1>2 DEF CursorReaches
<1> QED
  BY <1>1, <1>2, <1>3 DEF Pending, Shown

\* What was counted is still there, unless something was created or hidden.
LEMMA ChangeCount ==
  ASSUME NEW l \in Walks, NEW m \in Walks, Changed(l, m), CountFits(l), WalkItems(l),
         NEW new, \A y, z \in new : y = z, \A y \in new : y \notin l.items,
         \/ l.at = "counted" => m.late
         \/ \E i \in l.items : (new # {} \/ m.shrunk) /\ m.items = (l.items \ {i}) \cup new
  PROVE  CountFits(m)
<1> SUFFICES ASSUME m.at = "counted", ~m.shrunk, ~m.late
             PROVE  m.total = Cardinality(m.items)
  BY DEF CountFits
<1>1. l.at = "counted" /\ ~l.shrunk /\ ~l.late /\ m.total = l.total
  BY DEF Changed
<1>2. l.total = Cardinality(l.items) /\ IsFiniteSet(l.items)
  BY <1>1 DEF CountFits, WalkItems
<1>3. PICK i \in l.items : new # {} /\ m.items = (l.items \ {i}) \cup new
  BY <1>1
<1>4. PICK y : y \in new
  BY <1>3
<1>5. m.items = (l.items \ {i}) \cup {y} /\ y \notin l.items \ {i}
  BY <1>3, <1>4
<1>6. IsFiniteSet(l.items \ {i}) /\ Cardinality(l.items \ {i}) = Cardinality(l.items) - 1
  BY <1>2, FS_RemoveElement
<1>7. Cardinality((l.items \ {i}) \cup {y}) = Cardinality(l.items \ {i}) + 1
  BY <1>5, <1>6, FS_AddElement
<1>8. Cardinality(l.items) \in Nat
  BY <1>2, FS_CardinalityType
<1> QED
  BY <1>1, <1>2, <1>5, <1>6, <1>7, <1>8

-----------------------------------------------------------------------------
(***************************************************************************)
(* The start of a walk.                                                    *)
(***************************************************************************)
\* Whatever page size is asked for, pages hold between one and MaxLimit items.
LEMMA LimitIsInRange ==
  ASSUME NEW list, NEW asked \in Int
  PROVE  Limit(list, asked) \in 1 .. MaxLimit
BY PagingAssumption DEF Limit

\* The items of a list at the start, each with its own version.
LEMMA StartIsTyped ==
  ASSUME NEW list \in Lists, NEW items \in StartItems(list)
  PROVE  /\ items \in SUBSET AnyItem /\ IsFiniteSet(items)
         /\ \A x \in items : /\ x.id = x.version
                             /\ x.version >= 1 /\ x.version <= MaxItems /\ x.time <= MaxItems
         /\ \A x, y \in items : x.version = y.version => x = y
<1>1. PICK N \in 0 .. MaxItems :
        items \in {ItemsOf(N, time, disabled, malformed) :
                     time \in StartTimes(list, N), disabled \in StartDisabled(list, N),
                     malformed \in StartMalformed(list, N)}
  BY DEF StartItems
<1>2. PICK time \in StartTimes(list, N), disabled \in StartDisabled(list, N),
           malformed \in StartMalformed(list, N) :
        items = ItemsOf(N, time, disabled, malformed)
  BY <1>1
<1>3. time \in [1 .. N -> 1 .. N] /\ disabled \in [1 .. N -> BOOLEAN] /\ N \in Nat /\ N <= MaxItems
  BY <1>1, <1>2, PagingAssumption DEF StartTimes, StartDisabled
<1> DEFINE It(n) == [Item(n, time[n], disabled[n]) EXCEPT !.malformed = (n \in malformed)]
           f == [n \in 1 .. N |-> It(n)]
<1>4. \A n \in 1 .. N : /\ It(n) \in AnyItem /\ It(n).id = n /\ It(n).version = n
                        /\ It(n).time \in 1 .. N
  <2> SUFFICES ASSUME NEW n \in 1 .. N
               PROVE  /\ It(n) \in AnyItem /\ It(n).id = n /\ It(n).version = n
                      /\ It(n).time \in 1 .. N
    OBVIOUS
  <2>0. time[n] \in 1 .. N /\ disabled[n] \in BOOLEAN
    BY <1>3
  <2>1. PICK t \in 1 .. N, d \in BOOLEAN : t = time[n] /\ d = disabled[n]
    BY <2>0, Zenon
  <2>2. PICK b \in BOOLEAN : b = (n \in malformed)
    <3>1. (n \in malformed) \in BOOLEAN
      OBVIOUS
    <3> QED
      BY <3>1
  <2>3. It(n) = [id |-> n, time |-> t, version |-> n, disabled |-> d, malformed |-> b]
    BY <2>1, <2>2 DEF Item
  <2> HIDE DEF It
  <2> QED
    BY <2>1, <2>2, <2>3, <1>3 DEF AnyItem
<1>5. \A x \in items : \E n \in 1 .. N : x = It(n)
  BY <1>2 DEF ItemsOf
<1>6. IsFiniteSet(items)
  <2>1. f \in [1 .. N -> items] /\ \A x \in items : \E n \in 1 .. N : f[n] = x
    BY <1>2 DEF ItemsOf
  <2> HIDE DEF f, It
  <2>2. f \in Surjection(1 .. N, items)
    BY <2>1, Fun_IsSurj
  <2>3. IsFiniteSet(1 .. N)
    BY <1>3, FS_Interval
  <2> QED
    BY <2>2, <2>3, FS_Surjection
<1> HIDE DEF It
<1>7. \A x \in items : x \in AnyItem /\ x.id = x.version /\ x.version \in 1 .. N /\ x.time \in 1 .. N
  BY <1>4, <1>5
<1>8. \A x, y \in items : x.version = y.version => x = y
  BY <1>4, <1>5
<1> QED
  BY <1>3, <1>6, <1>7, <1>8, PagingAssumption

\* A walk starts with all before it.
LEMMA WalkStarts == PagingInit => listing \in Walks /\ WalkInv(listing)
<1> SUFFICES ASSUME PagingInit PROVE listing \in Walks /\ WalkInv(listing)
  OBVIOUS
<1> DEFINE Start(list, limit, items, cursor) ==
             [at |-> "ask", list |-> list, limit |-> limit,
              items |-> items, start |-> items, page |-> 1, total |-> 0,
              cursor |-> cursor, seen |-> {}, repeated |-> FALSE,
              changes |-> 0, touched |-> {}, shrunk |-> FALSE, late |-> FALSE]
<1>1. PICK list \in Lists, asked \in {0, 1, 2, MaxLimit + 1} :
        \E items \in StartItems(list),
           cursor \in IF list = "after" THEN {NoCursor, TopCursor} ELSE {NoCursor} :
          listing = Start(list, Limit(list, asked), items, cursor)
  BY Zenon DEF PagingInit
<1>2. PICK items \in StartItems(list), cursor \in {NoCursor, TopCursor} :
        listing = Start(list, Limit(list, asked), items, cursor)
  BY <1>1
<1>3. PICK limit \in 1 .. MaxLimit : limit = Limit(list, asked)
  BY LimitIsInRange, PagingAssumption
<1>4. cursor \in AnyItem /\ (cursor # NoCursor => cursor.time = 2 * MaxItems + MaxChanges)
  <2>1. 2 * MaxItems + MaxChanges \in Nat
    BY PagingAssumption
  <2>2. /\ TopCursor \in AnyItem /\ TopCursor.time = 2 * MaxItems + MaxChanges
        /\ NoCursor \in AnyItem
    BY <2>1 DEF TopCursor, NoCursor, Item, AnyItem
  <2> QED
    BY <2>2
<1>5. /\ items \in SUBSET AnyItem /\ IsFiniteSet(items)
      /\ \A x \in items : /\ x.id = x.version
                          /\ x.version >= 1 /\ x.version <= MaxItems /\ x.time <= MaxItems
      /\ \A x, y \in items : x.version = y.version => x = y
  BY StartIsTyped
<1>6. listing = [at |-> "ask", list |-> list, limit |-> limit,
                 items |-> items, start |-> items, page |-> 1, total |-> 0,
                 cursor |-> cursor, seen |-> {}, repeated |-> FALSE, changes |-> 0,
                 touched |-> {}, shrunk |-> FALSE, late |-> FALSE]
  BY <1>2, <1>3 DEF Start
<1>7. listing \in Walks
  BY <1>4, <1>5, <1>6, PagingAssumption DEF Walks
<1>8. WalkItems(listing)
  BY <1>5, <1>6 DEF WalkItems
<1>9. (listing.page - 1) * listing.limit = 0
  BY <1>6, PagingAssumption
<1>10. OffsetReaches(listing)
  <2> SUFFICES ASSUME NEW x \in items
               PROVE  Cardinality(Before(list, items, x)) >= 0
    BY <1>6, <1>9 DEF OffsetReaches, Pending, Shown
  <2>1. IsFiniteSet(Before(list, items, x))
    BY <1>5, FS_Subset DEF Before
  <2> QED
    BY <2>1, FS_CardinalityType
<1>11. CursorReaches(listing)
  <2> SUFFICES ASSUME NEW x \in items, cursor # NoCursor PROVE Later(cursor, x)
    BY <1>6 DEF CursorReaches, Pending, Shown
  <2>1. x.time < 2 * MaxItems + MaxChanges
    BY <1>5, PagingAssumption DEF AnyItem
  <2> QED
    BY <1>4, <1>5, <2>1 DEF Later, AnyItem
<1>12. WalkShown(listing) /\ CountFits(listing)
  <2>1. OffsetShown(listing) /\ CursorShown(listing) /\ Partitioned(listing)
    BY <1>6 DEF OffsetShown, CursorShown, Partitioned
  <2> QED
    BY <1>6, <2>1 DEF WalkShown, CountFits
<1> QED
  BY <1>7, <1>8, <1>10, <1>11, <1>12 DEF WalkInv

-----------------------------------------------------------------------------
(***************************************************************************)
(* The steps of a walk.                                                    *)
(***************************************************************************)
\* The count query.
LEMMA CountKeeps ==
  ASSUME listing \in Walks, WalkInv(listing), CountItems
  PROVE  listing' \in Walks /\ WalkInv(listing')
<1>1. PICK l \in Walks : l = listing
  OBVIOUS
<1>2. WalkItems(l) /\ OffsetReaches(l) /\ CursorReaches(l) /\ WalkShown(l)
  BY <1>1 DEF WalkInv
<1>3. Cardinality(l.items) \in Nat
  BY <1>2, FS_CardinalityType DEF WalkItems
<1>4. PICK n \in Nat : n = Cardinality(l.items)
  BY <1>3
<1>5. PICK m : m = listing'
  OBVIOUS
<1>6. /\ m = [l EXCEPT !.at = "counted", !.late = FALSE, !.total = n]
      /\ l.at = "ask" /\ l.list \in Offsets
  BY <1>1, <1>4, <1>5 DEF CountItems
<1>7. /\ m \in Walks /\ m.at = "counted" /\ m.total = n /\ m.late = FALSE
      /\ m.list = l.list /\ m.limit = l.limit /\ m.start = l.start /\ m.items = l.items
      /\ m.changes = l.changes /\ m.touched = l.touched /\ m.shrunk = l.shrunk
      /\ m.seen = l.seen /\ m.repeated = l.repeated /\ m.page = l.page /\ m.cursor = l.cursor
  BY <1>6 DEF Walks
<1>8. WalkItems(m) /\ CountFits(m)
  BY <1>2, <1>4, <1>7 DEF WalkItems, Newer, CountFits
<1>9. OffsetReaches(m)
  BY <1>2, <1>6, <1>7 DEF OffsetReaches, Ordered, Pending
<1>10. m.list # "after"
  BY <1>6, <1>7 DEF Offsets
<1>11. CursorReaches(m)
  BY <1>10 DEF CursorReaches
<1>12. WalkShown(m)
  <2> SUFFICES ASSUME m.changes = 0
               PROVE  /\ m.seen \subseteq Ids(Shown(m.start))
                      /\ OffsetShown(m) /\ CursorShown(m) /\ Partitioned(m)
    BY <1>10 DEF WalkShown
  <2>1. /\ l.seen \subseteq Ids(Shown(l.start)) /\ l.items = l.start
        /\ OffsetShown(l) /\ CursorShown(l) /\ Partitioned(l)
    BY <1>2, <1>7 DEF WalkShown, WalkItems
  <2>2. OffsetShown(m) /\ CursorShown(m) /\ Partitioned(m)
    BY <1>6, <1>7, <1>10, <2>1 DEF OffsetShown, CursorShown, Partitioned, Ordered
  <2> QED
    BY <1>7, <2>1, <2>2
<1> QED
  BY <1>5, <1>7, <1>8, <1>9, <1>11, <1>12 DEF WalkInv

\* A request that is refused or fails shows nothing.
LEMMA StopKeeps ==
  ASSUME listing \in Walks, WalkInv(listing), FetchRefused \/ FetchFails
  PROVE  listing' \in Walks /\ WalkInv(listing')
<1>1. PICK l \in Walks : l = listing
  OBVIOUS
<1>2. WalkItems(l) /\ OffsetReaches(l) /\ CursorReaches(l) /\ WalkShown(l)
  BY <1>1 DEF WalkInv
<1>3. PICK m : m = listing'
  OBVIOUS
<1>4. PICK at \in {"refused", "failed"} : m = [l EXCEPT !.at = at] /\ l.at # "done"
  BY <1>1, <1>3 DEF FetchRefused, FetchFails
<1>5. /\ m \in Walks /\ m.at = at /\ m.total = l.total /\ m.late = l.late
      /\ m.list = l.list /\ m.limit = l.limit /\ m.start = l.start /\ m.items = l.items
      /\ m.changes = l.changes /\ m.touched = l.touched /\ m.shrunk = l.shrunk
      /\ m.seen = l.seen /\ m.repeated = l.repeated /\ m.page = l.page /\ m.cursor = l.cursor
  BY <1>4 DEF Walks
<1>6. WalkItems(m) /\ CountFits(m)
  BY <1>2, <1>5 DEF WalkItems, Newer, CountFits
<1>7. OffsetReaches(m)
  BY <1>2, <1>4, <1>5 DEF OffsetReaches, Ordered, Pending
<1>8. CursorReaches(m)
  BY <1>2, <1>4, <1>5 DEF CursorReaches, Pending
<1>9. WalkShown(m)
  BY <1>2, <1>4, <1>5 DEF WalkShown, OffsetShown, CursorShown, Partitioned, Ordered
<1> QED
  BY <1>3, <1>5, <1>6, <1>7, <1>8, <1>9 DEF WalkInv

\* The fields of an answer.
LEMMA FetchedIsPaged ==
  ASSUME NEW l \in Walks, NEW r, NEW total \in Nat, NEW last \in BOOLEAN,
         ToSet(r) \subseteq l.items,
         NEW m, m = Fetched([l EXCEPT !.total = total], r, last)
  PROVE  /\ m \in Walks /\ Paged(l, m, r, last) /\ m.total = total
         /\ m.cursor = l.cursor /\ m.limit = l.limit
<1>0. PICK k : k = [l EXCEPT !.total = total]
  OBVIOUS
<1>1. PICK at \in {"ask", "done"} : at = IF last THEN "done" ELSE "ask"
  OBVIOUS
<1> DEFINE shown == Ids(Shown(ToSet(r)))
<1>2. PICK seen \in SUBSET Nat : seen = l.seen \cup shown
  <2>1. shown \subseteq Nat
    <3>1. \A y \in ToSet(r) : y \in AnyItem
      BY DEF Walks
    <3> QED
      BY <3>1 DEF Ids, Shown, AnyItem
  <2> QED
    BY <2>1 DEF Walks
<1>3. PICK repeated \in BOOLEAN : repeated = (l.repeated \/ shown \cap l.seen # {})
  OBVIOUS
<1>4. PICK page \in Nat \ {0} : page = l.page + 1
  BY DEF Walks
<1>5. /\ k \in Walks /\ k.seen = l.seen /\ k.repeated = l.repeated
      /\ k.page = l.page /\ k.total = total /\ k.limit = l.limit
      /\ k.list = l.list /\ k.start = l.start /\ k.items = l.items
      /\ k.changes = l.changes /\ k.touched = l.touched /\ k.shrunk = l.shrunk
      /\ k.cursor = l.cursor /\ k.late = l.late
  BY <1>0 DEF Walks
<1>6. m = [k EXCEPT !.at = at, !.seen = seen, !.repeated = repeated, !.page = page]
  BY <1>0, <1>1, <1>2, <1>3, <1>4, <1>5 DEF Fetched
<1>7. m \in Walks
  BY <1>5, <1>6 DEF Walks
<1>8. /\ m.at = at /\ m.seen = seen /\ m.repeated = repeated /\ m.page = page
      /\ m.list = k.list /\ m.start = k.start /\ m.items = k.items
      /\ m.changes = k.changes /\ m.touched = k.touched /\ m.shrunk = k.shrunk
      /\ m.cursor = k.cursor /\ m.limit = k.limit /\ m.total = k.total /\ m.late = k.late
  BY <1>5, <1>6 DEF Walks
<1> QED
  BY <1>1, <1>2, <1>3, <1>4, <1>5, <1>7, <1>8 DEF Paged

\* A page by number.
LEMMA FetchPageKeeps ==
  ASSUME listing \in Walks, WalkInv(listing), FetchPage
  PROVE  listing' \in Walks /\ WalkInv(listing')
<1>1. PICK l \in Walks : l = listing
  OBVIOUS
<1>2. WalkItems(l) /\ CountFits(l) /\ OffsetReaches(l) /\ WalkShown(l)
  BY <1>1 DEF WalkInv
<1>3. PICK m : m = listing'
  OBVIOUS
<1>4. PICK total : total = IF l.list = "alerts" THEN Cardinality(l.items) ELSE l.total
  OBVIOUS
<1>5. PICK s \in Sorted(l.list, l.items) :
        m = Fetched([l EXCEPT !.total = total],
                    Slice(s, Offset(l.page, l.limit), l.limit),
                    IsLastPage(l.list, l.page, total, l.limit))
  BY <1>1, <1>3, <1>4 DEF FetchPage
<1>6. /\ l.list \in Offsets /\ l.list # "after" /\ l.at # "done"
      /\ l.list # "alerts" => l.at = "counted"
  BY <1>1 DEF FetchPage, Offsets
<1>7. /\ IsFiniteSet(l.items) /\ l.items \subseteq AnyItem
      /\ l.page \in Nat \ {0} /\ l.limit \in Nat \ {0} /\ l.total \in Nat
  BY <1>2, PagingAssumption DEF WalkItems, Walks
<1>8. Offset(l.page, l.limit) \in Nat
  BY <1>7, NextOffset
<1>9. PICK r : r = Slice(s, Offset(l.page, l.limit), l.limit)
  OBVIOUS
<1>10. ToSet(r) \subseteq l.items
  <2>1. IsPage(r, s, Len(s), l.items, Offset(l.page, l.limit), l.limit)
    BY <1>7, <1>8, <1>9, PageOfSorted
  <2> QED
    BY <2>1 DEF IsPage
<1>11. total \in Nat /\ (~l.shrunk /\ ~l.late => total = Cardinality(l.items))
  BY <1>2, <1>4, <1>6, <1>7, FS_CardinalityType DEF CountFits
<1>12. PICK last \in BOOLEAN : last <=> IsLastPage(l.list, l.page, total, l.limit)
  OBVIOUS
<1>13. IsLastPage(l.list, l.page, total, l.limit) \in BOOLEAN
  BY DEF IsLastPage
<1>14. m = Fetched([l EXCEPT !.total = total], r, last)
  BY <1>5, <1>9, <1>12, <1>13
<1>15. m \in Walks /\ Paged(l, m, r, last) /\ m.total = total /\ m.limit = l.limit
  BY <1>10, <1>11, <1>14, FetchedIsPaged
<1>16. WalkItems(m) /\ CountFits(m)
  BY <1>2, <1>15, PagedItems
<1>17. OffsetReaches(m)
  BY <1>2, <1>6, <1>9, <1>11, <1>12, <1>15, OffsetPage
<1>18. m.list = l.list /\ m.changes = l.changes
  BY <1>15 DEF Paged
<1>19. CursorReaches(m)
  BY <1>6, <1>18 DEF CursorReaches
<1>20. WalkShown(m)
  <2> SUFFICES ASSUME m.changes = 0
               PROVE  /\ m.seen \subseteq Ids(Shown(m.start))
                      /\ OffsetShown(m) /\ CursorShown(m) /\ Partitioned(m)
    BY <1>6, <1>18 DEF WalkShown
  <2>1. l.changes = 0
    BY <1>18
  <2>2. /\ m.seen \subseteq Ids(Shown(m.start))
        /\ OffsetShown(m) /\ Partitioned(m)
    BY <1>2, <1>6, <1>9, <1>15, <2>1, OffsetPageShown
  <2> QED
    BY <1>6, <1>18, <2>2 DEF CursorShown
<1> QED
  BY <1>3, <1>15, <1>16, <1>17, <1>19, <1>20 DEF WalkInv

\* A page by cursor.
LEMMA FetchAfterKeeps ==
  ASSUME listing \in Walks, WalkInv(listing), FetchAfter
  PROVE  listing' \in Walks /\ WalkInv(listing')
<1>1. PICK l \in Walks : l = listing
  OBVIOUS
<1>2. WalkItems(l) /\ CursorReaches(l) /\ WalkShown(l)
  BY <1>1 DEF WalkInv
<1>3. PICK m : m = listing'
  OBVIOUS
<1>4. l.at = "ask" /\ l.list = "after" /\ l.at # "done" /\ l.cursor # NoCursor
  BY <1>1 DEF FetchAfter
<1>5. PICK s \in Sorted("after", After(l.items, l.cursor)), limit \in {l.limit, DefaultLimit} :
        LET result == Slice(s, 0, l.limit)
            last == Len(result) < l.limit
        IN  m = [Fetched(l, result, last) EXCEPT
                   !.cursor = IF last THEN @ ELSE Last(result),
                   !.limit = IF last THEN @ ELSE limit]
  BY <1>1, <1>3 DEF FetchAfter
<1>6. /\ IsFiniteSet(l.items) /\ l.items \subseteq AnyItem
      /\ l.limit \in Nat \ {0} /\ l.total \in Nat /\ limit \in 1 .. MaxLimit
      /\ After(l.items, l.cursor) \in SUBSET l.items
  BY <1>2, PagingAssumption DEF WalkItems, Walks, After
<1>7. IsFiniteSet(After(l.items, l.cursor))
  BY <1>6, FS_Subset
<1>8. PICK r : r = Slice(s, 0, l.limit)
  OBVIOUS
<1>9. IsPage(r, s, Len(s), After(l.items, l.cursor), 0, l.limit)
  BY <1>6, <1>7, <1>8, PageOfSorted
<1>10. ToSet(r) \subseteq l.items
  BY <1>6, <1>9 DEF IsPage
<1>10a. (Len(r) < l.limit) \in BOOLEAN
  BY <1>6, <1>9 DEF IsPage
<1>11. PICK last \in BOOLEAN : last <=> Len(r) < l.limit
  OBVIOUS
<1>12. PICK k : k = Fetched(l, r, last)
  OBVIOUS
<1>13. /\ k \in Walks /\ Paged(l, k, r, last)
       /\ k.cursor = l.cursor /\ k.limit = l.limit
  <2>1. PICK total \in Nat : total = l.total
    BY <1>6
  <2>2. l = [l EXCEPT !.total = total]
    BY <2>1 DEF Walks
  <2>3. k = Fetched([l EXCEPT !.total = total], r, last)
    BY <1>12, <2>2
  <2> QED
    BY <1>10, <2>3, FetchedIsPaged
<1>14. m = [k EXCEPT !.cursor = IF last THEN @ ELSE Last(r),
                     !.limit = IF last THEN @ ELSE limit]
  BY <1>5, <1>8, <1>10a, <1>11, <1>12
<1>15. ~last => Last(r) \in AnyItem
  <2> SUFFICES ASSUME ~last PROVE Last(r) \in AnyItem
    OBVIOUS
  <2>1. ~(Len(r) < l.limit)
    BY <1>11
  <2>2. Len(s) \in Nat /\ s \in [1 .. Len(s) -> After(l.items, l.cursor)]
    BY <1>7, SortedIsEnumeration
  <2>3. Last(r) = s[0 + l.limit] /\ 0 + l.limit \in 1 .. Len(s)
    BY <1>6, <1>9, <2>1, <2>2 DEF IsPage
  <2> QED
    BY <1>6, <2>2, <2>3
<1>16. PICK cursor \in AnyItem, size \in 1 .. MaxLimit :
         /\ cursor = IF last THEN k.cursor ELSE Last(r)
         /\ size = IF last THEN k.limit ELSE limit
  BY <1>6, <1>13, <1>15 DEF Walks
<1>17. m = [k EXCEPT !.cursor = cursor, !.limit = size]
  BY <1>13, <1>14, <1>16
<1>17a. m \in Walks
  BY <1>13, <1>17 DEF Walks
<1>18. /\ m.at = k.at /\ m.seen = k.seen /\ m.repeated = k.repeated
       /\ m.page = k.page /\ m.list = k.list /\ m.start = k.start /\ m.items = k.items
       /\ m.changes = k.changes /\ m.touched = k.touched /\ m.shrunk = k.shrunk
       /\ m.cursor = cursor /\ m.late = k.late
  BY <1>13, <1>17 DEF Walks
<1>19. Paged(l, m, r, last)
  BY <1>13, <1>18 DEF Paged
<1>20. CursorStep(l, m, s, r)
  <2>1. last = (Len(r) < l.limit)
    BY <1>10a, <1>11
  <2>2. m.at # "done" => m.cursor = Last(r)
    BY <1>16, <1>18, <1>19 DEF Paged
  <2> QED
    BY <1>8, <1>19, <2>1, <2>2 DEF CursorStep
<1>21. WalkItems(m) /\ CountFits(m)
  BY <1>2, <1>17a, <1>19, PagedItems
<1>22. CursorReaches(m)
  BY <1>2, <1>4, <1>17a, <1>20, CursorPage
<1>23. m.list = l.list /\ m.changes = l.changes /\ m.at # "counted"
  BY <1>19 DEF Paged
<1>24. m.list \notin Offsets
  BY <1>4, <1>23 DEF Offsets
<1>25. OffsetReaches(m)
  BY <1>24 DEF OffsetReaches
<1>26. WalkShown(m)
  <2> SUFFICES ASSUME m.changes = 0
               PROVE  /\ m.seen \subseteq Ids(Shown(m.start))
                      /\ OffsetShown(m) /\ CursorShown(m) /\ Partitioned(m)
    BY <1>23 DEF WalkShown
  <2>1. m.seen \subseteq Ids(Shown(m.start)) /\ CursorShown(m) /\ Partitioned(m)
    BY <1>2, <1>4, <1>17a, <1>20, <1>23, CursorPageShown
  <2> QED
    BY <1>24, <2>1 DEF OffsetShown
<1> QED
  BY <1>3, <1>17a, <1>21, <1>22, <1>25, <1>26 DEF WalkInv

\* What follows from what a change does to the items.
LEMMA ChangeKeeps ==
  ASSUME NEW l \in Walks, WalkInv(l), l.at # "done", NEW m \in Walks, Changed(l, m),
         NEW new \in SUBSET AnyItem, IsFiniteSet(new), \A y, z \in new : y = z,
         \A y \in new : /\ y.time = Fresh(l) /\ y.version = Fresh(l)
                        /\ ~m.shrunk => ~y.disabled,
         \/ m.items = l.items \cup new /\ (l.at = "counted" => m.late)
         \/ \E i \in l.items : /\ i.id \in m.touched /\ (new # {} \/ m.shrunk)
                               /\ m.items = (l.items \ {i}) \cup new
  PROVE  WalkInv(m)
<1>1. WalkItems(l) /\ CountFits(l) /\ OffsetReaches(l) /\ CursorReaches(l) /\ WalkShown(l)
  BY DEF WalkInv
<1>2. PICK kept \in SUBSET l.items : m.items = kept \cup new
  <2>1. CASE m.items = l.items \cup new
    BY <2>1
  <2>2. CASE \E i \in l.items : /\ i.id \in m.touched /\ (new # {} \/ m.shrunk)
                                /\ m.items = (l.items \ {i}) \cup new
    <3>1. PICK i \in l.items : m.items = (l.items \ {i}) \cup new
      BY <2>2
    <3>2. l.items \ {i} \in SUBSET l.items
      OBVIOUS
    <3> QED
      BY <3>1, <3>2
  <2> QED
    BY <2>1, <2>2
<1>3. WalkItems(m) /\ \A y \in new : Newer(m, y) /\ y \notin l.items
  BY <1>1, <1>2, ChangeItems
<1>4. OffsetReaches(m)
  <2>1. CASE l.list \in Offsets
    BY <1>1, <1>3, <2>1, ChangeReaches
  <2>2. CASE l.list \notin Offsets
    BY <2>2 DEF OffsetReaches, Changed
  <2> QED
    BY <2>1, <2>2
<1>5. CursorReaches(m)
  BY <1>1, ChangeCursor
<1>6. m.changes # 0 /\ m.list = l.list /\ m.at = l.at
  BY DEF Changed, Walks
<1>7. WalkShown(m)
  BY <1>1, <1>6 DEF WalkShown
<1>8. CountFits(m)
  BY <1>1, <1>3, ChangeCount
<1> QED
  BY <1>3, <1>4, <1>5, <1>7, <1>8 DEF WalkInv

\* A new item.
LEMMA CreateKeeps ==
  ASSUME listing \in Walks, WalkInv(listing), CreateItem
  PROVE  listing' \in Walks /\ WalkInv(listing')
<1>1. PICK l \in Walks : l = listing
  OBVIOUS
<1>2. PICK m : m = listing'
  OBVIOUS
<1>3. l.changes \in 0 .. MaxChanges /\ MaxItems \in Nat /\ MaxChanges \in Nat
  BY PagingAssumption DEF Walks
<1>4. PICK y \in AnyItem : /\ y = Item(Fresh(l), Fresh(l), FALSE)
                           /\ y.time = Fresh(l) /\ y.version = Fresh(l) /\ ~y.disabled
  <2>1. Fresh(l) \in Nat
    BY <1>3 DEF Fresh
  <2>2. LET y == Item(Fresh(l), Fresh(l), FALSE)
        IN  y \in AnyItem /\ y.time = Fresh(l) /\ y.version = Fresh(l) /\ ~y.disabled
    BY <2>1 DEF Item, AnyItem
  <2> QED
    BY <2>2
<1>5. PICK items \in SUBSET AnyItem : items = l.items \cup {y}
  BY DEF Walks
<1>6. l.at # "done" /\ l.changes < MaxChanges
  BY <1>1 DEF CreateItem, Changing
<1>7. PICK changes \in 0 .. MaxChanges : changes = l.changes + 1
  BY <1>3, <1>6
<1>7a. PICK late \in BOOLEAN : late = (l.late \/ l.at = "counted")
  OBVIOUS
<1>8. m = [l EXCEPT !.items = items, !.changes = changes, !.late = late]
  BY <1>1, <1>2, <1>4, <1>5, <1>7, <1>7a DEF CreateItem
<1>9. m \in Walks /\ m.items = items /\ (l.at = "counted" => m.late)
  BY <1>7a, <1>8 DEF Walks
<1>10. Changed(l, m)
  BY <1>7, <1>7a, <1>8 DEF Changed, Walks
<1>11. IsFiniteSet({y})
  BY FS_Singleton
<1> QED
  BY <1>1, <1>2, <1>4, <1>5, <1>6, <1>9, <1>10, <1>11, ChangeKeeps

\* A new version.
LEMMA RewriteKeeps ==
  ASSUME listing \in Walks, WalkInv(listing), RewriteItem
  PROVE  listing' \in Walks /\ WalkInv(listing')
<1>1. PICK l \in Walks : l = listing
  OBVIOUS
<1>2. PICK m : m = listing'
  OBVIOUS
<1>3. l.changes \in 0 .. MaxChanges /\ MaxItems \in Nat /\ MaxChanges \in Nat
  BY PagingAssumption DEF Walks
<1>4. PICK i \in l.items, disabled \in BOOLEAN :
        m = [l EXCEPT
               !.items = (@ \ {i}) \cup {[i EXCEPT !.time = Fresh(l),
                                                   !.version = Fresh(l),
                                                   !.disabled = disabled]},
               !.changes = @ + 1, !.touched = @ \cup {i.id},
               !.shrunk = @ \/ disabled]
  BY <1>1, <1>2 DEF RewriteItem
<1>5. l.at # "done" /\ l.changes < MaxChanges
  BY <1>1 DEF RewriteItem, Changing
<1>6. PICK fresh \in Nat : fresh = Fresh(l)
  BY <1>3 DEF Fresh
<1>7. i \in AnyItem
  BY DEF Walks
<1>8. PICK y \in AnyItem : /\ y = [i EXCEPT !.time = fresh, !.version = fresh, !.disabled = disabled]
                           /\ y.time = Fresh(l) /\ y.version = Fresh(l) /\ y.disabled = disabled
  <2>1. PICK y : y = [i EXCEPT !.time = fresh, !.version = fresh, !.disabled = disabled]
    OBVIOUS
  <2>2. y \in AnyItem /\ y.time = fresh /\ y.version = fresh /\ y.disabled = disabled
    BY <1>7, <2>1 DEF AnyItem
  <2> QED
    BY <1>6, <2>1, <2>2
<1>9. PICK items \in SUBSET AnyItem : items = (l.items \ {i}) \cup {y}
  BY DEF Walks
<1>10. PICK changes \in 0 .. MaxChanges : changes = l.changes + 1
  BY <1>3, <1>5
<1>11. PICK touched \in SUBSET Nat : touched = l.touched \cup {i.id}
  BY <1>7 DEF Walks, AnyItem
<1>12. PICK shrunk \in BOOLEAN : shrunk = (l.shrunk \/ disabled)
  OBVIOUS
<1>13. m = [l EXCEPT !.items = items, !.changes = changes, !.touched = touched, !.shrunk = shrunk]
  BY <1>4, <1>6, <1>8, <1>9, <1>10, <1>11, <1>12
<1>14. m \in Walks
  BY <1>13 DEF Walks
<1>14a. m.items = items /\ m.touched = touched /\ m.shrunk = shrunk
  BY <1>13 DEF Walks
<1>15. Changed(l, m)
  BY <1>10, <1>11, <1>12, <1>13 DEF Changed, Walks
<1>16. IsFiniteSet({y})
  BY FS_Singleton
<1>17. ~m.shrunk => ~y.disabled
  BY <1>8, <1>12, <1>14a
<1>18. i.id \in m.touched /\ m.items = (l.items \ {i}) \cup {y}
  BY <1>9, <1>11, <1>14a
<1> QED
  BY <1>1, <1>2, <1>5, <1>8, <1>14, <1>15, <1>16, <1>17, <1>18, ChangeKeeps

\* An item that no list shows any more.
LEMMA HideKeeps ==
  ASSUME listing \in Walks, WalkInv(listing), HideItem
  PROVE  listing' \in Walks /\ WalkInv(listing')
<1>1. PICK l \in Walks : l = listing
  OBVIOUS
<1>2. PICK m : m = listing'
  OBVIOUS
<1>3. l.changes \in 0 .. MaxChanges /\ MaxChanges \in Nat
  BY PagingAssumption DEF Walks
<1>4. PICK i \in l.items :
        m = [l EXCEPT !.items = @ \ {i}, !.changes = @ + 1,
                      !.touched = @ \cup {i.id}, !.shrunk = TRUE]
  BY <1>1, <1>2 DEF HideItem
<1>5. l.at # "done" /\ l.changes < MaxChanges
  BY <1>1 DEF HideItem, Changing
<1>6. i \in AnyItem
  BY DEF Walks
<1>7. PICK items \in SUBSET AnyItem : items = l.items \ {i}
  BY DEF Walks
<1>8. PICK changes \in 0 .. MaxChanges : changes = l.changes + 1
  BY <1>3, <1>5
<1>9. PICK touched \in SUBSET Nat : touched = l.touched \cup {i.id}
  BY <1>6 DEF Walks, AnyItem
<1>10. m = [l EXCEPT !.items = items, !.changes = changes, !.touched = touched, !.shrunk = TRUE]
  BY <1>4, <1>7, <1>8, <1>9
<1>11. m \in Walks
  BY <1>10 DEF Walks
<1>12. m.items = items /\ m.touched = touched /\ m.shrunk
  BY <1>10 DEF Walks
<1>13. Changed(l, m)
  BY <1>8, <1>9, <1>10 DEF Changed, Walks
<1>14. i.id \in m.touched /\ m.items = (l.items \ {i}) \cup {} /\ m.shrunk
  BY <1>7, <1>9, <1>12
<1>15. IsFiniteSet({})
  BY FS_EmptySet
<1> QED
  BY <1>1, <1>2, <1>5, <1>11, <1>13, <1>14, <1>15, ChangeKeeps

\* Every walk keeps the invariant.
THEOREM WalkInvariant == PagingSpec => [](listing \in Walks /\ WalkInv(listing))
<1>1. PagingInit => listing \in Walks /\ WalkInv(listing)
  BY WalkStarts
<1>2. (listing \in Walks /\ WalkInv(listing)) /\ [PagingNext]_listing
        => (listing \in Walks /\ WalkInv(listing))'
  <2> SUFFICES ASSUME listing \in Walks, WalkInv(listing), [PagingNext]_listing
               PROVE  listing' \in Walks /\ WalkInv(listing')
    OBVIOUS
  <2>1. CASE CountItems
    BY <2>1, CountKeeps
  <2>2. CASE FetchPage
    BY <2>2, FetchPageKeeps
  <2>3. CASE FetchAfter
    BY <2>3, FetchAfterKeeps
  <2>4. CASE CreateItem
    BY <2>4, CreateKeeps
  <2>5. CASE RewriteItem
    BY <2>5, RewriteKeeps
  <2>6. CASE HideItem
    BY <2>6, HideKeeps
  <2>7. CASE FetchRefused \/ FetchFails
    BY <2>7, StopKeeps
  <2>8. CASE UNCHANGED listing
    BY <2>8
  <2> QED
    BY <2>1, <2>2, <2>3, <2>4, <2>5, <2>6, <2>7, <2>8 DEF PagingNext
<1> QED
  BY <1>1, <1>2, PTL DEF PagingSpec

\* For lists of any length, whatever is created, rewritten and hidden at any
\* point of a walk by number or from a cursor later than every search: a
\* well-formed item nobody touched is shown, but for the cases WalkIsComplete
\* names (ties, hiding and a creation behind the last count, by number; disabled
\* searches, by cursor).
THEOREM WalkIsCompleteHolds == PagingSpec => []WalkIsComplete
<1>1. listing \in Walks /\ WalkInv(listing) => WalkIsComplete
  <2> SUFFICES ASSUME listing \in Walks, WalkInv(listing) PROVE WalkIsComplete
    OBVIOUS
  <2>1. UntouchedIsListed
    <3> SUFFICES ASSUME Walked, listing.list \in Offsets, ~listing.shrunk, ~listing.late,
                        Untied, NEW x \in Shown(listing.start),
                        x.id \notin listing.seen \cup listing.touched
                 PROVE  FALSE
      BY DEF UntouchedIsListed, Ids
    <3>1. Ordered(listing) /\ x \in Pending(listing)
      BY DEF Untied, Ordered, Pending
    <3> QED
      BY <3>1 DEF WalkInv, OffsetReaches, Walked
  <2>2. CursorReachesActive
    <3> SUFFICES ASSUME Walked, listing.list = "after", NEW x \in Shown(listing.start),
                        ~x.disabled, x.id \notin listing.seen \cup listing.touched
                 PROVE  FALSE
      BY DEF CursorReachesActive, Ids
    <3>1. x \in Pending(listing)
      BY DEF Pending
    <3> QED
      BY <3>1 DEF WalkInv, CursorReaches, Walked
  <2> QED
    BY <2>1, <2>2 DEF WalkIsComplete
<1> QED
  BY <1>1, WalkInvariant, PTL

\* A walk nobody disturbs shows every well-formed item of an ordered list once,
\* by the last page announced, for lists of any length and every page size; by
\* cursor, of a list without disabled searches.
THEOREM PagesPartitionHolds == PagingSpec => []PagesPartition
<1>1. listing \in Walks /\ WalkInv(listing) => PagesPartition
  <2> SUFFICES ASSUME listing \in Walks, WalkInv(listing),
                      Walked, listing.changes = 0, Untied,
                      listing.list = "after" => \A i \in listing.start : ~i.disabled
               PROVE  listing.seen = Ids(Shown(listing.start)) /\ ~listing.repeated
    BY DEF PagesPartition
  <2>1. /\ listing.seen \subseteq Ids(Shown(listing.start)) /\ listing.touched = {}
        /\ ~listing.shrunk /\ ~listing.late
        /\ Partitioned(listing) /\ listing.at = "done"
    BY DEF WalkInv, WalkShown, WalkItems, Walked
  <2>2. Ordered(listing)
    BY DEF Untied, Ordered
  <2>3. ~listing.repeated
    BY <2>1, <2>2 DEF Partitioned
  <2>4. Pending(listing) = {}
    <3> SUFFICES ASSUME NEW x \in Pending(listing) PROVE FALSE
      OBVIOUS
    <3>1. CASE listing.list \in Offsets
      BY <2>1, <2>2, <3>1 DEF WalkInv, OffsetReaches
    <3>2. CASE listing.list = "after"
      BY <2>1, <3>2 DEF WalkInv, CursorReaches, Pending, Shown
    <3> QED
      BY <3>1, <3>2 DEF Walks, Lists
  <2>5. \A x \in Shown(listing.start) : x.id \in listing.seen
    BY <2>1, <2>4 DEF Pending
  <2> QED
    BY <2>1, <2>3, <2>5 DEF Ids
<1> QED
  BY <1>1, WalkInvariant, PTL
=============================================================================
