------------------------------- MODULE Authz -------------------------------
(***************************************************************************)
(* Who may do what where: the permission registry, the built-in roles and  *)
(* the Resolver (internal/authz), the answers that are derived from the    *)
(* same tables along other ways (approvers.go, grantstore.go, orgapi.go,   *)
(* approval.go, usageapi.go, workbench.go), and what stands before every   *)
(* handler: the route table and enforce (routes.go).                       *)
(*                                                                         *)
(* The operators speak of the tables as they are. A decision reads them in *)
(* one step; module Access has them change between two decisions.          *)
(*                                                                         *)
(* Abstracted: a path is a sequence of ids, so that its prefixes are those *)
(* that end at a separator; SyncBuiltinRoles has run, so that role_permissions  *)
(* is what the code says, and there are no custom roles. Left out: routes  *)
(* without a permission of their own, but those whose handlers decide.     *)
(***************************************************************************)
EXTENDS Naturals, Sequences, FiniteSets, Functions

CONSTANTS
  Users,  \* users.id
  Orgs,   \* organizations.id
  None    \* no organization: a global grant, a target that is the whole tree

ASSUME NoneAssumption == None \notin Users \cup Orgs

VARIABLES
  active,   \* the users with status 'active'
  home,     \* users.primary_org_id
  grants,   \* role_grants
  path,     \* organizations.path, <<>> where there is no row
  expired   \* the license has run out

Nodes == {n \in Orgs : path[n] # <<>>}
Exists(target) == target \in Nodes \cup {None}
Above(n) == Range(path[n])
Within(p, q) == Len(p) <= Len(q) /\ SubSeq(q, 1, Len(p)) = p
Subtree(n) == {o \in Nodes : Within(path[n], path[o])}

-----------------------------------------------------------------------------
(* The registry and the built-in roles                                      *)

OrgPermissions ==
  {"org:read", "org:write", "org:delete", "org:import", "member:assign", "grant:read", "grant:write",
   "key:read", "key:write", "key:request", "cost:read"}
GlobalPermissions == {"key:revoke_all", "audit:read", "cost:read_all", "platform:configure"}
Permissions == OrgPermissions \cup GlobalPermissions

Scope(p) == IF p \in GlobalPermissions THEN "global" ELSE "org"

RolePermissions ==
  [auditor          |-> {"audit:read", "org:read"},
   developer        |-> {"key:request", "org:read"},
   finops           |-> {"cost:read_all", "org:read"},
   org_admin        |-> OrgPermissions,
   platform_admin   |-> Permissions,
   security_officer |-> {"audit:read", "org:read"}]

Roles == DOMAIN RolePermissions
GrantsOf(u) == {g \in grants : g.user = u}

\* What the Resolver is told of a user; handlers keep it from RequireSession on.
SubjectOf(u) == [user |-> u, active |-> u \in active, home |-> home[u]]

-----------------------------------------------------------------------------
(* The Resolver                                                             *)

GrantApplies(g, scope, target) ==
  g.org = None \/ (scope = "org" /\ target # None /\ g.org \in Above(target))

\* A grant on a node gives no global permission.
Given(g) == IF g.org = None THEN RolePermissions[g.role] ELSE RolePermissions[g.role] \ GlobalPermissions

\* The implicit baseline: everybody is a developer below his home.
Baseline(s, scope, target) ==
  IF scope = "org" /\ target # None /\ s.home \in Nodes /\ target \in Subtree(s.home)
  THEN RolePermissions["developer"] \ GlobalPermissions ELSE {}

EffectivePermissions(s, scope, target) ==
  (UNION {Given(g) : g \in {h \in GrantsOf(s.user) : GrantApplies(h, scope, target)}})
    \cup Baseline(s, scope, target)

\* An unknown target is an error: see the callers.
Can(s, p, target) == s.active /\ p \in EffectivePermissions(s, Scope(p), target)

\* The permissions p with Can(s, p, target).
HeldAt(s, target) ==
  IF ~s.active THEN {}
  ELSE (EffectivePermissions(s, "org", target) \ GlobalPermissions)
         \cup (EffectivePermissions(s, "global", target) \cap GlobalPermissions)

Scopes(s, p) ==
  LET orgs == {g.org : g \in {h \in GrantsOf(s.user) : s.active /\ p \in RolePermissions[h.role]}} IN
  [global |-> None \in orgs, nodes |-> orgs \ {None}]

CanGrant(s, role, target) ==
  RolePermissions[role] # {} /\ \A p \in RolePermissions[role] : Can(s, p, target)

-----------------------------------------------------------------------------
(* Answers derived along other ways                                         *)

\* Mutant: only the grants on the node itself count.
ApproversOfDirect(n) ==
  {u \in active : \E g \in GrantsOf(u) : "key:write" \in RolePermissions[g.role] /\ g.org \in {None, n}}

\* ApproversOf: the grants on the chain of the path, and the global ones.
ApproversOf(n) ==
  {u \in active : \E g \in GrantsOf(u) :
     "key:write" \in RolePermissions[g.role] /\ (g.org = None \/ g.org \in Above(n))}

\* ListEffectiveGrantsForOrg
EffectiveGrants(n) ==
  {[grant |-> g, source |-> CASE g.org = None -> "global" [] g.org = n -> "direct" [] OTHER -> "inherited"] :
     g \in {h \in grants : h.org \in Above(n) \cup {None}}}

\* visibleOrgs: the subtrees in scope and at home, and what is above them.
VisibleOrgs(s) ==
  LET scope == Scopes(s, "org:read")
      roots == (scope.nodes \cup {s.home}) \cap Nodes IN
  IF scope.global THEN Nodes ELSE {o \in Nodes : \E r \in roots : o \in Subtree(r) \/ r \in Subtree(o)}

\* ListToApprove: the nodes whose pending requests are listed.
ToApprove(s) ==
  LET scope == Scopes(s, "key:write") IN
  IF scope.global THEN Nodes ELSE UNION {Subtree(r) : r \in scope.nodes \cap Nodes}

\* costScope, up to the subtrees: no nodes at all is a refusal.
CostScope(s) ==
  LET all == Scopes(s, "cost:read_all").global \/ Scopes(s, "cost:read").global IN
  [all |-> all, nodes |-> IF all THEN {} ELSE Scopes(s, "cost:read").nodes]

\* The rules of Workbenches.
Requires ==
  [my_space |-> {}, platform |-> {"org:write"}, finops |-> {"key:write", "cost:read", "cost:read_all"},
   security |-> {"audit:read"}]

HoldsAnywhere(s, perms) == \E p \in perms : Scopes(s, p).global \/ Scopes(s, p).nodes # {}

Workbenches(s) == {w \in DOMAIN Requires : Requires[w] = {} \/ HoldsAnywhere(s, Requires[w])}

-----------------------------------------------------------------------------
(* DefaultRoutes and enforce                                                *)

Route(p, target, license) == [permission |-> p, target |-> target, license |-> license]
Handled(license) == Route("none", "none", license)

OrgRoutes ==
  [create_org   |-> Route("org:write", "node", "valid"),
   rename_org   |-> Route("org:write", "node", "valid"),
   move_org     |-> Route("org:write", "node", "valid"),
   delete_org   |-> Route("org:delete", "node", "valid"),
   key_holder   |-> Route("org:write", "node", "valid"),
   preview      |-> Route("org:import", "global", "always"),
   import_apply |-> Route("org:import", "global", "valid")]

GrantRoutes ==
  [create_grant     |-> Route("grant:write", "node", "valid"),
   delete_grant     |-> Handled("valid"),
   list_grants      |-> Route("grant:read", "node", "always"),
   effective_grants |-> Route("grant:read", "node", "always"),
   assign_home      |-> Route("member:assign", "node", "valid"),
   sync_status      |-> Route("platform:configure", "global", "always"),
   sync             |-> Route("platform:configure", "global", "valid")]

KeyRoutes ==
  [issue_key      |-> Route("key:write", "node", "valid"),
   list_keys      |-> Route("key:read", "node", "always"),
   revoke_key     |-> Handled("always"),
   submit_request |-> Route("key:request", "node", "valid"),
   decide_request |-> Handled("valid"),
   claim_request  |-> Handled("valid"),
   rotate_key     |-> Handled("valid"),
   revoke_org     |-> Route("key:write", "node", "always"),
   revoke_all     |-> Route("key:revoke_all", "global", "always")]

UsageRoutes ==
  [usage_summary |-> Handled("always"),
   audit_records |-> Route("audit:read", "global", "always")]

Routes ==
  [route \in UNION {DOMAIN OrgRoutes, DOMAIN GrantRoutes, DOMAIN KeyRoutes, DOMAIN UsageRoutes} |->
     CASE route \in DOMAIN OrgRoutes   -> OrgRoutes[route]
       [] route \in DOMAIN GrantRoutes -> GrantRoutes[route]
       [] route \in DOMAIN KeyRoutes   -> KeyRoutes[route]
       [] route \in DOMAIN UsageRoutes -> UsageRoutes[route]]

\* Mutant: the license is not asked for.
EnforceUnlicensed(s, route, target) ==
  LET r == Routes[route] IN
  r.permission # "none" => Exists(target) /\ Can(s, r.permission, target)

\* The license comes first; then the permission, on the target of the route.
Enforce(s, route, target) ==
  LET r == Routes[route]
      on == IF r.target = "node" THEN target ELSE None IN
  /\ r.license = "valid" => ~expired
  /\ r.permission # "none" => Exists(on) /\ Can(s, r.permission, on)
=============================================================================
