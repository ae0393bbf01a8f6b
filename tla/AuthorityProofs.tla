--------------------------- MODULE AuthorityProofs ---------------------------
(***************************************************************************)
(* What TLAPS proves of the calls of Access that check and then act, on    *)
(* the tables that AccessProofs shows well-formed: reports stay in the     *)
(* scope of their readers, and authority comes from authority.             *)
(***************************************************************************)
EXTENDS AccessProofs

-----------------------------------------------------------------------------
(* What the two properties ask of the tables, with the tables as arguments. *)

Placed(pth) == {n \in Orgs : pth[n] # <<>>}
Below(pth, n) == {o \in Placed(pth) : Within(pth[n], pth[o])}

\* A global grant to u of a role with p.
Everywhere(gs, u, p) == \E g \in gs : g.user = u /\ g.org = None /\ p \in RolePermissions[g.role]
SeesAll(gs, u) == Everywhere(gs, u, "cost:read_all") \/ Everywhere(gs, u, "cost:read")

\* The nodes on which u holds a role with cost:read, and those below them.
ReadsAt(gs, u, n) == \E g \in gs : g.user = u /\ g.org = n /\ "cost:read" \in RolePermissions[g.role]
Read(gs, pth, u) == {n \in Placed(pth) : \E m \in Range(pth[n]) : ReadsAt(gs, u, m)}

Seen(gs, pth, u) == IF SeesAll(gs, u) THEN Orgs ELSE Read(gs, pth, u)
Wanted(pth, want) == IF want = None THEN Orgs ELSE Below(pth, want)

\* What u holds at n.
Holds(act, hm, gs, pth, u, n, p) ==
  /\ u \in act
  /\ \/ \E g \in gs : /\ g.user = u /\ p \in RolePermissions[g.role]
                      /\ g.org = None \/ (n # None /\ g.org \in Range(pth[n]) /\ p \notin GlobalPermissions)
     \/ p \in {"key:request", "org:read"} /\ n # None /\ hm[u] \in Range(pth[n])

LEMMA InTermsOfTables ==
  /\ Nodes = Placed(path)
  /\ \A n : Subtree(n) = Below(path, n) /\ Above(n) = Range(path[n])
  BY DEF Nodes, Placed, Subtree, Below, Above

LEMMA WhoSeesWhat ==
  ASSUME TablesFit, NEW u \in Users, NEW h, NEW s, s = [user |-> u, active |-> TRUE, home |-> h]
  PROVE  /\ Can(s, "cost:read_all", None) \/ Can(s, "cost:read", None) <=> SeesAll(grants, u)
         /\ ~SeesAll(grants, u) => {n \in Nodes : Can(s, "cost:read", n)} = Read(grants, path, u)
         /\ CostScope(s).all <=> SeesAll(grants, u)
         /\ \A n : n \in CostScope(s).nodes <=> ~SeesAll(grants, u) /\ n # None /\ ReadsAt(grants, u, n)
<1>1. ASSUME NEW p PROVE /\ Can(s, p, None) <=> Everywhere(grants, u, p)
                         /\ Scopes(s, p).global <=> Everywhere(grants, u, p)
  <2>1. Can(s, p, None) <=> \E g \in GrantsOf(u) : g.org = None /\ p \in RolePermissions[g.role]
    BY WhatIsHeldEverywhere
  <2>2. Scopes(s, p).global <=> \E g \in GrantsOf(u) : p \in RolePermissions[g.role] /\ g.org = None
    BY InScope
  <2>. QED
    BY <2>1, <2>2 DEF Everywhere, GrantsOf
<1>2. ASSUME NEW n \in Nodes, ~SeesAll(grants, u)
      PROVE  Can(s, "cost:read", n) <=> \E m \in Range(path[n]) : ReadsAt(grants, u, m)
  <2>1. Can(s, "cost:read", n) <=>
          \E g \in GrantsOf(u) : (g.org = None \/ (g.org \in Above(n) /\ "cost:read" \notin GlobalPermissions))
                                 /\ "cost:read" \in RolePermissions[g.role]
    <3>1. "cost:read" \notin {"key:request", "org:read"}
      OBVIOUS
    <3>. QED
      BY <3>1, WhatIsHeld
  <2>2. "cost:read" \notin GlobalPermissions
    BY Registry
  <2>3. \A g \in GrantsOf(u) : ~(g.org = None /\ "cost:read" \in RolePermissions[g.role])
    BY <1>2 DEF SeesAll, Everywhere, GrantsOf
  <2>4. Can(s, "cost:read", n) <=>
          \E g \in GrantsOf(u) : g.org \in Range(path[n]) /\ "cost:read" \in RolePermissions[g.role]
    BY <2>1, <2>2, <2>3 DEF Above
  <2>. QED
    BY <2>4 DEF ReadsAt, GrantsOf
<1>3. ~SeesAll(grants, u) => {n \in Nodes : Can(s, "cost:read", n)} = Read(grants, path, u)
  <2>. DEFINE A == {n \in Nodes : Can(s, "cost:read", n)}
              B == Read(grants, path, u)
  <2>1. ~SeesAll(grants, u) => \A n : n \in A <=> n \in B
    BY <1>2, InTermsOfTables DEF Read
  <2>. HIDE DEF A, B
  <2>2. ~SeesAll(grants, u) => A = B
    BY <2>1
  <2>. QED
    BY <2>2 DEF A, B
<1>4. CostScope(s).all <=> SeesAll(grants, u)
  BY <1>1 DEF CostScope, SeesAll
<1>5. ASSUME NEW n PROVE n \in CostScope(s).nodes <=> ~SeesAll(grants, u) /\ n # None /\ ReadsAt(grants, u, n)
  <2>1. CostScope(s).nodes = IF SeesAll(grants, u) THEN {} ELSE Scopes(s, "cost:read").nodes
    BY <1>1 DEF CostScope, SeesAll
  <2>2. n \in Scopes(s, "cost:read").nodes <=>
          n # None /\ \E g \in GrantsOf(u) : "cost:read" \in RolePermissions[g.role] /\ g.org = n
    BY InScope
  <2>. QED
    BY <2>1, <2>2 DEF ReadsAt, GrantsOf
<1>. QED
  BY <1>1, <1>3, <1>4, <1>5 DEF SeesAll

\* HeldAt, with the tables as arguments.
HeldIsHolds ==
  \A u \in Users : \A n \in Nodes \cup {None} : \A p :
    p \in HeldAt(SubjectOf(u), n) <=> Holds(active, home, grants, path, u, n, p)

LEMMA WhoHoldsWhat == TablesFit => HeldIsHolds
<1>. SUFFICES ASSUME TablesFit, NEW u \in Users, NEW n \in Nodes \cup {None}, NEW p
              PROVE  p \in HeldAt(SubjectOf(u), n) <=> Holds(active, home, grants, path, u, n, p)
  BY DEF HeldIsHolds
<1>1. CASE u \notin active
  BY <1>1 DEF HeldAt, SubjectOf, Holds
<1>. DEFINE s == SubjectOf(u)
            given == \E g \in GrantsOf(u) : /\ g.org = None \/ (n # None /\ g.org \in Range(path[n]) /\ p \notin GlobalPermissions)
                                            /\ p \in RolePermissions[g.role]
<1>2. given <=> \E g \in grants : /\ g.user = u /\ p \in RolePermissions[g.role]
                                  /\ g.org = None \/ (n # None /\ g.org \in Range(path[n]) /\ p \notin GlobalPermissions)
  BY DEF GrantsOf
<1>3. CASE u \in active /\ n \in Nodes
  <2>1. s = [user |-> u, active |-> TRUE, home |-> home[u]]
    BY <1>3, SubjectIs
  <2>2. n # None /\ Above(n) \subseteq Nodes /\ Above(n) = Range(path[n])
    BY <1>3, NoneAssumption, AboveAreNodes, InTermsOfTables DEF Nodes
  <2>. HIDE DEF s
  <2>3. p \in HeldAt(s, n) <=>
          \/ \E g \in GrantsOf(u) : (g.org = None \/ (g.org \in Above(n) /\ p \notin GlobalPermissions))
                                   /\ p \in RolePermissions[g.role]
          \/ p \in {"key:request", "org:read"} /\ home[u] \in Nodes /\ home[u] \in Above(n)
    BY <1>3, <2>1, WhatIsHeld
  <2>4. p \in HeldAt(s, n) <=> given \/ (p \in {"key:request", "org:read"} /\ home[u] \in Range(path[n]))
    BY <2>2, <2>3
  <2>. HIDE DEF given
  <2>. QED
    BY <1>2, <1>3, <2>2, <2>4 DEF Holds, s
<1>4. CASE u \in active /\ n = None
  <2>1. s = [user |-> u, active |-> TRUE, home |-> home[u]]
    BY <1>4, SubjectIs
  <2>. HIDE DEF s
  <2>2. p \in HeldAt(s, None) <=> \E g \in GrantsOf(u) : g.org = None /\ p \in RolePermissions[g.role]
    BY <1>4, <2>1, WhatIsHeldEverywhere
  <2>3. p \in HeldAt(s, n) <=> given
    BY <1>4, <2>2
  <2>. HIDE DEF given
  <2>. QED
    BY <1>2, <1>4, <2>3 DEF Holds, s
<1>. QED
  BY <1>1, <1>3, <1>4

\* Fewer users, fewer grants: nobody holds more.
LEMMA HoldsNoMore ==
  ASSUME NEW act, NEW gs, NEW hm, NEW pth, NEW fewer \in SUBSET act, NEW some \in SUBSET gs, NEW after,
         NEW u, NEW n, NEW p, n # None => after[n] = pth[n], Holds(fewer, hm, some, after, u, n, p)
  PROVE  Holds(act, hm, gs, pth, u, n, p)
  BY DEF Holds
-----------------------------------------------------------------------------
(* What a call may rely on.                                                 *)

\* What has been asked before a call goes on to write.
Authorized(c) ==
  /\ c.op \in {"create_grant", "assign_home", "create_org", "move_org"} => c.licensed
  /\ c.op = "assign_home" => {"key:request", "org:read"} \subseteq c.held
  /\ c.op = "create_grant" /\ c.at = "checked" => RolePermissions[c.role] \subseteq c.held
  /\ c.op = "create_org" \/ (c.op = "move_org" /\ c.at = "checked") => "org:write" \in c.held

\* What a report has found out so far, as long as nothing has overtaken it.
InScopeOf(c, gs, pth) ==
  /\ c.op = "usage_summary" /\ c.at = "checked" =>
       /\ c.all \/ c.granted # {}
       /\ c.calm => /\ c.all <=> SeesAll(gs, c.by)
                    /\ \A n : n \in c.granted <=> ~SeesAll(gs, c.by) /\ n # None /\ ReadsAt(gs, c.by, n)
  /\ c.op = "usage_summary" /\ c.at = "query" =>
       /\ c.calm => (IF c.nodes = {} THEN Orgs ELSE c.nodes) = Seen(gs, pth, c.by) \cap Wanted(pth, c.under)
       /\ c.nodes = {} => c.all \/ c.granted \cap Placed(pth) = {}

Fits(c, gs, pth) == Authorized(c) /\ InScopeOf(c, gs, pth)
AllFit == \A i \in Ids : Fits(call[i], grants, path)

\* Others than reports do not look at the tables.
LEMMA OthersFit ==
  ASSUME NEW c, NEW gs, NEW pth, c.op # "usage_summary", Authorized(c) PROVE Fits(c, gs, pth)
  BY DEF Fits, InScopeOf

LEMMA NoneFit == \A gs, pth : Fits(Over, gs, pth) /\ Fits(NoCall, gs, pth)
  BY NoCallFits, OthersFit DEF Authorized

\* A report that is overtaken.
LEMMA OvertakenFit ==
  ASSUME NEW c \in CallRecord, NEW gs, NEW pth, NEW some, NEW after, Fits(c, gs, pth),
         c.op = "usage_summary", c.granted \cap Placed(after) \subseteq c.granted \cap Placed(pth)
  PROVE  Fits([c EXCEPT !.calm = FALSE], some, after)
<1>. DEFINE d == [c EXCEPT !.calm = FALSE]
<1>1. /\ d.op = c.op /\ d.at = c.at /\ d.all = c.all /\ d.granted = c.granted /\ d.nodes = c.nodes /\ ~d.calm
  BY DEF CallRecord
<1>. HIDE DEF d
<1>2. Authorized(d)
  BY <1>1 DEF Authorized
<1>3. d.at = "checked" => d.all \/ d.granted # {}
  BY <1>1 DEF Fits, InScopeOf
<1>4. d.at = "query" /\ d.nodes = {} => d.all \/ d.granted \cap Placed(after) = {}
  BY <1>1 DEF Fits, InScopeOf
<1>5. InScopeOf(d, some, after)
  BY <1>1, <1>3, <1>4 DEF InScopeOf
<1>. QED
  BY <1>2, <1>5 DEF Fits, d

\* The call i goes on or ends, and nothing else happens.
Alone(i) == UNCHANGED tables /\ \A j \in Ids \ {i} : call'[j] = call[j]

LEMMA AloneFit ==
  ASSUME AllFit, NEW i \in Ids, Alone(i), Fits(call'[i], grants, path) PROVE AllFit'
<1>1. grants' = grants /\ path' = path
  BY DEF Alone, tables
<1>2. ASSUME NEW j \in Ids PROVE Fits(call'[j], grants', path')
  <2>1. Fits(call'[j], grants, path)
    BY DEF AllFit, Alone
  <2>. QED
    BY <1>1, <2>1
<1>. QED
  BY <1>2 DEF AllFit, Ids

\* The call i writes. No node comes back that a report has collected.
LEMMA WrittenFit ==
  ASSUME Inv, AllFit, NEW i \in Ids, Written(i),
         \A j \in Ids : call[j].granted \cap Placed(path') \subseteq call[j].granted \cap Placed(path)
  PROVE  AllFit'
<1>1. ASSUME NEW j \in Ids PROVE Fits(call'[j], grants', path')
  <2>1. CASE j = i
    <3>1. call'[j] = Over
      BY <2>1, WrittenFits
    <3>2. Fits(Over, grants', path')
      BY NoneFit
    <3>. QED
      BY <3>1, <3>2
  <2>2. CASE j # i /\ call[j].op # "usage_summary"
    <3>1. call'[j] = call[j]
      BY <2>2, WrittenFits
    <3>2. Authorized(call[j])
      BY DEF AllFit, Fits
    <3>3. Fits(call[j], grants', path')
      BY <2>2, <3>2, OthersFit
    <3>. QED
      BY <3>1, <3>3
  <2>3. CASE j # i /\ call[j].op = "usage_summary"
    <3>. DEFINE d == [call[j] EXCEPT !.calm = FALSE]
    <3>1. call[j] \in CallRecord /\ Fits(call[j], grants, path)
      BY Standing DEF AllFit
    <3>2. call'[j] = d
      BY <2>3 DEF Written
    <3>3. Fits(d, grants', path')
      BY <2>3, <3>1, OvertakenFit
    <3>. QED
      BY <3>2, <3>3
  <2>. QED
    BY <2>1, <2>2, <2>3
<1>. QED
  BY <1>1 DEF AllFit, Ids
-----------------------------------------------------------------------------
(* Every step keeps it.                                                     *)

LEMMA Licensed ==
  /\ \A op \in {"create_grant", "assign_home", "create_org", "move_org"} : Routes[op].license = "valid"
  /\ Routes["assign_home"].permission = "member:assign" /\ Routes["assign_home"].target = "node"
  /\ Routes["create_org"].permission = "org:write" /\ Routes["create_org"].target = "node"
<1>1. /\ DOMAIN OrgRoutes = {"create_org", "rename_org", "move_org", "delete_org", "key_holder", "preview", "import_apply"}
      /\ OrgRoutes["create_org"].license = "valid" /\ OrgRoutes["move_org"].license = "valid"
      /\ OrgRoutes["create_org"].permission = "org:write" /\ OrgRoutes["create_org"].target = "node"
  BY DEF OrgRoutes, Route
<1>2. /\ DOMAIN GrantRoutes = {"create_grant", "delete_grant", "list_grants", "effective_grants", "assign_home",
                               "sync_status", "sync"}
      /\ GrantRoutes["create_grant"].license = "valid" /\ GrantRoutes["assign_home"].license = "valid"
      /\ GrantRoutes["assign_home"].permission = "member:assign" /\ GrantRoutes["assign_home"].target = "node"
  BY DEF GrantRoutes, Route, Handled
<1>3. /\ DOMAIN KeyRoutes = {"issue_key", "list_keys", "revoke_key", "submit_request", "decide_request", "claim_request",
                             "rotate_key", "revoke_org", "revoke_all"}
      /\ DOMAIN UsageRoutes = {"usage_summary", "audit_records"}
  BY DEF KeyRoutes, UsageRoutes
<1>4. /\ \A r \in DOMAIN OrgRoutes : Routes[r] = OrgRoutes[r]
      /\ \A r \in DOMAIN GrantRoutes \ DOMAIN OrgRoutes : Routes[r] = GrantRoutes[r]
  <2>. DEFINE all == UNION {DOMAIN OrgRoutes, DOMAIN GrantRoutes, DOMAIN KeyRoutes, DOMAIN UsageRoutes}
  <2>1. DOMAIN OrgRoutes \subseteq all /\ DOMAIN GrantRoutes \subseteq all
    OBVIOUS
  <2>2. \A r \in all : Routes[r] = CASE r \in DOMAIN OrgRoutes   -> OrgRoutes[r]
                                    [] r \in DOMAIN GrantRoutes -> GrantRoutes[r]
                                    [] r \in DOMAIN KeyRoutes   -> KeyRoutes[r]
                                    [] r \in DOMAIN UsageRoutes -> UsageRoutes[r]
    BY DEF Routes
  <2>. HIDE DEF all
  <2>3. ASSUME NEW r \in DOMAIN OrgRoutes PROVE Routes[r] = OrgRoutes[r]
    <3>1. r \notin DOMAIN GrantRoutes /\ r \notin DOMAIN KeyRoutes /\ r \notin DOMAIN UsageRoutes
      BY <1>1, <1>2, <1>3
    <3>. QED
      BY <2>1, <2>2, <3>1
  <2>4. ASSUME NEW r \in DOMAIN GrantRoutes \ DOMAIN OrgRoutes PROVE Routes[r] = GrantRoutes[r]
    <3>1. r \notin DOMAIN KeyRoutes /\ r \notin DOMAIN UsageRoutes
      BY <1>2, <1>3
    <3>. QED
      BY <2>1, <2>2, <3>1
  <2>. QED
    BY <2>3, <2>4
<1>. QED
  BY <1>1, <1>2, <1>4

\* Who may assign people to a node holds there what everybody holds at home.
LEMMA AssignersHold ==
  ASSUME TablesFit, NEW u \in active, NEW n \in Nodes \cup {None}, Can(SubjectOf(u), "member:assign", n)
  PROVE  {"key:request", "org:read"} \subseteq HeldAt(SubjectOf(u), n)
<1>1. /\ u \in Users /\ HeldIsHolds
      /\ SubjectOf(u) = [user |-> u, active |-> TRUE, home |-> home[u]]
  BY SubjectIs, WhoHoldsWhat
<1>2. "member:assign" \in HeldAt(SubjectOf(u), n)
  BY <1>1, WhatIsHeld, WhatIsHeldEverywhere
<1>3. Holds(active, home, grants, path, u, n, "member:assign")
  BY <1>1, <1>2 DEF HeldIsHolds
<1>4. PICK g \in grants : /\ g.user = u /\ "member:assign" \in RolePermissions[g.role]
                          /\ g.org = None \/ (n # None /\ g.org \in Range(path[n]))
  BY <1>3 DEF Holds
<1>5. g.role \in Roles
  BY DEF TablesFit, GrantSet
<1>6. \A r \in Roles : "member:assign" \in RolePermissions[r] =>
         {"key:request", "org:read"} \subseteq RolePermissions[r]
  BY DEF Roles, RolePermissions, Permissions, OrgPermissions, GlobalPermissions
<1>7. ASSUME NEW p \in {"key:request", "org:read"} PROVE Holds(active, home, grants, path, u, n, p)
  <2>1. p \notin GlobalPermissions /\ p \in RolePermissions[g.role]
    BY <1>4, <1>5, <1>6 DEF GlobalPermissions
  <2>. QED
    BY <1>4, <2>1 DEF Holds
<1>. QED
  BY <1>1, <1>7 DEF HeldIsHolds

LEMMA AdmittedFit ==
  ASSUME Inv, AllFit, NEW i \in Ids, NEW op \in Ops, NEW u, NEW target, NEW args \in CallRecord, Admit(i, op, u, target, args),
         op \in {"create_grant", "assign_home"} => args.user \in Users,
         op = "create_grant" => args.role \in Roles,
         op = "decide_request" => args.about \in Ids,
         op \in {"assign_home", "create_org"} => args.held = HeldAt(SubjectOf(u), target)
  PROVE  AllFit'
<1>0. /\ call' \in [Ids -> CallSet] /\ \A j \in Ids \ {i} : call'[j] = call[j]
      /\ u \in active /\ Enforce(SubjectOf(u), op, target) /\ Unused(i)
      /\ call'[i].at = "enforced" /\ call'[i].op = op /\ call'[i].by = u /\ call'[i].active = TRUE
      /\ call'[i].home = home[u] /\ call'[i].licensed = ~expired
      /\ call'[i].user = args.user /\ call'[i].role = args.role /\ call'[i].org = args.org
      /\ call'[i].under = args.under /\ call'[i].held = args.held
      /\ UNCHANGED <<tables, request, mail, worker, faults>>
  BY AdmitFits, Zenon
<1>1. /\ \A j \in Ids \ {i} : call'[j] = call[j]
      /\ u \in active /\ Enforce(SubjectOf(u), op, target)
      /\ call'[i].at = "enforced" /\ call'[i].op = op /\ call'[i].licensed = ~expired /\ call'[i].held = args.held
      /\ UNCHANGED tables
  BY <1>0, Zenon
<1>2. op \in {"create_grant", "assign_home", "create_org", "move_org"} => call'[i].licensed
  BY <1>1, Licensed DEF Enforce
<1>3. op = "assign_home" => {"key:request", "org:read"} \subseteq call'[i].held
  <2>1. SUFFICES ASSUME op = "assign_home" PROVE {"key:request", "org:read"} \subseteq HeldAt(SubjectOf(u), target)
    BY <1>1
  <2>2. target \in Nodes \cup {None} /\ Can(SubjectOf(u), "member:assign", target)
    BY <1>1, <2>1, Licensed DEF Enforce, Exists
  <2>. QED
    BY <1>1, <2>2, AssignersHold DEF Inv
<1>5. op = "create_org" => "org:write" \in call'[i].held
  <2>1. SUFFICES ASSUME op = "create_org" PROVE "org:write" \in HeldAt(SubjectOf(u), target)
    BY <1>1
  <2>2. target \in Nodes \cup {None} /\ Can(SubjectOf(u), "org:write", target)
    BY <1>1, <2>1, Licensed DEF Enforce, Exists
  <2>3. TablesFit /\ u \in Users /\ SubjectOf(u) = [user |-> u, active |-> TRUE, home |-> home[u]]
    BY <1>1, SubjectIs DEF Inv
  <2>. QED
    BY <2>2, <2>3, WhatIsHeld, WhatIsHeldEverywhere
<1>4. Fits(call'[i], grants, path)
  BY <1>1, <1>2, <1>3, <1>5 DEF Fits, Authorized, InScopeOf
<1>. QED
  BY <1>1, <1>4, AloneFit DEF Alone

LEMMA BeginFit == ASSUME Inv, AllFit, NEW i \in Ids, Begin(i) PROVE AllFit'
<1>1. PICK u \in active :
    \/ \E w \in Users, asked, org \in Places : HandleAssignPrimaryOrg(i, u, w, asked, org)
    \/ \E w \in Users, r \in Granted, asked, org \in Places : HandleCreateGrant(i, u, w, r, asked, org)
    \/ \E g \in grants : HandleDeleteGrant(i, u, g)
    \/ \E asked, p \in Places : HandleCreate(i, u, asked, p)
    \/ \E n \in Orgs, p \in Places : HandleMove(i, u, n, p)
    \/ \E n \in Orgs : HandleDelete(i, u, n)
    \/ \E asked \in Places, org \in Orgs : HandleSubmit(i, u, asked, org)
    \/ \E j \in Ids : HandleDecide(i, u, j)
    \/ \E want \in Places : HandleSummary(i, u, want)
    \/ Disable(i, u) \/ Expire(i)
  BY DEF Begin
<1>0. NoCall \in CallRecord
  BY NoCallFits DEF CallSet
<1>2. u \in Users /\ Places = Orgs \cup {None} /\ TablesFit
  BY DEF Inv, TablesFit, Places
<1>3. ASSUME NEW w \in Users, NEW asked \in Places, NEW org \in Places, HandleAssignPrimaryOrg(i, u, w, asked, org)
      PROVE  AllFit'
  <2>. DEFINE held == HeldAt(SubjectOf(u), asked)
              args == [NoCall EXCEPT !.user = w, !.org = org, !.held = held]
  <2>1. held \in SUBSET Permissions
    BY <1>2, HeldArePermissions
  <2>2. args \in CallRecord /\ args.user = w /\ args.held = HeldAt(SubjectOf(u), asked)
    BY <1>2, <1>0, <2>1 DEF CallRecord
  <2>3. Admit(i, "assign_home", u, asked, args)
    BY <1>3 DEF HandleAssignPrimaryOrg
  <2>. HIDE DEF args
  <2>. QED
    BY <2>2, <2>3, AdmittedFit DEF Ops
<1>4. ASSUME NEW w \in Users, NEW r \in Granted, NEW asked \in Places, NEW org \in Places,
             HandleCreateGrant(i, u, w, r, asked, org)
      PROVE  AllFit'
  <2>. DEFINE args == [NoCall EXCEPT !.user = w, !.role = r, !.org = org]
  <2>1. r \in Roles
    BY GrantedAssumption
  <2>2. args \in CallRecord /\ args.user = w /\ args.role = r
    BY <1>2, <1>0, <2>1 DEF CallRecord
  <2>3. Admit(i, "create_grant", u, asked, args)
    BY <1>4 DEF HandleCreateGrant
  <2>. HIDE DEF args
  <2>. QED
    BY <2>1, <2>2, <2>3, AdmittedFit DEF Ops
<1>5. ASSUME NEW g \in grants, HandleDeleteGrant(i, u, g) PROVE AllFit'
  <2>. DEFINE args == [NoCall EXCEPT !.user = g.user, !.role = g.role, !.org = g.org]
  <2>1. g.user \in Users /\ g.role \in Roles /\ g.org \in Orgs \cup {None}
    BY <1>2 DEF TablesFit, GrantSet, Nodes
  <2>2. args \in CallRecord
    BY <2>1, <1>0 DEF CallRecord
  <2>3. Admit(i, "delete_grant", u, None, args)
    BY <1>5 DEF HandleDeleteGrant
  <2>. HIDE DEF args
  <2>. QED
    BY <2>2, <2>3, AdmittedFit DEF Ops
<1>6. ASSUME NEW asked \in Places, NEW p \in Places, HandleCreate(i, u, asked, p) PROVE AllFit'
  <2>. DEFINE held == HeldAt(SubjectOf(u), asked)
              args == [NoCall EXCEPT !.under = p, !.held = held]
  <2>0. held \in SUBSET Permissions
    BY <1>2, HeldArePermissions
  <2>1. args \in CallRecord /\ args.held = HeldAt(SubjectOf(u), asked)
    BY <1>2, <1>0, <2>0 DEF CallRecord
  <2>2. Admit(i, "create_org", u, asked, args)
    BY <1>6 DEF HandleCreate
  <2>. HIDE DEF args
  <2>. QED
    BY <2>1, <2>2, AdmittedFit DEF Ops
<1>7. ASSUME NEW n \in Orgs, NEW p \in Places, HandleMove(i, u, n, p) PROVE AllFit'
  <2>. DEFINE args == [NoCall EXCEPT !.org = n, !.under = p]
  <2>1. args \in CallRecord
    BY <1>2, <1>0 DEF CallRecord
  <2>2. Admit(i, "move_org", u, n, args)
    BY <1>7 DEF HandleMove
  <2>. HIDE DEF args
  <2>. QED
    BY <2>1, <2>2, AdmittedFit DEF Ops
<1>8. ASSUME NEW n \in Orgs, NEW asked \in Places, HandleDelete(i, u, n) \/ HandleSubmit(i, u, asked, n) PROVE AllFit'
  <2>. DEFINE args == [NoCall EXCEPT !.org = n]
  <2>1. args \in CallRecord
    BY <1>2, <1>0 DEF CallRecord
  <2>2. Admit(i, "delete_org", u, n, args) \/ Admit(i, "submit_request", u, asked, args)
    BY <1>8 DEF HandleDelete, HandleSubmit
  <2>. HIDE DEF args
  <2>. QED
    BY <2>1, <2>2, AdmittedFit DEF Ops
<1>9. ASSUME NEW j \in Ids, HandleDecide(i, u, j) PROVE AllFit'
  <2>. DEFINE args == [NoCall EXCEPT !.about = j]
  <2>1. args \in CallRecord /\ args.about = j
    BY <1>2, <1>0 DEF CallRecord, Ids
  <2>2. Admit(i, "decide_request", u, None, args)
    BY <1>9 DEF HandleDecide
  <2>. HIDE DEF args
  <2>. QED
    BY <2>1, <2>2, AdmittedFit DEF Ops
<1>10. ASSUME NEW want \in Places, HandleSummary(i, u, want) PROVE AllFit'
  <2>. DEFINE args == [NoCall EXCEPT !.under = want]
  <2>1. args \in CallRecord
    BY <1>2, <1>0 DEF CallRecord
  <2>2. Admit(i, "usage_summary", u, None, args)
    BY <1>10 DEF HandleSummary
  <2>. HIDE DEF args
  <2>. QED
    BY <2>1, <2>2, AdmittedFit DEF Ops
<1>11. ASSUME Disable(i, u) \/ Expire(i) PROVE AllFit'
  BY <1>11, WrittenFit DEF Disable, Expire
<1>12. None \in Places
  BY <1>2
<1>. QED
  BY <1>1, <1>3, <1>4, <1>5, <1>6, <1>7, <1>8, <1>9, <1>10, <1>11, <1>12

\* The two steps of a report before its query.
LEMMA CollectedFit == ASSUME Inv, AllFit, NEW i \in Ids, CostScopes(i) PROVE AllFit'
<1>. DEFINE s == Subject(i)
            u == call[i].by
            all == CostScope(s).all
            nodes == CostScope(s).nodes
            c == [call[i] EXCEPT !.at = "checked", !.all = all, !.granted = nodes]
<1>1. /\ TablesFit /\ call \in [Ids -> CallSet] /\ call[i] \in CallRecord /\ call[i].op = "usage_summary"
      /\ call' = [call EXCEPT ![i] = IF all \/ nodes # {} THEN c ELSE Over] /\ UNCHANGED tables
  BY Standing DEF CostScopes, Stands, Inv, CallsFit
<1>2. s = [user |-> u, active |-> TRUE, home |-> call[i].home] /\ u \in Users
  BY <1>1, Standing DEF Subject, CallSet
<1>. HIDE DEF s, u
<1>3. /\ all <=> SeesAll(grants, u)
      /\ \A n : n \in nodes <=> ~SeesAll(grants, u) /\ n # None /\ ReadsAt(grants, u, n)
  BY <1>1, <1>2, WhoSeesWhat
<1>. HIDE DEF all, nodes
<1>4. c.op = "usage_summary" /\ c.at = "checked" /\ c.by = u /\ (c.all <=> all) /\ c.granted = nodes
  BY <1>1 DEF CallRecord, u
<1>. HIDE DEF c
<1>5. call'[i] = (IF all \/ nodes # {} THEN c ELSE Over) /\ \A j \in Ids \ {i} : call'[j] = call[j]
  BY <1>1
<1>6. all \/ nodes # {} => Fits(c, grants, path)
  BY <1>3, <1>4 DEF Fits, Authorized, InScopeOf
<1>7. Fits(call'[i], grants, path)
  BY <1>5, <1>6, NoneFit
<1>. QED
  BY <1>1, <1>5, <1>7, AloneFit DEF Alone

LEMMA NarrowedFit == ASSUME Inv, AllFit, NEW i \in Ids, CostSubtrees(i) PROVE AllFit'
<1>. DEFINE old == call[i]
            u == old.by
            want == old.under
            granted == old.granted
            visible == UNION {Subtree(n) : n \in granted \cap Nodes}
            orgs == IF want = None THEN visible ELSE IF old.all THEN Subtree(want) ELSE Narrow(visible, want)
            refused == want # None /\ (want \notin Nodes \/ orgs = {})
            c == [old EXCEPT !.at = "query", !.nodes = orgs]
<1>1. /\ TablesFit /\ call \in [Ids -> CallSet] /\ old \in CallRecord /\ old.op = "usage_summary" /\ old.at = "checked"
      /\ call' = [call EXCEPT ![i] = IF refused THEN Over ELSE c] /\ UNCHANGED tables /\ InScopeOf(old, grants, path)
  BY Standing DEF CostSubtrees, Stands, Inv, CallsFit, AllFit, Fits
<1>2. \A o : o \in visible <=> o \in Nodes /\ \E n \in granted \cap Nodes : n \in Range(path[o])
  <2>. DEFINE W == {Subtree(n) : n \in granted \cap Nodes}
  <2>1. \A w : w \in W <=> \E n \in granted \cap Nodes : w = Subtree(n)
    OBVIOUS
  <2>. HIDE DEF W
  <2>2. \A o : o \in UNION W <=> \E n \in granted \cap Nodes : o \in Subtree(n)
    BY <2>1
  <2>3. \A n \in Nodes : Subtree(n) \subseteq Nodes /\ \A o \in Nodes : o \in Subtree(n) <=> n \in Range(path[o])
    BY <1>1, AboveIsSubtree, InTermsOfTables DEF Subtree
  <2>. QED
    BY <2>2, <2>3 DEF W
<1>3. \A n \in granted \cap Nodes : n \in visible
  BY <1>1, <1>2, AboveItself, InTermsOfTables
<1>4. want \in Nodes => want \in Subtree(want) /\ Subtree(want) \subseteq Nodes
  BY <1>1, AboveItself DEF Subtree
<1>5. Nodes \subseteq Orgs /\ None \notin Nodes /\ u \in Users
  BY <1>1, NoneAssumption, Standing DEF Nodes
<1>6. orgs = IF want = None THEN visible ELSE IF old.all THEN Subtree(want) ELSE visible \cap Subtree(want)
  BY DEF Narrow
<1>. HIDE DEF visible, orgs
\* What has been collected, while nothing has overtaken it.
<1>7. ASSUME old.calm
      PROVE  /\ old.all <=> SeesAll(grants, u)
             /\ old.all => granted = {}
             /\ ~old.all => visible = Read(grants, path, u) /\ visible # {}
  <2>1. /\ old.all <=> SeesAll(grants, u)
        /\ \A n : n \in granted <=> ~SeesAll(grants, u) /\ n # None /\ ReadsAt(grants, u, n)
        /\ old.all \/ granted # {}
    BY <1>1, <1>7 DEF InScopeOf
  <2>2. \A n : n # None /\ ReadsAt(grants, u, n) => n \in Nodes
    BY <1>1 DEF ReadsAt, TablesFit, GrantSet
  <2>3. \A o \in Nodes : None \notin Range(path[o]) /\ Range(path[o]) \subseteq Nodes
    BY <1>1, <1>5, AboveAreNodes, InTermsOfTables
  <2>4. ASSUME ~old.all PROVE \A o : o \in visible <=> o \in Read(grants, path, u)
    <3>1. \A o : o \in Read(grants, path, u) <=> o \in Nodes /\ \E m \in Range(path[o]) : ReadsAt(grants, u, m)
      BY InTermsOfTables DEF Read
    <3>2. \A n : n \in granted <=> n # None /\ ReadsAt(grants, u, n)
      BY <2>1, <2>4
    <3>. QED
      BY <1>2, <2>2, <2>3, <3>1, <3>2
  <2>5. ~old.all => visible # {}
    BY <1>3, <2>1, <2>2
  <2>6. ~old.all => visible = Read(grants, path, u)
    BY <2>4
  <2>7. old.all => granted = {}
    BY <2>1
  <2>. QED
    BY <2>1, <2>5, <2>6, <2>7
<1>8. old.all /\ granted = {} => visible = {}
  BY <1>2
<1>9. ASSUME ~refused, old.calm
      PROVE  (IF orgs = {} THEN Orgs ELSE orgs) = Seen(grants, path, u) \cap Wanted(path, want)
  <2>1. Wanted(path, want) = (IF want = None THEN Orgs ELSE Subtree(want))
    BY InTermsOfTables DEF Wanted
  <2>2. visible \subseteq Orgs
    BY <1>2, <1>5
  <2>3. CASE old.all
    <3>1. Seen(grants, path, u) = Orgs /\ visible = {}
      BY <1>7, <1>8, <1>9, <2>3 DEF Seen
    <3>. QED
      BY <1>4, <1>5, <1>6, <1>9, <2>1, <2>3, <3>1
  <2>4. CASE ~old.all
    <3>1. Seen(grants, path, u) = visible /\ visible # {}
      BY <1>7, <1>9, <2>4 DEF Seen
    <3>. QED
      BY <1>6, <1>9, <2>1, <2>2, <2>4, <3>1
  <2>. QED
    BY <2>3, <2>4
<1>10. ASSUME ~refused, orgs = {} PROVE old.all \/ granted \cap Placed(path) = {}
  BY <1>3, <1>6, <1>10, InTermsOfTables
<1>11. /\ c.op = "usage_summary" /\ c.at = "query" /\ c.by = u /\ c.under = want /\ (c.calm <=> old.calm)
       /\ (c.all <=> old.all) /\ c.granted = granted /\ c.nodes = orgs
  BY <1>1 DEF CallRecord
<1>12. call'[i] = (IF refused THEN Over ELSE c) /\ \A j \in Ids \ {i} : call'[j] = call[j]
  BY <1>1
<1>. HIDE DEF c, refused, old, u, want, granted
<1>13. ~refused => Fits(c, grants, path)
  BY <1>9, <1>10, <1>11 DEF Fits, Authorized, InScopeOf
<1>14. Fits(call'[i], grants, path)
  BY <1>12, <1>13, NoneFit
<1>. QED
  BY <1>1, <1>12, <1>14, AloneFit DEF Alone

LEMMA ContinueFit == ASSUME Inv, AllFit, NEW i \in Ids, Continue(i) PROVE AllFit'
<1>. USE DEF Stands
<1>0. TablesFit /\ call \in [Ids -> CallSet] /\ call[i] \in CallRecord /\ Authorized(call[i])
  BY Standing DEF Inv, CallsFit, AllFit, Fits
<1>1. CASE CheckGrant(i)
  <2>. DEFINE s == Subject(i)
              org == call[i].org
              held == HeldAt(s, org)
              allowed == Exists(org) /\ CanGrant(s, call[i].role, org)
  <2>1. Ask(i, allowed, held) /\ call[i].at = "enforced" /\ call[i].op = "create_grant"
    BY <1>1 DEF CheckGrant
  <2>2. held \in SUBSET Permissions
    BY <1>0, HeldArePermissions
  <2>3. s = [user |-> call[i].by, active |-> TRUE, home |-> call[i].home] /\ call[i].by \in Users
    BY <2>1, Standing DEF Subject, CallSet
  <2>4. allowed => RolePermissions[call[i].role] \subseteq held
    <3>1. SUFFICES ASSUME allowed, NEW p \in RolePermissions[call[i].role] PROVE p \in held
      OBVIOUS
    <3>2. org \in Nodes \cup {None} /\ Can(s, p, org)
      BY <3>1 DEF Exists, CanGrant
    <3>. HIDE DEF s
    <3>. QED
      BY <1>0, <2>3, <3>2, WhatIsHeld, WhatIsHeldEverywhere
  <2>. HIDE DEF held, allowed
  <2>5. /\ UNCHANGED tables /\ \A j \in Ids \ {i} : call'[j] = call[j]
        /\ call'[i] = Over \/ (allowed /\ call'[i] = [call[i] EXCEPT !.at = "checked", !.held = held])
    BY <2>1, <2>2, AskFits
  <2>6. CASE call'[i] = Over
    BY <2>5, <2>6, NoneFit, AloneFit DEF Alone
  <2>7. CASE allowed /\ call'[i] = [call[i] EXCEPT !.at = "checked", !.held = held]
    <3>1. /\ call'[i].op = call[i].op /\ (call'[i].licensed <=> call[i].licensed) /\ call'[i].role = call[i].role
          /\ call'[i].held = held
      BY <1>0, <2>7 DEF CallRecord
    <3>2. Fits(call'[i], grants, path)
      BY <1>0, <2>1, <2>4, <2>7, <3>1, OthersFit DEF Authorized
    <3>. QED
      BY <2>5, <3>2, AloneFit DEF Alone
  <2>. QED
    BY <2>5, <2>6, <2>7
<1>2. CASE CheckDelete(i) \/ CheckDecide(i)
  <2>1. PICK allowed : Ask(i, allowed, {}) /\ call[i].at = "enforced"
    BY <1>2 DEF CheckDelete, CheckDecide
  <2>2. call[i].op \in {"delete_grant", "decide_request"} /\ {} \in SUBSET Permissions
    BY <1>2 DEF CheckDelete, CheckDecide
  <2>3. /\ UNCHANGED tables /\ \A j \in Ids \ {i} : call'[j] = call[j]
        /\ call'[i] = Over \/ (allowed /\ call'[i] = [call[i] EXCEPT !.at = "checked", !.held = {}])
    BY <2>1, <2>2, AskFits
  <2>4. CASE call'[i] = Over
    BY <2>3, <2>4, NoneFit, AloneFit DEF Alone
  <2>5. CASE call'[i] = [call[i] EXCEPT !.at = "checked", !.held = {}]
    <3>1. call'[i].op = call[i].op /\ (call'[i].licensed <=> call[i].licensed)
      BY <1>0, <2>5 DEF CallRecord
    <3>2. Fits(call'[i], grants, path)
      BY <1>0, <2>2, <3>1, OthersFit DEF Authorized
    <3>. QED
      BY <2>3, <3>2, AloneFit DEF Alone
  <2>. QED
    BY <2>3, <2>4, <2>5
<1>11. CASE CheckMove(i)
  <2>. DEFINE s == Subject(i)
              under == call[i].under
              held == HeldAt(s, under)
              allowed == Exists(under) /\ Can(s, "org:write", under)
  <2>1. Ask(i, allowed, held) /\ call[i].at = "enforced" /\ call[i].op = "move_org"
    BY <1>11 DEF CheckMove
  <2>2. held \in SUBSET Permissions
    BY <1>0, HeldArePermissions
  <2>3. s = [user |-> call[i].by, active |-> TRUE, home |-> call[i].home] /\ call[i].by \in Users
    BY <2>1, Standing DEF Subject, CallSet
  <2>4. allowed => "org:write" \in held
    <3>1. SUFFICES ASSUME under \in Nodes \cup {None}, Can(s, "org:write", under) PROVE "org:write" \in held
      BY DEF Exists
    <3>. HIDE DEF s
    <3>. QED
      BY <1>0, <2>3, <3>1, WhatIsHeld, WhatIsHeldEverywhere
  <2>. HIDE DEF held, allowed
  <2>5. /\ UNCHANGED tables /\ \A j \in Ids \ {i} : call'[j] = call[j]
        /\ call'[i] = Over \/ (allowed /\ call'[i] = [call[i] EXCEPT !.at = "checked", !.held = held])
    BY <2>1, <2>2, AskFits
  <2>6. CASE call'[i] = Over
    BY <2>5, <2>6, NoneFit, AloneFit DEF Alone
  <2>7. CASE allowed /\ call'[i] = [call[i] EXCEPT !.at = "checked", !.held = held]
    <3>1. /\ call'[i].op = call[i].op /\ (call'[i].licensed <=> call[i].licensed) /\ call'[i].held = held
      BY <1>0, <2>7 DEF CallRecord
    <3>2. Fits(call'[i], grants, path)
      BY <1>0, <2>1, <2>4, <2>7, <3>1, OthersFit DEF Authorized
    <3>. QED
      BY <2>5, <3>2, AloneFit DEF Alone
  <2>. QED
    BY <2>5, <2>6, <2>7
<1>3. CASE CreateGrant(i) \/ DeleteGrant(i) \/ AssignPrimaryOrg(i)
  <2>1. Written(i) /\ path' = path
    BY <1>3 DEF CreateGrant, DeleteGrant, AssignPrimaryOrg
  <2>. QED
    BY <2>1, WrittenFit
\* A new node is none that a report has collected.
<1>4. CASE CreateOrg(i)
  <2>. DEFINE n == CHOOSE o \in Fresh : TRUE
              p == call[i].under
  <2>1. Written(i) /\ n \in Fresh
    BY <1>4 DEF CreateOrg
  <2>2. path' = IF Exists(p) THEN [path EXCEPT ![n] = Append(PathOf(p), n)] ELSE path
    BY <1>4 DEF CreateOrg
  <2>. HIDE DEF n
  <2>3. \A j \in Ids : n \notin call[j].granted
    BY <2>1 DEF Fresh
  <2>4. \A o \in Orgs \ {n} : path'[o] = path[o]
    BY <1>0, <2>2 DEF TablesFit
  <2>. QED
    BY <2>1, <2>3, <2>4, WrittenFit DEF Placed
<1>5. CASE MoveOrg(i)
  <2>. DEFINE n == call[i].org
              p == call[i].under
  <2>1. Written(i) /\ UNCHANGED <<active, home, grants, expired>>
    BY <1>5 DEF MoveOrg
  <2>2. path' = IF n \in Nodes /\ Exists(p) /\ p \notin Subtree(n)
                THEN [o \in Orgs |-> IF o \in Subtree(n)
                                    THEN Append(PathOf(p), n) \o SubSeq(path[o], Len(path[n]) + 1, Len(path[o]))
                                    ELSE path[o]]
                ELSE path
    BY <1>5 DEF MoveOrg
  <2>3. Nodes' = Nodes
    <3>1. CASE n \in Nodes /\ Exists(p) /\ p \notin Subtree(n)
      BY <1>0, <2>1, <2>2, <3>1, MovedIsWhole DEF Exists
    <3>2. CASE ~(n \in Nodes /\ Exists(p) /\ p \notin Subtree(n))
      BY <2>2, <3>2 DEF Nodes
    <3>. QED
      BY <3>1, <3>2
  <2>4. Placed(path') = Placed(path)
    BY <2>3 DEF Nodes, Placed
  <2>. QED
    BY <2>1, <2>4, WrittenFit
<1>6. CASE DeleteOrg(i)
  <2>. DEFINE n == call[i].org
  <2>1. Written(i) /\ (path' = path \/ (n \in Nodes /\ path' = [path EXCEPT ![n] = <<>>]))
    BY <1>6 DEF DeleteOrg
  <2>2. Placed(path') \subseteq Placed(path)
    BY <1>0, <2>1 DEF Placed, Nodes, TablesFit
  <2>. QED
    BY <2>1, <2>2, WrittenFit
<1>7. CASE Submit(i) \/ Notify(i) \/ Decide(i)
  <2>1. /\ UNCHANGED tables
        /\ \/ Ends(i)
           \/ call[i].op \in {"submit_request", "decide_request"}
              /\ call' \in {[call EXCEPT ![i].at = "notify", ![i].about = i], [call EXCEPT ![i].at = "notify"]}
    BY <1>7 DEF Submit, Notify, Decide
  <2>2. CASE Ends(i)
    BY <2>1, <2>2, EndsFits, NoneFit, AloneFit DEF Alone
  <2>3. CASE ~Ends(i)
    <3>1. PICK c \in {[call[i] EXCEPT !.at = "notify", !.about = i], [call[i] EXCEPT !.at = "notify"]} :
             call' = [call EXCEPT ![i] = c]
      BY <1>0, <2>1, <2>3
    <3>2. c.op = call[i].op
      BY <1>0 DEF CallRecord
    <3>3. call'[i] = c /\ \A j \in Ids \ {i} : call'[j] = call[j]
      BY <1>0, <3>1
    <3>4. Fits(c, grants, path)
      BY <2>1, <2>3, <3>2, OthersFit DEF Authorized
    <3>. QED
      BY <2>1, <3>3, <3>4, AloneFit DEF Alone
  <2>. QED
    BY <2>2, <2>3
<1>8. CASE CostScopes(i)
  BY <1>8, CollectedFit
<1>9. CASE CostSubtrees(i)
  BY <1>9, NarrowedFit
<1>10. CASE Summary(i)
  <2>1. Ends(i) /\ UNCHANGED tables
    BY <1>10 DEF Summary
  <2>. QED
    BY <2>1, EndsFits, NoneFit, AloneFit DEF Alone
<1>. QED
  BY <1>1, <1>2, <1>3, <1>4, <1>5, <1>6, <1>7, <1>8, <1>9, <1>10, <1>11 DEF Continue

LEMMA InitFit == AccessInit => AllFit
  BY NoneFit DEF AccessInit, AllFit

LEMMA NextFit == Inv /\ AllFit /\ [AccessNext]_vars => AllFit'
<1>. SUFFICES ASSUME Inv, AllFit, [AccessNext]_vars PROVE AllFit'
  OBVIOUS
<1>1. ASSUME NEW i \in Ids, Begin(i) PROVE AllFit'
  BY <1>1, BeginFit
<1>2. ASSUME NEW i \in Ids, Continue(i) PROVE AllFit'
  BY <1>2, ContinueFit
<1>3. CASE UNCHANGED <<tables, call>>
  BY <1>3 DEF AllFit, Ids, tables
<1>4. CASE Restart
  <2>1. UNCHANGED tables /\ call' = [i \in Ids |-> IF call[i].at = "idle" THEN NoCall ELSE Over]
    BY <1>4 DEF Restart
  <2>2. ASSUME NEW j \in Ids PROVE Fits(call'[j], grants', path')
    <3>1. call'[j] \in {NoCall, Over}
      BY <2>1
    <3>2. Fits(NoCall, grants', path') /\ Fits(Over, grants', path')
      BY NoneFit
    <3>. QED
      BY <3>1, <3>2
  <2>. QED
    BY <2>2 DEF AllFit, Ids
<1>5. WorkerStep => UNCHANGED <<tables, call>>
  BY DEF WorkerStep, ListPending, Send, Mark, RoundEnds
<1>6. UNCHANGED vars => UNCHANGED <<tables, call>>
  BY DEF vars
<1>. QED
  BY <1>1, <1>2, <1>3, <1>4, <1>5, <1>6 DEF AccessNext

LEMMA FitAlways == AccessSpec => [](Inv /\ AllFit)
<1>1. Inv /\ AllFit /\ [AccessNext]_vars => Inv' /\ AllFit'
  BY NextInv, NextFit
<1>2. AccessInit => Inv /\ AllFit
  BY InitInv, InitFit
<1>. QED
  BY <1>1, <1>2, PTL DEF AccessSpec

-----------------------------------------------------------------------------
(* Reports.                                                                 *)

\* A report that nothing has overtaken covers exactly what its reader may see and has asked
\* for, and no report covers all organizations by an empty filter unless its reader may see
\* them all or the nodes he may see have been deleted, for any users, tree and grants.
THEOREM ReportsAreInScope == AccessSpec => []ReportsStayInScope
<1>1. ASSUME Inv, AllFit, NEW i \in Ids, Stands(i, "usage_summary", "query")
      PROVE  LET s == Subject(i)
                 all == Can(s, "cost:read_all", None) \/ Can(s, "cost:read", None)
                 seen == IF all THEN Orgs ELSE {n \in Nodes : Can(s, "cost:read", n)}
                 wanted == IF call[i].under = None THEN Orgs ELSE Subtree(call[i].under) IN
             /\ call[i].calm => Reported(i) = seen \cap wanted
             /\ call[i].nodes = {} => call[i].all \/ call[i].granted \cap Nodes = {}
  <2>. DEFINE s == Subject(i)
              u == call[i].by
              all == Can(s, "cost:read_all", None) \/ Can(s, "cost:read", None)
              seen == IF all THEN Orgs ELSE {n \in Nodes : Can(s, "cost:read", n)}
              wanted == IF call[i].under = None THEN Orgs ELSE Subtree(call[i].under)
  <2>1. TablesFit /\ call[i].op = "usage_summary" /\ call[i].at = "query" /\ InScopeOf(call[i], grants, path)
    BY <1>1 DEF Stands, Inv, AllFit, Fits
  <2>2. s = [user |-> u, active |-> TRUE, home |-> call[i].home] /\ u \in Users
    BY <1>1, <2>1, Standing DEF Subject, CallSet
  <2>3. (all <=> SeesAll(grants, u)) /\ (~SeesAll(grants, u) => {n \in Nodes : Can(s, "cost:read", n)} = Read(grants, path, u))
    <3>. HIDE DEF s
    <3>. QED
      BY <2>1, <2>2, WhoSeesWhat
  <2>4. seen = Seen(grants, path, u)
    BY <2>3 DEF Seen
  <2>5. wanted = Wanted(path, call[i].under)
    BY InTermsOfTables DEF Wanted
  <2>6. call[i].calm => Reported(i) = seen \cap wanted
    BY <2>1, <2>4, <2>5 DEF InScopeOf, Reported
  <2>7. call[i].nodes = {} => call[i].all \/ call[i].granted \cap Nodes = {}
    BY <2>1, InTermsOfTables DEF InScopeOf
  <2>. QED
    BY <2>6, <2>7
<1>2. Inv /\ AllFit => ReportsStayInScope
  BY <1>1 DEF ReportsStayInScope
<1>. QED
  BY <1>2, FitAlways, PTL

-----------------------------------------------------------------------------
(* Authority.                                                               *)

\* What the call i is admitted for when u comes to hold p at n by it.
Warranted(i, u, n, p) ==
  /\ call[i].licensed /\ call'[i] = Over
  /\ \/ /\ call[i].op \in {"create_grant", "assign_home"}
        /\ call[i].user = u /\ p \in call[i].held
        /\ call[i].org = None \/ (n # None /\ call[i].org \in Above(n))
     \/ /\ call[i].op \in {"create_org", "move_org"}
        /\ n # None /\ path'[n] # path[n] /\ p \in HeldAt(SubjectOf(u), call[i].under)
        /\ "org:write" \in call[i].held

HeldNow(u, n, p) == Holds(active, home, grants, path, u, n, p)
HeldThen(u, n, p) == Holds(active', home', grants', path', u, n, p)

\* Whatever somebody gains, he gains by the call i.
GainsBy(i) ==
  \A u \in Users : \A n \in Nodes' \cup {None} : \A p :
    HeldThen(u, n, p) /\ (n \in Nodes \cup {None} => ~HeldNow(u, n, p)) => Warranted(i, u, n, p)

\* A statement that takes away users, grants or nodes.
LEMMA NoGains ==
  ASSUME NEW i \in Ids, active' \subseteq active, grants' \subseteq grants, home' = home, Nodes' \subseteq Nodes,
         \A n \in Nodes' : path'[n] = path[n]
  PROVE  GainsBy(i)
<1>1. SUFFICES ASSUME NEW u \in Users, NEW n \in Nodes' \cup {None}, NEW p, HeldThen(u, n, p) PROVE HeldNow(u, n, p)
  BY DEF GainsBy
<1>2. n # None => path'[n] = path[n]
  OBVIOUS
<1>. QED
  BY <1>1, <1>2, HoldsNoMore DEF HeldNow, HeldThen

LEMMA GrantGains == ASSUME Inv, AllFit, NEW i \in Ids, CreateGrant(i) PROVE GainsBy(i)
<1>. DEFINE g == [user |-> call[i].user, role |-> call[i].role, org |-> call[i].org]
<1>1. /\ call[i].op = "create_grant" /\ call[i].at = "checked" /\ Written(i) /\ UNCHANGED <<active, home, path>>
      /\ grants' \subseteq grants \cup {g} /\ Nodes' = Nodes
  BY DEF CreateGrant, Stands, Nodes
<1>2. call[i].licensed /\ RolePermissions[call[i].role] \subseteq call[i].held /\ call'[i] = Over
  BY <1>1, WrittenFits DEF AllFit, Fits, Authorized
<1>3. g.user = call[i].user /\ g.role = call[i].role /\ g.org = call[i].org
  OBVIOUS
<1>. HIDE DEF g
<1>4. SUFFICES ASSUME NEW u \in Users, NEW n \in Nodes \cup {None}, NEW p, HeldThen(u, n, p), ~HeldNow(u, n, p)
               PROVE  Warranted(i, u, n, p)
  BY <1>1 DEF GainsBy
<1>5. g.user = u /\ p \in RolePermissions[g.role] /\ (g.org = None \/ (n # None /\ g.org \in Range(path[n])))
  BY <1>1, <1>4 DEF HeldThen, HeldNow, Holds
<1>. QED
  BY <1>1, <1>2, <1>3, <1>5 DEF Warranted, Above

LEMMA HomeGains == ASSUME Inv, AllFit, NEW i \in Ids, AssignPrimaryOrg(i) PROVE GainsBy(i)
<1>1. /\ call[i].op = "assign_home" /\ Written(i) /\ UNCHANGED <<active, grants, path>> /\ Nodes' = Nodes
      /\ home' \in {home, [home EXCEPT ![call[i].user] = call[i].org]}
  BY DEF AssignPrimaryOrg, Stands, Nodes
<1>2. call[i].licensed /\ {"key:request", "org:read"} \subseteq call[i].held /\ call'[i] = Over
  BY <1>1, WrittenFits DEF AllFit, Fits, Authorized
<1>3. SUFFICES ASSUME NEW u \in Users, NEW n \in Nodes \cup {None}, NEW p, HeldThen(u, n, p), ~HeldNow(u, n, p)
               PROVE  Warranted(i, u, n, p)
  BY <1>1 DEF GainsBy
<1>4. home \in [Users -> Nodes \cup {None}] /\ call[i].user \in Users
  BY <1>1, Standing DEF Inv, TablesFit
<1>5. p \in {"key:request", "org:read"} /\ n # None /\ home'[u] \in Range(path[n]) /\ home'[u] # home[u]
  BY <1>1, <1>3 DEF HeldThen, HeldNow, Holds
<1>6. call[i].user = u /\ home'[u] = call[i].org
  BY <1>1, <1>4, <1>5
<1>. QED
  BY <1>1, <1>2, <1>5, <1>6 DEF Warranted, Above

\* What is above a node in the new place has been above it before, or is above its new parent.
LEMMA GainsFromAbove ==
  ASSUME Inv, NEW u \in Users, NEW n, NEW p, NEW under \in Nodes \cup {None},
         UNCHANGED <<active, home, grants>>, HeldThen(u, n, p), ~HeldNow(u, n, p), n # None,
         \A a \in Range(path'[n]) : a \in Range(path[n]) \/ (under # None /\ a \in Range(path[under]))
  PROVE  p \in HeldAt(SubjectOf(u), under)
<1>1. Holds(active, home, grants, path', u, n, p) /\ ~Holds(active, home, grants, path, u, n, p)
  BY DEF HeldThen, HeldNow
<1>2. Holds(active, home, grants, path, u, under, p)
  BY <1>1 DEF Holds
<1>. QED
  BY <1>2, WhoHoldsWhat DEF HeldIsHolds, Inv

LEMMA InRange ==
  ASSUME NEW s \in Seq(Orgs)
  PROVE  /\ \A a : a \in Range(s) <=> \E k \in 1..Len(s) : a = s[k]
         /\ \A n \in Orgs : Range(Append(s, n)) = Range(s) \cup {n}
<1>1. ASSUME NEW t \in Seq(Orgs), NEW a PROVE a \in Range(t) <=> \E k \in 1..Len(t) : a = t[k]
  BY DEF Range
<1>2. ASSUME NEW n \in Orgs PROVE Range(Append(s, n)) = Range(s) \cup {n}
  <2>. DEFINE t == Append(s, n)
  <2>1. t \in Seq(Orgs) /\ Len(t) = Len(s) + 1 /\ t[Len(s) + 1] = n /\ (\A k \in 1..Len(s) : t[k] = s[k]) /\ Len(s) \in Nat
    BY Extended
  <2>. HIDE DEF t
  <2>2. \A a : a \in Range(t) <=> a \in Range(s) \/ a = n
    <3>1. \A a : a \in Range(t) => a \in Range(s) \/ a = n
      BY <1>1, <2>1
    <3>2. \A a : a \in Range(s) => a \in Range(t)
      BY <1>1, <2>1
    <3>3. n \in Range(t)
      <4>1. Len(s) + 1 \in 1..Len(t)
        BY <2>1
      <4>. QED
        BY <1>1, <2>1, <4>1
    <3>. QED
      BY <3>1, <3>2, <3>3
  <2>3. Range(t) = Range(s) \cup {n}
    BY <2>2
  <2>. QED
    BY <2>3 DEF t
<1>. QED
  BY <1>1, <1>2

LEMMA NodeGains == ASSUME Inv, AllFit, NEW i \in Ids, CreateOrg(i) PROVE tables' = tables \/ GainsBy(i)
<1>. DEFINE o == CHOOSE o \in Fresh : TRUE
            under == call[i].under
<1>1. /\ call[i].op = "create_org" /\ Written(i) /\ UNCHANGED <<active, home, grants, expired>> /\ o \in Fresh
      /\ path' = IF Exists(under) THEN [path EXCEPT ![o] = Append(PathOf(under), o)] ELSE path
  BY DEF CreateOrg, Stands
<1>. HIDE DEF o
<1>2. /\ call[i].licensed /\ call'[i] = Over /\ TablesFit /\ path \in [Orgs -> Seq(Orgs)]
      /\ "org:write" \in call[i].held
  BY <1>1, WrittenFits DEF AllFit, Fits, Authorized, Inv, TablesFit
<1>3. o \in Orgs /\ path[o] = <<>> /\ o \notin Nodes
  BY <1>1 DEF Fresh, Nodes
<1>4. CASE ~Exists(under)
  BY <1>1, <1>4 DEF tables
<1>5. CASE Exists(under)
  <2>1. under \in Nodes \cup {None} /\ path' = [path EXCEPT ![o] = Append(PathOf(under), o)]
    BY <1>1, <1>5 DEF Exists
  <2>2. Nodes' = Nodes \cup {o}
    BY <1>1, <1>2, <1>3, <2>1, CreatedIsWhole
  <2>3. path'[o] = Append(PathOf(under), o) /\ \A n \in Nodes : path'[n] = path[n]
    BY <1>2, <1>3, <2>1 DEF Nodes
  <2>4. PathOf(under) \in Seq(Orgs) /\ Range(<<>>) = {}
    BY <1>2, <2>1 DEF PathOf, Nodes, Range
  <2>5. \A a \in Range(path'[o]) : a = o \/ (under # None /\ a \in Range(path[under]))
    <3>1. Range(Append(PathOf(under), o)) = Range(PathOf(under)) \cup {o}
      BY <1>3, <2>4, InRange
    <3>2. under = None => Range(PathOf(under)) = {}
      BY <2>4 DEF PathOf
    <3>. QED
      BY <2>3, <3>1, <3>2 DEF PathOf
  <2>6. path'[o] # path[o]
    BY <1>3, <2>3, <2>4, Extended
  <2>7. ASSUME NEW u \in Users, NEW n \in Nodes \cup {None}, NEW p, HeldThen(u, n, p) PROVE HeldNow(u, n, p)
    BY <1>1, <2>3, <2>7 DEF HeldThen, HeldNow, Holds
  <2>8. ASSUME NEW u \in Users, NEW p, HeldThen(u, o, p) PROVE Warranted(i, u, o, p)
    <3>1. Holds(active, home, grants, path', u, o, p)
      BY <1>1, <2>8 DEF HeldThen
    <3>2. home[u] # o /\ \A g \in grants : g.org # o
      BY <1>2, <1>3, NoneAssumption DEF TablesFit, GrantSet
    <3>3. Holds(active, home, grants, path, u, under, p)
      BY <2>5, <3>1, <3>2 DEF Holds
    <3>4. p \in HeldAt(SubjectOf(u), under)
      BY <1>2, <2>1, <3>3, WhoHoldsWhat DEF HeldIsHolds
    <3>5. o # None
      BY <1>3, NoneAssumption
    <3>. QED
      BY <1>1, <1>2, <2>6, <3>4, <3>5 DEF Warranted
  <2>. QED
    BY <2>2, <2>7, <2>8 DEF GainsBy
<1>. QED
  BY <1>4, <1>5

LEMMA MoveGains == ASSUME Inv, AllFit, NEW i \in Ids, MoveOrg(i) PROVE tables' = tables \/ GainsBy(i)
<1>. DEFINE o == call[i].org
            under == call[i].under
            new == Append(PathOf(under), o)
            l == Len(path[o])
<1>1. /\ call[i].op = "move_org" /\ call[i].at = "checked" /\ Written(i) /\ UNCHANGED <<active, home, grants, expired>>
      /\ path' = IF o \in Nodes /\ Exists(under) /\ under \notin Subtree(o)
                 THEN [m \in Orgs |-> IF m \in Subtree(o) THEN new \o SubSeq(path[m], l + 1, Len(path[m])) ELSE path[m]]
                 ELSE path
  BY DEF MoveOrg, Stands
<1>2. /\ call[i].licensed /\ call'[i] = Over /\ TablesFit /\ path \in [Orgs -> Seq(Orgs)]
      /\ "org:write" \in call[i].held
  BY <1>1, WrittenFits DEF AllFit, Fits, Authorized, Inv, TablesFit
<1>3. CASE ~(o \in Nodes /\ Exists(under) /\ under \notin Subtree(o))
  BY <1>1, <1>3 DEF tables
<1>4. CASE o \in Nodes /\ Exists(under) /\ under \notin Subtree(o)
  <2>1. /\ under \in Nodes \cup {None} /\ PathOf(under) \in Seq(Orgs) /\ o \in Orgs
        /\ path' = [m \in Orgs |-> IF m \in Subtree(o) THEN new \o SubSeq(path[m], l + 1, Len(path[m])) ELSE path[m]]
    BY <1>1, <1>2, <1>4 DEF Exists, PathOf, Nodes
  <2>2. Nodes' = Nodes
    BY <1>1, <1>2, <1>4, <2>1, MovedIsWhole
  <2>3. \A m \in Nodes \ Subtree(o) : path'[m] = path[m]
    BY <2>1 DEF Nodes
  <2>4. ASSUME NEW m \in Subtree(o), NEW a \in Range(path'[m])
        PROVE  a \in Range(path[m]) \/ (under # None /\ a \in Range(path[under]))
    <3>1. m \in Orgs /\ m \in Nodes /\ path[m] \in Seq(Orgs) /\ l \in 0..Len(path[m]) /\ o \in Range(path[m])
      <4>1. m \in Nodes /\ l <= Len(path[m]) /\ m \in Orgs
        BY DEF Subtree, Within, Nodes
      <4>2. path[m] \in Seq(Orgs) /\ path[o] \in Seq(Orgs) /\ Len(path[m]) \in Nat /\ l \in Nat
        BY <1>2, <2>1, <4>1
      <4>3. o \in Range(path[m])
        BY <1>2, <1>4, <4>1, AboveIsSubtree, InTermsOfTables
      <4>. QED
        BY <4>1, <4>2, <4>3
    <3>2. new \in Seq(Orgs) /\ Range(new) = Range(PathOf(under)) \cup {o}
      BY <2>1, InRange, Extended
    <3>. DEFINE q == path[m]
                r == new \o SubSeq(q, l + 1, Len(q))
    <3>3. path'[m] = r
      BY <2>1, <3>1
    <3>. HIDE DEF new, l
    <3>4. /\ r \in Seq(Orgs) /\ Len(r) = Len(new) + Len(q) - l
          /\ \A k \in 1..Len(new) : r[k] = new[k]
          /\ \A k \in (Len(new) + 1)..(Len(new) + Len(q) - l) : r[k] = q[k - Len(new) + l]
      BY <3>1, <3>2, Rebased
    <3>. HIDE DEF r
    <3>5. PICK k \in 1..Len(r) : a = r[k]
      BY <3>3, <3>4, InRange
    <3>6. CASE k \in 1..Len(new)
      <4>1. a \in Range(new)
        BY <3>2, <3>4, <3>5, <3>6, InRange
      <4>2. under = None => Range(PathOf(under)) = {}
        BY DEF PathOf, Range
      <4>. QED
        BY <3>1, <3>2, <4>1, <4>2 DEF PathOf
    <3>7. CASE k \notin 1..Len(new)
      <4>1. Len(new) \in Nat /\ Len(q) \in Nat
        BY <3>1, <3>2
      <4>2. k \in (Len(new) + 1)..(Len(new) + Len(q) - l)
        BY <3>1, <3>4, <3>7, <4>1
      <4>3. k - Len(new) + l \in 1..Len(q)
        BY <3>1, <4>1, <4>2
      <4>. QED
        BY <3>1, <3>4, <3>5, <4>2, <4>3, InRange
    <3>. QED
      BY <3>6, <3>7
  <2>5. ASSUME NEW u \in Users, NEW n \in Nodes \cup {None}, NEW p, HeldThen(u, n, p), ~HeldNow(u, n, p)
        PROVE  Warranted(i, u, n, p)
    <3>1. n \in Nodes /\ path'[n] # path[n]
      BY <1>1, <2>5 DEF HeldThen, HeldNow, Holds
    <3>2. n \in Subtree(o) /\ n # None
      BY <2>3, <3>1, NoneAssumption DEF Nodes
    <3>3. p \in HeldAt(SubjectOf(u), under)
      BY <1>1, <2>1, <2>4, <2>5, <3>2, GainsFromAbove
    <3>. QED
      BY <1>1, <1>2, <3>1, <3>2, <3>3 DEF Warranted
  <2>. QED
    BY <2>2, <2>5 DEF GainsBy
<1>. QED
  BY <1>3, <1>4

\* Whatever somebody comes to hold was given him by a call that was admitted under a valid
\* license and whose caller, where it was last asked, held what it gives, or might edit the
\* node below which the call put what gives it; for any users, tree, grants and number of
\* calls, and whatever comes between the question and the statement.
THEOREM AuthorityIsPassedOn == AccessSpec => AuthorityComesFromAuthority
<1>. DEFINE Passed ==
       \A u \in Users : \A n \in Nodes' \cup {None} :
          \A p \in HeldAt(SubjectOf(u), n)' \ HeldAt(SubjectOf(u), n) : \E i \in Ids : Warranted(i, u, n, p)
<1>1. TablesFit' => HeldIsHolds'
  BY WhoHoldsWhat, PTL
<1>2. ASSUME Inv, AllFit, Inv', NEW i \in Ids, GainsBy(i) PROVE Passed
  <2>1. SUFFICES ASSUME NEW u \in Users, NEW n \in Nodes' \cup {None}, NEW p,
                        p \in HeldAt(SubjectOf(u), n)', p \notin HeldAt(SubjectOf(u), n)
                 PROVE  Warranted(i, u, n, p)
    OBVIOUS
  <2>2. HeldThen(u, n, p)
    BY <1>1, <1>2, <2>1 DEF HeldIsHolds, HeldThen, Inv
  <2>3. n \in Nodes \cup {None} => ~HeldNow(u, n, p)
    BY <1>2, <2>1, WhoHoldsWhat DEF HeldIsHolds, HeldNow, Inv
  <2>. QED
    BY <1>2, <2>2, <2>3 DEF GainsBy
<1>3. ASSUME Inv, AllFit, Inv', [AccessNext]_vars PROVE tables' = tables \/ Passed
  <2>1. ASSUME NEW i \in Ids, Begin(i) PROVE tables' = tables \/ GainsBy(i)
    <3>1. ASSUME NEW u \in active, Disable(i, u) \/ Expire(i) PROVE GainsBy(i)
      <4>1. active' \subseteq active /\ UNCHANGED <<home, grants, path>> /\ Nodes' = Nodes
        BY <3>1 DEF Disable, Expire, Nodes
      <4>. QED
        BY <4>1, NoGains
    <3>2. ASSUME ~UNCHANGED tables PROVE \E u \in active : Disable(i, u) \/ Expire(i)
      BY <2>1, <3>2 DEF Begin, HandleAssignPrimaryOrg, HandleCreateGrant, HandleDeleteGrant, HandleCreate, HandleMove,
                        HandleDelete, HandleSubmit, HandleDecide, HandleSummary, Admit
    <3>. QED
      BY <3>1, <3>2
  <2>2. ASSUME NEW i \in Ids, Continue(i) PROVE tables' = tables \/ GainsBy(i)
    <3>1. CASE DeleteGrant(i)
      <4>1. UNCHANGED <<active, home, path>> /\ grants' \subseteq grants /\ Nodes' = Nodes
        BY <3>1 DEF DeleteGrant, Nodes
      <4>. QED
        BY <4>1, NoGains
    <3>2. CASE DeleteOrg(i)
      <4>1. /\ UNCHANGED <<active, home>> /\ grants' \subseteq grants
            /\ path' = path \/ path' = [path EXCEPT ![call[i].org] = <<>>]
        BY <3>2 DEF DeleteOrg
      <4>2. Nodes' \subseteq Nodes /\ \A n \in Nodes' : path'[n] = path[n]
        BY <1>3, <4>1 DEF Nodes, Inv, TablesFit
      <4>. QED
        BY <4>1, <4>2, NoGains
    <3>3. CASE CreateGrant(i) \/ AssignPrimaryOrg(i) \/ CreateOrg(i) \/ MoveOrg(i)
      BY <1>3, <3>3, GrantGains, HomeGains, NodeGains, MoveGains
    <3>4. CASE CheckGrant(i) \/ CheckDelete(i) \/ CheckMove(i) \/ CheckDecide(i) \/ Submit(i) \/ Notify(i) \/ Decide(i)
               \/ CostScopes(i) \/ CostSubtrees(i) \/ Summary(i)
      BY <3>4 DEF CheckGrant, CheckDelete, CheckMove, CheckDecide, Ask, Submit, Notify, Decide, CostScopes, CostSubtrees, Summary
    <3>. QED
      BY <2>2, <3>1, <3>2, <3>3, <3>4 DEF Continue
  <2>3. WorkerStep \/ Restart \/ UNCHANGED vars => tables' = tables
    BY DEF WorkerStep, ListPending, Send, Mark, RoundEnds, Restart, vars
  <2>. HIDE DEF Passed
  <2>. QED
    BY <1>2, <1>3, <2>1, <2>2, <2>3 DEF AccessNext
<1>. DEFINE Step ==
       \/ tables' = tables
       \/ \A u \in Users : \A n \in Nodes' \cup {None} :
            \A p \in HeldAt(SubjectOf(u), n)' \ HeldAt(SubjectOf(u), n) :
              \E i \in Ids :
                /\ call[i].licensed /\ call'[i] = Over
                /\ \/ /\ call[i].op \in {"create_grant", "assign_home"}
                      /\ call[i].user = u /\ p \in call[i].held
                      /\ call[i].org = None \/ (n # None /\ call[i].org \in Above(n))
                   \/ /\ call[i].op \in {"create_org", "move_org"}
                      /\ n # None /\ path'[n] # path[n] /\ p \in HeldAt(SubjectOf(u), call[i].under)
                      /\ "org:write" \in call[i].held
<1>4. tables' = tables \/ Passed => Step
  BY DEF Warranted
<1>5. Inv /\ AllFit /\ Inv' /\ [AccessNext]_vars => [Step]_vars
  <2>. HIDE DEF Step, Passed
  <2>. QED
    BY <1>3, <1>4
<1>6. AccessSpec => []Inv /\ []AllFit
  BY FitAlways, PTL
<1>. QED
  BY <1>5, <1>6, PTL DEF AccessSpec, AuthorityComesFromAuthority
=============================================================================
