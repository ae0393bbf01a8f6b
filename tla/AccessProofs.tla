---------------------------- MODULE AccessProofs ----------------------------
(***************************************************************************)
(* What TLAPS proves of Authz and Access, for any users, any tree, any     *)
(* grants and any number of calls, failures and crashes.                   *)
(***************************************************************************)
EXTENDS Access, SequenceTheorems, TLAPS

-----------------------------------------------------------------------------
(* The tables are what they should be.                                      *)

GrantSet == [user : Users, role : Roles, org : Nodes \cup {None}]

TablesFit ==
  /\ active \subseteq Users
  /\ home \in [Users -> Nodes \cup {None}]
  /\ grants \subseteq GrantSet
  /\ path \in [Orgs -> Seq(Orgs)]
  /\ Whole(path)
  /\ expired \in BOOLEAN

Ops ==
  {"none", "create_grant", "delete_grant", "assign_home", "create_org", "move_org", "delete_org",
   "submit_request", "decide_request", "usage_summary"}

\* What a call carries.
CallRecord ==
  [at : {"idle", "enforced", "checked", "notify", "query", "done"}, op : Ops,
   by : Users \cup {None}, active : BOOLEAN, home : Orgs \cup {None}, licensed : BOOLEAN,
   user : Users \cup {None}, role : Roles \cup {"none"}, org : Orgs \cup {None}, under : Orgs \cup {None}, about : Nat,
   held : SUBSET Permissions, calm : BOOLEAN, all : BOOLEAN, granted : SUBSET Orgs, nodes : SUBSET Orgs]

\* What it is about is there where it is needed.
CallSet ==
  {c \in CallRecord :
     /\ c.op \in {"create_grant", "assign_home"} => c.user \in Users
     /\ c.op = "create_grant" => c.role \in Roles
     /\ c.op = "decide_request" => c.about \in Ids
     /\ c.op # "none" => c.at # "idle" /\ c.by \in Users /\ c.active}

RequestSet == {NoRequest} \cup [status : {"pending", "decided"}, by : Users, org : Nodes]

CallsFit == call \in [Ids -> CallSet] /\ request \in [Ids -> RequestSet]

-----------------------------------------------------------------------------
(* Paths.                                                                   *)

\* The prefixes of a sequence.
LEMMA Prefix ==
  ASSUME NEW s \in Seq(Orgs), NEW k \in 0..Len(s)
  PROVE  /\ SubSeq(s, 1, k) \in Seq(Orgs) /\ Len(SubSeq(s, 1, k)) = k
         /\ \A j \in 1..k : SubSeq(s, 1, k)[j] = s[j]
  BY SubSeqProperties

\* What a path in a whole tree consists of.
LEMMA OnThePath ==
  ASSUME TablesFit, NEW n \in Orgs, NEW k \in 1..Len(path[n])
  PROVE  /\ path[n][k] \in Nodes
         /\ Len(path[path[n][k]]) = k
         /\ path[path[n][k]] = SubSeq(path[n], 1, k)
         /\ k = Len(path[n]) => path[n][k] = n
<1>1. path[n] \in Seq(Orgs) /\ path[n][k] \in Orgs
  BY DEF TablesFit
<1>2. path[path[n][k]] = SubSeq(path[n], 1, k) /\ (k = Len(path[n]) => path[n][k] = n)
  BY DEF TablesFit, Whole
<1>3. Len(SubSeq(path[n], 1, k)) = k
  BY <1>1, Prefix
<1>4. path[path[n][k]] # <<>>
  BY <1>2, <1>3
<1>. QED
  BY <1>1, <1>2, <1>3, <1>4 DEF Nodes

LEMMA NodeHasPath ==
  ASSUME TablesFit, NEW n \in Nodes
  PROVE  path[n] \in Seq(Orgs) /\ Len(path[n]) \in Nat \ {0} /\ path[n][Len(path[n])] = n
<1>1. n \in Orgs /\ path[n] \in Seq(Orgs) /\ path[n] # <<>>
  BY DEF Nodes, TablesFit
<1>2. Len(path[n]) \in Nat \ {0}
  BY <1>1, EmptySeq
<1>. QED
  BY <1>1, <1>2, OnThePath

\* The nodes above a node are those whose subtree it is in.
LEMMA AboveIsSubtree ==
  ASSUME TablesFit, NEW n \in Nodes, NEW o \in Nodes
  PROVE  o \in Subtree(n) <=> n \in Above(o)
<1>1. /\ path[n] \in Seq(Orgs) /\ Len(path[n]) \in Nat \ {0} /\ path[n][Len(path[n])] = n
      /\ path[o] \in Seq(Orgs) /\ Len(path[o]) \in Nat \ {0} /\ o \in Orgs
  BY NodeHasPath DEF Nodes
<1>2. ASSUME o \in Subtree(n) PROVE n \in Above(o)
  <2>1. Len(path[n]) <= Len(path[o]) /\ SubSeq(path[o], 1, Len(path[n])) = path[n]
    BY <1>2 DEF Subtree, Within
  <2>2. path[o][Len(path[n])] = n
    BY <1>1, <2>1, Prefix
  <2>. QED
    BY <1>1, <2>1, <2>2 DEF Above, Range
<1>3. ASSUME n \in Above(o) PROVE o \in Subtree(n)
  <2>1. PICK k \in 1..Len(path[o]) : path[o][k] = n
    BY <1>1, <1>3 DEF Above, Range
  <2>2. Len(path[n]) = k /\ path[n] = SubSeq(path[o], 1, k)
    BY <1>1, <2>1, OnThePath
  <2>. QED
    BY <2>1, <2>2, <1>1 DEF Subtree, Within
<1>. QED
  BY <1>2, <1>3

LEMMA AboveAreNodes ==
  ASSUME TablesFit, NEW n \in Orgs PROVE Above(n) \subseteq Nodes
<1>1. path[n] \in Seq(Orgs)
  BY DEF TablesFit
<1>. QED
  BY <1>1, OnThePath DEF Above, Range

LEMMA AboveItself ==
  ASSUME TablesFit, NEW n \in Nodes PROVE n \in Above(n) /\ n \in Subtree(n)
<1>1. n \in Above(n)
  BY NodeHasPath DEF Above, Range
<1>. QED
  BY <1>1, AboveIsSubtree

\* Who is above a node that is above is above.
LEMMA AboveAbove ==
  ASSUME TablesFit, NEW n \in Nodes, NEW m \in Above(n), NEW l \in Above(m)
  PROVE  l \in Above(n)
<1>1. path[n] \in Seq(Orgs) /\ n \in Orgs
  BY NodeHasPath DEF Nodes
<1>2. PICK k \in 1..Len(path[n]) : path[n][k] = m
  BY <1>1 DEF Above, Range
<1>3. path[m] = SubSeq(path[n], 1, k) /\ Len(path[m]) = k
  BY <1>1, <1>2, OnThePath
<1>4. path[m] \in Seq(Orgs)
  BY <1>1, <1>2, <1>3, Prefix
<1>5. PICK j \in 1..k : path[m][j] = l
  BY <1>3, <1>4 DEF Above, Range
<1>6. path[n][j] = l
  BY <1>1, <1>2, <1>3, <1>5, Prefix
<1>. QED
  BY <1>1, <1>2, <1>5, <1>6 DEF Above, Range

\* Of two nodes above a node one is above the other.
LEMMA AboveIsAChain ==
  ASSUME TablesFit, NEW n \in Nodes, NEW m \in Above(n), NEW l \in Above(n)
  PROVE  l \in Above(m) \/ m \in Above(l)
<1>1. path[n] \in Seq(Orgs) /\ n \in Orgs
  BY NodeHasPath DEF Nodes
<1>2. PICK k \in 1..Len(path[n]) : path[n][k] = m
  BY <1>1 DEF Above, Range
<1>3. PICK j \in 1..Len(path[n]) : path[n][j] = l
  BY <1>1 DEF Above, Range
<1>4. /\ path[m] = SubSeq(path[n], 1, k) /\ Len(path[m]) = k
      /\ path[l] = SubSeq(path[n], 1, j) /\ Len(path[l]) = j
  BY <1>1, <1>2, <1>3, OnThePath
<1>5. path[m] \in Seq(Orgs) /\ path[l] \in Seq(Orgs)
  BY <1>1, <1>2, <1>3, <1>4, Prefix
<1>6. CASE j <= k
  <2>1. path[m][j] = l
    BY <1>1, <1>2, <1>3, <1>4, <1>6, Prefix
  <2>2. j \in 1..Len(path[m])
    BY <1>3, <1>4, <1>6
  <2>. QED
    BY <1>5, <2>1, <2>2 DEF Above, Range
<1>7. CASE k <= j
  <2>1. path[l][k] = m
    BY <1>1, <1>2, <1>3, <1>4, <1>7, Prefix
  <2>2. k \in 1..Len(path[l])
    BY <1>2, <1>4, <1>7
  <2>. QED
    BY <1>5, <2>1, <2>2 DEF Above, Range
<1>. QED
  BY <1>6, <1>7
-----------------------------------------------------------------------------
(* Permissions.                                                             *)

\* What is particular to the permissions that are asked for by name.
LEMMA Registry ==
  /\ {"key:write", "cost:read", "org:read", "org:write"} \cap GlobalPermissions = {}
  /\ {"cost:read_all", "audit:read"} \subseteq GlobalPermissions
  /\ Permissions = OrgPermissions \cup GlobalPermissions
  /\ OrgPermissions \cap GlobalPermissions = {}
  BY DEF OrgPermissions, GlobalPermissions, Permissions

LEMMA BuiltinRoles ==
  /\ \A r \in Roles : RolePermissions[r] \subseteq Permissions /\ "org:read" \in RolePermissions[r]
  /\ RolePermissions["developer"] = {"key:request", "org:read"}
  BY DEF Roles, RolePermissions, OrgPermissions, GlobalPermissions, Permissions

\* Which grants apply to a node, and which to the whole tree.
LEMMA Applies ==
  ASSUME TablesFit, NEW g \in grants, NEW n \in Nodes, NEW scope
  PROVE  /\ GrantApplies(g, "org", n) <=> g.org = None \/ g.org \in Above(n)
         /\ GrantApplies(g, "global", n) <=> g.org = None
         /\ GrantApplies(g, scope, None) <=> g.org = None
<1>1. n # None
  BY NoneAssumption DEF Nodes
<1>. QED
  BY <1>1 DEF GrantApplies

\* The permissions that reach a target, one by one.
LEMMA Effective ==
  ASSUME NEW s, NEW scope, NEW target, NEW p
  PROVE  p \in EffectivePermissions(s, scope, target) <=>
           \/ \E g \in GrantsOf(s.user) : GrantApplies(g, scope, target) /\ p \in Given(g)
           \/ p \in Baseline(s, scope, target)
<1>. DEFINE A == {h \in GrantsOf(s.user) : GrantApplies(h, scope, target)}
            W == {Given(g) : g \in A}
            B == Baseline(s, scope, target)
<1>1. EffectivePermissions(s, scope, target) = (UNION W) \cup B
  BY DEF EffectivePermissions
<1>2. \A g : g \in A <=> g \in GrantsOf(s.user) /\ GrantApplies(g, scope, target)
  BY DEF GrantApplies
<1>3. \A w : w \in W <=> \E g \in A : w = Given(g)
  OBVIOUS
<1>. HIDE DEF A, W, B
<1>4. p \in EffectivePermissions(s, scope, target) <=> (\E w \in W : p \in w) \/ p \in B
  BY <1>1
<1>5. (\E w \in W : p \in w) <=> \E g \in A : p \in Given(g)
  BY <1>3
<1>6. (\E g \in A : p \in Given(g)) <=> \E g \in GrantsOf(s.user) : GrantApplies(g, scope, target) /\ p \in Given(g)
  BY <1>2, Zenon
<1>. QED
  BY <1>4, <1>5, <1>6 DEF B

\* The permissions of an active user at a node, where they come from.
LEMMA WhatIsHeld ==
  ASSUME TablesFit, NEW u \in Users, NEW h, NEW s, s = [user |-> u, active |-> TRUE, home |-> h],
         NEW n \in Nodes, NEW p
  PROVE  /\ p \in HeldAt(s, n) <=>
              \/ \E g \in GrantsOf(u) : (g.org = None \/ (g.org \in Above(n) /\ p \notin GlobalPermissions))
                                       /\ p \in RolePermissions[g.role]
              \/ p \in {"key:request", "org:read"} /\ h \in Nodes /\ h \in Above(n)
         /\ Can(s, p, n) <=> p \in HeldAt(s, n)
<1>1. s.user = u /\ s.active /\ s.home = h /\ GrantsOf(u) \subseteq grants
  BY DEF GrantsOf
<1>2. n # None
  BY NoneAssumption DEF Nodes
<1>3. \A g \in GrantsOf(u) : /\ GrantApplies(g, "org", n) <=> g.org = None \/ g.org \in Above(n)
                             /\ GrantApplies(g, "global", n) <=> g.org = None
  BY <1>1, Applies
<1>4. \A g \in GrantsOf(u) : p \in Given(g) <=> p \in RolePermissions[g.role] /\ (g.org = None \/ p \notin GlobalPermissions)
  BY DEF Given
<1>5. p \in Baseline(s, "org", n) <=> p \in {"key:request", "org:read"} /\ h \in Nodes /\ h \in Above(n)
  <2>1. p \in {"key:request", "org:read"} <=> p \in RolePermissions["developer"] \ GlobalPermissions
    BY BuiltinRoles DEF GlobalPermissions
  <2>2. h \in Nodes => (n \in Subtree(h) <=> h \in Above(n))
    BY AboveIsSubtree
  <2>. QED
    BY <1>1, <1>2, <2>1, <2>2 DEF Baseline
<1>6. p \notin Baseline(s, "global", n)
  BY DEF Baseline
<1>7. p \in EffectivePermissions(s, "org", n) <=>
        \/ \E g \in GrantsOf(u) : GrantApplies(g, "org", n) /\ p \in Given(g)
        \/ p \in Baseline(s, "org", n)
  BY <1>1, Effective
<1>8. p \in EffectivePermissions(s, "global", n) <=>
        \E g \in GrantsOf(u) : GrantApplies(g, "global", n) /\ p \in Given(g)
  BY <1>1, <1>6, Effective
<1>9. p \in {"key:request", "org:read"} => p \notin GlobalPermissions
  BY DEF GlobalPermissions
<1>10. p \in HeldAt(s, n) <=>
         IF p \in GlobalPermissions THEN p \in EffectivePermissions(s, "global", n)
                                    ELSE p \in EffectivePermissions(s, "org", n)
  BY <1>1 DEF HeldAt
<1>11. Can(s, p, n) <=> p \in HeldAt(s, n)
  BY <1>1, <1>10 DEF Can, Scope
<1>12. CASE p \in GlobalPermissions
  BY <1>3, <1>4, <1>8, <1>9, <1>10, <1>11, <1>12
<1>13. CASE p \notin GlobalPermissions
  BY <1>3, <1>4, <1>5, <1>7, <1>10, <1>11, <1>13
<1>. QED
  BY <1>12, <1>13

\* On the whole tree global grants alone count.
LEMMA WhatIsHeldEverywhere ==
  ASSUME TablesFit, NEW u \in Users, NEW h, NEW s, s = [user |-> u, active |-> TRUE, home |-> h], NEW p
  PROVE  /\ p \in HeldAt(s, None) <=> \E g \in GrantsOf(u) : g.org = None /\ p \in RolePermissions[g.role]
         /\ Can(s, p, None) <=> p \in HeldAt(s, None)
<1>1. s.user = u /\ s.active
  OBVIOUS
<1>2. \A scope : \A g \in GrantsOf(u) : GrantApplies(g, scope, None) <=> g.org = None
  BY DEF GrantApplies
<1>3. \A g \in GrantsOf(u) : g.org = None => Given(g) = RolePermissions[g.role]
  BY DEF Given
<1>4. \A scope : Baseline(s, scope, None) = {}
  BY DEF Baseline
<1>5. ASSUME NEW scope
      PROVE  p \in EffectivePermissions(s, scope, None) <=>
               \E g \in GrantsOf(u) : g.org = None /\ p \in RolePermissions[g.role]
  <2>1. p \in EffectivePermissions(s, scope, None) <=>
          \E g \in GrantsOf(u) : GrantApplies(g, scope, None) /\ p \in Given(g)
    BY <1>1, <1>4, Effective
  <2>. QED
    BY <1>2, <1>3, <2>1
<1>. QED
  BY <1>1, <1>5 DEF HeldAt, Can

LEMMA InScope ==
  ASSUME NEW u \in Users, NEW h, NEW s, s = [user |-> u, active |-> TRUE, home |-> h], NEW p
  PROVE  /\ Scopes(s, p).global <=> \E g \in GrantsOf(u) : p \in RolePermissions[g.role] /\ g.org = None
         /\ \A n : n \in Scopes(s, p).nodes <=>
                    n # None /\ \E g \in GrantsOf(u) : p \in RolePermissions[g.role] /\ g.org = n
  BY DEF Scopes
-----------------------------------------------------------------------------
(* The answers agree.                                                       *)

LEMMA WhereGrantsAre ==
  ASSUME TablesFit, NEW u \in Users, NEW g \in GrantsOf(u)
  PROVE  g \in grants /\ g.user = u /\ g.role \in Roles /\ g.org \in Nodes \cup {None}
  BY DEF TablesFit, GrantSet, GrantsOf

LEMMA SubjectIs ==
  ASSUME TablesFit, NEW u \in active
  PROVE  /\ u \in Users /\ home[u] \in Nodes \cup {None}
         /\ SubjectOf(u) = [user |-> u, active |-> TRUE, home |-> home[u]]
  BY DEF TablesFit, SubjectOf

\* What is listed for approval.
LEMMA ToApproveAgrees ==
  ASSUME TablesFit, NEW u \in active
  PROVE  /\ ToApprove(SubjectOf(u)) = {n \in Nodes : Can(SubjectOf(u), "key:write", n)}
         /\ ToApprove(SubjectOf(u)) = {n \in Nodes : u \in ApproversOf(n)}
<1>. DEFINE s == SubjectOf(u)
            V == {n \in Nodes : Can(s, "key:write", n)}
            W == {n \in Nodes : u \in ApproversOf(n)}
            T == ToApprove(s)
            sc == Scopes(s, "key:write")
<1>1. u \in Users /\ s = [user |-> u, active |-> TRUE, home |-> home[u]]
  BY SubjectIs
<1>2. ASSUME NEW n \in Nodes
      PROVE  /\ n \in V <=> \E g \in GrantsOf(u) : "key:write" \in RolePermissions[g.role] /\ (g.org = None \/ g.org \in Above(n))
             /\ n \in W <=> \E g \in GrantsOf(u) : "key:write" \in RolePermissions[g.role] /\ (g.org = None \/ g.org \in Above(n))
  <2>1. n \in V <=> "key:write" \in HeldAt(s, n)
    BY <1>1, WhatIsHeld
  <2>2. "key:write" \in HeldAt(s, n) <=>
          \E g \in GrantsOf(u) : "key:write" \in RolePermissions[g.role] /\ (g.org = None \/ g.org \in Above(n))
    BY <1>1, WhatIsHeld, Registry
  <2>3. n \in W <=> \E g \in GrantsOf(u) : "key:write" \in RolePermissions[g.role] /\ (g.org = None \/ g.org \in Above(n))
    BY DEF ApproversOf
  <2>. QED
    BY <2>1, <2>2, <2>3
<1>3. /\ sc.global <=> \E g \in GrantsOf(u) : "key:write" \in RolePermissions[g.role] /\ g.org = None
      /\ \A n : n \in sc.nodes <=> n # None /\ \E g \in GrantsOf(u) : "key:write" \in RolePermissions[g.role] /\ g.org = n
  BY <1>1, InScope
<1>4. T \subseteq Nodes
  BY DEF ToApprove, Subtree
<1>5. ASSUME NEW n \in Nodes
      PROVE  n \in T <=> sc.global \/ \E r \in sc.nodes \cap Nodes : r \in Above(n)
  <2>1. \A r \in Nodes : n \in Subtree(r) <=> r \in Above(n)
    BY AboveIsSubtree
  <2>2. CASE sc.global
    BY <2>2 DEF ToApprove
  <2>3. CASE ~sc.global
    <3>1. T = UNION {Subtree(r) : r \in sc.nodes \cap Nodes}
      BY <2>3 DEF ToApprove
    <3>. QED
      BY <2>1, <2>3, <3>1
  <2>. QED
    BY <2>2, <2>3
<1>6. ASSUME NEW n \in Nodes
      PROVE  n \in T <=> \E g \in GrantsOf(u) : "key:write" \in RolePermissions[g.role] /\ (g.org = None \/ g.org \in Above(n))
  <2>1. n \in Orgs /\ Above(n) \subseteq Nodes /\ None \notin Nodes
    BY AboveAreNodes, NoneAssumption DEF Nodes
  <2>. QED
    BY <1>3, <1>5, <2>1
<1>7. V \subseteq Nodes /\ W \subseteq Nodes
  OBVIOUS
<1>. HIDE DEF T, V, W
<1>8. T = V /\ T = W
  BY <1>2, <1>4, <1>6, <1>7
<1>. QED
  BY <1>8 DEF T, V, W

\* What is shown.
LEMMA VisibleAgrees ==
  ASSUME TablesFit, NEW u \in active
  PROVE  LET s == SubjectOf(u)
             readable == {n \in Nodes : Can(s, "org:read", n)} IN
         VisibleOrgs(s) = readable \cup {n \in Nodes : Subtree(n) \cap readable # {}}
<1>. DEFINE s == SubjectOf(u)
            readable == {n \in Nodes : Can(s, "org:read", n)}
            sc == Scopes(s, "org:read")
            roots == (sc.nodes \cup {s.home}) \cap Nodes
            V == VisibleOrgs(s)
            W == {n \in Nodes : Subtree(n) \cap readable # {}}
<1>1. u \in Users /\ s = [user |-> u, active |-> TRUE, home |-> home[u]]
  BY SubjectIs
<1>2. /\ sc.global <=> \E g \in GrantsOf(u) : "org:read" \in RolePermissions[g.role] /\ g.org = None
      /\ \A n : n \in sc.nodes <=> n # None /\ \E g \in GrantsOf(u) : "org:read" \in RolePermissions[g.role] /\ g.org = n
  BY <1>1, InScope
<1>3. \A n \in Nodes : Above(n) \subseteq Nodes /\ n # None
  BY AboveAreNodes, NoneAssumption DEF Nodes
<1>4. ASSUME NEW n \in Nodes
      PROVE  n \in readable <=> sc.global \/ \E r \in roots : r \in Above(n)
  <2>1. n \in readable <=>
          \/ \E g \in GrantsOf(u) : "org:read" \in RolePermissions[g.role] /\ (g.org = None \/ g.org \in Above(n))
          \/ home[u] \in Nodes /\ home[u] \in Above(n)
    BY <1>1, WhatIsHeld, Registry
  <2>2. (\E r \in roots : r \in Above(n)) <=>
          (\E r \in sc.nodes : r \in Above(n)) \/ (home[u] \in Nodes /\ home[u] \in Above(n))
    <3>1. s.home = home[u]
      BY <1>1
    <3>2. \A r : r \in roots <=> (r \in sc.nodes \/ r = home[u]) /\ r \in Nodes
      BY <3>1
    <3>. HIDE DEF roots, sc
    <3>. QED
      BY <1>3, <3>2
  <2>. QED
    BY <1>2, <1>3, <2>1, <2>2
<1>5. ASSUME NEW n \in Nodes
      PROVE  n \in V <=> sc.global \/ \E r \in roots : r \in Above(n) \/ n \in Above(r)
  <2>1. \A r \in Nodes : (n \in Subtree(r) <=> r \in Above(n)) /\ (r \in Subtree(n) <=> n \in Above(r))
    BY AboveIsSubtree
  <2>2. V = IF sc.global THEN Nodes ELSE {o \in Nodes : \E r \in roots : o \in Subtree(r) \/ r \in Subtree(o)}
    BY DEF VisibleOrgs
  <2>. HIDE DEF V, sc, roots
  <2>3. n \in V <=> sc.global \/ \E r \in roots : n \in Subtree(r) \/ r \in Subtree(n)
    BY <2>2
  <2>4. roots \subseteq Nodes
    BY DEF roots
  <2>. QED
    BY <2>1, <2>3, <2>4
<1>6. ASSUME NEW n \in Nodes
      PROVE  n \in W <=> \E m \in readable : n \in Above(m)
  <2>1. \A m \in Nodes : m \in Subtree(n) <=> n \in Above(m)
    BY AboveIsSubtree
  <2>. QED
    BY <2>1
<1>7. roots \subseteq Nodes /\ readable \subseteq Nodes /\ W \subseteq Nodes
  OBVIOUS
<1>8. V \subseteq Nodes
  BY DEF VisibleOrgs
<1>. HIDE DEF V, W, readable, sc, roots
<1>9. \A n \in Nodes : n \in Above(n)
  BY AboveItself
<1>10. ASSUME NEW n \in V PROVE n \in readable \cup W
  <2>1. CASE sc.global
    BY <1>4, <1>8, <2>1
  <2>2. ASSUME NEW r \in roots, r \in Above(n) PROVE n \in readable
    BY <1>4, <1>8, <2>2
  <2>3. ASSUME NEW r \in roots, n \in Above(r) PROVE n \in W
    <3>1. r \in readable
      BY <1>4, <1>7, <1>9
    <3>. QED
      BY <1>6, <1>8, <2>3, <3>1
  <2>. QED
    BY <1>5, <1>8, <2>1, <2>2, <2>3
<1>11. ASSUME NEW n \in readable PROVE n \in V
  BY <1>4, <1>5, <1>7
<1>12. ASSUME NEW n \in W PROVE n \in V
  <2>1. PICK m \in readable : n \in Above(m)
    BY <1>6, <1>7
  <2>2. CASE sc.global
    BY <1>5, <1>7, <2>2
  <2>3. CASE ~sc.global
    <3>1. PICK r \in roots : r \in Above(m)
      BY <1>4, <1>7, <2>1, <2>3
    <3>2. r \in Above(n) \/ n \in Above(r)
      BY <1>7, <2>1, <3>1, AboveIsAChain
    <3>. QED
      BY <1>5, <1>7, <3>2
  <2>. QED
    BY <2>2, <2>3
<1>13. V = readable \cup W
  BY <1>10, <1>11, <1>12
<1>. QED
  BY <1>13 DEF V, W, readable

\* Who is asked to approve.
LEMMA ApproversAgree ==
  ASSUME TablesFit, NEW n \in Nodes
  PROVE  ApproversOf(n) = {u \in Users : Can(SubjectOf(u), "key:write", n)}
<1>1. ASSUME NEW u \in active PROVE u \in ApproversOf(n) <=> Can(SubjectOf(u), "key:write", n)
  BY ToApproveAgrees
<1>2. ASSUME NEW u \in Users, u \notin active PROVE u \notin ApproversOf(n) /\ ~Can(SubjectOf(u), "key:write", n)
  BY <1>2 DEF ApproversOf, Can, SubjectOf
<1>3. ApproversOf(n) \subseteq Users
  BY DEF ApproversOf, TablesFit
<1>. QED
  BY <1>1, <1>2, <1>3

\* Whom the page of a node lists.
LEMMA ListedAgrees ==
  ASSUME TablesFit, NEW n \in Nodes
  PROVE  {e.grant.user : e \in EffectiveGrants(n)} = {u \in Users : GivenAt(u, n) # {}}
<1>. DEFINE Given1(u) == \E g \in GrantsOf(u) : g.org = None \/ g.org \in Above(n)
<1>2. ASSUME NEW u
      PROVE  (\E e \in EffectiveGrants(n) : e.grant.user = u) <=> Given1(u)
  <2>. DEFINE Source(g) == CASE g.org = None -> "global" [] g.org = n -> "direct" [] OTHER -> "inherited"
              E == {[grant |-> g, source |-> Source(g)] : g \in {h \in grants : h.org \in Above(n) \cup {None}}}
  <2>1. EffectiveGrants(n) = E
    BY DEF EffectiveGrants
  <2>. HIDE DEF Source
  <2>. DEFINE G == {h \in grants : h.org \in Above(n) \cup {None}}
  <2>2. \A e : e \in E <=> \E g \in G : e = [grant |-> g, source |-> Source(g)]
    OBVIOUS
  <2>3. \A g : g \in G <=> g \in grants /\ g.org \in Above(n) \cup {None}
    OBVIOUS
  <2>. HIDE DEF E, G
  <2>4. (\E e \in E : e.grant.user = u) <=> \E g \in G : g.user = u
    <3>1. ASSUME NEW e \in E, e.grant.user = u PROVE \E g \in G : g.user = u
      BY <2>2, <3>1
    <3>2. ASSUME NEW g \in G, g.user = u PROVE \E e \in E : e.grant.user = u
      <4>. DEFINE e == [grant |-> g, source |-> Source(g)]
      <4>1. e \in E /\ e.grant = g
        BY <2>2
      <4>. QED
        BY <3>2, <4>1
    <3>. QED
      BY <3>1, <3>2
  <2>. QED
    BY <2>1, <2>3, <2>4 DEF GrantsOf
<1>3. None \notin Nodes
  BY NoneAssumption DEF Nodes
<1>4. ASSUME NEW u \in Users
      PROVE  GivenAt(u, n) # {} <=> Given1(u)
  <2>. DEFINE s == [user |-> u, active |-> TRUE, home |-> None]
  <2>1. \A p : p \in HeldAt(s, n) <=>
              \/ \E g \in GrantsOf(u) : (g.org = None \/ (g.org \in Above(n) /\ p \notin GlobalPermissions))
                                       /\ p \in RolePermissions[g.role]
              \/ p \in {"key:request", "org:read"} /\ None \in Nodes /\ None \in Above(n)
    BY WhatIsHeld
  <2>2. \A g \in GrantsOf(u) : "org:read" \in RolePermissions[g.role]
    BY WhereGrantsAre, BuiltinRoles
  <2>3. HeldAt(s, n) # {} <=> Given1(u)
    BY <1>3, <2>1, <2>2, Registry
  <2>. QED
    BY <2>3 DEF GivenAt
<1>5. ASSUME NEW u, Given1(u) PROVE u \in Users
  BY <1>5 DEF GrantsOf, TablesFit, GrantSet
<1>. HIDE DEF Given1
<1>6. \A u : u \in {e.grant.user : e \in EffectiveGrants(n)} <=> Given1(u)
  BY <1>2
<1>7. \A u : u \in {v \in Users : GivenAt(v, n) # {}} <=> Given1(u)
  BY <1>4, <1>5
<1>. QED
  BY <1>6, <1>7

\* Which workbenches appear.
LEMMA WorkbenchesAgree ==
  ASSUME TablesFit, NEW u \in active
  PROVE  LET s == SubjectOf(u)
             usable == {w \in DOMAIN Requires :
                          Requires[w] = {} \/ \E p \in Requires[w], target \in Nodes \cup {None} : Can(s, p, target)}
             heldOnNode == UNION {RolePermissions[g.role] : g \in {h \in GrantsOf(u) : h.org # None}} IN
         /\ usable \subseteq Workbenches(s)
         /\ \A w \in Workbenches(s) \ usable : Requires[w] \cap heldOnNode \cap GlobalPermissions # {}
<1>. DEFINE s == SubjectOf(u)
            held == UNION {HeldAt(s, target) : target \in Nodes \cup {None}}
            usable == {w \in DOMAIN Requires :
                         Requires[w] = {} \/ \E p \in Requires[w], target \in Nodes \cup {None} : Can(s, p, target)}
            OnNodes == {h \in GrantsOf(u) : h.org # None}
            heldOnNode == UNION {RolePermissions[g.role] : g \in OnNodes}
<1>1. u \in Users /\ s = [user |-> u, active |-> TRUE, home |-> home[u]]
  BY SubjectIs
<1>2. \A p : p \in held <=> p \in HeldAt(s, None) \/ \E n \in Nodes : p \in HeldAt(s, n)
  OBVIOUS
<1>0. \A w \in DOMAIN Requires : \A p \in Requires[w] :
        (\E target \in Nodes \cup {None} : Can(s, p, target)) <=> p \in held
  <2>1. \A p, target : Can(s, p, target) /\ target \in Nodes \cup {None} => p \in HeldAt(s, target)
    BY <1>1, WhatIsHeld, WhatIsHeldEverywhere
  <2>2. \A p, target : target \in Nodes \cup {None} /\ p \in HeldAt(s, target) => Can(s, p, target)
    BY <1>1, WhatIsHeld, WhatIsHeldEverywhere
  <2>. QED
    BY <1>2, <2>1, <2>2
<1>3. \A p : p \in heldOnNode <=> \E g \in GrantsOf(u) : g.org # None /\ p \in RolePermissions[g.role]
  OBVIOUS
<1>4. \A w \in DOMAIN Requires : \A p \in Requires[w] : p \notin {"key:request", "org:read"}
  BY DEF Requires
<1>5. ASSUME NEW p, p \in held, p \notin {"key:request", "org:read"}
      PROVE  \E g \in GrantsOf(u) : p \in RolePermissions[g.role]
  BY <1>1, <1>2, <1>5, WhatIsHeld, WhatIsHeldEverywhere
<1>6. ASSUME NEW g \in GrantsOf(u), NEW p \in RolePermissions[g.role], p \notin held
      PROVE  g.org # None /\ p \in GlobalPermissions
  <2>1. g.org \in Nodes \cup {None}
    BY <1>1, WhereGrantsAre
  <2>2. CASE g.org = None
    BY <1>1, <1>2, <1>6, <2>2, WhatIsHeldEverywhere
  <2>3. CASE g.org \in Nodes
    <3>1. g.org # None /\ g.org \in Above(g.org)
      BY <2>3, AboveItself, NoneAssumption DEF Nodes
    <3>2. p \notin GlobalPermissions => p \in HeldAt(s, g.org)
      BY <1>1, <2>3, <3>1, WhatIsHeld
    <3>. QED
      BY <1>2, <1>6, <2>3, <3>1, <3>2
  <2>. QED
    BY <2>1, <2>2, <2>3
<1>7. \A perms : HoldsAnywhere(s, perms) <=> \E p \in perms : \E g \in GrantsOf(u) : p \in RolePermissions[g.role]
  <2>1. \A p : (Scopes(s, p).global \/ Scopes(s, p).nodes # {}) <=> \E g \in GrantsOf(u) : p \in RolePermissions[g.role]
    <3>1. \A p : /\ Scopes(s, p).global <=> \E g \in GrantsOf(u) : p \in RolePermissions[g.role] /\ g.org = None
                 /\ \A n : n \in Scopes(s, p).nodes <=>
                          n # None /\ \E g \in GrantsOf(u) : p \in RolePermissions[g.role] /\ g.org = n
      BY <1>1, InScope
    <3>. QED
      BY <3>1
  <2>. QED
    BY <2>1 DEF HoldsAnywhere
<1>11. \A w : w \in usable <=> w \in DOMAIN Requires /\ (Requires[w] = {} \/ \E p \in Requires[w] : p \in held)
  BY <1>0
<1>. HIDE DEF held, heldOnNode, usable
<1>8. \A w : w \in Workbenches(s) <=> w \in DOMAIN Requires /\ (Requires[w] = {} \/ HoldsAnywhere(s, Requires[w]))
  BY DEF Workbenches
<1>9. ASSUME NEW w \in usable PROVE w \in Workbenches(s)
  <2>1. CASE Requires[w] = {}
    BY <1>8, <1>11, <2>1
  <2>2. ASSUME NEW p \in Requires[w], p \in held PROVE w \in Workbenches(s)
    BY <1>4, <1>5, <1>7, <1>8, <1>11, <2>2
  <2>. QED
    BY <1>11, <2>1, <2>2
<1>10. ASSUME NEW w \in Workbenches(s), w \notin usable
       PROVE  Requires[w] \cap heldOnNode \cap GlobalPermissions # {}
  <2>1. PICK p \in Requires[w], g \in GrantsOf(u) : p \in RolePermissions[g.role]
    BY <1>7, <1>8, <1>10, <1>11
  <2>2. p \notin held
    BY <1>8, <1>10, <1>11, <2>1
  <2>3. g.org # None /\ p \in GlobalPermissions
    BY <1>6, <2>1, <2>2
  <2>. QED
    BY <1>3, <2>1, <2>3
<1>. QED
  BY <1>9, <1>10 DEF usable, heldOnNode

LEMMA TablesAgree == TablesFit => Agree
<1>. SUFFICES ASSUME TablesFit PROVE Agree
  OBVIOUS
<1>1. \A n \in Nodes : ApproversOf(n) = {u \in Users : Can(SubjectOf(u), "key:write", n)}
  BY ApproversAgree
<1>2. \A n \in Nodes : {e.grant.user : e \in EffectiveGrants(n)} = {u \in Users : GivenAt(u, n) # {}}
  BY ListedAgrees
<1>3. ASSUME NEW u \in active
      PROVE  LET s == SubjectOf(u)
                 readable == {n \in Nodes : Can(s, "org:read", n)}
                 usable == {w \in DOMAIN Requires :
                              Requires[w] = {} \/ \E p \in Requires[w], target \in Nodes \cup {None} : Can(s, p, target)}
                 heldOnNode == UNION {RolePermissions[g.role] : g \in {h \in GrantsOf(u) : h.org # None}} IN
             /\ ToApprove(s) = {n \in Nodes : Can(s, "key:write", n)}
             /\ VisibleOrgs(s) = readable \cup {n \in Nodes : Subtree(n) \cap readable # {}}
             /\ usable \subseteq Workbenches(s)
             /\ \A w \in Workbenches(s) \ usable : Requires[w] \cap heldOnNode \cap GlobalPermissions # {}
  BY ToApproveAgrees, VisibleAgrees, WorkbenchesAgree
<1>. QED
  BY <1>1, <1>2, <1>3, Zenon DEF Agree
-----------------------------------------------------------------------------
(* How calls go.                                                            *)

LEMMA NoCallFits == NoCall \in CallSet /\ Over \in CallSet /\ NoCall.op = "none" /\ Over.op = "none"
                    /\ Over.at = "done" /\ NoCall.at = "idle"
<1>1. NoCall \in CallRecord
  BY DEF NoCall, CallRecord, Ops
<1>2. Over \in CallRecord /\ Over.op = "none" /\ Over.at = "done"
  BY DEF Over, NoCall, CallRecord, Ops
<1>. QED
  BY <1>1, <1>2 DEF NoCall, CallSet

Inv == TablesFit /\ CallsFit

LEMMA AdmitFits ==
  ASSUME Inv, NEW i \in Ids, NEW op \in Ops, NEW u, NEW target, NEW args \in CallRecord, Admit(i, op, u, target, args),
         op \in {"create_grant", "assign_home"} => args.user \in Users,
         op = "create_grant" => args.role \in Roles,
         op = "decide_request" => args.about \in Ids
  PROVE  /\ call' \in [Ids -> CallSet] /\ \A j \in Ids \ {i} : call'[j] = call[j]
         /\ u \in active /\ Enforce(SubjectOf(u), op, target) /\ Unused(i)
         /\ call'[i].at = "enforced" /\ call'[i].op = op /\ call'[i].by = u /\ call'[i].active = TRUE
         /\ call'[i].home = home[u] /\ call'[i].licensed = ~expired
         /\ call'[i].user = args.user /\ call'[i].role = args.role /\ call'[i].org = args.org
         /\ call'[i].under = args.under /\ call'[i].held = args.held
         /\ UNCHANGED <<tables, request, mail, worker, faults>>
<1>. DEFINE l == ~expired
            c == [args EXCEPT !.at = "enforced", !.op = op, !.by = u, !.active = TRUE, !.home = home[u], !.licensed = l]
<1>1. /\ u \in active /\ Enforce(SubjectOf(u), op, target) /\ Unused(i)
      /\ call' = [call EXCEPT ![i] = c] /\ UNCHANGED <<tables, request, mail, worker, faults>>
  BY DEF Admit, outbox
<1>2. u \in Users /\ home[u] \in Orgs \cup {None} /\ l \in BOOLEAN
  BY <1>1 DEF Inv, TablesFit, Nodes
<1>. HIDE DEF l
<1>3. /\ c \in CallRecord
      /\ c.at = "enforced" /\ c.op = op /\ c.by = u /\ c.active = TRUE /\ c.home = home[u] /\ c.licensed = l
      /\ c.user = args.user /\ c.role = args.role /\ c.org = args.org /\ c.under = args.under /\ c.about = args.about
      /\ c.held = args.held
  BY <1>2 DEF CallRecord
<1>. HIDE DEF c
<1>4. c \in CallSet
  BY <1>2, <1>3 DEF CallSet
<1>5. call'[i] = c /\ call' \in [Ids -> CallSet] /\ \A j \in Ids \ {i} : call'[j] = call[j]
  BY <1>1, <1>4 DEF Inv, CallsFit
<1>. QED
  BY <1>1, <1>3, <1>5 DEF l

LEMMA AskFits ==
  ASSUME Inv, NEW i \in Ids, NEW allowed, NEW held \in SUBSET Permissions, Ask(i, allowed, held), call[i].at = "enforced"
  PROVE  /\ call' \in [Ids -> CallSet] /\ \A j \in Ids \ {i} : call'[j] = call[j]
         /\ \/ call'[i] = Over
            \/ allowed /\ call'[i] = [call[i] EXCEPT !.at = "checked", !.held = held]
         /\ UNCHANGED <<tables, request, mail, worker, faults>>
<1>. DEFINE c == [call[i] EXCEPT !.at = "checked", !.held = held]
<1>1. call[i] \in CallSet /\ call[i] \in CallRecord
  BY DEF Inv, CallsFit, CallSet
<1>2. c \in CallRecord /\ c.user = call[i].user /\ c.role = call[i].role /\ c.about = call[i].about /\ c.op = call[i].op
      /\ c.by = call[i].by /\ c.active = call[i].active /\ c.at = "checked"
  BY <1>1 DEF CallRecord
<1>3. call' = [call EXCEPT ![i] = IF allowed THEN c ELSE Over] /\ UNCHANGED <<tables, request, mail, worker, faults>>
  BY DEF Ask, outbox
<1>. HIDE DEF c
<1>4. c \in CallSet
  BY <1>1, <1>2 DEF CallSet
<1>5. call' \in [Ids -> CallSet] /\ \A j \in Ids \ {i} : call'[j] = call[j]
  BY <1>3, <1>4, NoCallFits DEF Inv, CallsFit
<1>6. (allowed /\ call'[i] = c) \/ call'[i] = Over
  BY <1>3 DEF Inv, CallsFit
<1>. QED
  BY <1>3, <1>5, <1>6 DEF c

LEMMA WrittenFits ==
  ASSUME Inv, NEW i \in Ids, Written(i)
  PROVE  /\ call' \in [Ids -> CallSet] /\ call'[i] = Over
         /\ \A j \in Ids \ {i} : call'[j] = call[j] \/ (call[j].op = "usage_summary" /\ call'[j] = [call[j] EXCEPT !.calm = FALSE])
         /\ \A j \in Ids \ {i} : call[j].op = "usage_summary" => call'[j].calm = FALSE
         /\ UNCHANGED <<request, mail, worker, faults>>
<1>1. /\ call' = [j \in Ids |-> IF j = i THEN Over
                               ELSE IF call[j].op = "usage_summary" THEN [call[j] EXCEPT !.calm = FALSE] ELSE call[j]]
      /\ UNCHANGED <<request, mail, worker, faults>>
  BY DEF Written, outbox
<1>2. ASSUME NEW j \in Ids, call[j].op = "usage_summary"
      PROVE  [call[j] EXCEPT !.calm = FALSE] \in CallSet /\ [call[j] EXCEPT !.calm = FALSE].calm = FALSE
  <2>. DEFINE c == [call[j] EXCEPT !.calm = FALSE]
  <2>1. call[j] \in CallSet /\ call[j] \in CallRecord
    BY DEF Inv, CallsFit, CallSet
  <2>2. c \in CallRecord /\ c.user = call[j].user /\ c.role = call[j].role /\ c.about = call[j].about /\ c.op = call[j].op
        /\ c.by = call[j].by /\ c.active = call[j].active /\ c.at = call[j].at /\ c.calm = FALSE
    BY <2>1 DEF CallRecord
  <2>. HIDE DEF c
  <2>3. c \in CallSet
    BY <2>1, <2>2 DEF CallSet
  <2>. QED
    BY <2>2, <2>3 DEF c
<1>3. \A j \in Ids : call'[j] = IF j = i THEN Over ELSE IF call[j].op = "usage_summary" THEN [call[j] EXCEPT !.calm = FALSE] ELSE call[j]
  BY <1>1
<1>4. \A j \in Ids : call'[j] \in CallSet
  BY <1>2, <1>3, NoCallFits DEF Inv, CallsFit
<1>5. call' = [j \in Ids |-> call'[j]]
  BY <1>1
<1>. QED
  BY <1>1, <1>2, <1>3, <1>4, <1>5
-----------------------------------------------------------------------------
(* What the statements leave of the tables.                                 *)

LEMMA TablesStay == TablesFit /\ UNCHANGED tables => TablesFit' /\ Nodes' = Nodes
  BY DEF TablesFit, tables, Whole, Nodes, GrantSet

\* The requests keep the nodes they are about.
LEMMA RequestsStay ==
  ASSUME Inv, UNCHANGED request, \A n \in Nodes \ Nodes' : \A j \in Ids : request[j].org # n
  PROVE  request' \in [Ids -> RequestSet']
<1>1. ASSUME NEW j \in Ids PROVE request[j] \in RequestSet'
  <2>1. request[j] \in RequestSet
    BY DEF Inv, CallsFit
  <2>2. request[j] # NoRequest => request[j].org \in Nodes'
    BY <2>1 DEF RequestSet
  <2>. QED
    BY <2>1, <2>2 DEF RequestSet, NoRequest
<1>. QED
  BY <1>1 DEF Inv, CallsFit

\* A path that is extended.
LEMMA Extended ==
  ASSUME NEW s \in Seq(Orgs), NEW n \in Orgs
  PROVE  /\ Append(s, n) \in Seq(Orgs) /\ Len(Append(s, n)) = Len(s) + 1 /\ Append(s, n)[Len(s) + 1] = n
         /\ Append(s, n) # <<>>
         /\ \A k \in 1..Len(s) : Append(s, n)[k] = s[k] /\ SubSeq(Append(s, n), 1, k) = SubSeq(s, 1, k)
         /\ SubSeq(Append(s, n), 1, Len(s) + 1) = Append(s, n)
<1>1. /\ Append(s, n) \in Seq(Orgs) /\ Len(Append(s, n)) = Len(s) + 1 /\ Append(s, n)[Len(s) + 1] = n
      /\ \A k \in 1..Len(s) : Append(s, n)[k] = s[k]
  BY AppendProperties
<1>2. Append(s, n) # <<>>
  BY <1>1, EmptySeq
<1>3. ASSUME NEW k \in 1..Len(s) PROVE SubSeq(Append(s, n), 1, k) = SubSeq(s, 1, k)
  <2>1. /\ SubSeq(s, 1, k) \in Seq(Orgs) /\ Len(SubSeq(s, 1, k)) = k
        /\ \A j \in 1..k : SubSeq(s, 1, k)[j] = s[j]
    BY Prefix
  <2>2. /\ SubSeq(Append(s, n), 1, k) \in Seq(Orgs) /\ Len(SubSeq(Append(s, n), 1, k)) = k
        /\ \A j \in 1..k : SubSeq(Append(s, n), 1, k)[j] = Append(s, n)[j]
    BY <1>1, Prefix
  <2>. QED
    BY <1>1, <2>1, <2>2, SeqEqual
<1>4. SubSeq(Append(s, n), 1, Len(s) + 1) = Append(s, n)
  <2>. DEFINE a == Append(s, n)
  <2>1. /\ SubSeq(a, 1, Len(a)) \in Seq(Orgs) /\ Len(SubSeq(a, 1, Len(a))) = Len(a)
        /\ \A j \in 1..Len(a) : SubSeq(a, 1, Len(a))[j] = a[j]
    BY <1>1, Prefix
  <2>2. SubSeq(a, 1, Len(a)) = a
    BY <1>1, <2>1, SeqEqual
  <2>. QED
    BY <1>1, <2>2
<1>. QED
  BY <1>1, <1>2, <1>3, <1>4

\* A node that nobody has used yet, under an existing one or as a root.
LEMMA CreatedIsWhole ==
  ASSUME TablesFit, NEW n \in Orgs, path[n] = <<>>, NEW p \in Nodes \cup {None},
         path' = [path EXCEPT ![n] = Append(PathOf(p), n)], UNCHANGED <<active, home, grants, expired>>
  PROVE  TablesFit' /\ Nodes' = Nodes \cup {n}
<1>. DEFINE b == PathOf(p)
            new == Append(b, n)
<1>1. b \in Seq(Orgs) /\ path \in [Orgs -> Seq(Orgs)] /\ Len(b) \in Nat
  BY DEF PathOf, TablesFit, Nodes
<1>2. /\ new \in Seq(Orgs) /\ Len(new) = Len(b) + 1 /\ new[Len(b) + 1] = n /\ new # <<>>
      /\ \A k \in 1..Len(b) : new[k] = b[k] /\ SubSeq(new, 1, k) = SubSeq(b, 1, k)
      /\ SubSeq(new, 1, Len(b) + 1) = new
  BY <1>1, Extended
<1>. HIDE DEF new
<1>3. path' \in [Orgs -> Seq(Orgs)] /\ path'[n] = new /\ \A o \in Orgs \ {n} : path'[o] = path[o]
  BY <1>1, <1>2 DEF new
<1>4. Nodes' = Nodes \cup {n}
  BY <1>2, <1>3 DEF Nodes
<1>5. ASSUME NEW o \in Orgs, NEW k \in 1..Len(path[o])
      PROVE  path[o][k] \in Orgs \ {n} /\ path'[path[o][k]] = SubSeq(path[o], 1, k) /\ (k = Len(path[o]) => path[o][k] = o)
  BY <1>3, OnThePath DEF Nodes
<1>6. ASSUME NEW o \in Orgs, NEW k \in 1..Len(path'[o])
      PROVE  path'[path'[o][k]] = SubSeq(path'[o], 1, k) /\ (k = Len(path'[o]) => path'[o][k] = o)
  <2>1. CASE o # n
    BY <1>3, <1>5, <2>1
  <2>2. CASE o = n /\ k = Len(b) + 1
    BY <1>2, <1>3, <2>2
  <2>3. CASE o = n /\ k # Len(b) + 1
    <3>1. k \in 1..Len(b)
      BY <1>1, <1>2, <1>3, <2>3
    <3>2. p \in Nodes /\ b = path[p]
      BY <3>1 DEF PathOf
    <3>. QED
      BY <1>2, <1>3, <1>5, <2>3, <3>1, <3>2 DEF Nodes
  <2>. QED
    BY <2>1, <2>2, <2>3
<1>7. Whole(path')
  BY <1>6 DEF Whole
<1>. QED
  BY <1>3, <1>4, <1>7 DEF TablesFit, GrantSet

\* A node without children, grants and people goes.
LEMMA DeletedIsWhole ==
  ASSUME TablesFit, NEW n \in Nodes, Subtree(n) = {n}, \A u \in Users : home[u] # n,
         path' = [path EXCEPT ![n] = <<>>], grants' = {g \in grants : g.org # n}, UNCHANGED <<active, home, expired>>
  PROVE  TablesFit' /\ Nodes' = Nodes \ {n}
<1>1. path \in [Orgs -> Seq(Orgs)] /\ n \in Orgs /\ <<>> \in Seq(Orgs) /\ Len(<<>>) = 0
  BY EmptySeq DEF TablesFit, Nodes
<1>2. path' \in [Orgs -> Seq(Orgs)] /\ path'[n] = <<>> /\ \A o \in Orgs \ {n} : path'[o] = path[o]
  BY <1>1
<1>3. Nodes' = Nodes \ {n}
  BY <1>1, <1>2 DEF Nodes
<1>4. ASSUME NEW o \in Orgs \ {n}, NEW k \in 1..Len(path[o])
      PROVE  path[o][k] \in Orgs \ {n} /\ path[path[o][k]] = SubSeq(path[o], 1, k) /\ (k = Len(path[o]) => path[o][k] = o)
  <2>1. /\ path[o][k] \in Nodes /\ path[path[o][k]] = SubSeq(path[o], 1, k) /\ (k = Len(path[o]) => path[o][k] = o)
        /\ path[o] \in Seq(Orgs)
    BY <1>1, OnThePath
  <2>2. o \in Nodes
    BY <1>1, <2>1, EmptySeq DEF Nodes
  <2>3. path[o][k] \in Above(o)
    BY <2>1 DEF Above, Range
  <2>4. o \notin Subtree(n)
    OBVIOUS
  <2>5. path[o][k] # n
    BY <2>2, <2>3, <2>4, AboveIsSubtree
  <2>. QED
    BY <2>1, <2>5 DEF Nodes
<1>5. ASSUME NEW o \in Orgs, NEW k \in 1..Len(path'[o])
      PROVE  path'[path'[o][k]] = SubSeq(path'[o], 1, k) /\ (k = Len(path'[o]) => path'[o][k] = o)
  <2>1. o # n
    BY <1>1, <1>2
  <2>. QED
    BY <1>2, <1>4, <2>1
<1>6. Whole(path')
  BY <1>5 DEF Whole
<1>7. home' \in [Users -> Nodes' \cup {None}]
  BY <1>3 DEF TablesFit
<1>8. grants' \subseteq GrantSet'
  BY <1>3 DEF TablesFit, GrantSet
<1>. QED
  BY <1>2, <1>3, <1>6, <1>7, <1>8 DEF TablesFit

\* What stands below a node that moves: its new path, from n on what it was.
LEMMA Rebased ==
  ASSUME NEW new \in Seq(Orgs), NEW q \in Seq(Orgs), NEW l \in 0..Len(q)
  PROVE  LET r == new \o SubSeq(q, l + 1, Len(q)) IN
         /\ r \in Seq(Orgs) /\ Len(r) = Len(new) + Len(q) - l
         /\ \A k \in 1..Len(new) : r[k] = new[k]
         /\ \A k \in (Len(new) + 1)..(Len(new) + Len(q) - l) : r[k] = q[k - Len(new) + l]
<1>. DEFINE t == SubSeq(q, l + 1, Len(q))
<1>1. t \in Seq(Orgs) /\ Len(t) = Len(q) - l /\ \A k \in 1..(Len(q) - l) : t[k] = q[l + k]
  BY SubSeqProperties
<1>. HIDE DEF t
<1>2. /\ new \o t \in Seq(Orgs) /\ Len(new \o t) = Len(new) + Len(t)
      /\ \A k \in 1..(Len(new) + Len(t)) : (new \o t)[k] = IF k <= Len(new) THEN new[k] ELSE t[k - Len(new)]
  BY <1>1, ConcatProperties
<1>. DEFINE r == new \o t
<1>3. r \in Seq(Orgs) /\ Len(r) = Len(new) + Len(q) - l
  BY <1>1, <1>2
<1>4. \A k \in 1..Len(new) : r[k] = new[k]
  BY <1>1, <1>2
<1>5. ASSUME NEW k \in (Len(new) + 1)..(Len(new) + Len(q) - l) PROVE r[k] = q[k - Len(new) + l]
  <2>1. r[k] = t[k - Len(new)]
    BY <1>1, <1>2
  <2>2. k - Len(new) \in 1..(Len(q) - l)
    OBVIOUS
  <2>3. t[k - Len(new)] = q[l + (k - Len(new))]
    BY <1>1, <2>2
  <2>. QED
    BY <2>1, <2>2, <2>3
<1>. QED
  BY <1>3, <1>4, <1>5 DEF t

\* Its prefixes: those of the new path, then those of the old one, rebased.
HasPrefixes(r, new, q, l) ==
  /\ r \in Seq(Orgs)
  /\ \A k \in 1..Len(new) : k \in 1..Len(r) /\ r[k] = new[k] /\ SubSeq(r, 1, k) = SubSeq(new, 1, k)
  /\ Len(r) = Len(new) => l = Len(q)
  /\ \A k \in 1..Len(r) \ 1..Len(new) :
       \E j \in 1..Len(q) : /\ l <= j /\ r[k] = q[j] /\ (k = Len(r) => j = Len(q))
                           /\ SubSeq(r, 1, k) = new \o SubSeq(SubSeq(q, 1, j), l + 1, j)

LEMMA RebasedPrefixes ==
  ASSUME NEW new \in Seq(Orgs), NEW q \in Seq(Orgs), NEW l \in 1..Len(q)
  PROVE  HasPrefixes(new \o SubSeq(q, l + 1, Len(q)), new, q, l)
<1>. DEFINE r == new \o SubSeq(q, l + 1, Len(q))
            a == Len(new)
            z == Len(q)
            y == Len(r)
<1>1. a \in Nat /\ z \in Nat /\ l \in Nat /\ l > 0 /\ l <= z /\ l \in 0..z
  OBVIOUS
<1>2. /\ r \in Seq(Orgs) /\ y = a + z - l
      /\ \A k \in 1..a : r[k] = new[k]
      /\ \A k \in (a + 1)..(a + z - l) : r[k] = q[k - a + l]
  BY <1>1, Rebased
<1>. HIDE DEF r
<1>3. \A k \in 1..y : SubSeq(r, 1, k) \in Seq(Orgs) /\ Len(SubSeq(r, 1, k)) = k /\ \A i \in 1..k : SubSeq(r, 1, k)[i] = r[i]
  BY <1>2, Prefix
<1>4. \A k \in 1..a : SubSeq(new, 1, k) \in Seq(Orgs) /\ Len(SubSeq(new, 1, k)) = k /\ \A i \in 1..k : SubSeq(new, 1, k)[i] = new[i]
  BY Prefix
<1>5. \A k \in 1..z : SubSeq(q, 1, k) \in Seq(Orgs) /\ Len(SubSeq(q, 1, k)) = k /\ \A i \in 1..k : SubSeq(q, 1, k)[i] = q[i]
  BY Prefix
<1>6. y \in Nat /\ y >= a
  BY <1>1, <1>2
<1>. HIDE DEF a, z, y
<1>7. ASSUME NEW k \in 1..a
      PROVE  k \in 1..y /\ r[k] = new[k] /\ SubSeq(r, 1, k) = SubSeq(new, 1, k)
  <2>1. k \in 1..y
    BY <1>1, <1>6
  <2>2. \A i \in 1..k : r[i] = new[i]
    BY <1>1, <1>2
  <2>3. \A i \in 1..k : SubSeq(r, 1, k)[i] = SubSeq(new, 1, k)[i]
    BY <1>3, <1>4, <2>1, <2>2
  <2>4. SubSeq(r, 1, k) = SubSeq(new, 1, k)
    BY <1>3, <1>4, <2>1, <2>3, SeqEqual
  <2>. QED
    BY <1>2, <2>1, <2>4
<1>8. y = a => l = z
  BY <1>1, <1>2
<1>9. ASSUME NEW k \in 1..y, k \notin 1..a
      PROVE  \E j \in 1..z : /\ l <= j /\ r[k] = q[j] /\ (k = y => j = z)
                            /\ SubSeq(r, 1, k) = new \o SubSeq(SubSeq(q, 1, j), l + 1, j)
  <2>. DEFINE j == k - a + l
  <2>1. k \in (a + 1)..(a + z - l) /\ j \in 1..z /\ l <= j /\ k = a + j - l /\ (k = y => j = z) /\ j \in Nat /\ l \in 0..j
    BY <1>1, <1>2, <1>6, <1>9
  <2>2. r[k] = q[j]
    BY <1>2, <2>1
  <2>. HIDE DEF j
  <2>. DEFINE p == SubSeq(q, 1, j)
              t == new \o SubSeq(p, l + 1, j)
  <2>3. p \in Seq(Orgs) /\ Len(p) = j /\ \A i \in 1..j : p[i] = q[i]
    BY <1>5, <2>1
  <2>. HIDE DEF p
  <2>4. /\ t \in Seq(Orgs) /\ Len(t) = a + j - l
        /\ \A i \in 1..a : t[i] = new[i]
        /\ \A i \in (a + 1)..(a + j - l) : t[i] = p[i - a + l]
    BY <2>1, <2>3, Rebased DEF a
  <2>. HIDE DEF t
  <2>5. ASSUME NEW i \in 1..k PROVE t[i] = r[i]
    <3>1. CASE i \in 1..a
      BY <1>2, <2>4, <3>1
    <3>2. CASE i \notin 1..a
      <4>1. i \in (a + 1)..(a + j - l) /\ i \in (a + 1)..(a + z - l) /\ i - a + l \in 1..j
        BY <1>1, <2>1, <3>2
      <4>. QED
        BY <1>2, <2>3, <2>4, <4>1
    <3>. QED
      BY <3>1, <3>2
  <2>6. SubSeq(r, 1, k) \in Seq(Orgs) /\ Len(SubSeq(r, 1, k)) = k /\ \A i \in 1..k : SubSeq(r, 1, k)[i] = r[i]
    BY <1>3
  <2>7. SubSeq(r, 1, k) = t
    BY <2>1, <2>4, <2>5, <2>6, SeqEqual
  <2>. QED
    BY <2>1, <2>2, <2>7 DEF p, t
<1>. QED
  BY <1>2, <1>7, <1>8, <1>9 DEF r, a, z, y, HasPrefixes

\* A node is brought under another that is not below it, and what is below it follows.
LEMMA MovedIsWhole ==
  ASSUME TablesFit, NEW n \in Nodes, NEW p \in Nodes \cup {None}, p \notin Subtree(n),
         path' = [o \in Orgs |-> IF o \in Subtree(n)
                                THEN Append(PathOf(p), n) \o SubSeq(path[o], Len(path[n]) + 1, Len(path[o]))
                                ELSE path[o]],
         UNCHANGED <<active, home, grants, expired>>
  PROVE  TablesFit' /\ Nodes' = Nodes
<1>. DEFINE b == PathOf(p)
            new == Append(b, n)
            l == Len(path[n])
            moved(o) == new \o SubSeq(path[o], l + 1, Len(path[o]))
            rest == Orgs \ Subtree(n)
<1>1. b \in Seq(Orgs) /\ path \in [Orgs -> Seq(Orgs)] /\ n \in Orgs
  BY DEF PathOf, TablesFit, Nodes
<1>2. /\ new \in Seq(Orgs) /\ Len(new) = Len(b) + 1 /\ new[Len(b) + 1] = n
      /\ \A k \in 1..Len(b) : new[k] = b[k] /\ SubSeq(new, 1, k) = SubSeq(b, 1, k)
      /\ SubSeq(new, 1, Len(b) + 1) = new
  BY <1>1, Extended
<1>3. ASSUME NEW o \in Subtree(n)
      PROVE  /\ o \in Nodes /\ path[o] \in Seq(Orgs) /\ l \in 1..Len(path[o]) /\ path[o][l] = n
  <2>1. o \in Nodes /\ l <= Len(path[o]) /\ SubSeq(path[o], 1, l) = path[n]
    BY DEF Subtree, Within
  <2>2. path[o] \in Seq(Orgs) /\ Len(path[o]) \in Nat /\ l \in Nat \ {0} /\ path[n][l] = n
    BY <2>1, NodeHasPath
  <2>3. l \in 1..Len(path[o]) /\ l \in 0..Len(path[o])
    BY <2>1, <2>2
  <2>4. path[o][l] = n
    BY <2>1, <2>2, <2>3, Prefix
  <2>. QED
    BY <2>1, <2>2, <2>3, <2>4
<1>4. path' = [o \in Orgs |-> IF o \in Subtree(n) THEN moved(o) ELSE path[o]]
  OBVIOUS
<1>5. ASSUME NEW o \in Subtree(n)
      PROVE  /\ moved(o) \in Seq(Orgs)
             /\ \A k \in 1..Len(new) : /\ k \in 1..Len(moved(o)) /\ moved(o)[k] = new[k]
                                       /\ SubSeq(moved(o), 1, k) = SubSeq(new, 1, k)
             /\ Len(moved(o)) = Len(new) => l = Len(path[o])
             /\ \A k \in 1..Len(moved(o)) \ 1..Len(new) :
                  \E j \in 1..Len(path[o]) :
                    /\ l <= j /\ moved(o)[k] = path[o][j] /\ (k = Len(moved(o)) => j = Len(path[o]))
                    /\ SubSeq(moved(o), 1, k) = new \o SubSeq(SubSeq(path[o], 1, j), l + 1, j)
  <2>1. new \in Seq(Orgs) /\ path[o] \in Seq(Orgs) /\ l \in 1..Len(path[o])
    BY <1>2, <1>3
  <2>. HIDE DEF new, l
  <2>2. HasPrefixes(moved(o), new, path[o], l)
    BY <2>1, RebasedPrefixes
  <2>. HIDE DEF moved
  <2>. QED
    BY <2>2 DEF HasPrefixes
\* The node has the path that has been made for it.
<1>6. moved(n) = new
  <2>1. n \in Subtree(n)
    BY AboveItself
  <2>2. SubSeq(path[n], l + 1, Len(path[n])) = <<>>
    BY <1>1, EmptySeq, SubSeqProperties
  <2>. QED
    BY <1>2, <2>2, ConcatEmptySeq
<1>7. \A o \in Orgs : (IF o \in Subtree(n) THEN moved(o) ELSE path[o]) \in Seq(Orgs)
  BY <1>1, <1>5
<1>8. /\ Subtree(n) \subseteq Nodes /\ Nodes \subseteq Orgs /\ n \in Subtree(n)
      /\ \A o \in Nodes : o \in Subtree(n) <=> n \in Above(o)
  BY AboveItself, AboveIsSubtree DEF Subtree, Nodes
<1>. HIDE DEF moved
<1>9. /\ path' \in [Orgs -> Seq(Orgs)]
      /\ \A o \in Subtree(n) : path'[o] = moved(o)
      /\ \A o \in rest : path'[o] = path[o]
  BY <1>4, <1>7, <1>8
<1>10. Nodes' = Nodes
  <2>1. ASSUME NEW o \in Subtree(n) PROVE moved(o) # <<>>
    <3>1. 1 \in 1..Len(new)
      BY <1>1, <1>2
    <3>2. 1 \in 1..Len(moved(o)) /\ moved(o) \in Seq(Orgs)
      BY <1>5, <3>1
    <3>. QED
      BY <3>2, EmptySeq
  <2>2. \A o \in Orgs : path'[o] # <<>> <=> path[o] # <<>>
    BY <1>8, <1>9, <2>1 DEF Nodes
  <2>. QED
    BY <2>2 DEF Nodes
\* Above a node outside the subtree there is none of it.
<1>11. ASSUME NEW o \in rest, NEW k \in 1..Len(path[o])
       PROVE  /\ path[o][k] \in rest /\ path[path[o][k]] = SubSeq(path[o], 1, k)
              /\ k = Len(path[o]) => path[o][k] = o
  <2>. DEFINE m == path[o][k]
  <2>1. m \in Nodes /\ path[m] = SubSeq(path[o], 1, k) /\ (k = Len(path[o]) => m = o) /\ path[o] \in Seq(Orgs)
    BY <1>1, OnThePath
  <2>2. o \in Nodes
    BY <2>1, EmptySeq DEF Nodes
  <2>3. m \in Above(o)
    BY <2>1 DEF Above, Range
  <2>4. m \notin Subtree(n)
    <3>1. SUFFICES ASSUME m \in Subtree(n) PROVE o \in Subtree(n)
      OBVIOUS
    <3>2. n \in Above(m)
      BY <1>8, <2>1, <3>1
    <3>3. n \in Above(o)
      BY <2>2, <2>3, <3>2, AboveAbove
    <3>. QED
      BY <1>8, <2>2, <3>3
  <2>. QED
    BY <1>8, <2>1, <2>4
<1>12. ASSUME NEW o \in Orgs, NEW k \in 1..Len(path'[o])
       PROVE  path'[path'[o][k]] = SubSeq(path'[o], 1, k) /\ (k = Len(path'[o]) => path'[o][k] = o)
  <2>1. CASE o \in rest
    BY <1>9, <1>11, <2>1
  \* What is above the new place of the node.
  <2>2. CASE o \in Subtree(n) /\ k \in 1..Len(b)
    <3>1. p \in Nodes /\ b = path[p]
      <4>1. p # None
        BY <2>2 DEF PathOf
      <4>. QED
        BY <4>1 DEF PathOf
    <3>2. path[b[k]] = SubSeq(b, 1, k) /\ b[k] \in rest
      BY <1>8, <1>11, <2>2, <3>1
    <3>3. k \in 1..Len(new) /\ k # Len(new)
      BY <1>1, <1>2, <2>2
    <3>4. moved(o)[k] = b[k] /\ SubSeq(moved(o), 1, k) = SubSeq(b, 1, k) /\ Len(new) \in 1..Len(moved(o))
      <4>1. Len(new) \in 1..Len(new)
        BY <1>1, <1>2
      <4>2. new[k] = b[k] /\ SubSeq(new, 1, k) = SubSeq(b, 1, k)
        BY <1>2, <2>2
      <4>. QED
        BY <1>5, <2>2, <3>3, <4>1, <4>2
    <3>5. k # Len(moved(o))
      BY <3>3, <3>4
    <3>. QED
      BY <1>9, <2>2, <3>2, <3>4, <3>5
  <2>3. CASE o \in Subtree(n) /\ k = Len(new)
    <3>1. k \in 1..Len(new)
      BY <1>1, <1>2, <2>3
    <3>2. moved(o)[k] = n /\ SubSeq(moved(o), 1, k) = new
      BY <1>2, <1>5, <2>3, <3>1
    <3>3. ASSUME k = Len(moved(o)) PROVE o = n
      <4>1. l = Len(path[o])
        BY <1>5, <2>3, <3>3
      <4>. QED
        BY <1>3, <2>3, <4>1, OnThePath, NodeHasPath
    <3>. QED
      BY <1>6, <1>8, <1>9, <2>3, <3>2, <3>3
  \* What is below it.
  <2>4. CASE o \in Subtree(n) /\ k \notin 1..Len(new)
    <3>1. k \in 1..Len(moved(o)) \ 1..Len(new)
      BY <1>9, <2>4
    <3>2. PICK j \in 1..Len(path[o]) :
             /\ l <= j /\ moved(o)[k] = path[o][j] /\ (k = Len(moved(o)) => j = Len(path[o]))
             /\ SubSeq(moved(o), 1, k) = new \o SubSeq(SubSeq(path[o], 1, j), l + 1, j)
      BY <1>5, <2>4, <3>1
    <3>. DEFINE m == path[o][j]
    <3>3. o \in Orgs /\ o \in Nodes /\ path[o] \in Seq(Orgs) /\ l \in 1..Len(path[o]) /\ path[o][l] = n
      BY <1>3, <2>4
    <3>4. m \in Nodes /\ path[m] = SubSeq(path[o], 1, j) /\ Len(path[m]) = j /\ (j = Len(path[o]) => m = o)
      BY <3>3, OnThePath
    <3>5. l \in 1..j /\ j \in 0..Len(path[o])
      BY <3>2, <3>3
    <3>6. path[m][l] = n /\ path[m] \in Seq(Orgs)
      BY <3>3, <3>4, <3>5, Prefix
    <3>7. n \in Above(m)
      BY <3>4, <3>5, <3>6 DEF Above, Range
    <3>8. m \in Subtree(n)
      BY <1>8, <3>4, <3>7
    <3>9. moved(m) = new \o SubSeq(path[m], l + 1, j)
      BY <3>4 DEF moved
    <3>10. path'[m] = SubSeq(moved(o), 1, k)
      BY <1>9, <3>2, <3>4, <3>8, <3>9
    <3>. QED
      BY <1>9, <2>4, <3>2, <3>4, <3>10
  <2>5. k \in 1..Len(b) \/ k = Len(new) \/ k \notin 1..Len(new)
    <3>1. Len(b) \in Nat /\ Len(new) = Len(b) + 1
      BY <1>1, <1>2
    <3>. HIDE DEF b, new
    <3>. QED
      BY <3>1
  <2>. QED
    BY <2>1, <2>2, <2>3, <2>4, <2>5
<1>13. Whole(path')
  BY <1>12 DEF Whole
<1>. QED
  BY <1>9, <1>10, <1>13 DEF TablesFit, GrantSet
-----------------------------------------------------------------------------
(* Every step leaves the tables and the calls fit.                          *)

LEMMA InitInv == AccessInit => Inv
<1>. SUFFICES ASSUME AccessInit PROVE Inv
  OBVIOUS
<1>1. PICK t \in Tables : active = t.active /\ home = t.home /\ grants = t.grants /\ path = t.path
  BY DEF AccessInit
<1>2. /\ t.active \subseteq Users /\ t.home \in [Users -> {n \in Orgs : t.path[n] # <<>>} \cup {None}]
      /\ t.grants \subseteq [user : Users, role : Roles, org : {n \in Orgs : t.path[n] # <<>>} \cup {None}]
      /\ t.path \in [Orgs -> Seq(Orgs)] /\ Whole(t.path)
  BY TablesAssumption
<1>3. TablesFit
  BY <1>1, <1>2 DEF TablesFit, GrantSet, Nodes, AccessInit
<1>4. CallsFit
  BY NoCallFits DEF AccessInit, CallsFit, RequestSet
<1>. QED
  BY <1>3, <1>4 DEF Inv

LEMMA HeldArePermissions ==
  ASSUME TablesFit, NEW s, NEW target
  PROVE  HeldAt(s, target) \subseteq Permissions
<1>1. \A h \in GrantsOf(s.user) : Given(h) \subseteq Permissions
  BY BuiltinRoles DEF GrantsOf, TablesFit, GrantSet, Given
<1>2. \A scope : Baseline(s, scope, target) \subseteq Permissions
  BY BuiltinRoles DEF Baseline, Permissions, OrgPermissions
<1>3. ASSUME NEW scope, NEW p \in EffectivePermissions(s, scope, target) PROVE p \in Permissions
  BY <1>1, <1>2, Effective
<1>. QED
  BY <1>3 DEF HeldAt

\* A call begins, asks or ends, and the tables and the requests stay as they are.
LEMMA TablesUntouched ==
  ASSUME Inv, UNCHANGED <<tables, request>>, call' \in [Ids -> CallSet] PROVE Inv'
<1>1. TablesFit' /\ Nodes' = Nodes
  BY TablesStay DEF Inv
<1>2. request' \in [Ids -> RequestSet']
  BY <1>1, RequestsStay
<1>. QED
  BY <1>1, <1>2 DEF Inv, CallsFit, CallSet, Ids

LEMMA BeginInv == ASSUME Inv, NEW i \in Ids, Begin(i) PROVE Inv'
<1>1. PICK u \in active :
    \/ \E w \in Users, asked, org \in Places : HandleAssignPrimaryOrg(i, u, w, asked, org)
    \/ \E w \in Users, r \in Granted, asked, org \in Places : HandleCreateGrant(i, u, w, r, asked, org)
    \/ \E g \in grants : HandleDeleteGrant(i, u, g)
    \/ \E asked, p \in Places : HandleCreate(i, u, asked, p)
    \/ \E n \in Orgs, p \in Places : HandleMove(i, u, n, p)
    \/ \E n \in Orgs : HandleDelete(i, u, n)
    \/ \E asked \in Places, org \in Orgs : HandleSubmit(i, u, asked, org)
    \/ \E j \in Ids : HandleDecide(i, u, j)
    \/ \E want \in Places : HandleSummary(i, u, want)
    \/ Disable(i, u) \/ Expire(i)
  BY DEF Begin
<1>0. NoCall \in CallRecord
  BY NoCallFits DEF CallSet
<1>2. u \in Users /\ Places = Orgs \cup {None} /\ TablesFit
  BY DEF Inv, TablesFit, Places
<1>3. ASSUME NEW w \in Users, NEW asked \in Places, NEW org \in Places, HandleAssignPrimaryOrg(i, u, w, asked, org)
      PROVE  Inv'
  <2>. DEFINE held == HeldAt(SubjectOf(u), asked)
              args == [NoCall EXCEPT !.user = w, !.org = org, !.held = held]
  <2>1. held \in SUBSET Permissions
    BY <1>2, HeldArePermissions
  <2>2. args \in CallRecord /\ args.user = w
    BY <1>2, <1>0, <2>1 DEF CallRecord
  <2>3. Admit(i, "assign_home", u, asked, args)
    BY <1>3 DEF HandleAssignPrimaryOrg
  <2>. HIDE DEF args
  <2>. QED
    BY <2>2, <2>3, AdmitFits, TablesUntouched DEF Ops
<1>4. ASSUME NEW w \in Users, NEW r \in Granted, NEW asked \in Places, NEW org \in Places,
             HandleCreateGrant(i, u, w, r, asked, org)
      PROVE  Inv'
  <2>. DEFINE args == [NoCall EXCEPT !.user = w, !.role = r, !.org = org]
  <2>1. r \in Roles
    BY GrantedAssumption
  <2>2. args \in CallRecord /\ args.user = w /\ args.role = r
    BY <1>2, <1>0, <2>1 DEF CallRecord
  <2>3. Admit(i, "create_grant", u, asked, args)
    BY <1>4 DEF HandleCreateGrant
  <2>. HIDE DEF args
  <2>. QED
    BY <2>1, <2>2, <2>3, AdmitFits, TablesUntouched DEF Ops
<1>5. ASSUME NEW g \in grants, HandleDeleteGrant(i, u, g) PROVE Inv'
  <2>. DEFINE args == [NoCall EXCEPT !.user = g.user, !.role = g.role, !.org = g.org]
  <2>1. g.user \in Users /\ g.role \in Roles /\ g.org \in Orgs \cup {None}
    BY <1>2 DEF TablesFit, GrantSet, Nodes
  <2>2. args \in CallRecord
    BY <2>1, <1>0 DEF CallRecord
  <2>3. Admit(i, "delete_grant", u, None, args)
    BY <1>5 DEF HandleDeleteGrant
  <2>. HIDE DEF args
  <2>. QED
    BY <2>2, <2>3, AdmitFits, TablesUntouched DEF Ops
<1>6. ASSUME NEW asked \in Places, NEW p \in Places, HandleCreate(i, u, asked, p) PROVE Inv'
  <2>. DEFINE held == HeldAt(SubjectOf(u), asked)
              args == [NoCall EXCEPT !.under = p, !.held = held]
  <2>0. held \in SUBSET Permissions
    BY <1>2, HeldArePermissions
  <2>1. args \in CallRecord
    BY <1>2, <1>0, <2>0 DEF CallRecord
  <2>2. Admit(i, "create_org", u, asked, args)
    BY <1>6 DEF HandleCreate
  <2>. HIDE DEF args
  <2>. QED
    BY <2>1, <2>2, AdmitFits, TablesUntouched DEF Ops
<1>7. ASSUME NEW n \in Orgs, NEW p \in Places, HandleMove(i, u, n, p) PROVE Inv'
  <2>. DEFINE args == [NoCall EXCEPT !.org = n, !.under = p]
  <2>1. args \in CallRecord
    BY <1>2, <1>0 DEF CallRecord
  <2>2. Admit(i, "move_org", u, n, args)
    BY <1>7 DEF HandleMove
  <2>. HIDE DEF args
  <2>. QED
    BY <2>1, <2>2, AdmitFits, TablesUntouched DEF Ops
<1>8. ASSUME NEW n \in Orgs, NEW asked \in Places, HandleDelete(i, u, n) \/ HandleSubmit(i, u, asked, n) PROVE Inv'
  <2>. DEFINE args == [NoCall EXCEPT !.org = n]
  <2>1. args \in CallRecord
    BY <1>2, <1>0 DEF CallRecord
  <2>2. Admit(i, "delete_org", u, n, args) \/ Admit(i, "submit_request", u, asked, args)
    BY <1>8 DEF HandleDelete, HandleSubmit
  <2>. HIDE DEF args
  <2>. QED
    BY <2>1, <2>2, AdmitFits, TablesUntouched DEF Ops
<1>9. ASSUME NEW j \in Ids, HandleDecide(i, u, j) PROVE Inv'
  <2>. DEFINE args == [NoCall EXCEPT !.about = j]
  <2>1. args \in CallRecord /\ args.about = j
    BY <1>2, <1>0 DEF CallRecord, Ids
  <2>2. Admit(i, "decide_request", u, None, args)
    BY <1>9 DEF HandleDecide
  <2>. HIDE DEF args
  <2>. QED
    BY <2>1, <2>2, AdmitFits, TablesUntouched DEF Ops
<1>10. ASSUME NEW want \in Places, HandleSummary(i, u, want) PROVE Inv'
  <2>. DEFINE args == [NoCall EXCEPT !.under = want]
  <2>1. args \in CallRecord
    BY <1>2, <1>0 DEF CallRecord
  <2>2. Admit(i, "usage_summary", u, None, args)
    BY <1>10 DEF HandleSummary
  <2>. HIDE DEF args
  <2>. QED
    BY <2>1, <2>2, AdmitFits, TablesUntouched DEF Ops
<1>11. ASSUME Disable(i, u) \/ Expire(i) PROVE Inv'
  <2>1. Written(i) /\ UNCHANGED <<home, grants, path>> /\ active' \subseteq active /\ expired' \in BOOLEAN
    BY <1>2, <1>11 DEF Disable, Expire, TablesFit
  <2>2. TablesFit' /\ Nodes' = Nodes
    BY <1>2, <2>1 DEF TablesFit, Whole, GrantSet, Nodes
  <2>3. call' \in [Ids -> CallSet] /\ UNCHANGED request
    BY <2>1, WrittenFits
  <2>4. request' \in [Ids -> RequestSet']
    BY <2>2, <2>3, RequestsStay
  <2>. QED
    BY <2>2, <2>3, <2>4 DEF Inv, CallsFit, CallSet, Ids
<1>12. None \in Places
  BY <1>2
<1>. QED
  BY <1>1, <1>3, <1>4, <1>5, <1>6, <1>7, <1>8, <1>9, <1>10, <1>11, <1>12

\* What a call that stands somewhere is.
LEMMA Standing ==
  ASSUME Inv, NEW i \in Ids
  PROVE  /\ call[i] \in CallSet /\ call[i] \in CallRecord /\ TablesFit
         /\ call[i].op \in {"create_grant", "assign_home"} => call[i].user \in Users
         /\ call[i].op = "create_grant" => call[i].role \in Roles
         /\ call[i].op = "decide_request" => call[i].about \in Ids
         /\ call[i].op # "none" => call[i].by \in Users /\ call[i].active
         /\ call[i].org \in Orgs \cup {None} /\ call[i].under \in Orgs \cup {None} /\ call[i].home \in Orgs \cup {None}
         /\ call[i].granted \subseteq Orgs /\ call[i].nodes \subseteq Orgs /\ call[i].held \subseteq Permissions
<1>1. call[i] \in CallSet
  BY DEF Inv, CallsFit
<1>. QED
  BY <1>1 DEF CallSet, CallRecord, Inv

\* A call that ends without writing.
LEMMA EndsFits ==
  ASSUME Inv, NEW i \in Ids, Ends(i)
  PROVE  call' \in [Ids -> CallSet] /\ call'[i] = Over /\ \A j \in Ids \ {i} : call'[j] = call[j]
  BY NoCallFits DEF Ends, Inv, CallsFit

\* A call that goes on.
LEMMA GoesOn ==
  ASSUME Inv, NEW i \in Ids, NEW c \in CallRecord, call' = [call EXCEPT ![i] = c], call[i].op # "none",
         c.op = call[i].op, c.by = call[i].by, c.active = call[i].active, c.user = call[i].user, c.role = call[i].role,
         c.at # "idle", c.op = "decide_request" => c.about \in Ids
  PROVE  call' \in [Ids -> CallSet] /\ call'[i] = c /\ \A j \in Ids \ {i} : call'[j] = call[j]
<1>1. c \in CallSet
  BY Standing DEF CallSet
<1>. QED
  BY <1>1 DEF Inv, CallsFit

LEMMA ContinueInv == ASSUME Inv, NEW i \in Ids, Continue(i) PROVE Inv'
<1>. USE DEF Stands
<1>0. TablesFit /\ call \in [Ids -> CallSet] /\ request \in [Ids -> RequestSet] /\ call[i] \in CallRecord
  BY Standing DEF Inv, CallsFit
<1>1. CASE CheckGrant(i)
  <2>1. PICK allowed : Ask(i, allowed, HeldAt(Subject(i), call[i].org)) /\ call[i].at = "enforced"
    BY <1>1 DEF CheckGrant
  <2>2. HeldAt(Subject(i), call[i].org) \in SUBSET Permissions
    BY <1>0, HeldArePermissions
  <2>. QED
    BY <2>1, <2>2, AskFits, TablesUntouched
<1>2. CASE CheckDelete(i) \/ CheckMove(i) \/ CheckDecide(i)
  <2>1. PICK allowed, held : /\ Ask(i, allowed, held) /\ call[i].at = "enforced"
                             /\ held \in {{}, HeldAt(Subject(i), call[i].under)}
    BY <1>2 DEF CheckDelete, CheckMove, CheckDecide
  <2>2. held \in SUBSET Permissions
    BY <1>0, <2>1, HeldArePermissions
  <2>. QED
    BY <2>1, <2>2, AskFits, TablesUntouched
<1>3. CASE CreateGrant(i) \/ DeleteGrant(i)
  <2>1. /\ Written(i) /\ UNCHANGED <<active, home, path, expired>> /\ grants' \subseteq GrantSet
    <3>1. CASE CreateGrant(i)
      <4>. DEFINE g == [user |-> call[i].user, role |-> call[i].role, org |-> call[i].org]
      <4>1. Exists(g.org) => g \in GrantSet
        BY <3>1, Standing DEF CreateGrant, Exists, GrantSet
      <4>2. grants' = IF Exists(g.org) THEN grants \cup {g} ELSE grants
        BY <3>1 DEF CreateGrant
      <4>. QED
        BY <1>0, <3>1, <4>1, <4>2 DEF CreateGrant, TablesFit
    <3>2. CASE DeleteGrant(i)
      BY <1>0, <3>2 DEF DeleteGrant, TablesFit
    <3>. QED
      BY <1>3, <3>1, <3>2
  <2>2. TablesFit' /\ Nodes' = Nodes
    BY <1>0, <2>1 DEF TablesFit, Whole, GrantSet, Nodes
  <2>3. call' \in [Ids -> CallSet] /\ UNCHANGED request
    BY <2>1, WrittenFits
  <2>4. request' \in [Ids -> RequestSet']
    BY <2>2, <2>3, RequestsStay
  <2>. QED
    BY <2>2, <2>3, <2>4 DEF Inv, CallsFit, CallSet, Ids
<1>4. CASE AssignPrimaryOrg(i)
  <2>1. /\ Written(i) /\ UNCHANGED <<active, grants, path, expired>> /\ home' \in [Users -> Nodes \cup {None}]
    BY <1>0, <1>4 DEF AssignPrimaryOrg, TablesFit, Exists
  <2>2. TablesFit' /\ Nodes' = Nodes
    BY <1>0, <2>1 DEF TablesFit, Whole, GrantSet, Nodes
  <2>3. call' \in [Ids -> CallSet] /\ UNCHANGED request
    BY <2>1, WrittenFits
  <2>4. request' \in [Ids -> RequestSet']
    BY <2>2, <2>3, RequestsStay
  <2>. QED
    BY <2>2, <2>3, <2>4 DEF Inv, CallsFit, CallSet, Ids
<1>5. CASE CreateOrg(i)
  <2>. DEFINE n == CHOOSE o \in Fresh : TRUE
              p == call[i].under
  <2>1. Written(i) /\ UNCHANGED <<active, home, grants, expired>> /\ n \in Orgs /\ path[n] = <<>>
    BY <1>5 DEF CreateOrg, Fresh
  <2>2. path' = IF Exists(p) THEN [path EXCEPT ![n] = Append(PathOf(p), n)] ELSE path
    BY <1>5 DEF CreateOrg
  <2>. HIDE DEF n
  <2>3. TablesFit' /\ Nodes \subseteq Nodes'
    <3>1. CASE Exists(p)
      BY <1>0, <2>1, <2>2, <3>1, CreatedIsWhole DEF Exists
    <3>2. CASE ~Exists(p)
      BY <1>0, <2>1, <2>2, <3>2 DEF TablesFit, Whole, GrantSet, Nodes
    <3>. QED
      BY <3>1, <3>2
  <2>4. call' \in [Ids -> CallSet] /\ UNCHANGED request
    BY <2>1, WrittenFits
  <2>5. request' \in [Ids -> RequestSet']
    BY <2>3, <2>4, RequestsStay
  <2>. QED
    BY <2>3, <2>4, <2>5 DEF Inv, CallsFit, CallSet, Ids
<1>6. CASE MoveOrg(i)
  <2>. DEFINE n == call[i].org
              p == call[i].under
  <2>1. Written(i) /\ UNCHANGED <<active, home, grants, expired>>
    BY <1>6 DEF MoveOrg
  <2>2. path' = IF n \in Nodes /\ Exists(p) /\ p \notin Subtree(n)
                THEN [o \in Orgs |-> IF o \in Subtree(n)
                                    THEN Append(PathOf(p), n) \o SubSeq(path[o], Len(path[n]) + 1, Len(path[o]))
                                    ELSE path[o]]
                ELSE path
    BY <1>6 DEF MoveOrg
  <2>3. TablesFit' /\ Nodes' = Nodes
    <3>1. CASE n \in Nodes /\ Exists(p) /\ p \notin Subtree(n)
      BY <1>0, <2>1, <2>2, <3>1, MovedIsWhole DEF Exists
    <3>2. CASE ~(n \in Nodes /\ Exists(p) /\ p \notin Subtree(n))
      BY <1>0, <2>1, <2>2, <3>2 DEF TablesFit, Whole, GrantSet, Nodes
    <3>. QED
      BY <3>1, <3>2
  <2>4. call' \in [Ids -> CallSet] /\ UNCHANGED request
    BY <2>1, WrittenFits
  <2>5. request' \in [Ids -> RequestSet']
    BY <2>3, <2>4, RequestsStay
  <2>. QED
    BY <2>3, <2>4, <2>5 DEF Inv, CallsFit, CallSet, Ids
<1>7. CASE DeleteOrg(i)
  <2>. DEFINE n == call[i].org
  <2>1. Written(i) /\ UNCHANGED <<active, home, expired>>
    BY <1>7 DEF DeleteOrg
  <2>2. IF n \in Nodes /\ Free(n)
        THEN path' = [path EXCEPT ![n] = <<>>] /\ grants' = {g \in grants : g.org # n}
        ELSE UNCHANGED <<path, grants>>
    BY <1>7 DEF DeleteOrg
  <2>3. call' \in [Ids -> CallSet] /\ UNCHANGED request
    BY <2>1, WrittenFits
  <2>4. CASE n \in Nodes /\ Free(n)
    <3>1. TablesFit' /\ Nodes' = Nodes \ {n}
      BY <1>0, <2>1, <2>2, <2>4, DeletedIsWhole DEF Free
    <3>2. request' \in [Ids -> RequestSet']
      BY <2>3, <2>4, <3>1, RequestsStay DEF Free
    <3>. QED
      BY <2>3, <3>1, <3>2 DEF Inv, CallsFit, CallSet, Ids
  <2>5. CASE ~(n \in Nodes /\ Free(n))
    <3>1. TablesFit' /\ Nodes' = Nodes
      BY <1>0, <2>1, <2>2, <2>5 DEF TablesFit, Whole, GrantSet, Nodes
    <3>2. request' \in [Ids -> RequestSet']
      BY <2>3, <3>1, RequestsStay
    <3>. QED
      BY <2>3, <3>1, <3>2 DEF Inv, CallsFit, CallSet, Ids
  <2>. QED
    BY <2>4, <2>5
<1>8. CASE Submit(i)
  <2>1. call[i].op = "submit_request" /\ UNCHANGED tables
    BY <1>8 DEF Submit
  <2>2. TablesFit' /\ Nodes' = Nodes
    BY <1>0, <2>1, TablesStay
  <2>3. CASE call[i].org \in Nodes
    <3>. DEFINE c == [call[i] EXCEPT !.at = "notify", !.about = i]
                r == [status |-> "pending", by |-> call[i].by, org |-> call[i].org]
    <3>1. call' = [call EXCEPT ![i] = c] /\ request' = [request EXCEPT ![i] = r]
      BY <1>8, <2>3 DEF Submit
    <3>2. c \in CallRecord /\ c.op = call[i].op /\ c.by = call[i].by /\ c.active = call[i].active /\ c.user = call[i].user
          /\ c.role = call[i].role /\ c.at = "notify"
      <4>1. i \in Nat
        BY BoundsAssumption DEF Ids
      <4>. QED
        BY <1>0, <4>1 DEF CallRecord
    <3>3. r \in RequestSet
      BY <2>1, <2>3, Standing DEF RequestSet
    <3>. HIDE DEF c, r
    <3>4. call' \in [Ids -> CallSet]
      BY <2>1, <3>1, <3>2, GoesOn
    <3>5. request' \in [Ids -> RequestSet] /\ RequestSet' = RequestSet
      BY <1>0, <2>2, <3>1, <3>3 DEF RequestSet, NoRequest
    <3>. QED
      BY <2>2, <3>4, <3>5 DEF Inv, CallsFit, CallSet, Ids
  <2>4. CASE call[i].org \notin Nodes
    BY <1>8, <2>1, <2>4, EndsFits, TablesUntouched DEF Submit
  <2>. QED
    BY <2>3, <2>4
<1>9. CASE Notify(i)
  BY <1>9, EndsFits, TablesUntouched DEF Notify
<1>10. CASE Decide(i)
  <2>. DEFINE j == call[i].about
  <2>1. call[i].op = "decide_request" /\ UNCHANGED tables /\ j \in Ids
    BY <1>10, Standing DEF Decide
  <2>2. TablesFit' /\ Nodes' = Nodes
    BY <1>0, <2>1, TablesStay
  <2>3. CASE request[j].status = "pending"
    <3>. DEFINE c == [call[i] EXCEPT !.at = "notify"]
                r == [request[j] EXCEPT !.status = "decided"]
    <3>1. call' = [call EXCEPT ![i] = c] /\ request' = [request EXCEPT ![j] = r]
      BY <1>0, <1>10, <2>1, <2>3 DEF Decide
    <3>2. c \in CallRecord /\ c.op = call[i].op /\ c.by = call[i].by /\ c.active = call[i].active /\ c.user = call[i].user
          /\ c.role = call[i].role /\ c.at = "notify" /\ c.about = call[i].about
      BY <1>0 DEF CallRecord
    <3>3. r \in RequestSet
      BY <1>0, <2>1, <2>3 DEF RequestSet, NoRequest
    <3>. HIDE DEF c, r
    <3>4. call' \in [Ids -> CallSet]
      BY <2>1, <3>1, <3>2, GoesOn
    <3>5. request' \in [Ids -> RequestSet] /\ RequestSet' = RequestSet
      BY <1>0, <2>2, <3>1, <3>3 DEF RequestSet, NoRequest
    <3>. QED
      BY <2>2, <3>4, <3>5 DEF Inv, CallsFit, CallSet, Ids
  <2>4. CASE request[j].status # "pending"
    BY <1>10, <2>1, <2>4, EndsFits, TablesUntouched DEF Decide
  <2>. QED
    BY <2>3, <2>4
<1>11. CASE CostScopes(i)
  <2>. DEFINE scope == CostScope(Subject(i))
              c == [call[i] EXCEPT !.at = "checked", !.all = scope.all, !.granted = scope.nodes]
  <2>1. /\ UNCHANGED <<tables, request>> /\ call[i].op = "usage_summary"
        /\ call' = [call EXCEPT ![i] = IF scope.all \/ scope.nodes # {} THEN c ELSE Over]
    BY <1>11 DEF CostScopes, outbox
  <2>2. scope.all \in BOOLEAN /\ scope.nodes \in SUBSET Orgs
    BY <1>0 DEF CostScope, Scopes, TablesFit, GrantSet, GrantsOf, Nodes
  <2>. HIDE DEF scope
  <2>3. c \in CallRecord /\ c.op = call[i].op /\ c.by = call[i].by /\ c.active = call[i].active /\ c.user = call[i].user
        /\ c.role = call[i].role /\ c.at = "checked" /\ c.about = call[i].about
    BY <1>0, <2>2 DEF CallRecord
  <2>. HIDE DEF c
  <2>4. CASE scope.all \/ scope.nodes # {}
    BY <2>1, <2>3, <2>4, GoesOn, TablesUntouched
  <2>5. CASE ~(scope.all \/ scope.nodes # {})
    BY <2>1, <2>5, EndsFits, TablesUntouched DEF Ends
  <2>. QED
    BY <2>4, <2>5
<1>12. CASE CostSubtrees(i)
  <2>1. PICK orgs, refused : /\ call' = [call EXCEPT ![i] = IF refused THEN Over ELSE [@ EXCEPT !.at = "query", !.nodes = orgs]]
                            /\ orgs \in SUBSET Orgs
    <3>. DEFINE want == call[i].under
                visible == UNION {Subtree(n) : n \in call[i].granted \cap Nodes}
                orgs == IF want = None THEN visible
                        ELSE IF call[i].all THEN Subtree(want) ELSE Narrow(visible, want)
    <3>1. call' = [call EXCEPT ![i] = IF want # None /\ (want \notin Nodes \/ orgs = {})
                                      THEN Over ELSE [@ EXCEPT !.at = "query", !.nodes = orgs]]
      BY <1>12 DEF CostSubtrees
    <3>2. orgs \in SUBSET Orgs
      BY DEF Subtree, Narrow, Nodes
    <3>. QED
      BY <3>1, <3>2
  <2>2. UNCHANGED <<tables, request>> /\ call[i].op = "usage_summary"
    BY <1>12 DEF CostSubtrees, outbox
  <2>. DEFINE c == [call[i] EXCEPT !.at = "query", !.nodes = orgs]
  <2>3. c \in CallRecord /\ c.op = call[i].op /\ c.by = call[i].by /\ c.active = call[i].active /\ c.user = call[i].user
        /\ c.role = call[i].role /\ c.at = "query" /\ c.about = call[i].about
    BY <1>0, <2>1 DEF CallRecord
  <2>4. call' = [call EXCEPT ![i] = IF refused THEN Over ELSE c]
    BY <1>0, <2>1
  <2>. HIDE DEF c
  <2>5. CASE refused
    BY <2>2, <2>4, <2>5, EndsFits, TablesUntouched DEF Ends
  <2>6. CASE ~refused
    BY <2>2, <2>3, <2>4, <2>6, GoesOn, TablesUntouched
  <2>. QED
    BY <2>5, <2>6
<1>13. CASE Summary(i)
  BY <1>13, EndsFits, TablesUntouched DEF Summary, outbox
<1>. QED
  BY <1>1, <1>2, <1>3, <1>4, <1>5, <1>6, <1>7, <1>8, <1>9, <1>10, <1>11, <1>12, <1>13 DEF Continue

LEMMA NextInv == Inv /\ [AccessNext]_vars => Inv'
<1>. SUFFICES ASSUME Inv, [AccessNext]_vars PROVE Inv'
  OBVIOUS
<1>1. ASSUME NEW i \in Ids, Begin(i) PROVE Inv'
  BY <1>1, BeginInv
<1>2. ASSUME NEW i \in Ids, Continue(i) PROVE Inv'
  BY <1>2, ContinueInv
<1>3. CASE WorkerStep
  <2>1. UNCHANGED <<tables, call, request>>
    BY <1>3 DEF WorkerStep, ListPending, Send, Mark, RoundEnds
  <2>. QED
    BY <2>1, TablesUntouched DEF Inv, CallsFit
<1>4. CASE Restart
  <2>1. UNCHANGED <<tables, request>> /\ call' = [i \in Ids |-> IF call[i].at = "idle" THEN NoCall ELSE Over]
    BY <1>4 DEF Restart
  <2>2. call' \in [Ids -> CallSet]
    BY <2>1, NoCallFits
  <2>. QED
    BY <2>1, <2>2, TablesUntouched
<1>5. CASE UNCHANGED vars
  BY <1>5, TablesUntouched DEF vars, outbox, Inv, CallsFit
<1>. QED
  BY <1>1, <1>2, <1>3, <1>4, <1>5 DEF AccessNext

LEMMA AccessInv == AccessSpec => []Inv
  BY InitInv, NextInv, PTL DEF AccessSpec

\* The answers that are computed along other ways than Can agree with it, whatever users,
\* tree and grants there are: in every state, so before and after every change of a table.
THEOREM ViewsAreRight == AccessSpec => ViewsAgree
<1>1. Inv => Agree
  BY TablesAgree DEF Inv
<1>2. Inv /\ Inv' => [tables' # tables => Agree /\ Agree']_vars
  <2>1. Inv' => Agree'
    BY <1>1, PTL
  <2>. QED
    BY <1>1, <2>1
<1>. QED
  BY <1>2, AccessInv, PTL DEF ViewsAgree
-----------------------------------------------------------------------------
(* The outbox.                                                              *)

MailRecord == [status : {"none", "pending", "sent", "failed"}, attempts : 0..MaxDeliverAttempts, delivered : Nat]
WorkerRecord == [at : {"wait", "list", "mark"}, todo : SUBSET Notices, now : Notices \cup {None}, failed : BOOLEAN]

\* What the worker has in hand is pending; what is pending has attempts left; and a notice
\* has not been delivered more often than it was attempted and things have failed, but for
\* the delivery that is still to be marked.
OutboxFits ==
  /\ mail \in [Notices -> MailRecord] /\ worker \in WorkerRecord /\ faults \in 0..MaxFaults
  /\ worker.at = "wait" => worker.todo = {}
  /\ worker.at = "mark" => worker.now \in Notices \ worker.todo /\ mail[worker.now].status = "pending"
  /\ \A k \in worker.todo : mail[k].status = "pending"
  /\ \A k \in Notices :
       /\ mail[k].status = "pending" => mail[k].attempts < MaxDeliverAttempts
       /\ mail[k].delivered <= mail[k].attempts + faults + (IF worker.at = "mark" /\ worker.now = k THEN 1 ELSE 0)
       /\ worker.at # "mark" => mail[k].delivered <= mail[k].attempts + faults

LEMMA FaultFits ==
  ASSUME faults \in 0..MaxFaults, NEW yes, Fault(yes)
  PROVE  faults' \in 0..MaxFaults /\ faults' >= faults
<1>1. MaxFaults \in Nat
  BY BoundsAssumption
<1>2. CASE yes
  BY <1>1, <1>2 DEF Fault
<1>3. CASE ~yes
  BY <1>1, <1>3 DEF Fault
<1>. QED
  BY <1>2, <1>3

LEMMA InitOutbox == AccessInit => OutboxFits
<1>. SUFFICES ASSUME AccessInit PROVE OutboxFits
  OBVIOUS
<1>1. MaxFaults \in Nat /\ MaxDeliverAttempts \in Nat /\ MaxDeliverAttempts > 0
  BY BoundsAssumption
<1>2. NoMail \in MailRecord /\ NoMail.status = "none" /\ NoMail.attempts = 0 /\ NoMail.delivered = 0
  BY <1>1 DEF NoMail, MailRecord
<1>3. Resting \in WorkerRecord /\ Resting.at = "wait" /\ Resting.todo = {}
  BY DEF Resting, WorkerRecord
<1>4. mail = [k \in Notices |-> NoMail] /\ worker = Resting /\ faults = 0
  BY DEF AccessInit
<1>. QED
  BY <1>1, <1>2, <1>3, <1>4 DEF OutboxFits

\* The worker's steps.
LEMMA WorkerOutbox == ASSUME OutboxFits, WorkerStep PROVE OutboxFits'
<1>. USE BoundsAssumption
<1>1. CASE ListPending
  <2>1. /\ worker' = [at |-> "list", todo |-> {k \in Notices : mail[k].status = "pending"}, now |-> None, failed |-> FALSE]
        /\ worker.at = "wait" /\ UNCHANGED <<mail, faults>>
    BY <1>1 DEF ListPending, Worker
  <2>2. worker' \in WorkerRecord /\ worker'.at = "list" /\ worker'.todo = {k \in Notices : mail[k].status = "pending"}
    BY <2>1 DEF WorkerRecord
  <2>. QED
    BY <2>1, <2>2 DEF OutboxFits
<1>2. ASSUME NEW k \in worker.todo, Send(k) PROVE OutboxFits'
  <2>1. PICK taken \in BOOLEAN, failed \in BOOLEAN :
          /\ Fault(taken /\ failed)
          /\ mail' = IF taken THEN [mail EXCEPT ![k].delivered = @ + 1] ELSE mail
          /\ worker' = [at |-> "mark", todo |-> worker.todo \ {k}, now |-> k, failed |-> failed]
    BY <1>2 DEF Send, Worker
  <2>2. worker.at = "list" /\ k \in Notices /\ worker.todo \subseteq Notices /\ mail[k] \in MailRecord
    BY <1>2 DEF Send, OutboxFits, WorkerRecord
  <2>3. worker' \in WorkerRecord /\ worker'.at = "mark" /\ worker'.now = k /\ worker'.todo = worker.todo \ {k}
    BY <2>1, <2>2 DEF WorkerRecord
  <2>4. faults' \in 0..MaxFaults /\ faults' >= faults /\ faults \in Nat /\ faults' \in Nat
    BY <2>1, FaultFits DEF OutboxFits
  <2>. DEFINE m == [mail[k] EXCEPT !.delivered = @ + 1]
  <2>5. m \in MailRecord /\ m.status = mail[k].status /\ m.attempts = mail[k].attempts /\ m.delivered = mail[k].delivered + 1
    BY <2>2 DEF MailRecord
  <2>6. mail' = [mail EXCEPT ![k] = m] \/ mail' = mail
    BY <2>1
  <2>. HIDE DEF m
  <2>7. /\ mail' \in [Notices -> MailRecord] /\ \A q \in Notices \ {k} : mail'[q] = mail[q]
        /\ mail'[k].status = mail[k].status /\ mail'[k].attempts = mail[k].attempts
        /\ mail'[k].delivered \in {mail[k].delivered, mail[k].delivered + 1}
    BY <2>2, <2>5, <2>6 DEF OutboxFits
  <2>8. mail[k].delivered \in Nat /\ mail[k].attempts \in Nat /\ \A q \in Notices : mail[q].delivered \in Nat /\ mail[q].attempts \in Nat
    BY <2>2 DEF OutboxFits, MailRecord
  <2>9. ASSUME NEW q \in Notices
        PROVE  /\ mail'[q].status = "pending" => mail'[q].attempts < MaxDeliverAttempts
               /\ mail'[q].delivered <= mail'[q].attempts + faults' + (IF q = k THEN 1 ELSE 0)
    BY <2>2, <2>4, <2>7, <2>8 DEF OutboxFits
  <2>10. mail[k].status = "pending" /\ \A q \in worker.todo \ {k} : mail'[q].status = "pending"
    BY <2>2, <2>7 DEF OutboxFits
  <2>. QED
    BY <2>2, <2>3, <2>4, <2>7, <2>9, <2>10 DEF OutboxFits
<1>3. CASE Mark
  <2>. DEFINE k == worker.now
  <2>1. PICK done \in BOOLEAN :
          /\ Fault(~done)
          /\ mail' = IF done THEN [mail EXCEPT ![k] = Marked(@, worker.failed)] ELSE mail
    BY <1>3 DEF Mark
  <2>2. /\ worker.at = "mark" /\ k \in Notices /\ worker.todo \subseteq Notices /\ mail[k] \in MailRecord /\ k \notin worker.todo
        /\ mail[k].status = "pending" /\ mail[k].attempts < MaxDeliverAttempts
    BY <1>3 DEF Mark, OutboxFits, WorkerRecord
  <2>3. worker' = [at |-> "list", todo |-> worker.todo, now |-> None, failed |-> FALSE]
    BY <1>3 DEF Mark, Worker
  <2>4. worker' \in WorkerRecord /\ worker'.at = "list" /\ worker'.todo = worker.todo
    BY <2>2, <2>3 DEF WorkerRecord
  <2>5. faults' \in 0..MaxFaults /\ faults' >= faults /\ faults \in Nat /\ faults' \in Nat /\ (~done => faults' = faults + 1)
    <3>1. faults' \in 0..MaxFaults /\ faults' >= faults /\ faults \in Nat /\ faults' \in Nat
      BY <2>1, FaultFits DEF OutboxFits
    <3>2. ~done => faults' = faults + 1
      BY <2>1 DEF Fault
    <3>. QED
      BY <3>1, <3>2
  <2>6. \A q \in Notices : mail[q].delivered \in Nat /\ mail[q].attempts \in Nat
    BY DEF OutboxFits, MailRecord
  <2>. DEFINE m == Marked(mail[k], worker.failed)
  <2>7. /\ m \in MailRecord /\ m.attempts = mail[k].attempts + 1 /\ m.delivered = mail[k].delivered
        /\ m.status = "pending" => m.attempts < MaxDeliverAttempts
    <3>. DEFINE st == IF ~worker.failed THEN "sent" ELSE IF mail[k].attempts + 1 >= MaxDeliverAttempts THEN "failed" ELSE mail[k].status
    <3>1. m = [mail[k] EXCEPT !.attempts = @ + 1, !.status = st]
      BY DEF Marked
    <3>2. st \in {"none", "pending", "sent", "failed"} /\ (st = "pending" => mail[k].attempts + 1 < MaxDeliverAttempts)
      BY <2>2, <2>6 DEF MailRecord
    <3>3. mail[k].attempts + 1 \in 0..MaxDeliverAttempts
      BY <2>2, <2>6
    <3>. HIDE DEF st, m
    <3>. QED
      BY <2>2, <3>1, <3>2, <3>3 DEF MailRecord
  <2>. HIDE DEF m
  <2>8. CASE done
    <3>1. mail' = [mail EXCEPT ![k] = m]
      BY <2>1, <2>8 DEF m
    <3>2. mail' \in [Notices -> MailRecord] /\ mail'[k] = m /\ \A q \in Notices \ {k} : mail'[q] = mail[q]
      BY <2>2, <2>7, <3>1 DEF OutboxFits
    <3>3. ASSUME NEW q \in Notices
          PROVE  /\ mail'[q].status = "pending" => mail'[q].attempts < MaxDeliverAttempts
                 /\ mail'[q].delivered <= mail'[q].attempts + faults'
      BY <2>2, <2>5, <2>6, <2>7, <3>2 DEF OutboxFits
    <3>4. \A q \in worker.todo : mail'[q].status = "pending"
      BY <2>2, <3>2 DEF OutboxFits
    <3>5. ASSUME NEW q \in Notices
          PROVE  mail'[q].delivered <= mail'[q].attempts + faults' + (IF worker'.at = "mark" /\ worker'.now = q THEN 1 ELSE 0)
      <4>1. mail'[q] \in MailRecord /\ (IF worker'.at = "mark" /\ worker'.now = q THEN 1 ELSE 0) = 0
        BY <2>4, <3>2
      <4>2. mail'[q].attempts + faults' \in Nat
        BY <2>5, <4>1 DEF MailRecord
      <4>. QED
        BY <4>1, <4>2, <3>3
    <3>6. worker'.at # "wait" /\ worker'.at # "mark" /\ \A q \in worker'.todo : mail'[q].status = "pending"
      BY <2>4, <3>4
    <3>. QED
      BY <2>4, <2>5, <3>2, <3>3, <3>5, <3>6 DEF OutboxFits
  <2>9. CASE ~done
    <3>1. mail' = mail /\ faults' = faults + 1
      BY <2>1, <2>5, <2>9
    <3>2. ASSUME NEW q \in Notices PROVE mail'[q].delivered <= mail'[q].attempts + faults'
      BY <2>5, <2>6, <3>1 DEF OutboxFits
    <3>3. ASSUME NEW q \in Notices PROVE mail'[q].status = "pending" => mail'[q].attempts < MaxDeliverAttempts
      BY <3>1 DEF OutboxFits
    <3>4. mail' \in [Notices -> MailRecord] /\ \A q \in worker.todo : mail'[q].status = "pending"
      BY <2>2, <3>1 DEF OutboxFits
    <3>5. ASSUME NEW q \in Notices
          PROVE  mail'[q].delivered <= mail'[q].attempts + faults' + (IF worker'.at = "mark" /\ worker'.now = q THEN 1 ELSE 0)
      <4>1. mail'[q] \in MailRecord /\ (IF worker'.at = "mark" /\ worker'.now = q THEN 1 ELSE 0) = 0
        BY <2>4, <3>4
      <4>2. mail'[q].attempts + faults' \in Nat
        BY <2>5, <4>1 DEF MailRecord
      <4>. QED
        BY <4>1, <4>2, <3>2
    <3>6. worker'.at # "wait" /\ worker'.at # "mark" /\ \A q \in worker'.todo : mail'[q].status = "pending"
      BY <2>4, <3>4
    <3>. QED
      BY <2>4, <2>5, <3>2, <3>3, <3>4, <3>5, <3>6 DEF OutboxFits
  <2>. QED
    BY <2>8, <2>9
<1>4. CASE RoundEnds
  <2>1. worker' = Resting /\ worker.at = "list" /\ UNCHANGED <<mail, faults>>
    BY <1>4 DEF RoundEnds
  <2>2. worker' \in WorkerRecord /\ worker'.at = "wait" /\ worker'.todo = {}
    BY <2>1 DEF Resting, WorkerRecord
  <2>3. \A q \in Notices : mail[q].delivered \in Nat /\ mail[q].attempts \in Nat /\ mail'[q].delivered <= mail'[q].attempts + faults'
    BY <2>1 DEF OutboxFits, MailRecord
  <2>. QED
    BY <2>1, <2>2, <2>3 DEF OutboxFits
<1>. QED
  BY <1>1, <1>2, <1>3, <1>4 DEF WorkerStep

LEMMA NextOutbox == OutboxFits /\ [AccessNext]_vars => OutboxFits'
<1>. SUFFICES ASSUME OutboxFits, [AccessNext]_vars PROVE OutboxFits'
  OBVIOUS
<1>1. CASE UNCHANGED <<mail, worker, faults>>
  BY <1>1 DEF OutboxFits
<1>2. ASSUME NEW i \in Ids, Begin(i) PROVE UNCHANGED <<mail, worker, faults>>
  BY <1>2 DEF Begin, HandleAssignPrimaryOrg, HandleCreateGrant, HandleDeleteGrant, HandleCreate, HandleMove, HandleDelete,
              HandleSubmit, HandleDecide, HandleSummary, Disable, Expire, Admit, Written, outbox
<1>3. ASSUME NEW i \in Ids, Continue(i), ~Notify(i) PROVE UNCHANGED <<mail, worker, faults>>
  BY <1>3 DEF Continue, CheckGrant, CreateGrant, CheckDelete, DeleteGrant, AssignPrimaryOrg, CreateOrg, CheckMove, MoveOrg,
              DeleteOrg, Submit, CheckDecide, Decide, CostScopes, CostSubtrees, Summary, Ask, Written, outbox
<1>4. ASSUME NEW i \in Ids, Notify(i) PROVE OutboxFits'
  <2>. DEFINE event == IF call[i].op = "submit_request" THEN "submitted" ELSE "decided"
              new == [NoMail EXCEPT !.status = "pending"]
  <2>1. PICK lost \in SUBSET Recipients(i) :
          /\ Fault(lost # {})
          /\ mail' = [k \in Notices |-> IF k \in {call[i].about} \X {event} \X (Recipients(i) \ lost) THEN new ELSE mail[k]]
    BY <1>4 DEF Notify
  <2>2. UNCHANGED worker
    BY <1>4 DEF Notify
  <2>3. faults' \in 0..MaxFaults /\ faults' >= faults /\ faults \in Nat /\ faults' \in Nat
    BY <2>1, FaultFits, BoundsAssumption DEF OutboxFits
  <2>4. /\ new \in MailRecord /\ new.status = "pending" /\ new.attempts = 0 /\ new.delivered = 0
        /\ MaxDeliverAttempts \in Nat /\ MaxDeliverAttempts > 0
    BY BoundsAssumption DEF NoMail, MailRecord
  <2>. HIDE DEF event, new
  <2>5. mail' \in [Notices -> MailRecord] /\ \A k \in Notices : mail'[k] \in {new, mail[k]}
    BY <2>1, <2>4 DEF OutboxFits
  <2>6. worker \in WorkerRecord /\ worker.todo \subseteq Notices
    BY DEF OutboxFits, WorkerRecord
  <2>7. \A k \in Notices : mail[k].delivered \in Nat /\ mail[k].attempts \in Nat
    BY DEF OutboxFits, MailRecord
  <2>8. ASSUME NEW k \in Notices
        PROVE  /\ mail[k].status = "pending" => mail'[k].status = "pending"
               /\ mail'[k].status = "pending" => mail'[k].attempts < MaxDeliverAttempts
               /\ mail'[k].delivered <= mail'[k].attempts + faults' + (IF worker.at = "mark" /\ worker.now = k THEN 1 ELSE 0)
               /\ worker.at # "mark" => mail'[k].delivered <= mail'[k].attempts + faults'
    <3>1. CASE mail'[k] = new
      BY <2>3, <2>4, <3>1
    <3>2. CASE mail'[k] = mail[k]
      BY <2>3, <2>7, <3>2 DEF OutboxFits
    <3>. QED
      BY <2>5, <3>1, <3>2
  <2>. QED
    BY <2>2, <2>3, <2>5, <2>6, <2>8 DEF OutboxFits
<1>5. CASE WorkerStep
  BY <1>5, WorkerOutbox
<1>6. CASE Restart
  <2>1. Fault(TRUE) /\ worker' = Resting /\ mail' = mail
    BY <1>6 DEF Restart
  <2>2. faults' \in 0..MaxFaults /\ faults' = faults + 1 /\ faults \in Nat
    BY <2>1, BoundsAssumption DEF OutboxFits, Fault
  <2>3. worker' \in WorkerRecord /\ worker'.at = "wait" /\ worker'.todo = {}
    BY <2>1 DEF Resting, WorkerRecord
  <2>4. \A k \in Notices : mail[k].delivered \in Nat /\ mail[k].attempts \in Nat
    BY DEF OutboxFits, MailRecord
  <2>5. ASSUME NEW k \in Notices PROVE mail'[k].delivered <= mail'[k].attempts + faults'
    BY <2>1, <2>2, <2>4 DEF OutboxFits
  <2>. QED
    BY <2>1, <2>2, <2>3, <2>4, <2>5 DEF OutboxFits
<1>. QED
  BY <1>1, <1>2, <1>3, <1>4, <1>5, <1>6 DEF AccessNext, vars, outbox

\* The types, with the paths whole, the requests about nodes that exist, and no notice
\* delivered more often than it was attempted and things have failed.
THEOREM AccessTypes == AccessSpec => []AccessTypeOK
<1>1. Inv /\ OutboxFits => AccessTypeOK
  <2>. SUFFICES ASSUME Inv, OutboxFits PROVE AccessTypeOK
    OBVIOUS
  <2>1. /\ active \subseteq Users /\ home \in [Users -> Nodes \cup {None}]
        /\ grants \subseteq [user : Users, role : Roles, org : Nodes \cup {None}]
        /\ path \in [Orgs -> Seq(Orgs)] /\ Whole(path) /\ expired \in BOOLEAN
    BY DEF Inv, TablesFit, GrantSet
  <2>2. ASSUME NEW i \in Ids
        PROVE  /\ call[i].at \in {"idle", "enforced", "checked", "notify", "query", "done"}
               /\ call[i].held \subseteq Permissions /\ call[i].granted \cup call[i].nodes \subseteq Orgs
               /\ request[i] # NoRequest => request[i].org \in Nodes
    <3>1. call[i] \in CallRecord /\ request[i] \in RequestSet
      BY Standing DEF Inv, CallsFit
    <3>. QED
      BY <3>1 DEF CallRecord, RequestSet
  <2>3. /\ MaxDeliverAttempts \in Nat /\ MaxFaults \in Nat /\ faults \in 0..MaxFaults
        /\ worker.todo \subseteq Notices /\ worker.now \in Notices \cup {None}
    BY BoundsAssumption DEF OutboxFits, WorkerRecord
  <2>4. ASSUME NEW k \in Notices
        PROVE  mail[k] \in [status : {"none", "pending", "sent", "failed"},
                            attempts : 0..MaxDeliverAttempts, delivered : 0..(MaxDeliverAttempts + MaxFaults)]
    <3>1. mail[k] \in MailRecord
      BY DEF OutboxFits
    <3>2. mail[k].delivered \in Nat /\ mail[k].attempts \in 0..MaxDeliverAttempts
      BY <3>1 DEF MailRecord
    <3>3. mail[k].delivered <= MaxDeliverAttempts + MaxFaults
      <4>1. CASE worker.at = "mark" /\ worker.now = k
        <5>1. mail[k].attempts < MaxDeliverAttempts /\ mail[k].delivered <= mail[k].attempts + faults + 1
          BY <4>1 DEF OutboxFits
        <5>. QED
          BY <2>3, <3>2, <5>1
      <4>2. CASE ~(worker.at = "mark" /\ worker.now = k)
        <5>1. mail[k].delivered <= mail[k].attempts + faults + 0
          BY <4>2 DEF OutboxFits
        <5>. QED
          BY <2>3, <3>2, <5>1
      <4>. QED
        BY <4>1, <4>2
    <3>. QED
      BY <2>3, <3>1, <3>2, <3>3 DEF MailRecord
  <2>5. mail \in [Notices -> [status : {"none", "pending", "sent", "failed"},
                              attempts : 0..MaxDeliverAttempts, delivered : 0..(MaxDeliverAttempts + MaxFaults)]]
    BY <2>4 DEF OutboxFits
  <2>. QED
    BY <2>1, <2>2, <2>3, <2>5 DEF AccessTypeOK
<1>2. AccessSpec => []OutboxFits
  BY InitOutbox, NextOutbox, PTL DEF AccessSpec
<1>. QED
  BY <1>1, <1>2, AccessInv, PTL

-----------------------------------------------------------------------------
(* Notices.                                                                 *)

\* What a call is about to enqueue: the notices of a decision on the request j.
Telling(i, j) == call[i].at = "notify" /\ call[i].op = "decide_request" /\ call[i].about = j

Untold(j, event) == \A u \in Watched : mail[<<j, event, u>>] = NoMail

\* A request is submitted by one call and decided by one, so nobody is about to enqueue
\* what has been enqueued.
ToldOnce ==
  /\ \A i \in Ids :
       /\ call[i].at = "notify" => call[i].op \in {"submit_request", "decide_request"}
       /\ call[i].at = "notify" /\ call[i].op = "submit_request" => call[i].about = i
       /\ call[i].at # "done" => Untold(i, "submitted")
       /\ request[i] # NoRequest => call[i].at \in {"notify", "done"}
  /\ \A j \in Ids :
       /\ request[j] = NoRequest \/ request[j].status = "pending" =>
            Untold(j, "decided") /\ \A i \in Ids : ~Telling(i, j)
       /\ \A i \in Ids : Telling(i, j) =>
            Untold(j, "decided") /\ \A o \in Ids : Telling(o, j) => o = i

NoticeSettled(k) ==
  \/ mail[k].status = "sent" /\ mail[k].delivered > 0
  \/ mail[k].status = "failed" /\ mail[k].attempts = MaxDeliverAttempts

\* A notice is marked as what it is: what is about to be marked as sent has been taken.
MailIsTrue ==
  /\ worker.at = "mark" /\ ~worker.failed => mail[worker.now].delivered > 0
  /\ \A k \in Notices : mail[k] = NoMail \/ mail[k].status = "pending" \/ NoticeSettled(k)

\* No statement of the worker fails, and the process does not crash. The mail server may
\* refuse whatever it likes.
Unfailing ==
  /\ ~Restart
  /\ Mark => mail'[worker.now] = Marked(mail[worker.now], worker.failed)

\* The worker has the notice before it, with n attempts; or it has been dealt with.
InHand(k, n) ==
  \/ /\ worker.at \in {"list", "mark"} /\ mail[k].status = "pending" /\ mail[k].attempts = n
     /\ k \in worker.todo \/ (worker.at = "mark" /\ worker.now = k)
  \/ NoticeSettled(k) \/ mail[k].attempts > n

\* A call goes on, ends, or stays where it is.
MovesOn(i) ==
  \/ call'[i].at = "done"
  \/ call[i].at \notin {"notify", "done"} /\ call'[i].at \notin {"notify", "done"}
  \/ call'[i].at = call[i].at /\ call'[i].op = call[i].op /\ call'[i].about = call[i].about

LEMMA OverIsOver == Over.at = "done" /\ NoCall.at = "idle"
  BY DEF Over, NoCall

LEMMA AdmitMoves ==
  ASSUME Inv, NEW i \in Ids, NEW op, NEW u, NEW target, NEW args, "at" \in DOMAIN args, Admit(i, op, u, target, args)
  PROVE  (\A j \in Ids : MovesOn(j)) /\ UNCHANGED <<request, mail, worker>>
<1>. DEFINE c == [args EXCEPT !.at = "enforced", !.op = op, !.by = u, !.active = TRUE, !.home = home[u], !.licensed = ~expired]
<1>1. c.at = "enforced"
  OBVIOUS
<1>. HIDE DEF c
<1>2. call' = [call EXCEPT ![i] = c] /\ call[i].at = "idle" /\ UNCHANGED <<request, mail, worker>>
  BY DEF Admit, Unused, outbox, c
<1>3. call \in [Ids -> CallSet]
  BY DEF Inv, CallsFit
<1>. QED
  BY <1>1, <1>2, <1>3 DEF MovesOn

LEMMA WrittenMoves ==
  ASSUME Inv, NEW i \in Ids, Written(i)
  PROVE  (\A j \in Ids : MovesOn(j)) /\ UNCHANGED <<request, mail, worker>>
<1>1. ASSUME NEW j \in Ids PROVE MovesOn(j)
  <2>1. call[j] \in CallRecord
    BY Standing
  <2>2. \/ call'[j] = Over
        \/ call'[j] = call[j]
        \/ call'[j] = [call[j] EXCEPT !.calm = FALSE]
    BY WrittenFits
  <2>. QED
    BY <2>1, <2>2, OverIsOver DEF MovesOn, CallRecord
<1>. QED
  BY <1>1, WrittenFits

LEMMA AskMoves ==
  ASSUME Inv, NEW i \in Ids, NEW allowed, NEW held \in SUBSET Permissions, Ask(i, allowed, held), call[i].at = "enforced"
  PROVE  (\A j \in Ids : MovesOn(j)) /\ UNCHANGED <<request, mail, worker>>
<1>1. call[i] \in CallRecord
  BY Standing
<1>2. call'[i] = Over \/ call'[i] = [call[i] EXCEPT !.at = "checked", !.held = held]
  BY AskFits
<1>3. call'[i].at \in {"done", "checked"}
  BY <1>1, <1>2, OverIsOver DEF CallRecord
<1>. QED
  BY <1>3, AskFits DEF MovesOn

LEMMA EndsMoves ==
  ASSUME Inv, NEW i \in Ids, Ends(i)
  PROVE  \A j \in Ids : MovesOn(j)
  BY EndsFits, OverIsOver DEF MovesOn

LEMMA BeginMoves ==
  ASSUME Inv, NEW i \in Ids, Begin(i)
  PROVE  (\A j \in Ids : MovesOn(j)) /\ UNCHANGED <<request, mail, worker>>
<1>. DEFINE Goal == (\A j \in Ids : MovesOn(j)) /\ UNCHANGED <<request, mail, worker>>
<1>0. DOMAIN NoCall = {"at", "op", "by", "active", "home", "licensed", "user", "role", "org", "under", "about",
                       "held", "calm", "all", "granted", "nodes"}
  BY DEF NoCall
<1>1. ASSUME NEW u, NEW op, NEW target, NEW w, NEW h, NEW org, Admit(i, op, u, target, [NoCall EXCEPT !.user = w, !.org = org, !.held = h])
      PROVE  Goal
  <2>1. "at" \in DOMAIN [NoCall EXCEPT !.user = w, !.org = org, !.held = h]
    BY <1>0
  <2>. QED
    BY <1>1, <2>1, AdmitMoves
<1>2. ASSUME NEW u, NEW op, NEW target, NEW w, NEW r, NEW org, Admit(i, op, u, target, [NoCall EXCEPT !.user = w, !.role = r, !.org = org])
      PROVE  Goal
  <2>1. "at" \in DOMAIN [NoCall EXCEPT !.user = w, !.role = r, !.org = org]
    BY <1>0
  <2>. QED
    BY <1>2, <2>1, AdmitMoves
<1>9. ASSUME NEW u, NEW op, NEW target, NEW p, NEW h, Admit(i, op, u, target, [NoCall EXCEPT !.under = p, !.held = h])
      PROVE  Goal
  <2>1. "at" \in DOMAIN [NoCall EXCEPT !.under = p, !.held = h]
    BY <1>0
  <2>. QED
    BY <1>9, <2>1, AdmitMoves
<1>3. ASSUME NEW u, NEW op, NEW target, NEW p, Admit(i, op, u, target, [NoCall EXCEPT !.under = p])
      PROVE  Goal
  <2>1. "at" \in DOMAIN [NoCall EXCEPT !.under = p]
    BY <1>0
  <2>. QED
    BY <1>3, <2>1, AdmitMoves
<1>4. ASSUME NEW u, NEW op, NEW target, NEW n, NEW p, Admit(i, op, u, target, [NoCall EXCEPT !.org = n, !.under = p])
      PROVE  Goal
  <2>1. "at" \in DOMAIN [NoCall EXCEPT !.org = n, !.under = p]
    BY <1>0
  <2>. QED
    BY <1>4, <2>1, AdmitMoves
<1>5. ASSUME NEW u, NEW op, NEW target, NEW n, Admit(i, op, u, target, [NoCall EXCEPT !.org = n])
      PROVE  Goal
  <2>1. "at" \in DOMAIN [NoCall EXCEPT !.org = n]
    BY <1>0
  <2>. QED
    BY <1>5, <2>1, AdmitMoves
<1>6. ASSUME NEW u, NEW op, NEW target, NEW n, Admit(i, op, u, target, [NoCall EXCEPT !.about = n])
      PROVE  Goal
  <2>1. "at" \in DOMAIN [NoCall EXCEPT !.about = n]
    BY <1>0
  <2>. QED
    BY <1>6, <2>1, AdmitMoves
<1>7. ASSUME Written(i) PROVE Goal
  BY <1>7, WrittenMoves
<1>. HIDE DEF Goal
<1>8. PICK u \in active :
    \/ \E w \in Users, asked, org \in Places : HandleAssignPrimaryOrg(i, u, w, asked, org)
    \/ \E w \in Users, r \in Granted, asked, org \in Places : HandleCreateGrant(i, u, w, r, asked, org)
    \/ \E g \in grants : HandleDeleteGrant(i, u, g)
    \/ \E asked, p \in Places : HandleCreate(i, u, asked, p)
    \/ \E n \in Orgs, p \in Places : HandleMove(i, u, n, p)
    \/ \E n \in Orgs : HandleDelete(i, u, n)
    \/ \E asked \in Places, org \in Orgs : HandleSubmit(i, u, asked, org)
    \/ \E j \in Ids : HandleDecide(i, u, j)
    \/ \E want \in Places : HandleSummary(i, u, want)
    \/ Disable(i, u) \/ Expire(i)
  BY DEF Begin
<1>. QED
  BY <1>1, <1>2, <1>3, <1>4, <1>5, <1>6, <1>7, <1>8, <1>9
     DEF HandleAssignPrimaryOrg, HandleCreateGrant, HandleDeleteGrant, HandleCreate, HandleMove, HandleDelete,
         HandleSubmit, HandleDecide, HandleSummary, Disable, Expire, Goal

LEMMA ContinueMoves ==
  ASSUME Inv, NEW i \in Ids, Continue(i)
  PROVE  Submit(i) \/ Notify(i) \/ Decide(i) \/ ((\A j \in Ids : MovesOn(j)) /\ UNCHANGED <<request, mail, worker>>)
<1>. DEFINE Goal == (\A j \in Ids : MovesOn(j)) /\ UNCHANGED <<request, mail, worker>>
<1>0. call \in [Ids -> CallSet] /\ call[i] \in CallRecord
  BY Standing DEF Inv, CallsFit
<1>1. CASE CheckGrant(i) \/ CheckDelete(i) \/ CheckMove(i) \/ CheckDecide(i)
  <2>1. \A n : HeldAt(Subject(i), n) \in SUBSET Permissions
    BY Standing, HeldArePermissions
  <2>2. \E allowed, held : /\ Ask(i, allowed, held) /\ call[i].at = "enforced"
                           /\ held \in {{}, HeldAt(Subject(i), call[i].org), HeldAt(Subject(i), call[i].under)}
    BY <1>1 DEF CheckGrant, CheckDelete, CheckMove, CheckDecide, Stands
  <2>. QED
    BY <2>1, <2>2, AskMoves
<1>2. CASE CreateGrant(i) \/ DeleteGrant(i) \/ AssignPrimaryOrg(i) \/ CreateOrg(i) \/ MoveOrg(i) \/ DeleteOrg(i)
  BY <1>2, WrittenMoves DEF CreateGrant, DeleteGrant, AssignPrimaryOrg, CreateOrg, MoveOrg, DeleteOrg
<1>3. CASE CostScopes(i)
  <2>. DEFINE scope == CostScope(Subject(i))
              c == [call[i] EXCEPT !.at = "checked", !.all = scope.all, !.granted = scope.nodes]
  <2>1. /\ UNCHANGED <<request, mail, worker>> /\ call[i].at = "enforced"
        /\ call' = [call EXCEPT ![i] = IF scope.all \/ scope.nodes # {} THEN c ELSE Over]
    BY <1>3 DEF CostScopes, Stands, outbox
  <2>. HIDE DEF scope
  <2>2. c.at = "checked"
    BY <1>0 DEF CallRecord
  <2>. HIDE DEF c
  <2>. QED
    BY <1>0, <2>1, <2>2, OverIsOver DEF MovesOn
<1>4. CASE CostSubtrees(i)
  <2>1. PICK orgs, refused : call' = [call EXCEPT ![i] = IF refused THEN Over ELSE [@ EXCEPT !.at = "query", !.nodes = orgs]]
    BY <1>4 DEF CostSubtrees
  <2>2. UNCHANGED <<request, mail, worker>> /\ call[i].at = "checked"
    BY <1>4 DEF CostSubtrees, Stands, outbox
  <2>. DEFINE c == [call[i] EXCEPT !.at = "query", !.nodes = orgs]
  <2>3. c.at = "query"
    BY <1>0 DEF CallRecord
  <2>4. call' = [call EXCEPT ![i] = IF refused THEN Over ELSE c]
    BY <1>0, <2>1
  <2>. HIDE DEF c
  <2>. QED
    BY <1>0, <2>2, <2>3, <2>4, OverIsOver DEF MovesOn
<1>5. CASE Summary(i)
  BY <1>5, EndsMoves DEF Summary, outbox
<1>. QED
  BY <1>1, <1>2, <1>3, <1>4, <1>5 DEF Continue

LEMMA NobodyTells ==
  ASSUME ToldOnce, UNCHANGED request, \A i \in Ids : MovesOn(i), \A k \in Notices : mail[k] = NoMail => mail'[k] = NoMail
  PROVE  ToldOnce'
<1>1. ASSUME NEW j \in Ids, NEW event \in {"submitted", "decided"}, Untold(j, event) PROVE Untold(j, event)'
  BY <1>1 DEF Untold, Notices
<1>2. ASSUME NEW i \in Ids, NEW j \in Ids, Telling(i, j)' PROVE Telling(i, j)
  BY <1>2 DEF Telling, MovesOn
<1>3. ASSUME NEW i \in Ids
      PROVE  /\ call'[i].at = "notify" => call'[i].op \in {"submit_request", "decide_request"}
             /\ call'[i].at = "notify" /\ call'[i].op = "submit_request" => call'[i].about = i
             /\ call'[i].at # "done" => Untold(i, "submitted")'
             /\ request'[i] # NoRequest => call'[i].at \in {"notify", "done"}
  BY <1>1 DEF ToldOnce, MovesOn
<1>4. ASSUME NEW j \in Ids
      PROVE  /\ request'[j] = NoRequest \/ request'[j].status = "pending" =>
                  Untold(j, "decided")' /\ \A i \in Ids : ~Telling(i, j)'
             /\ \A i \in Ids : Telling(i, j)' =>
                  Untold(j, "decided")' /\ \A o \in Ids : Telling(o, j)' => o = i
  BY <1>1, <1>2 DEF ToldOnce
<1>. QED
  BY <1>3, <1>4 DEF ToldOnce

\* What the worker may do to a notice.
LEMMA WorkerMail ==
  ASSUME OutboxFits, WorkerStep, NEW k \in Notices
  PROVE  \/ mail'[k] = mail[k]
         \/ mail[k].status = "pending" /\ (Send(k) \/ (Mark /\ worker.now = k))
<1>1. CASE ListPending \/ RoundEnds
  BY <1>1 DEF ListPending, RoundEnds
<1>2. ASSUME NEW q \in worker.todo, Send(q) PROVE mail'[k] = mail[k] \/ (mail[k].status = "pending" /\ Send(k))
  BY <1>2 DEF Send, OutboxFits
<1>3. CASE Mark
  BY <1>3 DEF Mark, OutboxFits
<1>. QED
  BY <1>1, <1>2, <1>3 DEF WorkerStep

LEMMA NotifyTells ==
  ASSUME Inv, ToldOnce, NEW i \in Ids, Notify(i)
  PROVE  /\ ToldOnce'
         /\ UNCHANGED <<request, worker>>
         /\ \A k \in Notices : mail'[k] = mail[k] \/ (mail[k] = NoMail /\ mail'[k] = [NoMail EXCEPT !.status = "pending"])
<1>. DEFINE event == IF call[i].op = "submit_request" THEN "submitted" ELSE "decided"
            new == [NoMail EXCEPT !.status = "pending"]
            j == call[i].about
<1>1. PICK lost \in SUBSET Recipients(i) :
        mail' = [k \in Notices |-> IF k \in {j} \X {event} \X (Recipients(i) \ lost) THEN new ELSE mail[k]]
  BY DEF Notify
<1>2. call[i].at = "notify" /\ Ends(i) /\ UNCHANGED <<request, worker>>
  BY DEF Notify
<1>3. call'[i].at = "done" /\ \A o \in Ids \ {i} : call'[o] = call[o]
  BY <1>2, EndsFits, OverIsOver
<1>4. j \in Ids /\ Untold(j, event)
  BY <1>2, Standing DEF ToldOnce, Telling
<1>5. Recipients(i) \subseteq Watched
  BY DEF Recipients
<1>. HIDE DEF new
<1>6. ASSUME NEW k \in Notices PROVE mail'[k] = mail[k] \/ (mail[k] = NoMail /\ mail'[k] = new)
  BY <1>1, <1>4, <1>5 DEF Untold, Notices
<1>7. ASSUME NEW o \in Ids, NEW e \in {"submitted", "decided"}, o # j \/ e # event, Untold(o, e)
      PROVE  Untold(o, e)'
  BY <1>1, <1>7 DEF Untold, Notices
<1>8. ASSUME NEW o \in Ids, NEW q \in Ids, Telling(o, q)' PROVE Telling(o, q) /\ o # i
  BY <1>3, <1>8 DEF Telling
<1>9. ASSUME NEW o \in Ids
      PROVE  /\ call'[o].at = "notify" => call'[o].op \in {"submit_request", "decide_request"}
             /\ call'[o].at = "notify" /\ call'[o].op = "submit_request" => call'[o].about = o
             /\ call'[o].at # "done" => Untold(o, "submitted")'
             /\ request'[o] # NoRequest => call'[o].at \in {"notify", "done"}
  <2>1. CASE o = i
    BY <1>3, <2>1
  <2>2. CASE o # i
    <3>1. event = "submitted" => o # j
      BY <1>2, <2>2 DEF ToldOnce
    <3>. QED
      BY <1>2, <1>3, <1>7, <2>2, <3>1 DEF ToldOnce
  <2>. QED
    BY <2>1, <2>2
<1>10. ASSUME NEW q \in Ids
       PROVE  /\ request'[q] = NoRequest \/ request'[q].status = "pending" =>
                   Untold(q, "decided")' /\ \A o \in Ids : ~Telling(o, q)'
              /\ \A o \in Ids : Telling(o, q)' =>
                   Untold(q, "decided")' /\ \A p \in Ids : Telling(p, q)' => p = o
  <2>1. event = "decided" /\ q = j => Telling(i, q)
    BY <1>2 DEF ToldOnce, Telling
  <2>. QED
    BY <1>2, <1>7, <1>8, <2>1 DEF ToldOnce
<1>. QED
  BY <1>2, <1>6, <1>9, <1>10 DEF ToldOnce, new

LEMMA SubmitTells ==
  ASSUME Inv, ToldOnce, NEW i \in Ids, Submit(i)
  PROVE  ToldOnce' /\ UNCHANGED <<mail, worker>>
<1>0. /\ call \in [Ids -> CallSet] /\ call[i] \in CallRecord /\ request \in [Ids -> RequestSet]
      /\ call[i].op = "submit_request" /\ call[i].at = "enforced" /\ UNCHANGED <<mail, worker>>
  BY Standing DEF Inv, CallsFit, Submit, Stands
<1>1. CASE ~(call[i].org \in Nodes)
  BY <1>0, <1>1, EndsMoves, NobodyTells DEF Submit
<1>2. CASE call[i].org \in Nodes
  <2>. DEFINE c == [call[i] EXCEPT !.at = "notify", !.about = i]
              r == [status |-> "pending", by |-> call[i].by, org |-> call[i].org]
  <2>1. call' = [call EXCEPT ![i] = c] /\ request' = [request EXCEPT ![i] = r]
    BY <1>0, <1>2 DEF Submit
  <2>2. c.at = "notify" /\ c.about = i /\ c.op = "submit_request" /\ r.status = "pending"
    BY <1>0 DEF CallRecord
  <2>. HIDE DEF c, r
  <2>3. /\ call'[i] = c /\ request'[i] = r
        /\ \A o \in Ids \ {i} : call'[o] = call[o] /\ request'[o] = request[o]
    BY <1>0, <2>1
  <2>4. Untold(i, "submitted") /\ Untold(i, "decided") /\ \A o \in Ids : ~Telling(o, i)
    BY <1>0 DEF ToldOnce
  <2>5. ASSUME NEW j \in Ids, NEW event, Untold(j, event) PROVE Untold(j, event)'
    BY <1>0, <2>5 DEF Untold
  <2>6. ASSUME NEW o \in Ids, NEW j \in Ids, Telling(o, j)' PROVE Telling(o, j)
    BY <2>2, <2>3, <2>6 DEF Telling
  <2>7. ASSUME NEW o \in Ids
        PROVE  /\ call'[o].at = "notify" => call'[o].op \in {"submit_request", "decide_request"}
               /\ call'[o].at = "notify" /\ call'[o].op = "submit_request" => call'[o].about = o
               /\ call'[o].at # "done" => Untold(o, "submitted")'
               /\ request'[o] # NoRequest => call'[o].at \in {"notify", "done"}
    <3>1. CASE o = i
      BY <2>2, <2>3, <2>4, <2>5, <3>1
    <3>2. CASE o # i
      BY <2>3, <2>5, <3>2 DEF ToldOnce
    <3>. QED
      BY <3>1, <3>2
  <2>8. ASSUME NEW j \in Ids
        PROVE  /\ request'[j] = NoRequest \/ request'[j].status = "pending" =>
                    Untold(j, "decided")' /\ \A o \in Ids : ~Telling(o, j)'
               /\ \A o \in Ids : Telling(o, j)' =>
                    Untold(j, "decided")' /\ \A p \in Ids : Telling(p, j)' => p = o
    <3>1. CASE j = i
      BY <2>4, <2>5, <2>6, <3>1
    <3>2. CASE j # i
      BY <2>3, <2>5, <2>6, <3>2 DEF ToldOnce
    <3>. QED
      BY <3>1, <3>2
  <2>. QED
    BY <1>0, <2>7, <2>8 DEF ToldOnce
<1>. QED
  BY <1>1, <1>2

LEMMA DecideTells ==
  ASSUME Inv, ToldOnce, NEW i \in Ids, Decide(i)
  PROVE  ToldOnce' /\ UNCHANGED <<mail, worker>>
<1>. DEFINE j == call[i].about
<1>0. /\ call \in [Ids -> CallSet] /\ call[i] \in CallRecord /\ request \in [Ids -> RequestSet] /\ j \in Ids
      /\ call[i].op = "decide_request" /\ call[i].at = "checked" /\ UNCHANGED <<mail, worker>>
  BY Standing DEF Inv, CallsFit, Decide, Stands
<1>1. CASE request[j].status # "pending"
  BY <1>0, <1>1, EndsMoves, NobodyTells DEF Decide
<1>2. CASE request[j].status = "pending"
  <2>. DEFINE c == [call[i] EXCEPT !.at = "notify"]
              r == [request[j] EXCEPT !.status = "decided"]
  <2>1. call' = [call EXCEPT ![i] = c] /\ request' = [request EXCEPT ![j] = r]
    BY <1>0, <1>2 DEF Decide
  <2>2. c.at = "notify" /\ c.about = j /\ c.op = "decide_request"
    BY <1>0 DEF CallRecord
  <2>3. r.status = "decided" /\ r # NoRequest /\ request[j] # NoRequest
    BY <1>0, <1>2 DEF RequestSet, NoRequest
  <2>. HIDE DEF c, r
  <2>4. /\ call'[i] = c /\ request'[j] = r
        /\ \A o \in Ids \ {i} : call'[o] = call[o]
        /\ \A o \in Ids \ {j} : request'[o] = request[o]
    BY <1>0, <2>1
  <2>5. Untold(j, "decided") /\ (\A o \in Ids : ~Telling(o, j)) /\ Untold(i, "submitted") /\ request[i] = NoRequest
    BY <1>0, <1>2 DEF ToldOnce
  <2>6. ASSUME NEW q \in Ids, NEW event, Untold(q, event) PROVE Untold(q, event)'
    BY <1>0, <2>6 DEF Untold
  <2>7. ASSUME NEW o \in Ids, NEW q \in Ids, Telling(o, q)' PROVE (o = i /\ q = j) \/ (Telling(o, q) /\ q # j)
    BY <2>2, <2>4, <2>5, <2>7 DEF Telling
  <2>8. ASSUME NEW o \in Ids
        PROVE  /\ call'[o].at = "notify" => call'[o].op \in {"submit_request", "decide_request"}
               /\ call'[o].at = "notify" /\ call'[o].op = "submit_request" => call'[o].about = o
               /\ call'[o].at # "done" => Untold(o, "submitted")'
               /\ request'[o] # NoRequest => call'[o].at \in {"notify", "done"}
    <3>1. CASE o = i
      BY <2>2, <2>4, <2>5, <2>6, <3>1
    <3>2. CASE o # i
      BY <2>3, <2>4, <2>6, <3>2 DEF ToldOnce
    <3>. QED
      BY <3>1, <3>2
  <2>9. ASSUME NEW q \in Ids
        PROVE  /\ request'[q] = NoRequest \/ request'[q].status = "pending" =>
                    Untold(q, "decided")' /\ \A o \in Ids : ~Telling(o, q)'
               /\ \A o \in Ids : Telling(o, q)' =>
                    Untold(q, "decided")' /\ \A p \in Ids : Telling(p, q)' => p = o
    <3>1. CASE q = j
      BY <2>3, <2>4, <2>5, <2>6, <2>7, <3>1
    <3>2. CASE q # j
      BY <2>4, <2>6, <2>7, <3>2 DEF ToldOnce
    <3>. QED
      BY <3>1, <3>2
  <2>. QED
    BY <1>0, <2>8, <2>9 DEF ToldOnce
<1>. QED
  BY <1>1, <1>2

\* What a step may do to a notice: it is enqueued once, sent while it is pending and
\* listed, and marked by the worker that has it in hand.
LEMMA NextTells ==
  ASSUME Inv, OutboxFits, ToldOnce, [AccessNext]_vars
  PROVE  /\ ToldOnce'
         /\ \A k \in Notices :
              \/ mail'[k] = mail[k]
              \/ mail[k] = NoMail /\ mail'[k] = [NoMail EXCEPT !.status = "pending"] /\ UNCHANGED worker
              \/ mail[k].status = "pending" /\ (Send(k) \/ (Mark /\ worker.now = k))
         /\ UNCHANGED worker \/ WorkerStep \/ Restart
<1>. DEFINE Goal ==
       /\ ToldOnce'
       /\ \A k \in Notices :
            \/ mail'[k] = mail[k]
            \/ mail[k] = NoMail /\ mail'[k] = [NoMail EXCEPT !.status = "pending"] /\ UNCHANGED worker
            \/ mail[k].status = "pending" /\ (Send(k) \/ (Mark /\ worker.now = k))
       /\ UNCHANGED worker \/ WorkerStep \/ Restart
<1>1. ASSUME \A i \in Ids : MovesOn(i), UNCHANGED <<request, mail>>, UNCHANGED worker \/ Restart PROVE Goal
  BY <1>1, NobodyTells
<1>2. ASSUME NEW i \in Ids, Begin(i) PROVE Goal
  BY <1>1, <1>2, BeginMoves
<1>3. ASSUME NEW i \in Ids, Continue(i) PROVE Goal
  <2>1. CASE Submit(i)
    BY <2>1, SubmitTells
  <2>2. CASE Decide(i)
    BY <2>2, DecideTells
  <2>3. CASE Notify(i)
    BY <2>3, NotifyTells
  <2>4. CASE (\A j \in Ids : MovesOn(j)) /\ UNCHANGED <<request, mail, worker>>
    BY <1>1, <2>4
  <2>. QED
    BY <1>3, <2>1, <2>2, <2>3, <2>4, ContinueMoves
<1>4. CASE WorkerStep
  <2>1. UNCHANGED <<call, request>>
    BY <1>4 DEF WorkerStep, ListPending, Send, Mark, RoundEnds
  <2>2. \A i \in Ids : MovesOn(i)
    BY <2>1 DEF MovesOn
  <2>3. ASSUME NEW k \in Notices, mail[k] = NoMail PROVE mail'[k] = NoMail
    BY <1>4, <2>3, WorkerMail DEF NoMail
  <2>. QED
    BY <1>4, <2>1, <2>2, <2>3, WorkerMail, NobodyTells
<1>5. CASE Restart
  <2>1. /\ UNCHANGED <<request, mail>> /\ call' = [i \in Ids |-> IF call[i].at = "idle" THEN NoCall ELSE Over]
    BY <1>5 DEF Restart
  <2>2. \A i \in Ids : MovesOn(i)
    BY <2>1, OverIsOver DEF MovesOn
  <2>. QED
    BY <1>1, <1>5, <2>1, <2>2
<1>6. CASE UNCHANGED vars
  <2>1. UNCHANGED <<call, request, mail, worker>>
    BY <1>6 DEF vars, outbox
  <2>2. \A i \in Ids : MovesOn(i)
    BY <2>1 DEF MovesOn
  <2>. QED
    BY <1>1, <2>1, <2>2
<1>7. \/ \E i \in Ids : Begin(i)
      \/ \E i \in Ids : Continue(i)
      \/ WorkerStep \/ Restart \/ UNCHANGED vars
  BY DEF AccessNext
<1>. QED
  BY <1>2, <1>3, <1>4, <1>5, <1>6, <1>7, ZenonT(60)

LEMMA SendIs ==
  ASSUME OutboxFits, NEW k \in Notices, Send(k)
  PROVE  /\ worker.at = "list" /\ k \in worker.todo
         /\ worker'.at = "mark" /\ worker'.now = k /\ worker'.todo = worker.todo \ {k}
         /\ mail'[k].status = mail[k].status /\ mail'[k].attempts = mail[k].attempts
         /\ ~worker'.failed => mail'[k].delivered > 0
<1>1. PICK taken \in BOOLEAN, failed \in BOOLEAN :
        /\ ~taken => failed
        /\ mail' = IF taken THEN [mail EXCEPT ![k].delivered = @ + 1] ELSE mail
        /\ Worker("mark", worker.todo \ {k}, k, failed)
  BY DEF Send
<1>2. mail \in [Notices -> MailRecord] /\ mail[k] \in MailRecord
  BY DEF OutboxFits
<1>. DEFINE m == [mail[k] EXCEPT !.delivered = @ + 1]
<1>3. m.status = mail[k].status /\ m.attempts = mail[k].attempts /\ m.delivered > 0
  BY <1>2 DEF MailRecord
<1>4. mail'[k] = IF taken THEN m ELSE mail[k]
  BY <1>1, <1>2
<1>. HIDE DEF m
<1>5. worker' = [at |-> "mark", todo |-> worker.todo \ {k}, now |-> k, failed |-> failed]
  BY <1>1 DEF Worker
<1>6. worker.at = "list" /\ k \in worker.todo
  BY DEF Send
<1>. QED
  BY <1>1, <1>3, <1>4, <1>5, <1>6

LEMMA MarkIs ==
  ASSUME OutboxFits, Mark
  PROVE  /\ worker.at = "mark" /\ worker'.at = "list" /\ worker'.todo = worker.todo
         /\ worker.now \in Notices /\ mail[worker.now].status = "pending"
         /\ mail'[worker.now] \in {mail[worker.now], Marked(mail[worker.now], worker.failed)}
<1>1. worker.at = "mark" /\ worker' = [at |-> "list", todo |-> worker.todo, now |-> None, failed |-> FALSE]
  BY DEF Mark, Worker
<1>2. worker.now \in Notices /\ mail[worker.now].status = "pending" /\ mail \in [Notices -> MailRecord]
  BY <1>1 DEF OutboxFits
<1>. QED
  BY <1>1, <1>2 DEF Mark

LEMMA MarkedIs ==
  ASSUME NEW m \in MailRecord, NEW failed \in BOOLEAN, m.attempts < MaxDeliverAttempts
  PROVE  /\ Marked(m, failed).attempts = m.attempts + 1 /\ Marked(m, failed).delivered = m.delivered
         /\ Marked(m, failed).attempts > m.attempts
         /\ Marked(m, failed) # m
         /\ ~failed => Marked(m, failed).status = "sent"
         /\ failed => \/ Marked(m, failed).status = m.status
                      \/ Marked(m, failed).status = "failed" /\ Marked(m, failed).attempts = MaxDeliverAttempts
<1>1. MaxDeliverAttempts \in Nat /\ m.attempts \in Nat
  BY BoundsAssumption DEF MailRecord
<1>2. Marked(m, failed).attempts = m.attempts + 1 /\ Marked(m, failed).delivered = m.delivered
  BY DEF Marked, MailRecord
<1>3. Marked(m, failed).status = IF ~failed THEN "sent" ELSE IF m.attempts + 1 >= MaxDeliverAttempts THEN "failed" ELSE m.status
  BY DEF Marked, MailRecord
<1>. QED
  BY <1>1, <1>2, <1>3

LEMMA NextMailIsTrue ==
  Inv /\ OutboxFits /\ ToldOnce /\ MailIsTrue /\ [AccessNext]_vars => MailIsTrue'
<1>. SUFFICES ASSUME Inv, OutboxFits, ToldOnce, MailIsTrue, [AccessNext]_vars PROVE MailIsTrue'
  OBVIOUS
<1>0. worker \in WorkerRecord /\ worker.failed \in BOOLEAN /\ mail \in [Notices -> MailRecord]
  BY DEF OutboxFits, WorkerRecord
<1>1. ASSUME NEW k \in Notices
      PROVE  mail'[k] = NoMail \/ mail'[k].status = "pending" \/ NoticeSettled(k)'
  <2>1. CASE mail'[k] = mail[k]
    BY <2>1 DEF MailIsTrue, NoticeSettled
  <2>2. CASE mail'[k] = [NoMail EXCEPT !.status = "pending"]
    BY <2>2 DEF NoMail
  <2>3. CASE mail[k].status = "pending" /\ Send(k)
    BY <2>3, SendIs
  <2>4. CASE mail[k].status = "pending" /\ Mark /\ worker.now = k
    <3>1. mail'[k] \in {mail[k], Marked(mail[k], worker.failed)} /\ (~worker.failed => mail[k].delivered > 0)
      BY <2>4, MarkIs DEF MailIsTrue
    <3>2. mail[k] \in MailRecord /\ mail[k].attempts < MaxDeliverAttempts
      BY <2>4 DEF OutboxFits
    <3>3. CASE mail'[k] = Marked(mail[k], worker.failed)
      BY <1>0, <2>4, <3>1, <3>2, <3>3, MarkedIs DEF NoticeSettled
    <3>. QED
      BY <2>1, <3>1, <3>3
  <2>. QED
    BY <2>1, <2>2, <2>3, <2>4, NextTells
<1>2. ASSUME worker'.at = "mark", ~worker'.failed PROVE mail'[worker'.now].delivered > 0
  <2>1. CASE UNCHANGED worker
    <3>1. worker.now \in Notices /\ mail[worker.now].status = "pending" /\ mail[worker.now].delivered > 0
      BY <1>2, <2>1 DEF MailIsTrue, OutboxFits
    <3>2. mail'[worker.now] = mail[worker.now]
      BY <1>2, <2>1, <3>1, NextTells, SendIs, MarkIs DEF NoMail
    <3>. QED
      BY <2>1, <3>1, <3>2
  <2>2. ASSUME NEW k \in worker.todo, Send(k) PROVE mail'[worker'.now].delivered > 0
    <3>1. k \in Notices
      BY <1>0 DEF WorkerRecord
    <3>. QED
      BY <1>2, <2>2, <3>1, SendIs
  <2>3. CASE ListPending \/ Mark \/ RoundEnds \/ Restart
    <3>1. ASSUME ListPending PROVE worker'.at # "mark"
      BY <3>1 DEF ListPending, Worker
    <3>2. ASSUME Mark PROVE worker'.at # "mark"
      BY <3>2, MarkIs
    <3>3. ASSUME RoundEnds \/ Restart PROVE worker'.at # "mark"
      <4>1. Resting.at = "wait"
        BY DEF Resting
      <4>2. worker' = Resting
        BY <3>3, Zenon DEF RoundEnds, Restart
      <4>. QED
        BY <4>1, <4>2
    <3>4. worker'.at # "mark"
      BY <2>3, <3>1, <3>2, <3>3
    <3>. QED
      BY <1>2, <3>4
  <2>. QED
    BY <2>1, <2>2, <2>3, NextTells DEF WorkerStep
<1>. QED
  BY <1>1, <1>2 DEF MailIsTrue

\* What is settled stays as it is.
LEMMA SettledStays ==
  ASSUME Inv, OutboxFits, ToldOnce, NEW k \in Notices, NoticeSettled(k), [AccessNext]_vars
  PROVE  mail'[k] = mail[k]
  BY NextTells DEF NoticeSettled, NoMail

LEMMA NextInHand ==
  ASSUME NEW k \in Notices, NEW n \in Nat
  PROVE  Inv /\ OutboxFits /\ ToldOnce /\ MailIsTrue /\ InHand(k, n) /\ [AccessNext]_vars /\ [Unfailing]_vars => InHand(k, n)'
<1>. SUFFICES ASSUME Inv, OutboxFits, ToldOnce, MailIsTrue, InHand(k, n), [AccessNext]_vars, [Unfailing]_vars
              PROVE  InHand(k, n)'
  OBVIOUS
<1>0. /\ worker \in WorkerRecord /\ worker.failed \in BOOLEAN /\ worker.todo \subseteq Notices
      /\ mail \in [Notices -> MailRecord] /\ mail[k] \in MailRecord /\ mail[k].attempts \in Nat
  BY DEF OutboxFits, WorkerRecord, MailRecord
<1>1. CASE NoticeSettled(k)
  BY <1>1, SettledStays DEF InHand, NoticeSettled
<1>2. CASE mail[k].attempts > n
  <2>1. CASE mail[k] = NoMail
    BY <1>2, <2>1 DEF NoMail
  <2>2. CASE mail[k].status = "pending" /\ Send(k)
    BY <1>2, <2>2, SendIs DEF InHand
  <2>3. CASE mail[k].status = "pending" /\ Mark /\ worker.now = k
    <3>1. mail[k].attempts < MaxDeliverAttempts
      BY <2>3 DEF OutboxFits
    <3>2. mail'[k].attempts >= mail[k].attempts
      BY <1>0, <2>3, <3>1, MarkIs, MarkedIs
    <3>3. mail'[k].attempts > n
      <4>1. mail'[k].attempts \in {mail[k].attempts, mail[k].attempts + 1}
        BY <1>0, <2>3, <3>1, MarkIs, MarkedIs
      <4>. QED
        BY <1>0, <1>2, <4>1
    <3>. QED
      BY <3>3 DEF InHand
  <2>4. CASE mail'[k] = mail[k]
    BY <1>2, <2>4 DEF InHand
  <2>. QED
    BY <2>1, <2>2, <2>3, <2>4, NextTells
<1>3. CASE /\ worker.at \in {"list", "mark"} /\ mail[k].status = "pending" /\ mail[k].attempts = n
           /\ k \in worker.todo \/ (worker.at = "mark" /\ worker.now = k)
  <2>1. CASE UNCHANGED worker
    <3>1. mail'[k] = mail[k]
      BY <1>3, <2>1, NextTells, SendIs, MarkIs DEF NoMail
    <3>. QED
      BY <1>3, <2>1, <3>1 DEF InHand
  <2>2. ASSUME NEW q \in worker.todo, Send(q) PROVE InHand(k, n)'
    <3>1. /\ worker.at = "list" /\ worker'.at = "mark" /\ worker'.now = q /\ worker'.todo = worker.todo \ {q}
          /\ mail'[q].status = mail[q].status /\ mail'[q].attempts = mail[q].attempts
      BY <1>0, <2>2, SendIs
    <3>2. k # q => mail'[k] = mail[k]
      BY <2>2, <1>0 DEF Send
    <3>. QED
      BY <1>3, <3>1, <3>2 DEF InHand
  <2>3. CASE Mark
    <3>1. worker.at = "mark" /\ worker'.at = "list" /\ worker'.todo = worker.todo
      BY <2>3, MarkIs
    <3>2. CASE k \in worker.todo
      <4>1. k # worker.now
        BY <3>1, <3>2 DEF OutboxFits
      <4>2. mail'[k] = mail[k]
        BY <1>0, <2>3, <4>1 DEF Mark
      <4>. QED
        BY <1>3, <3>1, <3>2, <4>2 DEF InHand
    <3>3. CASE k \notin worker.todo
      <4>1. worker.now = k /\ mail[k].attempts < MaxDeliverAttempts
        BY <1>3, <3>3 DEF OutboxFits
      <4>2. worker' # worker
        BY <3>1
      <4>3. Unfailing
        BY <4>2 DEF vars, outbox
      <4>4. mail'[k] = Marked(mail[k], worker.failed)
        BY <2>3, <4>1, <4>3 DEF Unfailing
      <4>5. mail'[k].attempts > n
        BY <1>0, <1>3, <4>1, <4>4, MarkedIs
      <4>. QED
        BY <4>5 DEF InHand
    <3>. QED
      BY <3>2, <3>3
  <2>4. CASE ListPending \/ RoundEnds
    <3>1. worker.at = "wait" \/ (worker.todo = {} /\ worker.at = "list")
      BY <2>4 DEF ListPending, RoundEnds
    <3>. QED
      BY <1>3, <3>1
  <2>5. CASE Restart
    <3>1. CASE Unfailing
      BY <2>5, <3>1 DEF Unfailing
    <3>2. CASE UNCHANGED vars
      BY <2>1, <3>2 DEF vars, outbox
    <3>. QED
      BY <3>1, <3>2
  <2>. QED
    BY <2>1, <2>2, <2>3, <2>4, <2>5, NextTells DEF WorkerStep
<1>. QED
  BY <1>1, <1>2, <1>3 DEF InHand

\* A notice is enqueued once and stays as it was settled; while it is pending it has
\* attempts left, and each pass of the worker that reaches its end settles it or uses up
\* one of them, whatever the mail server does, unless a statement fails or the process
\* crashes (approvalworker.go, DeliverPending).
NoticesGetSettled(k, n) ==
  /\ [](\/ mail[k] = NoMail \/ NoticeSettled(k)
        \/ mail[k].status = "pending" /\ mail[k].attempts < MaxDeliverAttempts)
  /\ [][NoticeSettled(k) => mail'[k] = mail[k]]_vars
  /\ [](worker.at = "list" /\ k \in worker.todo /\ mail[k].attempts = n /\ [][Unfailing]_vars =>
          [](worker.at = "wait" => NoticeSettled(k) \/ mail[k].attempts > n))

THEOREM NoticesDoGetSettled ==
  ASSUME NEW k \in Notices, NEW n \in Nat
  PROVE  AccessSpec => NoticesGetSettled(k, n)
<1>. DEFINE All == Inv /\ OutboxFits /\ ToldOnce /\ MailIsTrue
            Once == \/ mail[k] = NoMail \/ NoticeSettled(k)
                    \/ mail[k].status = "pending" /\ mail[k].attempts < MaxDeliverAttempts
            Still == NoticeSettled(k) => mail'[k] = mail[k]
            Listed == worker.at = "list" /\ k \in worker.todo /\ mail[k].attempts = n
            Dealt == NoticeSettled(k) \/ mail[k].attempts > n
            Hand == InHand(k, n)
<1>1. AccessInit => All
  <2>1. AccessInit => ToldOnce
    <3>. SUFFICES ASSUME AccessInit PROVE ToldOnce
      OBVIOUS
    <3>1. \A i \in Ids : call[i] = NoCall /\ request[i] = NoRequest
      BY DEF AccessInit
    <3>2. \A j \in Ids : Untold(j, "submitted") /\ Untold(j, "decided")
      BY DEF AccessInit, Untold, Notices
    <3>. QED
      BY <3>1, <3>2, OverIsOver DEF ToldOnce, Telling
  <2>2. AccessInit => MailIsTrue
    BY DEF AccessInit, MailIsTrue, Resting
  <2>. QED
    BY <2>1, <2>2, InitInv, InitOutbox
<1>2. All /\ [AccessNext]_vars => All'
  BY NextInv, NextOutbox, NextTells, NextMailIsTrue
<1>3. All => Once
  BY DEF MailIsTrue, OutboxFits
<1>4. All /\ [AccessNext]_vars => [Still]_vars
  BY SettledStays
<1>5. All /\ Listed => Hand
  BY DEF OutboxFits, InHand
<1>6. Hand /\ worker.at = "wait" => Dealt
  BY DEF InHand
<1>7. All /\ Hand /\ [AccessNext]_vars /\ [Unfailing]_vars => Hand'
  BY NextInHand
<1>. HIDE DEF All, Hand
<1>8. AccessSpec => []All
  BY <1>1, <1>2, PTL DEF AccessSpec
<1>9. AccessSpec => []Once /\ [][Still]_vars
  BY <1>3, <1>4, <1>8, PTL DEF AccessSpec
<1>10. AccessSpec => [](Listed /\ [][Unfailing]_vars => [](worker.at = "wait" => Dealt))
  BY <1>5, <1>6, <1>7, <1>8, PTL DEF AccessSpec
<1>. QED
  BY <1>9, <1>10 DEF NoticesGetSettled
=============================================================================
