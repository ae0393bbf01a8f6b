----------------------------- MODULE MCOrgTree -----------------------------
(* Instances of OrgTree for TLC. *)
EXTENDS OrgTree, TLC

CONSTANTS n1, n2, n3, n4, n5  \* three nodes and two ids

\* The table in which the nodes have the given parents, with its paths.
Table(up) ==
  LET p[o \in DOMAIN up] == IF up[o] = None THEN <<o>> ELSE Append(p[up[o]], o) IN
  [row    |-> [o \in Orgs |-> IF o \in DOMAIN up THEN "present" ELSE "unused"],
   parent |-> [o \in Orgs |-> IF o \in DOMAIN up THEN up[o] ELSE None],
   path   |-> [o \in Orgs |-> IF o \in DOMAIN up THEN p[o] ELSE <<>>]]

\* The shapes of a forest of three nodes; which node is where makes no difference.
MCForests ==
  {Table(n1 :> None @@ n2 :> n1 @@ n3 :> n2),       \* a chain
   Table(n1 :> None @@ n2 :> n1 @@ n3 :> n1),       \* a fork
   Table(n1 :> None @@ n2 :> n1 @@ n3 :> None),     \* a chain of two and a root
   Table(n1 :> None @@ n2 :> None @@ n3 :> None)}   \* three roots

MCSymmetry == Permutations(Calls) \cup Permutations({n4, n5})
=============================================================================
