------------------------------ MODULE OrgTree ------------------------------
(***************************************************************************)
(* The organization tree: table organizations (internal/control/           *)
(* orgstore.go) under concurrent handlers (orgapi.go, grantapi.go) and key *)
(* issuing (keyissue.go).                                                  *)
(*                                                                         *)
(* A node stores its parent and, redundantly, the path of ids from its     *)
(* root; permissions, bulk revocation and the LiteLLM mapping read the     *)
(* path. The handlers read first and write later with nothing locked in    *)
(* between; what the write still checks is the foreign keys. Each          *)
(* statement is one atomic step. The transaction of Move runs at READ      *)
(* COMMITTED: its first UPDATE picks the rows it sees when it starts,      *)
(* looks at each again once its lock is granted, and shows nothing to      *)
(* others before the commit. Picking the rows is one step, the rest of     *)
(* the transaction another.                                                *)
(*                                                                         *)
(* A call handles one request. Abstracted: ids are never used twice (they  *)
(* are UUIDs); of the keys and users of a node only whether there are any, *)
(* and its live keys end together. Left out: names, external ids,          *)
(* permission checks; a statement that fails leaves what a call that was   *)
(* never made leaves.                                                      *)
(***************************************************************************)
EXTENDS Naturals, Sequences, FiniteSets

CONSTANTS
  Orgs,     \* organizations.id, those in use and those still to be given
  Calls,    \* the calls under way
  Forests,  \* the tables from which they start
  None      \* parent_id of a root

ASSUME NoneAssumption == None \notin Orgs

VARIABLES
  row,        \* is there a row: "unused" before, "deleted" after
  parent,     \* organizations.parent_id
  path,       \* organizations.path as a sequence of ids
  holder,     \* the nodes with is_key_holder
  live,       \* the nodes with an active or pending row in api_keys
  spent,      \* the nodes with a revoked one
  home,       \* the nodes that are primary_org_id of a user
  asked,      \* the nodes that are org_id of a request
  call,       \* what a call is about: [op, node, to]
  step,       \* where it stands
  old, base,  \* the paths of the node and of the new parent it has read
  found,      \* the rows the first UPDATE of a Move has picked
  overtaken   \* the calls whose reads were out of date when they came to write

tree == <<row, parent, path>>
others == <<live, spent, home, asked>>
reads == <<old, base, found>>
calls == <<call, step, reads>>
vars == <<tree, holder, others, calls, overtaken>>

Nodes == {o \in Orgs : row[o] = "present"}

\* HasPrefix(q, p + "/"), which is also what LIKE p || '/%' selects.
Below(p, q) == Len(p) < Len(q) /\ \A i \in 1..Len(p) : q[i] = p[i]

\* A forest and its paths agree: the path of a node is the path of its parent and itself.
Whole(nodes, par, pth) ==
  \A o \in nodes : \/ par[o] = None /\ pth[o] = <<o>>
                   \/ par[o] \in nodes /\ pth[o] = Append(pth[par[o]], o)

ASSUME ForestsAssumption ==
  \A f \in Forests :
    /\ f.row \in [Orgs -> {"unused", "present"}]
    /\ f.parent \in [Orgs -> Orgs \cup {None}]
    /\ f.path \in [Orgs -> Seq(Orgs)]
    /\ Whole({o \in Orgs : f.row[o] = "present"}, f.parent, f.path)

Ops == {"create", "move", "delete", "unmark", "issue", "other"}
Checks == <<"get", "children", "keys", "users", "write">>
Underway == {"parent", "get", "children", "keys", "users", "write", "commit", "activate"}
NoCall == [op |-> "none", node |-> None, to |-> None]

TypeOK ==
  /\ row \in [Orgs -> {"unused", "present", "deleted"}]
  /\ parent \in [Orgs -> Orgs \cup {None}]
  /\ path \in [Orgs -> Seq(Orgs)]
  /\ holder \cup live \cup spent \cup home \cup asked \subseteq Orgs
  /\ call \in [Calls -> [op : Ops \cup {"none"}, node : Orgs \cup {None}, to : Orgs \cup {None}]]
  /\ step \in [Calls -> Underway \cup {"none", "written", "refused"}]
  /\ old \in [Calls -> Seq(Orgs)]
  /\ base \in [Calls -> Seq(Orgs)]
  /\ found \in [Calls -> SUBSET Orgs]
  /\ overtaken \in SUBSET Calls

Init ==
  /\ \E f \in Forests :
       /\ row = f.row /\ parent = f.parent /\ path = f.path
       /\ holder = {o \in Orgs : f.row[o] = "present"}
  /\ live = {} /\ spent = {} /\ home = {} /\ asked = {}
  /\ call = [c \in Calls |-> NoCall]
  /\ step = [c \in Calls |-> "none"]
  /\ old = [c \in Calls |-> <<>>] /\ base = [c \in Calls |-> <<>>] /\ found = [c \in Calls |-> {}]
  /\ overtaken = {}

Begins(c, op, n, p, s) ==
  /\ step[c] = "none"
  /\ call' = [call EXCEPT ![c] = [op |-> op, node |-> n, to |-> p]]
  /\ step' = [step EXCEPT ![c] = s]
At(c, op, s) == call[c].op = op /\ step[c] = s
Goes(c, s) == step' = [step EXCEPT ![c] = s] /\ UNCHANGED call
Ends(c, written) == Goes(c, IF written THEN "written" ELSE "refused")

PathOf(p) == IF p = None THEN <<>> ELSE path[p]

\* The calls of S that have read and not yet written lose what they have read.
Overtake(S) == overtaken' = overtaken \cup {d \in S : step[d] \in Underway}

-----------------------------------------------------------------------------
(* Create: read the parent's path, then insert the row.                     *)

\* Mutant: the path of a root begins with its missing parent.
CreateReadNoRootCase(c, n, p) ==
  /\ row[n] = "unused" /\ \A d \in Calls : call[d].node # n
  /\ p \in Nodes \cup {None}
  /\ Begins(c, "create", n, p, "write")
  /\ base' = [base EXCEPT ![c] = IF p = None THEN <<None>> ELSE path[p]]
  /\ UNCHANGED <<tree, holder, others, old, found, overtaken>>

CreateRead(c, n, p) ==
  /\ row[n] = "unused" /\ \A d \in Calls : call[d].node # n
  /\ p \in Nodes \cup {None}
  /\ Begins(c, "create", n, p, "write")
  /\ base' = [base EXCEPT ![c] = PathOf(p)]
  /\ UNCHANGED <<tree, holder, others, old, found, overtaken>>

\* The foreign key refuses a parent that is gone by now. A Move that has picked its rows
\* does not rebase the new one.
CreateWrite(c) ==
  /\ At(c, "create", "write")
  /\ LET n == call[c].node
         p == call[c].to
         new == Append(base[c], n) IN
     IF p \in Nodes \cup {None}
     THEN /\ row' = [row EXCEPT ![n] = "present"]
          /\ parent' = [parent EXCEPT ![n] = p]
          /\ path' = [path EXCEPT ![n] = new]
          /\ Ends(c, TRUE)
          /\ Overtake({d \in Calls : At(d, "move", "commit") /\ Below(old[d], new)})
     ELSE Ends(c, FALSE) /\ UNCHANGED <<tree, overtaken>>
  /\ UNCHANGED <<holder, others, reads>>

-----------------------------------------------------------------------------
(* Move: read the node, read the new parent, then one transaction.          *)

MoveReadNode(c, n, p) ==
  /\ n \in Nodes /\ p \in (Orgs \ {n}) \cup {None}
  /\ Begins(c, "move", n, p, "parent")
  /\ old' = [old EXCEPT ![c] = path[n]]
  /\ UNCHANGED <<tree, holder, others, base, found, overtaken>>

\* Mutant: the new parent is only compared with the node itself.
MoveReadParentNoCycleCheck(c) ==
  /\ At(c, "move", "parent")
  /\ LET n == call[c].node
         p == call[c].to IN
     /\ base' = [base EXCEPT ![c] = PathOf(p)]
     /\ Goes(c, IF p \in Nodes \cup {None} /\ Append(PathOf(p), n) # old[c] THEN "write" ELSE "refused")
  /\ UNCHANGED <<tree, holder, others, old, found, overtaken>>

\* Refused when the new parent is missing or in the node's own subtree (ErrOrgCycle);
\* nothing to do when the path would stay what it is.
MoveReadParent(c) ==
  /\ At(c, "move", "parent")
  /\ LET n == call[c].node
         p == call[c].to
         fits == /\ p \in Nodes \cup {None}
                 /\ p # None => path[p] # old[c] /\ ~Below(old[c], path[p])
                 /\ Append(PathOf(p), n) # old[c] IN
     /\ base' = [base EXCEPT ![c] = PathOf(p)]
     /\ Goes(c, IF fits THEN "write" ELSE "refused")
  /\ UNCHANGED <<tree, holder, others, old, found, overtaken>>

\* new || substring(p from length(old) + 1)
Rebase(p, from, new) == new \o SubSeq(p, Len(from) + 1, Len(p))

\* The first UPDATE picks the rows below the old path.
MoveUpdate(c) ==
  /\ At(c, "move", "write")
  /\ found' = [found EXCEPT ![c] = {o \in Nodes : Below(old[c], path[o])}]
  /\ Goes(c, "commit")
  /\ UNCHANGED <<tree, holder, others, old, base, overtaken>>

\* Those of them that still are below the old path are rebased, then the node gets its
\* parent and its path. A missing parent rolls both back, a missing node is no error.
MoveCommit(c) ==
  /\ At(c, "move", "commit")
  /\ LET n == call[c].node
         p == call[c].to
         new == Append(base[c], n) IN
     IF n \in Nodes => p \in Nodes \cup {None}
     THEN /\ parent' = IF n \in Nodes THEN [parent EXCEPT ![n] = p] ELSE parent
          /\ path' = [o \in Orgs |->
               IF o \notin Nodes THEN path[o]
               ELSE IF o = n THEN new
               ELSE IF o \in found[c] /\ Below(old[c], path[o]) THEN Rebase(path[o], old[c], new)
               ELSE path[o]]
          /\ Ends(c, TRUE)
          /\ Overtake({d \in Calls \ {c} : call[d].op \in {"create", "move"}})
     ELSE Ends(c, FALSE) /\ UNCHANGED <<parent, path, overtaken>>
  /\ UNCHANGED <<row, holder, others, reads>>

\* Any statement may fail, or the request be cancelled or the victim of a deadlock.
MoveRollback(c) ==
  /\ At(c, "move", "commit")
  /\ Ends(c, FALSE)
  /\ UNCHANGED <<tree, holder, others, reads, overtaken>>

-----------------------------------------------------------------------------
(* Delete: four reads, then the DELETE, which the foreign keys restrict.    *)

DeleteBegin(c, n) ==
  /\ Begins(c, "delete", n, None, "get")
  /\ UNCHANGED <<tree, holder, others, overtaken, reads>>

DeleteCheck(c, i) ==
  /\ At(c, "delete", Checks[i])
  /\ LET n == call[c].node
         clear == CASE Checks[i] = "get"      -> n \in Nodes
                    [] Checks[i] = "children" -> \A o \in Nodes : parent[o] # n
                    [] Checks[i] = "keys"     -> n \notin live \cup spent
                    [] Checks[i] = "users"    -> n \notin home IN
     Goes(c, IF clear THEN Checks[i + 1] ELSE "refused")
  /\ UNCHANGED <<tree, holder, others, overtaken, reads>>

\* Mutant: the foreign key of parent_id is missing.
ReferencedByParentNot(n) == n \in live \cup spent \cup home \cup asked

\* ON DELETE RESTRICT of organizations, api_keys, users and requests.
Referenced(n) == n \in live \cup spent \cup home \cup asked \/ \E o \in Nodes : parent[o] = n

DeleteWrite(c) ==
  /\ At(c, "delete", "write")
  /\ LET n == call[c].node IN
     IF n \in Nodes /\ Referenced(n)
     THEN Ends(c, FALSE) /\ UNCHANGED <<row, holder>>
     ELSE /\ row' = [row EXCEPT ![n] = "deleted"]
          /\ holder' = holder \ {n}
          /\ Ends(c, TRUE)
  /\ UNCHANGED <<parent, path, others, overtaken, reads>>

-----------------------------------------------------------------------------
(* HandleSetKeyHolder and the issuing of keys.                              *)

\* Mutant: the live keys are not counted.
UnmarkReadUncounted(c, n) ==
  /\ Begins(c, "unmark", n, None, "write")
  /\ UNCHANGED <<tree, holder, others, overtaken, reads>>

\* CountLiveKeys; whether the node exists shows at the UPDATE.
UnmarkRead(c, n) ==
  /\ Begins(c, "unmark", n, None, IF n \in live THEN "refused" ELSE "write")
  /\ UNCHANGED <<tree, holder, others, overtaken, reads>>

UnmarkWrite(c) ==
  /\ At(c, "unmark", "write")
  /\ LET n == call[c].node IN
     IF n \in Nodes
     THEN /\ holder' = holder \ {n}
          /\ Ends(c, TRUE)
          /\ Overtake({d \in Calls : call[d].op = "issue" /\ call[d].node = n})
     ELSE Ends(c, FALSE) /\ UNCHANGED <<holder, overtaken>>
  /\ UNCHANGED <<tree, others, reads>>

\* KeyIssuer.Issue reads the node and refuses one that holds no keys.
IssueRead(c, n) ==
  /\ Begins(c, "issue", n, None, IF n \in holder THEN "write" ELSE "refused")
  /\ UNCHANGED <<tree, holder, others, overtaken, reads>>

\* CreatePending: a pending key counts as alive.
IssueWrite(c) ==
  /\ At(c, "issue", "write")
  /\ LET n == call[c].node IN
     IF n \in Nodes
     THEN /\ live' = live \cup {n}
          /\ Goes(c, "activate")
          /\ Overtake({d \in Calls : call[d].op = "unmark" /\ call[d].node = n})
     ELSE Ends(c, FALSE) /\ UNCHANGED <<live, overtaken>>
  /\ UNCHANGED <<tree, holder, spent, home, asked, reads>>

\* MarkActive, whatever the row says by now: a key revoked in the meantime is alive again.
IssueActivate(c) ==
  /\ At(c, "issue", "activate")
  /\ LET n == call[c].node IN
     /\ n \in live \cup spent
     /\ live' = live \cup {n}
     /\ spent' \in {spent, spent \ {n}}
     /\ Overtake({d \in Calls : call[d].op = "unmark" /\ call[d].node = n})
  /\ Ends(c, TRUE)
  /\ UNCHANGED <<tree, holder, home, asked, reads>>

\* GenerateKey or MarkActive fails, or the row is gone: the rest is up to the cleanup.
IssueFails(c) ==
  /\ At(c, "issue", "activate")
  /\ Ends(c, TRUE)
  /\ UNCHANGED <<tree, holder, others, overtaken, reads>>

-----------------------------------------------------------------------------
(* Calls of one statement.                                                  *)

Mark(c, n) ==
  /\ n \in Nodes
  /\ Begins(c, "other", n, None, "written")
  /\ holder' = holder \cup {n}
  /\ UNCHANGED <<tree, others, overtaken, reads>>

\* The keys are revoked, or they were pending and cleanup deletes their rows.
EndKeys(c, n) ==
  /\ n \in live
  /\ Begins(c, "other", n, None, "written")
  /\ live' = live \ {n}
  /\ spent' \in {spent, spent \cup {n}}
  /\ UNCHANGED <<tree, holder, home, asked, overtaken, reads>>

AssignPrimaryOrg(c, n) ==
  /\ n \in Nodes
  /\ Begins(c, "other", n, None, "written")
  /\ home' = home \cup {n}
  /\ UNCHANGED <<tree, holder, live, spent, asked, overtaken, reads>>

ClearPrimaryOrg(c, n) ==
  /\ n \in home
  /\ Begins(c, "other", n, None, "written")
  /\ home' = home \ {n}
  /\ UNCHANGED <<tree, holder, live, spent, asked, overtaken, reads>>

SubmitRequest(c, n) ==
  /\ n \in Nodes
  /\ Begins(c, "other", n, None, "written")
  /\ asked' = asked \cup {n}
  /\ UNCHANGED <<tree, holder, live, spent, home, overtaken, reads>>

Next ==
  \E c \in Calls :
    \/ \E n \in Orgs, p \in Orgs \cup {None} : CreateRead(c, n, p) \/ MoveReadNode(c, n, p)
    \/ CreateWrite(c) \/ MoveReadParent(c) \/ MoveUpdate(c)
    \/ MoveCommit(c) \/ MoveRollback(c)
    \/ \E n \in Orgs : DeleteBegin(c, n) \/ UnmarkRead(c, n) \/ IssueRead(c, n)
    \/ \E i \in 1..4 : DeleteCheck(c, i)
    \/ DeleteWrite(c) \/ UnmarkWrite(c)
    \/ IssueWrite(c) \/ IssueActivate(c) \/ IssueFails(c)
    \/ \E n \in Orgs : \/ Mark(c, n) \/ EndKeys(c, n) \/ SubmitRequest(c, n)
                       \/ AssignPrimaryOrg(c, n) \/ ClearPrimaryOrg(c, n)

Spec == Init /\ [][Next]_vars

-----------------------------------------------------------------------------
(* What the code promises.                                                  *)

\* Some call about a node of N has written on reads that another call had put out of date
\* (an Issue also when this happens between its two writes).
Torn(ops, N) ==
  \E c \in overtaken : call[c].op \in ops /\ step[c] \in {"activate", "written"} /\ call[c].node \in N

\* The redundant paths tell the tree: whatever calls interleave, every node's path is its
\* parent's path and itself, so that the nodes form a forest and no node is its own
\* ancestor. Creates, deletes, issues and marks may race with each other and mostly with
\* moves. What the code does not withstand is a create or a move that had read its paths
\* when another move committed, and a create in the moved subtree between the two UPDATEs
\* of a move.
TreeIsWhole == ~Torn({"create", "move"}, Orgs) => Whole(Nodes, parent, path)

\* Nothing refers to a node that is gone, however the checks of a Delete race with
\* the creation of what they look for: parents, keys, users and requests.
ReferencesResolve ==
  /\ \A o \in Nodes : parent[o] \in Nodes \cup {None}
  /\ holder \cup live \cup spent \cup home \cup asked \subseteq Nodes

\* "No longer a key boundary but with keys in use" (HandleSetKeyHolder) is a state only
\* an Issue and an unmarking that ran into each other leave: one of them wrote although
\* the other had written since it read, or an Issue was still to activate its key.
StrandedKeysNeedARace ==
  \A o \in live \ holder : Torn({"issue", "unmark"}, {o})

-----------------------------------------------------------------------------
(* What an error message says, and the code does not keep.                  *)

\* The ancestors of a node by parent_id, the k-th of them in up[k].
Ancestors(o) ==
  LET up[k \in Nat] == IF k = 0 THEN parent[o]
                       ELSE IF up[k - 1] = None THEN None ELSE parent[up[k - 1]]
  IN {up[k] : k \in 0..Cardinality(Orgs)} \ {None}

\* "A node cannot be moved into its own subtree" (ErrOrgCycle, model.go): two moves that
\* check before either has written do it to each other.
NoNodeBelowItself == \A o \in Nodes : o \notin Ancestors(o)
=============================================================================
