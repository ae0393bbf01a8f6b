--------------------------- MODULE OrgTreeProofs ---------------------------
(***************************************************************************)
(* What TLAPS proves of OrgTree, for any set of ids, any number of         *)
(* concurrent calls and any forest to start from.                          *)
(***************************************************************************)
EXTENDS OrgTree, SequenceTheorems, WellFoundedInduction, TLAPS

\* A call that has begun is about a node; what it is about and its step fit together.
CallsFit ==
  \A c \in Calls :
    /\ call[c].op # "none" => call[c].node \in Orgs
    /\ step[c] \in {"parent", "commit"} => call[c].op = "move"
    /\ step[c] = "activate" => call[c].op = "issue"
    /\ step[c] \in {"get", "children", "keys", "users"} => call[c].op = "delete"
    /\ step[c] = "none" => call[c] = NoCall
    /\ step[c] # "none" => call[c].op # "none"

TypeInv == TypeOK /\ CallsFit

\* The ids a call is about: a Create is about to use an unused one, every other id has
\* been used - though its row may be gone.
IdsOf(c) ==
  /\ At(c, "create", "write") => row[call[c].node] = "unused"
  /\ call[c].op = "move" => row[call[c].node] # "unused"
  /\ call[c].op = "issue" /\ step[c] \in {"write", "activate"} => row[call[c].node] # "unused"
  /\ call[c].op = "delete" /\ step[c] \notin {"get", "refused"} => row[call[c].node] # "unused"
  /\ call[c].op \in {"create", "move"} /\ step[c] \in {"write", "commit"} /\ call[c].to \in Orgs
       => row[call[c].to] # "unused"

IdsAreFresh ==
  /\ \A c \in Calls : IdsOf(c)
  /\ \A c, d \in Calls : c # d /\ call[c].op = "create" /\ call[d].op = "create"
                          => call[c].node # call[d].node

-----------------------------------------------------------------------------
(* Types.                                                                   *)

LEMMA InitTypeInv == Init => TypeInv
<1>. SUFFICES ASSUME Init PROVE TypeInv
  OBVIOUS
<1>1. TypeOK
  <2>1. row \in [Orgs -> {"unused", "present", "deleted"}] /\ parent \in [Orgs -> Orgs \cup {None}]
    BY ForestsAssumption DEF Init
  <2>2. path \in [Orgs -> Seq(Orgs)] /\ holder \subseteq Orgs
    BY ForestsAssumption DEF Init
  <2>. QED
    BY <2>1, <2>2 DEF Init, TypeOK, NoCall
<1>2. CallsFit
  BY DEF Init, CallsFit, NoCall
<1>. QED
  BY <1>1, <1>2 DEF TypeInv

\* A call that begins.
LEMMA BeginsTypes ==
  ASSUME TypeInv, NEW c \in Calls, NEW op \in Ops, NEW n \in Orgs, NEW p \in Orgs \cup {None},
         NEW s \in Underway \cup {"written", "refused"}, Begins(c, op, n, p, s),
         s \notin {"commit", "activate"}, s = "parent" => op = "move",
         s \in {"get", "children", "keys", "users"} => op = "delete"
  PROVE  /\ call' \in [Calls -> [op : Ops \cup {"none"}, node : Orgs \cup {None}, to : Orgs \cup {None}]]
         /\ step' \in [Calls -> Underway \cup {"none", "written", "refused"}]
         /\ CallsFit'
  BY DEF TypeInv, TypeOK, CallsFit, Begins, Ops, Underway

\* A call that goes on.
LEMMA GoesTypes ==
  ASSUME TypeInv, NEW c \in Calls, NEW s \in Underway \cup {"written", "refused"}, Goes(c, s),
         step[c] # "none", s # "parent", s = "commit" => call[c].op = "move",
         s = "activate" => call[c].op = "issue",
         s \in {"get", "children", "keys", "users"} => call[c].op = "delete"
  PROVE  /\ call' = call
         /\ step' \in [Calls -> Underway \cup {"none", "written", "refused"}]
         /\ CallsFit'
  BY DEF TypeInv, TypeOK, CallsFit, Goes, Underway

\* Rebasing a path gives a path.
LEMMA RebaseType ==
  ASSUME NEW p \in Seq(Orgs), NEW from \in Seq(Orgs), NEW new \in Seq(Orgs)
  PROVE  Rebase(p, from, new) \in Seq(Orgs)
<1>1. SubSeq(p, Len(from) + 1, Len(p)) \in Seq(Orgs)
  BY SubSeqProperties
<1>. QED
  BY <1>1, ConcatProperties DEF Rebase

\* What a step of one call leaves to the others.
LEMMA BeginsAlone ==
  ASSUME TypeInv, NEW c \in Calls, NEW op, NEW n, NEW p, NEW s, Begins(c, op, n, p, s)
  PROVE  /\ step[c] = "none" /\ call[c] = NoCall
         /\ call'[c] = [op |-> op, node |-> n, to |-> p] /\ step'[c] = s
         /\ \A d \in Calls \ {c} : call'[d] = call[d] /\ step'[d] = step[d]
  BY DEF TypeInv, TypeOK, CallsFit, Begins

LEMMA GoesAlone ==
  ASSUME TypeInv, NEW c \in Calls, NEW s, Goes(c, s)
  PROVE  /\ call' = call /\ step'[c] = s
         /\ \A d \in Calls \ {c} : step'[d] = step[d]
  BY DEF TypeInv, TypeOK, Goes

LEMMA NextTypeInv == TypeInv /\ [Next]_vars => TypeInv'
<1>. SUFFICES ASSUME TypeInv, [Next]_vars PROVE TypeInv'
  OBVIOUS
<1>. USE DEF tree, others, reads
<1>1. ASSUME NEW c \in Calls, NEW n \in Orgs, NEW p \in Orgs \cup {None}, CreateRead(c, n, p)
      PROVE  TypeInv'
  <2>1. PathOf(p) \in Seq(Orgs)
    BY DEF TypeInv, TypeOK, PathOf
  <2>2. /\ call' \in [Calls -> [op : Ops \cup {"none"}, node : Orgs \cup {None}, to : Orgs \cup {None}]]
        /\ step' \in [Calls -> Underway \cup {"none", "written", "refused"}]
        /\ CallsFit'
    BY <1>1, BeginsTypes DEF CreateRead, Ops, Underway
  <2>. QED
    BY <1>1, <2>1, <2>2 DEF CreateRead, TypeInv, TypeOK
<1>2. ASSUME NEW c \in Calls, CreateWrite(c)
      PROVE  TypeInv'
  <2>1. /\ call' = call
        /\ step' \in [Calls -> Underway \cup {"none", "written", "refused"}]
        /\ CallsFit'
    BY <1>2, GoesTypes DEF CreateWrite, At, Ends, Underway
  <2>2. call[c].node \in Orgs /\ Append(base[c], call[c].node) \in Seq(Orgs)
    BY <1>2 DEF CreateWrite, At, TypeInv, TypeOK, CallsFit
  <2>3. row' \in [Orgs -> {"unused", "present", "deleted"}] /\ parent' \in [Orgs -> Orgs \cup {None}]
    BY <1>2, <2>2 DEF CreateWrite, Nodes, TypeInv, TypeOK
  <2>4. path' \in [Orgs -> Seq(Orgs)]
    BY <1>2, <2>2 DEF CreateWrite, TypeInv, TypeOK
  <2>. QED
    BY <1>2, <2>1, <2>3, <2>4 DEF CreateWrite, Overtake, TypeInv, TypeOK
<1>3. ASSUME NEW c \in Calls, NEW n \in Orgs, NEW p \in Orgs \cup {None}, MoveReadNode(c, n, p)
      PROVE  TypeInv'
  <2>1. /\ call' \in [Calls -> [op : Ops \cup {"none"}, node : Orgs \cup {None}, to : Orgs \cup {None}]]
        /\ step' \in [Calls -> Underway \cup {"none", "written", "refused"}]
        /\ CallsFit'
    BY <1>3, BeginsTypes DEF MoveReadNode, Ops, Underway
  <2>. QED
    BY <1>3, <2>1 DEF MoveReadNode, TypeInv, TypeOK
<1>4. ASSUME NEW c \in Calls, MoveReadParent(c)
      PROVE  TypeInv'
  <2>1. /\ call' = call
        /\ step' \in [Calls -> Underway \cup {"none", "written", "refused"}]
        /\ CallsFit'
    <3>1. PICK s \in {"write", "refused"} : Goes(c, s)
      BY <1>4 DEF MoveReadParent
    <3>. QED
      BY <1>4, <3>1, GoesTypes DEF MoveReadParent, At, Underway
  <2>2. PathOf(call[c].to) \in Seq(Orgs)
    BY DEF TypeInv, TypeOK, PathOf
  <2>. QED
    BY <1>4, <2>1, <2>2 DEF MoveReadParent, TypeInv, TypeOK
<1>5. ASSUME NEW c \in Calls, MoveUpdate(c)
      PROVE  TypeInv'
  <2>1. /\ call' = call
        /\ step' \in [Calls -> Underway \cup {"none", "written", "refused"}]
        /\ CallsFit'
    BY <1>5, GoesTypes DEF MoveUpdate, At, Ends, Underway
  <2>2. found' \in [Calls -> SUBSET Orgs]
    BY <1>5 DEF MoveUpdate, TypeInv, TypeOK, Nodes
  <2>. QED
    BY <1>5, <2>1, <2>2 DEF MoveUpdate, TypeInv, TypeOK
<1>6. ASSUME NEW c \in Calls, MoveCommit(c)
      PROVE  TypeInv'
  <2>1. /\ call' = call
        /\ step' \in [Calls -> Underway \cup {"none", "written", "refused"}]
        /\ CallsFit'
    BY <1>6, GoesTypes DEF MoveCommit, At, Ends, Underway
  <2>2. call[c].node \in Orgs /\ Append(base[c], call[c].node) \in Seq(Orgs)
    BY <1>6 DEF MoveCommit, At, TypeInv, TypeOK, CallsFit
  <2>3. \A o \in Orgs : Rebase(path[o], old[c], Append(base[c], call[c].node)) \in Seq(Orgs)
    BY <2>2, RebaseType DEF TypeInv, TypeOK
  <2>4. path' \in [Orgs -> Seq(Orgs)]
    <3>1. path \in [Orgs -> Seq(Orgs)]
      BY DEF TypeInv, TypeOK
    <3>. QED
      BY <1>6, <2>2, <2>3, <3>1 DEF MoveCommit
  <2>5. parent' \in [Orgs -> Orgs \cup {None}]
    BY <1>6, <2>2 DEF MoveCommit, TypeInv, TypeOK
  <2>. QED
    BY <1>6, <2>1, <2>4, <2>5 DEF MoveCommit, Overtake, TypeInv, TypeOK
<1>7. ASSUME NEW c \in Calls, MoveRollback(c)
      PROVE  TypeInv'
  <2>1. /\ call' = call
        /\ step' \in [Calls -> Underway \cup {"none", "written", "refused"}]
        /\ CallsFit'
    BY <1>7, GoesTypes DEF MoveRollback, At, Ends, Underway
  <2>. QED
    BY <1>7, <2>1 DEF MoveRollback, TypeInv, TypeOK
<1>8. ASSUME NEW c \in Calls, NEW n \in Orgs, DeleteBegin(c, n)
      PROVE  TypeInv'
  <2>1. /\ call' \in [Calls -> [op : Ops \cup {"none"}, node : Orgs \cup {None}, to : Orgs \cup {None}]]
        /\ step' \in [Calls -> Underway \cup {"none", "written", "refused"}]
        /\ CallsFit'
    BY <1>8, BeginsTypes DEF DeleteBegin, Ops, Underway
  <2>. QED
    BY <1>8, <2>1 DEF DeleteBegin, TypeInv, TypeOK
<1>9. ASSUME NEW c \in Calls, NEW i \in 1..4, DeleteCheck(c, i)
      PROVE  TypeInv'
  <2>1. /\ call' = call
        /\ step' \in [Calls -> Underway \cup {"none", "written", "refused"}]
        /\ CallsFit'
    <3>1. PICK s \in {"children", "keys", "users", "write", "refused"} : Goes(c, s)
      <4>1. i \in {1, 2, 3, 4}
        OBVIOUS
      <4>2. Checks[i + 1] \in {"children", "keys", "users", "write"}
        BY <4>1 DEF Checks
      <4>. QED
        BY <1>9, <4>2 DEF DeleteCheck
    <3>. QED
      BY <1>9, <3>1, GoesTypes DEF DeleteCheck, At, Checks, Underway
  <2>. QED
    BY <1>9, <2>1 DEF DeleteCheck, TypeInv, TypeOK
<1>10. ASSUME NEW c \in Calls, DeleteWrite(c)
      PROVE  TypeInv'
  <2>1. /\ call' = call
        /\ step' \in [Calls -> Underway \cup {"none", "written", "refused"}]
        /\ CallsFit'
    BY <1>10, GoesTypes DEF DeleteWrite, At, Ends, Underway, TypeInv, CallsFit
  <2>. QED
    BY <1>10, <2>1 DEF DeleteWrite, TypeInv, TypeOK
<1>11. ASSUME NEW c \in Calls, NEW n \in Orgs, UnmarkRead(c, n)
      PROVE  TypeInv'
  <2>1. /\ call' \in [Calls -> [op : Ops \cup {"none"}, node : Orgs \cup {None}, to : Orgs \cup {None}]]
        /\ step' \in [Calls -> Underway \cup {"none", "written", "refused"}]
        /\ CallsFit'
    <3>1. PICK s \in {"write", "refused"} : Begins(c, "unmark", n, None, s)
      BY <1>11 DEF UnmarkRead
    <3>. QED
      BY <3>1, BeginsTypes DEF Ops, Underway
  <2>. QED
    BY <1>11, <2>1 DEF UnmarkRead, TypeInv, TypeOK
<1>12. ASSUME NEW c \in Calls, UnmarkWrite(c)
      PROVE  TypeInv'
  <2>1. /\ call' = call
        /\ step' \in [Calls -> Underway \cup {"none", "written", "refused"}]
        /\ CallsFit'
    BY <1>12, GoesTypes DEF UnmarkWrite, At, Ends, Underway, TypeInv, CallsFit
  <2>. QED
    BY <1>12, <2>1 DEF UnmarkWrite, TypeInv, TypeOK, Overtake
<1>13. ASSUME NEW c \in Calls, NEW n \in Orgs, IssueRead(c, n)
      PROVE  TypeInv'
  <2>1. /\ call' \in [Calls -> [op : Ops \cup {"none"}, node : Orgs \cup {None}, to : Orgs \cup {None}]]
        /\ step' \in [Calls -> Underway \cup {"none", "written", "refused"}]
        /\ CallsFit'
    <3>1. PICK s \in {"write", "refused"} : Begins(c, "issue", n, None, s)
      BY <1>13 DEF IssueRead
    <3>. QED
      BY <3>1, BeginsTypes DEF Ops, Underway
  <2>. QED
    BY <1>13, <2>1 DEF IssueRead, TypeInv, TypeOK
<1>14. ASSUME NEW c \in Calls, IssueWrite(c)
      PROVE  TypeInv'
  <2>1. /\ call' = call
        /\ step' \in [Calls -> Underway \cup {"none", "written", "refused"}]
        /\ CallsFit'
    BY <1>14, GoesTypes DEF IssueWrite, At, Ends, Underway, TypeInv, CallsFit
  <2>2. live' \in SUBSET Orgs
    BY <1>14 DEF IssueWrite, TypeInv, TypeOK, Nodes
  <2>3. overtaken' \in SUBSET Calls
    BY <1>14 DEF IssueWrite, TypeInv, TypeOK, Overtake
  <2>. QED
    BY <1>14, <2>1, <2>2, <2>3 DEF IssueWrite, TypeInv, TypeOK
<1>15. ASSUME NEW c \in Calls, IssueActivate(c)
      PROVE  TypeInv'
  <2>1. /\ call' = call
        /\ step' \in [Calls -> Underway \cup {"none", "written", "refused"}]
        /\ CallsFit'
    BY <1>15, GoesTypes DEF IssueActivate, At, Ends, Underway, TypeInv, CallsFit
  <2>2. live' \in SUBSET Orgs /\ spent' \in SUBSET Orgs
    BY <1>15 DEF IssueActivate, TypeInv, TypeOK
  <2>3. overtaken' \in SUBSET Calls
    BY <1>15 DEF IssueActivate, TypeInv, TypeOK, Overtake
  <2>. QED
    BY <1>15, <2>1, <2>2, <2>3 DEF IssueActivate, TypeInv, TypeOK
<1>16. ASSUME NEW c \in Calls, IssueFails(c)
      PROVE  TypeInv'
  <2>1. /\ call' = call
        /\ step' \in [Calls -> Underway \cup {"none", "written", "refused"}]
        /\ CallsFit'
    BY <1>16, GoesTypes DEF IssueFails, At, Ends, Underway, TypeInv, CallsFit
  <2>. QED
    BY <1>16, <2>1 DEF IssueFails, TypeInv, TypeOK
<1>17. ASSUME NEW c \in Calls, NEW n \in Orgs, Mark(c, n)
      PROVE  TypeInv'
  <2>1. /\ call' \in [Calls -> [op : Ops \cup {"none"}, node : Orgs \cup {None}, to : Orgs \cup {None}]]
        /\ step' \in [Calls -> Underway \cup {"none", "written", "refused"}]
        /\ CallsFit'
    BY <1>17, BeginsTypes DEF Mark, Ops, Underway
  <2>. QED
    BY <1>17, <2>1 DEF Mark, TypeInv, TypeOK
<1>18. ASSUME NEW c \in Calls, NEW n \in Orgs, EndKeys(c, n)
      PROVE  TypeInv'
  <2>1. /\ call' \in [Calls -> [op : Ops \cup {"none"}, node : Orgs \cup {None}, to : Orgs \cup {None}]]
        /\ step' \in [Calls -> Underway \cup {"none", "written", "refused"}]
        /\ CallsFit'
    BY <1>18, BeginsTypes DEF EndKeys, Ops, Underway
  <2>. QED
    BY <1>18, <2>1 DEF EndKeys, TypeInv, TypeOK
<1>19. ASSUME NEW c \in Calls, NEW n \in Orgs, AssignPrimaryOrg(c, n)
      PROVE  TypeInv'
  <2>1. /\ call' \in [Calls -> [op : Ops \cup {"none"}, node : Orgs \cup {None}, to : Orgs \cup {None}]]
        /\ step' \in [Calls -> Underway \cup {"none", "written", "refused"}]
        /\ CallsFit'
    BY <1>19, BeginsTypes DEF AssignPrimaryOrg, Ops, Underway
  <2>. QED
    BY <1>19, <2>1 DEF AssignPrimaryOrg, TypeInv, TypeOK
<1>20. ASSUME NEW c \in Calls, NEW n \in Orgs, ClearPrimaryOrg(c, n)
      PROVE  TypeInv'
  <2>1. /\ call' \in [Calls -> [op : Ops \cup {"none"}, node : Orgs \cup {None}, to : Orgs \cup {None}]]
        /\ step' \in [Calls -> Underway \cup {"none", "written", "refused"}]
        /\ CallsFit'
    BY <1>20, BeginsTypes DEF ClearPrimaryOrg, Ops, Underway
  <2>. QED
    BY <1>20, <2>1 DEF ClearPrimaryOrg, TypeInv, TypeOK
<1>21. ASSUME NEW c \in Calls, NEW n \in Orgs, SubmitRequest(c, n)
      PROVE  TypeInv'
  <2>1. /\ call' \in [Calls -> [op : Ops \cup {"none"}, node : Orgs \cup {None}, to : Orgs \cup {None}]]
        /\ step' \in [Calls -> Underway \cup {"none", "written", "refused"}]
        /\ CallsFit'
    BY <1>21, BeginsTypes DEF SubmitRequest, Ops, Underway
  <2>. QED
    BY <1>21, <2>1 DEF SubmitRequest, TypeInv, TypeOK
<1>22. ASSUME UNCHANGED vars
      PROVE  TypeInv'
  BY <1>22 DEF vars, calls, reads, TypeInv, TypeOK, CallsFit
<1>. QED
  BY <1>1, <1>2, <1>3, <1>4, <1>5, <1>6, <1>7, <1>8, <1>9, <1>10, <1>11, <1>12, <1>13,
     <1>14, <1>15, <1>16, <1>17, <1>18, <1>19, <1>20, <1>21, <1>22 DEF Next

\* Every variable keeps its type: in particular every path the handlers compute is a
\* sequence of ids, whatever stale paths they compute it from.
THEOREM TypeCorrect == Spec => []TypeOK
<1>1. Spec => []TypeInv
  BY InitTypeInv, NextTypeInv, PTL DEF Spec
<1>. QED
  BY <1>1, PTL DEF TypeInv
-----------------------------------------------------------------------------
(* References and ids.                                                      *)

LEMMA InitReferences == Init => ReferencesResolve
  BY ForestsAssumption DEF Init, ReferencesResolve, Whole, Nodes

LEMMA NextReferences == TypeInv /\ ReferencesResolve /\ [Next]_vars => ReferencesResolve'
<1>. SUFFICES ASSUME TypeInv, ReferencesResolve, [Next]_vars PROVE ReferencesResolve'
  OBVIOUS
<1>. USE DEF tree, others, reads
<1>1. ASSUME NEW c \in Calls, NEW n \in Orgs, NEW p \in Orgs \cup {None}, CreateRead(c, n, p)
      PROVE  ReferencesResolve'
  BY <1>1 DEF CreateRead, ReferencesResolve, Nodes
<1>2. ASSUME NEW c \in Calls, CreateWrite(c)
      PROVE  ReferencesResolve'
  <2>1. call[c].node \in Orgs
    BY <1>2 DEF CreateWrite, At, TypeInv, CallsFit
  <2>2. CASE call[c].to \in Nodes \cup {None}
    <3>1. Nodes' = Nodes \cup {call[c].node}
      BY <1>2, <2>1, <2>2 DEF CreateWrite, TypeInv, TypeOK, Nodes
    <3>2. \A o \in Orgs : parent'[o] = IF o = call[c].node THEN call[c].to ELSE parent[o]
      BY <1>2, <2>2 DEF CreateWrite, TypeInv, TypeOK
    <3>. QED
      BY <1>2, <2>2, <3>1, <3>2 DEF CreateWrite, ReferencesResolve, Nodes
  <2>3. CASE call[c].to \notin Nodes \cup {None}
    BY <1>2, <2>3 DEF CreateWrite, ReferencesResolve, Nodes
  <2>. QED
    BY <2>2, <2>3
<1>3. ASSUME NEW c \in Calls, NEW n \in Orgs, NEW p \in Orgs \cup {None}, MoveReadNode(c, n, p)
      PROVE  ReferencesResolve'
  BY <1>3 DEF MoveReadNode, ReferencesResolve, Nodes
<1>4. ASSUME NEW c \in Calls, MoveReadParent(c)
      PROVE  ReferencesResolve'
  BY <1>4 DEF MoveReadParent, ReferencesResolve, Nodes
<1>5. ASSUME NEW c \in Calls, MoveUpdate(c)
      PROVE  ReferencesResolve'
  BY <1>5 DEF MoveUpdate, ReferencesResolve, Nodes
<1>6. ASSUME NEW c \in Calls, MoveCommit(c)
      PROVE  ReferencesResolve'
  <2>1. Nodes' = Nodes /\ UNCHANGED <<holder, others>>
    BY <1>6 DEF MoveCommit, Nodes
  <2>2. \A o \in Nodes : parent'[o] \in Nodes \cup {None}
    <3>1. parent \in [Orgs -> Orgs \cup {None}] /\ \A o \in Nodes : o \in Orgs /\ parent[o] \in Nodes \cup {None}
      BY DEF TypeInv, TypeOK, ReferencesResolve, Nodes
    <3>2. \/ parent' = parent
          \/ parent' = [parent EXCEPT ![call[c].node] = call[c].to] /\ call[c].to \in Nodes \cup {None}
      BY <1>6 DEF MoveCommit
    <3>. QED
      BY <3>1, <3>2
  <2>. QED
    BY <2>1, <2>2 DEF ReferencesResolve
<1>7. ASSUME NEW c \in Calls, MoveRollback(c)
      PROVE  ReferencesResolve'
  BY <1>7 DEF MoveRollback, ReferencesResolve, Nodes
<1>8. ASSUME NEW c \in Calls, NEW n \in Orgs, DeleteBegin(c, n)
      PROVE  ReferencesResolve'
  BY <1>8 DEF DeleteBegin, ReferencesResolve, Nodes
<1>9. ASSUME NEW c \in Calls, NEW i \in 1..4, DeleteCheck(c, i)
      PROVE  ReferencesResolve'
  BY <1>9 DEF DeleteCheck, ReferencesResolve, Nodes
<1>10. ASSUME NEW c \in Calls, DeleteWrite(c)
      PROVE  ReferencesResolve'
  <2>1. CASE call[c].node \in Nodes /\ Referenced(call[c].node)
    BY <1>10, <2>1 DEF DeleteWrite, ReferencesResolve, Nodes
  <2>2. CASE ~(call[c].node \in Nodes /\ Referenced(call[c].node))
    <3>1. Nodes' = Nodes \ {call[c].node}
      BY <1>10, <2>2 DEF DeleteWrite, TypeInv, TypeOK, Nodes
    <3>2. parent' = parent /\ holder' = holder \ {call[c].node} /\ UNCHANGED <<live, spent, home, asked>>
      BY <1>10, <2>2 DEF DeleteWrite
    <3>3. call[c].node \in Nodes => /\ call[c].node \notin live \cup spent \cup home \cup asked
                                   /\ \A o \in Nodes : parent[o] # call[c].node
      BY <2>2 DEF Referenced
    <3>. QED
      BY <3>1, <3>2, <3>3 DEF ReferencesResolve
  <2>. QED
    BY <2>1, <2>2
<1>11. ASSUME NEW c \in Calls, NEW n \in Orgs, UnmarkRead(c, n)
      PROVE  ReferencesResolve'
  BY <1>11 DEF UnmarkRead, ReferencesResolve, Nodes
<1>12. ASSUME NEW c \in Calls, UnmarkWrite(c)
      PROVE  ReferencesResolve'
  BY <1>12 DEF UnmarkWrite, ReferencesResolve, Nodes
<1>13. ASSUME NEW c \in Calls, NEW n \in Orgs, IssueRead(c, n)
      PROVE  ReferencesResolve'
  BY <1>13 DEF IssueRead, ReferencesResolve, Nodes
<1>14. ASSUME NEW c \in Calls, IssueWrite(c)
      PROVE  ReferencesResolve'
  <2>1. UNCHANGED <<row, parent, holder, spent, home, asked>>
    BY <1>14 DEF IssueWrite
  <2>2. live' \subseteq live \cup Nodes
    BY <1>14 DEF IssueWrite
  <2>. QED
    BY <2>1, <2>2 DEF ReferencesResolve, Nodes
<1>15. ASSUME NEW c \in Calls, IssueActivate(c)
      PROVE  ReferencesResolve'
  <2>1. UNCHANGED <<row, parent, holder, home, asked>> /\ live' \cup spent' \subseteq live \cup spent
    BY <1>15 DEF IssueActivate
  <2>. QED
    BY <2>1 DEF ReferencesResolve, Nodes
<1>16. ASSUME NEW c \in Calls, IssueFails(c)
      PROVE  ReferencesResolve'
  BY <1>16 DEF IssueFails, ReferencesResolve, Nodes
<1>17. ASSUME NEW c \in Calls, NEW n \in Orgs, Mark(c, n)
      PROVE  ReferencesResolve'
  BY <1>17 DEF Mark, ReferencesResolve, Nodes
<1>18. ASSUME NEW c \in Calls, NEW n \in Orgs, EndKeys(c, n)
      PROVE  ReferencesResolve'
  BY <1>18 DEF EndKeys, ReferencesResolve, Nodes
<1>19. ASSUME NEW c \in Calls, NEW n \in Orgs, AssignPrimaryOrg(c, n)
      PROVE  ReferencesResolve'
  BY <1>19 DEF AssignPrimaryOrg, ReferencesResolve, Nodes
<1>20. ASSUME NEW c \in Calls, NEW n \in Orgs, ClearPrimaryOrg(c, n)
      PROVE  ReferencesResolve'
  BY <1>20 DEF ClearPrimaryOrg, ReferencesResolve, Nodes
<1>21. ASSUME NEW c \in Calls, NEW n \in Orgs, SubmitRequest(c, n)
      PROVE  ReferencesResolve'
  BY <1>21 DEF SubmitRequest, ReferencesResolve, Nodes
<1>22. ASSUME UNCHANGED vars
      PROVE  ReferencesResolve'
  BY <1>22 DEF vars, calls, reads, ReferencesResolve, Nodes
<1>. QED
  BY <1>1, <1>2, <1>3, <1>4, <1>5, <1>6, <1>7, <1>8, <1>9, <1>10, <1>11, <1>12, <1>13,
     <1>14, <1>15, <1>16, <1>17, <1>18, <1>19, <1>20, <1>21, <1>22 DEF Next

\* No reference outlives the node it points to, whatever races: the checks of Delete
\* are only courtesy, the foreign keys decide.
THEOREM ReferencesCorrect == Spec => []ReferencesResolve
<1>1. Spec => [](TypeInv /\ ReferencesResolve)
  BY InitTypeInv, NextTypeInv, InitReferences, NextReferences, PTL DEF Spec
<1>. QED
  BY <1>1, PTL

LEMMA InitIds == Init => IdsAreFresh
  BY DEF Init, IdsAreFresh, IdsOf, NoCall, At

\* A step of one call that uses no new id.
LEMMA SameRow ==
  ASSUME TypeInv, IdsAreFresh, NEW c \in Calls, IdsOf(c)', row' = row,
         \A d \in Calls \ {c} : call'[d] = call[d] /\ step'[d] = step[d],
         \/ call'[c].op # "create"
         \/ call'[c] = call[c]
         \/ \A d \in Calls : call[d].node # call'[c].node
  PROVE  IdsAreFresh'
<1>1. \A d \in Calls \ {c} : IdsOf(d)'
  BY DEF IdsAreFresh, IdsOf, At
<1>2. \A b, d \in Calls : b # d /\ call'[b].op = "create" /\ call'[d].op = "create"
                          => call'[b].node # call'[d].node
  BY DEF IdsAreFresh
<1>. QED
  BY <1>1, <1>2 DEF IdsAreFresh

LEMMA NextIds == TypeInv /\ ReferencesResolve /\ IdsAreFresh /\ [Next]_vars => IdsAreFresh'
<1>. SUFFICES ASSUME TypeInv, ReferencesResolve, IdsAreFresh, [Next]_vars PROVE IdsAreFresh'
  OBVIOUS
<1>. USE DEF tree, others, reads
<1>1. ASSUME NEW c \in Calls, NEW n \in Orgs, NEW p \in Orgs \cup {None}, CreateRead(c, n, p)
      PROVE  IdsAreFresh'
  <2>1. /\ call'[c] = [op |-> "create", node |-> n, to |-> p] /\ step'[c] = "write"
        /\ \A d \in Calls \ {c} : call'[d] = call[d] /\ step'[d] = step[d]
    BY <1>1, BeginsAlone DEF CreateRead
  <2>2. IdsOf(c)' /\ row' = row
    BY <1>1, <2>1, NoneAssumption DEF CreateRead, IdsOf, At, Nodes, ReferencesResolve
  <2>. QED
    BY <1>1, <2>1, <2>2, SameRow DEF CreateRead
<1>2. ASSUME NEW c \in Calls, CreateWrite(c)
      PROVE  IdsAreFresh'
  <2>1. /\ call' = call /\ step'[c] \in {"written", "refused"}
        /\ \A d \in Calls \ {c} : step'[d] = step[d]
    BY <1>2, GoesAlone DEF CreateWrite, Ends
  <2>2. \A o \in Orgs : row'[o] = row[o] \/ (o = call[c].node /\ row'[o] = "present")
    BY <1>2 DEF CreateWrite, TypeInv, TypeOK
  <2>3. call[c].op = "create"
    BY <1>2 DEF CreateWrite, At
  <2>4. ASSUME NEW d \in Calls PROVE IdsOf(d)'
    <3>1. At(d, "create", "write")' => d # c /\ call[d].node \in Orgs /\ call[d].node # call[c].node
      BY <2>1, <2>3 DEF At, IdsAreFresh, TypeInv, CallsFit
    <3>. QED
      BY <2>1, <2>2, <2>3, <3>1 DEF IdsAreFresh, IdsOf, At, TypeInv, CallsFit
  <2>. QED
    BY <2>1, <2>4 DEF IdsAreFresh
<1>3. ASSUME NEW c \in Calls, NEW n \in Orgs, NEW p \in Orgs \cup {None}, MoveReadNode(c, n, p)
      PROVE  IdsAreFresh'
  <2>1. /\ call'[c] = [op |-> "move", node |-> n, to |-> p] /\ step'[c] = "parent"
        /\ \A d \in Calls \ {c} : call'[d] = call[d] /\ step'[d] = step[d]
    BY <1>3, BeginsAlone DEF MoveReadNode
  <2>2. IdsOf(c)' /\ row' = row
    BY <1>3, <2>1, NoneAssumption DEF MoveReadNode, IdsOf, At, Nodes, ReferencesResolve
  <2>. QED
    BY <1>3, <2>1, <2>2, SameRow
<1>4. ASSUME NEW c \in Calls, MoveReadParent(c)
      PROVE  IdsAreFresh'
  <2>1. /\ call' = call
        /\ \A d \in Calls \ {c} : step'[d] = step[d]
    BY <1>4, GoesAlone DEF MoveReadParent
  <2>2. /\ call[c].op = "move" /\ row' = row
        /\ step'[c] \in {"write", "refused"}
        /\ step'[c] = "write" => call[c].to \in Nodes \cup {None}
    BY <1>4 DEF MoveReadParent, At, Goes, TypeInv, TypeOK
  <2>3. IdsOf(c)'
    BY <2>1, <2>2, NoneAssumption DEF IdsOf, At, IdsAreFresh, Nodes
  <2>. QED
    BY <2>1, <2>2, <2>3, SameRow
<1>5. ASSUME NEW c \in Calls, MoveUpdate(c)
      PROVE  IdsAreFresh'
  <2>1. /\ call' = call
        /\ \A d \in Calls \ {c} : step'[d] = step[d]
    BY <1>5, GoesAlone DEF MoveUpdate
  <2>2. IdsOf(c)' /\ row' = row
    BY <1>5, <2>1, GoesAlone DEF MoveUpdate, IdsOf, At, IdsAreFresh
  <2>. QED
    BY <2>1, <2>2, SameRow
<1>6. ASSUME NEW c \in Calls, MoveCommit(c)
      PROVE  IdsAreFresh'
  <2>1. /\ call' = call
        /\ \A d \in Calls \ {c} : step'[d] = step[d]
    BY <1>6, GoesAlone DEF MoveCommit, Ends
  <2>2. IdsOf(c)' /\ row' = row
    BY <1>6, <2>1, GoesAlone DEF MoveCommit, Ends, IdsOf, At, IdsAreFresh
  <2>. QED
    BY <2>1, <2>2, SameRow
<1>7. ASSUME NEW c \in Calls, MoveRollback(c)
      PROVE  IdsAreFresh'
  <2>1. /\ call' = call
        /\ \A d \in Calls \ {c} : step'[d] = step[d]
    BY <1>7, GoesAlone DEF MoveRollback, Ends
  <2>2. IdsOf(c)' /\ row' = row
    BY <1>7, <2>1, GoesAlone DEF MoveRollback, Ends, IdsOf, At, IdsAreFresh
  <2>. QED
    BY <2>1, <2>2, SameRow
<1>8. ASSUME NEW c \in Calls, NEW n \in Orgs, DeleteBegin(c, n)
      PROVE  IdsAreFresh'
  <2>1. /\ call'[c] = [op |-> "delete", node |-> n, to |-> None] /\ step'[c] = "get"
        /\ \A d \in Calls \ {c} : call'[d] = call[d] /\ step'[d] = step[d]
    BY <1>8, BeginsAlone DEF DeleteBegin
  <2>2. IdsOf(c)' /\ row' = row
    BY <1>8, <2>1, NoneAssumption DEF DeleteBegin, IdsOf, At, Nodes, ReferencesResolve
  <2>. QED
    BY <1>8, <2>1, <2>2, SameRow
<1>9. ASSUME NEW c \in Calls, NEW i \in 1..4, DeleteCheck(c, i)
      PROVE  IdsAreFresh'
  <2>1. /\ call' = call
        /\ \A d \in Calls \ {c} : step'[d] = step[d]
    BY <1>9, GoesAlone DEF DeleteCheck
  <2>2. /\ call[c].op = "delete" /\ row' = row /\ step[c] = Checks[i]
        /\ Checks[i] = "get" /\ call[c].node \notin Nodes => step'[c] = "refused"
    BY <1>9 DEF DeleteCheck, At, Goes, TypeInv, TypeOK
  <2>3. Checks[i] # "refused"
    BY i \in {1, 2, 3, 4} DEF Checks
  <2>4. IdsOf(c)'
    BY <2>1, <2>2, <2>3 DEF IdsOf, At, IdsAreFresh, Nodes
  <2>. QED
    BY <2>1, <2>2, <2>4, SameRow
<1>10. ASSUME NEW c \in Calls, DeleteWrite(c)
      PROVE  IdsAreFresh'
  <2>1. /\ call' = call /\ step'[c] \in {"written", "refused"}
        /\ \A d \in Calls \ {c} : step'[d] = step[d]
    BY <1>10, GoesAlone DEF DeleteWrite, Ends
  <2>2. \A o \in Orgs : row'[o] = row[o] \/ (o = call[c].node /\ row'[o] = "deleted")
    BY <1>10 DEF DeleteWrite, TypeInv, TypeOK
  <2>3. At(c, "delete", "write") /\ row[call[c].node] # "unused"
    BY <1>10 DEF DeleteWrite, At, IdsAreFresh, IdsOf
  <2>4. ASSUME NEW d \in Calls PROVE IdsOf(d)'
    BY <2>1, <2>2, <2>3 DEF IdsAreFresh, IdsOf, At, TypeInv, CallsFit
  <2>. QED
    BY <2>1, <2>4 DEF IdsAreFresh
<1>11. ASSUME NEW c \in Calls, NEW n \in Orgs, UnmarkRead(c, n)
      PROVE  IdsAreFresh'
  <2>1. /\ call'[c] = [op |-> "unmark", node |-> n, to |-> None] /\ step'[c] \in {"write", "refused"}
        /\ \A d \in Calls \ {c} : call'[d] = call[d] /\ step'[d] = step[d]
    BY <1>11, BeginsAlone DEF UnmarkRead
  <2>2. IdsOf(c)' /\ row' = row
    BY <1>11, <2>1, NoneAssumption DEF UnmarkRead, IdsOf, At, Nodes, ReferencesResolve
  <2>. QED
    BY <1>11, <2>1, <2>2, SameRow
<1>12. ASSUME NEW c \in Calls, UnmarkWrite(c)
      PROVE  IdsAreFresh'
  <2>1. /\ call' = call
        /\ \A d \in Calls \ {c} : step'[d] = step[d]
    BY <1>12, GoesAlone DEF UnmarkWrite, Ends
  <2>2. IdsOf(c)' /\ row' = row
    BY <1>12, <2>1, GoesAlone DEF UnmarkWrite, Ends, IdsOf, At, IdsAreFresh
  <2>. QED
    BY <2>1, <2>2, SameRow
<1>13. ASSUME NEW c \in Calls, NEW n \in Orgs, IssueRead(c, n)
      PROVE  IdsAreFresh'
  <2>1. /\ call'[c] = [op |-> "issue", node |-> n, to |-> None] /\ step'[c] = IF n \in holder THEN "write" ELSE "refused"
        /\ \A d \in Calls \ {c} : call'[d] = call[d] /\ step'[d] = step[d]
    BY <1>13, BeginsAlone DEF IssueRead
  <2>2. IdsOf(c)' /\ row' = row
    BY <1>13, <2>1, NoneAssumption DEF IssueRead, IdsOf, At, Nodes, ReferencesResolve
  <2>. QED
    BY <1>13, <2>1, <2>2, SameRow
<1>14. ASSUME NEW c \in Calls, IssueWrite(c)
      PROVE  IdsAreFresh'
  <2>1. /\ call' = call
        /\ \A d \in Calls \ {c} : step'[d] = step[d]
    BY <1>14, GoesAlone DEF IssueWrite, Ends
  <2>2. IdsOf(c)' /\ row' = row
    BY <1>14, <2>1, GoesAlone DEF IssueWrite, Ends, IdsOf, At, IdsAreFresh
  <2>. QED
    BY <2>1, <2>2, SameRow
<1>15. ASSUME NEW c \in Calls, IssueActivate(c)
      PROVE  IdsAreFresh'
  <2>1. /\ call' = call
        /\ \A d \in Calls \ {c} : step'[d] = step[d]
    BY <1>15, GoesAlone DEF IssueActivate, Ends
  <2>2. IdsOf(c)' /\ row' = row
    BY <1>15, <2>1, GoesAlone DEF IssueActivate, Ends, IdsOf, At, IdsAreFresh
  <2>. QED
    BY <2>1, <2>2, SameRow
<1>16. ASSUME NEW c \in Calls, IssueFails(c)
      PROVE  IdsAreFresh'
  <2>1. /\ call' = call
        /\ \A d \in Calls \ {c} : step'[d] = step[d]
    BY <1>16, GoesAlone DEF IssueFails, Ends
  <2>2. IdsOf(c)' /\ row' = row
    BY <1>16, <2>1, GoesAlone DEF IssueFails, Ends, IdsOf, At, IdsAreFresh
  <2>. QED
    BY <2>1, <2>2, SameRow
<1>17. ASSUME NEW c \in Calls, NEW n \in Orgs, Mark(c, n)
      PROVE  IdsAreFresh'
  <2>1. /\ call'[c] = [op |-> "other", node |-> n, to |-> None] /\ step'[c] = "written"
        /\ \A d \in Calls \ {c} : call'[d] = call[d] /\ step'[d] = step[d]
    BY <1>17, BeginsAlone DEF Mark
  <2>2. IdsOf(c)' /\ row' = row
    BY <1>17, <2>1, NoneAssumption DEF Mark, IdsOf, At, Nodes, ReferencesResolve
  <2>. QED
    BY <1>17, <2>1, <2>2, SameRow
<1>18. ASSUME NEW c \in Calls, NEW n \in Orgs, EndKeys(c, n)
      PROVE  IdsAreFresh'
  <2>1. /\ call'[c] = [op |-> "other", node |-> n, to |-> None] /\ step'[c] = "written"
        /\ \A d \in Calls \ {c} : call'[d] = call[d] /\ step'[d] = step[d]
    BY <1>18, BeginsAlone DEF EndKeys
  <2>2. IdsOf(c)' /\ row' = row
    BY <1>18, <2>1, NoneAssumption DEF EndKeys, IdsOf, At, Nodes, ReferencesResolve
  <2>. QED
    BY <1>18, <2>1, <2>2, SameRow
<1>19. ASSUME NEW c \in Calls, NEW n \in Orgs, AssignPrimaryOrg(c, n)
      PROVE  IdsAreFresh'
  <2>1. /\ call'[c] = [op |-> "other", node |-> n, to |-> None] /\ step'[c] = "written"
        /\ \A d \in Calls \ {c} : call'[d] = call[d] /\ step'[d] = step[d]
    BY <1>19, BeginsAlone DEF AssignPrimaryOrg
  <2>2. IdsOf(c)' /\ row' = row
    BY <1>19, <2>1, NoneAssumption DEF AssignPrimaryOrg, IdsOf, At, Nodes, ReferencesResolve
  <2>. QED
    BY <1>19, <2>1, <2>2, SameRow
<1>20. ASSUME NEW c \in Calls, NEW n \in Orgs, ClearPrimaryOrg(c, n)
      PROVE  IdsAreFresh'
  <2>1. /\ call'[c] = [op |-> "other", node |-> n, to |-> None] /\ step'[c] = "written"
        /\ \A d \in Calls \ {c} : call'[d] = call[d] /\ step'[d] = step[d]
    BY <1>20, BeginsAlone DEF ClearPrimaryOrg
  <2>2. IdsOf(c)' /\ row' = row
    BY <1>20, <2>1, NoneAssumption DEF ClearPrimaryOrg, IdsOf, At, Nodes, ReferencesResolve
  <2>. QED
    BY <1>20, <2>1, <2>2, SameRow
<1>21. ASSUME NEW c \in Calls, NEW n \in Orgs, SubmitRequest(c, n)
      PROVE  IdsAreFresh'
  <2>1. /\ call'[c] = [op |-> "other", node |-> n, to |-> None] /\ step'[c] = "written"
        /\ \A d \in Calls \ {c} : call'[d] = call[d] /\ step'[d] = step[d]
    BY <1>21, BeginsAlone DEF SubmitRequest
  <2>2. IdsOf(c)' /\ row' = row
    BY <1>21, <2>1, NoneAssumption DEF SubmitRequest, IdsOf, At, Nodes, ReferencesResolve
  <2>. QED
    BY <1>21, <2>1, <2>2, SameRow
<1>22. ASSUME UNCHANGED vars
      PROVE  IdsAreFresh'
  BY <1>22 DEF vars, calls, reads, IdsAreFresh, IdsOf, At
<1>. QED
  BY <1>1, <1>2, <1>3, <1>4, <1>5, <1>6, <1>7, <1>8, <1>9, <1>10, <1>11, <1>12, <1>13,
     <1>14, <1>15, <1>16, <1>17, <1>18, <1>19, <1>20, <1>21, <1>22 DEF Next
-----------------------------------------------------------------------------
(* Key boundaries.                                                          *)

\* What has been written stays written, what is overtaken stays overtaken.
Kept == /\ overtaken \subseteq overtaken'
        /\ \A d \in Calls : step[d] \in {"activate", "written"} =>
                           step'[d] \in {"activate", "written"} /\ call'[d] = call[d]

LEMMA TornStays ==
  ASSUME Kept, NEW ops, NEW N, Torn(ops, N), overtaken \subseteq Calls PROVE Torn(ops, N)'
  BY DEF Kept, Torn

LEMMA NextKept == TypeInv /\ [Next]_vars => Kept
<1>. SUFFICES ASSUME TypeInv, [Next]_vars PROVE Kept
  OBVIOUS
<1>. USE DEF tree, others, reads
<1>1. ASSUME NEW c \in Calls, NEW n \in Orgs, NEW p \in Orgs \cup {None}, CreateRead(c, n, p)
      PROVE  Kept
  BY <1>1, BeginsAlone DEF CreateRead, Kept
<1>2. ASSUME NEW c \in Calls, CreateWrite(c)
      PROVE  Kept
  <2>1. step[c] \notin {"activate", "written"}
    BY <1>2 DEF CreateWrite, At
  <2>2. call' = call /\ \A d \in Calls \ {c} : step'[d] = step[d]
    BY <1>2, GoesAlone DEF CreateWrite, Ends
  <2>3. overtaken \subseteq overtaken'
    BY <1>2 DEF CreateWrite, Overtake
  <2>. QED
    BY <2>1, <2>2, <2>3 DEF Kept
<1>3. ASSUME NEW c \in Calls, NEW n \in Orgs, NEW p \in Orgs \cup {None}, MoveReadNode(c, n, p)
      PROVE  Kept
  BY <1>3, BeginsAlone DEF MoveReadNode, Kept
<1>4. ASSUME NEW c \in Calls, MoveReadParent(c)
      PROVE  Kept
  <2>1. step[c] \notin {"activate", "written"}
    BY <1>4 DEF MoveReadParent, At
  <2>2. call' = call /\ \A d \in Calls \ {c} : step'[d] = step[d]
    BY <1>4, GoesAlone DEF MoveReadParent, Ends
  <2>3. overtaken \subseteq overtaken'
    BY <1>4 DEF MoveReadParent
  <2>. QED
    BY <2>1, <2>2, <2>3 DEF Kept
<1>5. ASSUME NEW c \in Calls, MoveUpdate(c)
      PROVE  Kept
  <2>1. step[c] \notin {"activate", "written"}
    BY <1>5 DEF MoveUpdate, At
  <2>2. call' = call /\ \A d \in Calls \ {c} : step'[d] = step[d]
    BY <1>5, GoesAlone DEF MoveUpdate
  <2>3. overtaken \subseteq overtaken'
    BY <1>5 DEF MoveUpdate
  <2>. QED
    BY <2>1, <2>2, <2>3 DEF Kept
<1>6. ASSUME NEW c \in Calls, MoveCommit(c)
      PROVE  Kept
  <2>1. step[c] \notin {"activate", "written"}
    BY <1>6 DEF MoveCommit, At
  <2>2. call' = call /\ \A d \in Calls \ {c} : step'[d] = step[d]
    BY <1>6, GoesAlone DEF MoveCommit, Ends
  <2>3. overtaken \subseteq overtaken'
    BY <1>6 DEF MoveCommit, Overtake
  <2>. QED
    BY <2>1, <2>2, <2>3 DEF Kept
<1>7. ASSUME NEW c \in Calls, MoveRollback(c)
      PROVE  Kept
  <2>1. step[c] \notin {"activate", "written"}
    BY <1>7 DEF MoveRollback, At
  <2>2. call' = call /\ \A d \in Calls \ {c} : step'[d] = step[d]
    BY <1>7, GoesAlone DEF MoveRollback, Ends
  <2>3. overtaken \subseteq overtaken'
    BY <1>7 DEF MoveRollback
  <2>. QED
    BY <2>1, <2>2, <2>3 DEF Kept
<1>8. ASSUME NEW c \in Calls, NEW n \in Orgs, DeleteBegin(c, n)
      PROVE  Kept
  BY <1>8, BeginsAlone DEF DeleteBegin, Kept
<1>9. ASSUME NEW c \in Calls, NEW i \in 1..4, DeleteCheck(c, i)
      PROVE  Kept
  <2>1. step[c] \notin {"activate", "written"}
    BY <1>9 DEF DeleteCheck, At, Checks
  <2>2. call' = call /\ \A d \in Calls \ {c} : step'[d] = step[d]
    BY <1>9, GoesAlone DEF DeleteCheck, Ends
  <2>3. overtaken \subseteq overtaken'
    BY <1>9 DEF DeleteCheck
  <2>. QED
    BY <2>1, <2>2, <2>3 DEF Kept
<1>10. ASSUME NEW c \in Calls, DeleteWrite(c)
      PROVE  Kept
  <2>1. step[c] \notin {"activate", "written"}
    BY <1>10 DEF DeleteWrite, At
  <2>2. call' = call /\ \A d \in Calls \ {c} : step'[d] = step[d]
    BY <1>10, GoesAlone DEF DeleteWrite, Ends
  <2>3. overtaken \subseteq overtaken'
    BY <1>10 DEF DeleteWrite
  <2>. QED
    BY <2>1, <2>2, <2>3 DEF Kept
<1>11. ASSUME NEW c \in Calls, NEW n \in Orgs, UnmarkRead(c, n)
      PROVE  Kept
  BY <1>11, BeginsAlone DEF UnmarkRead, Kept
<1>12. ASSUME NEW c \in Calls, UnmarkWrite(c)
      PROVE  Kept
  <2>1. step[c] \notin {"activate", "written"}
    BY <1>12 DEF UnmarkWrite, At
  <2>2. call' = call /\ \A d \in Calls \ {c} : step'[d] = step[d]
    BY <1>12, GoesAlone DEF UnmarkWrite, Ends
  <2>3. overtaken \subseteq overtaken'
    BY <1>12 DEF UnmarkWrite, Overtake
  <2>. QED
    BY <2>1, <2>2, <2>3 DEF Kept
<1>13. ASSUME NEW c \in Calls, NEW n \in Orgs, IssueRead(c, n)
      PROVE  Kept
  BY <1>13, BeginsAlone DEF IssueRead, Kept
<1>14. ASSUME NEW c \in Calls, IssueWrite(c)
      PROVE  Kept
  <2>1. step[c] \notin {"activate", "written"}
    BY <1>14 DEF IssueWrite, At
  <2>2. call' = call /\ \A d \in Calls \ {c} : step'[d] = step[d]
    BY <1>14, GoesAlone DEF IssueWrite, Ends
  <2>3. overtaken \subseteq overtaken'
    BY <1>14 DEF IssueWrite, Overtake
  <2>. QED
    BY <2>1, <2>2, <2>3 DEF Kept
<1>15. ASSUME NEW c \in Calls, IssueActivate(c)
      PROVE  Kept
  <2>1. call' = call /\ step'[c] = "written" /\ \A d \in Calls \ {c} : step'[d] = step[d]
    BY <1>15, GoesAlone DEF IssueActivate, Ends
  <2>2. overtaken \subseteq overtaken'
    BY <1>15 DEF IssueActivate, Overtake
  <2>. QED
    BY <2>1, <2>2 DEF Kept
<1>16. ASSUME NEW c \in Calls, IssueFails(c)
      PROVE  Kept
  <2>1. call' = call /\ step'[c] = "written" /\ \A d \in Calls \ {c} : step'[d] = step[d]
    BY <1>16, GoesAlone DEF IssueFails, Ends
  <2>2. overtaken \subseteq overtaken'
    BY <1>16 DEF IssueFails
  <2>. QED
    BY <2>1, <2>2 DEF Kept
<1>17. ASSUME NEW c \in Calls, NEW n \in Orgs, Mark(c, n)
      PROVE  Kept
  BY <1>17, BeginsAlone DEF Mark, Kept
<1>18. ASSUME NEW c \in Calls, NEW n \in Orgs, EndKeys(c, n)
      PROVE  Kept
  BY <1>18, BeginsAlone DEF EndKeys, Kept
<1>19. ASSUME NEW c \in Calls, NEW n \in Orgs, AssignPrimaryOrg(c, n)
      PROVE  Kept
  BY <1>19, BeginsAlone DEF AssignPrimaryOrg, Kept
<1>20. ASSUME NEW c \in Calls, NEW n \in Orgs, ClearPrimaryOrg(c, n)
      PROVE  Kept
  BY <1>20, BeginsAlone DEF ClearPrimaryOrg, Kept
<1>21. ASSUME NEW c \in Calls, NEW n \in Orgs, SubmitRequest(c, n)
      PROVE  Kept
  BY <1>21, BeginsAlone DEF SubmitRequest, Kept
<1>22. ASSUME UNCHANGED vars
      PROVE  Kept
  BY <1>22 DEF vars, calls, reads, Kept
<1>. QED
  BY <1>1, <1>2, <1>3, <1>4, <1>5, <1>6, <1>7, <1>8, <1>9, <1>10, <1>11, <1>12, <1>13,
     <1>14, <1>15, <1>16, <1>17, <1>18, <1>19, <1>20, <1>21, <1>22 DEF Next

\* What a call read of the marker of a node, or of its keys, is still true when the call
\* comes to write, or the call knows it has been overtaken.
MarkersRead ==
  \A c \in Calls :
    /\ At(c, "unmark", "write") /\ call[c].node \in live => c \in overtaken
    /\ call[c].op = "issue" /\ step[c] \in {"write", "activate"} /\ call[c].node \in Nodes \ holder
         => c \in overtaken

BoundaryInv == MarkersRead /\ StrandedKeysNeedARace

LEMMA InitBoundary == Init => BoundaryInv
  BY DEF Init, BoundaryInv, MarkersRead, StrandedKeysNeedARace, NoCall, At

\* A step after which no more nodes hold keys or lack the marker than before.
LEMMA BoundaryStays ==
  ASSUME TypeInv, BoundaryInv, Kept, NEW c \in Calls,
         live' \subseteq live, Nodes' \ holder' \subseteq Nodes \ holder, live' \ holder' \subseteq live \ holder,
         \A d \in Calls \ {c} : call'[d] = call[d] /\ step'[d] = step[d],
         At(c, "unmark", "write")' => call'[c].node \notin live,
         call'[c].op = "issue" /\ step'[c] \in {"write", "activate"} => call'[c].node \notin Nodes \ holder
  PROVE  BoundaryInv'
<1>1. MarkersRead'
  BY DEF BoundaryInv, MarkersRead, At, Kept
<1>2. StrandedKeysNeedARace'
  BY TornStays DEF BoundaryInv, StrandedKeysNeedARace, TypeInv, TypeOK
<1>. QED
  BY <1>1, <1>2 DEF BoundaryInv

LEMMA NextBoundary == TypeInv /\ ReferencesResolve /\ IdsAreFresh /\ BoundaryInv /\ [Next]_vars => BoundaryInv'
<1>. SUFFICES ASSUME TypeInv, ReferencesResolve, IdsAreFresh, BoundaryInv, [Next]_vars PROVE BoundaryInv'
  OBVIOUS
<1>. USE DEF tree, others, reads
<1>0. Kept
  BY NextKept
<1>1. ASSUME NEW c \in Calls, NEW n \in Orgs, NEW p \in Orgs \cup {None}, CreateRead(c, n, p)
      PROVE  BoundaryInv'
  <2>1. /\ call'[c] = [op |-> "create", node |-> n, to |-> p] /\ step'[c] = "write"
        /\ \A d \in Calls \ {c} : call'[d] = call[d] /\ step'[d] = step[d]
    BY <1>1, BeginsAlone DEF CreateRead
  <2>2. live' \subseteq live /\ holder \subseteq holder' /\ Nodes' = Nodes
    BY <1>1 DEF CreateRead, Nodes
  <2>. QED
    BY <2>1, <2>2, BoundaryStays, <1>0 DEF At
<1>2. ASSUME NEW c \in Calls, CreateWrite(c)
      PROVE  BoundaryInv'
  <2>1. call' = call /\ \A d \in Calls \ {c} : step'[d] = step[d]
    BY <1>2, GoesAlone DEF CreateWrite, Ends
  <2>2. /\ call[c].op = "create" /\ step[c] = "write" /\ step'[c] # "write"
        /\ live' = live /\ holder' = holder /\ Nodes' \subseteq Nodes \cup {call[c].node}
    BY <1>2, GoesAlone DEF CreateWrite, At, Ends, Nodes, TypeInv, TypeOK
  <2>3. \A d \in Calls : call[d].op = "issue" /\ step[d] \in {"write", "activate"} => call[d].node # call[c].node
    BY <2>2 DEF IdsAreFresh, IdsOf, At
  <2>4. MarkersRead'
    BY <2>1, <2>2, <2>3, <1>0 DEF BoundaryInv, MarkersRead, At, Kept
  <2>5. StrandedKeysNeedARace'
    BY <2>2, <1>0, TornStays DEF BoundaryInv, StrandedKeysNeedARace, TypeInv, TypeOK
  <2>. QED
    BY <2>4, <2>5 DEF BoundaryInv
<1>3. ASSUME NEW c \in Calls, NEW n \in Orgs, NEW p \in Orgs \cup {None}, MoveReadNode(c, n, p)
      PROVE  BoundaryInv'
  <2>1. /\ call'[c] = [op |-> "move", node |-> n, to |-> p] /\ step'[c] = "parent"
        /\ \A d \in Calls \ {c} : call'[d] = call[d] /\ step'[d] = step[d]
    BY <1>3, BeginsAlone DEF MoveReadNode
  <2>2. live' \subseteq live /\ holder \subseteq holder' /\ Nodes' = Nodes
    BY <1>3 DEF MoveReadNode, Nodes
  <2>. QED
    BY <2>1, <2>2, BoundaryStays, <1>0 DEF At
<1>4. ASSUME NEW c \in Calls, MoveReadParent(c)
      PROVE  BoundaryInv'
  <2>1. call' = call /\ \A d \in Calls \ {c} : step'[d] = step[d]
    BY <1>4, GoesAlone DEF MoveReadParent, Ends
  <2>2. call[c].op \notin {"unmark", "issue"}
    BY <1>4 DEF MoveReadParent, At
  <2>3. live' = live /\ holder' = holder /\ Nodes' = Nodes
    BY <1>4 DEF MoveReadParent, Nodes
  <2>. QED
    BY <2>1, <2>2, <2>3, BoundaryStays, <1>0 DEF At
<1>5. ASSUME NEW c \in Calls, MoveUpdate(c)
      PROVE  BoundaryInv'
  <2>1. call' = call /\ \A d \in Calls \ {c} : step'[d] = step[d]
    BY <1>5, GoesAlone DEF MoveUpdate
  <2>2. call[c].op \notin {"unmark", "issue"}
    BY <1>5 DEF MoveUpdate, At
  <2>3. live' = live /\ holder' = holder /\ Nodes' = Nodes
    BY <1>5 DEF MoveUpdate, Nodes
  <2>. QED
    BY <2>1, <2>2, <2>3, BoundaryStays, <1>0 DEF At
<1>6. ASSUME NEW c \in Calls, MoveCommit(c)
      PROVE  BoundaryInv'
  <2>1. call' = call /\ \A d \in Calls \ {c} : step'[d] = step[d]
    BY <1>6, GoesAlone DEF MoveCommit, Ends
  <2>2. call[c].op \notin {"unmark", "issue"}
    BY <1>6 DEF MoveCommit, At
  <2>3. live' = live /\ holder' = holder /\ Nodes' = Nodes
    BY <1>6 DEF MoveCommit, Nodes
  <2>. QED
    BY <2>1, <2>2, <2>3, BoundaryStays, <1>0 DEF At
<1>7. ASSUME NEW c \in Calls, MoveRollback(c)
      PROVE  BoundaryInv'
  <2>1. call' = call /\ \A d \in Calls \ {c} : step'[d] = step[d]
    BY <1>7, GoesAlone DEF MoveRollback, Ends
  <2>2. call[c].op \notin {"unmark", "issue"}
    BY <1>7 DEF MoveRollback, At
  <2>3. live' = live /\ holder' = holder /\ Nodes' = Nodes
    BY <1>7 DEF MoveRollback, Nodes
  <2>. QED
    BY <2>1, <2>2, <2>3, BoundaryStays, <1>0 DEF At
<1>8. ASSUME NEW c \in Calls, NEW n \in Orgs, DeleteBegin(c, n)
      PROVE  BoundaryInv'
  <2>1. /\ call'[c] = [op |-> "delete", node |-> n, to |-> None] /\ step'[c] = "get"
        /\ \A d \in Calls \ {c} : call'[d] = call[d] /\ step'[d] = step[d]
    BY <1>8, BeginsAlone DEF DeleteBegin
  <2>2. live' \subseteq live /\ holder \subseteq holder' /\ Nodes' = Nodes
    BY <1>8 DEF DeleteBegin, Nodes
  <2>. QED
    BY <2>1, <2>2, BoundaryStays, <1>0 DEF At
<1>9. ASSUME NEW c \in Calls, NEW i \in 1..4, DeleteCheck(c, i)
      PROVE  BoundaryInv'
  <2>1. call' = call /\ \A d \in Calls \ {c} : step'[d] = step[d]
    BY <1>9, GoesAlone DEF DeleteCheck, Ends
  <2>2. call[c].op \notin {"unmark", "issue"}
    BY <1>9 DEF DeleteCheck, At
  <2>3. live' = live /\ holder' = holder /\ Nodes' = Nodes
    BY <1>9 DEF DeleteCheck, Nodes
  <2>. QED
    BY <2>1, <2>2, <2>3, BoundaryStays, <1>0 DEF At
<1>10. ASSUME NEW c \in Calls, DeleteWrite(c)
      PROVE  BoundaryInv'
  <2>1. call' = call /\ \A d \in Calls \ {c} : step'[d] = step[d]
    BY <1>10, GoesAlone DEF DeleteWrite, Ends
  <2>2. call[c].op = "delete"
    BY <1>10 DEF DeleteWrite, At
  <2>3. CASE call[c].node \in Nodes /\ Referenced(call[c].node)
    <3>1. live' = live /\ holder' = holder /\ Nodes' = Nodes
      BY <1>10, <2>3 DEF DeleteWrite, Nodes
    <3>. QED
      BY <2>1, <2>2, <3>1, BoundaryStays, <1>0 DEF At
  <2>4. CASE ~(call[c].node \in Nodes /\ Referenced(call[c].node))
    <3>1. live' = live /\ holder' = holder \ {call[c].node} /\ Nodes' = Nodes \ {call[c].node}
      BY <1>10, <2>4 DEF DeleteWrite, Nodes, TypeInv, TypeOK
    <3>2. call[c].node \notin live
      BY <2>4 DEF Referenced, ReferencesResolve
    <3>. QED
      BY <2>1, <2>2, <3>1, <3>2, BoundaryStays, <1>0 DEF At
  <2>. QED
    BY <2>3, <2>4
<1>11. ASSUME NEW c \in Calls, NEW n \in Orgs, UnmarkRead(c, n)
      PROVE  BoundaryInv'
  <2>1. /\ call'[c] = [op |-> "unmark", node |-> n, to |-> None] /\ step'[c] = IF n \in live THEN "refused" ELSE "write"
        /\ \A d \in Calls \ {c} : call'[d] = call[d] /\ step'[d] = step[d]
    BY <1>11, BeginsAlone DEF UnmarkRead
  <2>2. live' \subseteq live /\ holder \subseteq holder' /\ Nodes' = Nodes
    BY <1>11 DEF UnmarkRead, Nodes
  <2>. QED
    BY <2>1, <2>2, BoundaryStays, <1>0 DEF At
<1>12. ASSUME NEW c \in Calls, UnmarkWrite(c)
      PROVE  BoundaryInv'
  <2>1. call' = call /\ \A d \in Calls \ {c} : step'[d] = step[d]
    BY <1>12, GoesAlone DEF UnmarkWrite, Ends
  <2>2. At(c, "unmark", "write") /\ live' = live /\ Nodes' = Nodes /\ step'[c] \in {"written", "refused"}
    BY <1>12, GoesAlone DEF UnmarkWrite, Ends, Nodes
  <2>3. CASE call[c].node \in Nodes
    <3>1. /\ holder' = holder \ {call[c].node} /\ step'[c] = "written"
          /\ \A d \in Calls : call[d].op = "issue" /\ step[d] \in {"write", "activate"} /\ call[d].node = call[c].node
               => d \in overtaken'
      BY <1>12, <2>3, GoesAlone DEF UnmarkWrite, Ends, Overtake, At, Underway
    <3>2. MarkersRead'
      BY <2>1, <2>2, <3>1, <1>0 DEF BoundaryInv, MarkersRead, At, Kept
    <3>3. call[c].node \in live => Torn({"issue", "unmark"}, {call[c].node})'
      BY <2>1, <2>2, <3>1, <1>0 DEF BoundaryInv, MarkersRead, At, Kept, Torn
    <3>4. ASSUME NEW o \in (live \ holder)' PROVE Torn({"issue", "unmark"}, {o})'
      <4>1. CASE o = call[c].node
        BY <4>1, <3>3, <2>1, <2>2 DEF Torn
      <4>2. CASE o # call[c].node
        BY <4>2, <3>1, <2>2, <1>0, TornStays DEF BoundaryInv, StrandedKeysNeedARace, TypeInv, TypeOK
      <4>. QED
        BY <4>1, <4>2
    <3>. QED
      BY <3>2, <3>4 DEF BoundaryInv, StrandedKeysNeedARace
  <2>4. CASE call[c].node \notin Nodes
    <3>1. holder' = holder
      BY <1>12, <2>4 DEF UnmarkWrite
    <3>. QED
      BY <2>1, <2>2, <3>1, BoundaryStays, <1>0 DEF At
  <2>. QED
    BY <2>3, <2>4
<1>13. ASSUME NEW c \in Calls, NEW n \in Orgs, IssueRead(c, n)
      PROVE  BoundaryInv'
  <2>1. /\ call'[c] = [op |-> "issue", node |-> n, to |-> None] /\ step'[c] = IF n \in holder THEN "write" ELSE "refused"
        /\ \A d \in Calls \ {c} : call'[d] = call[d] /\ step'[d] = step[d]
    BY <1>13, BeginsAlone DEF IssueRead
  <2>2. live' \subseteq live /\ holder \subseteq holder' /\ Nodes' = Nodes
    BY <1>13 DEF IssueRead, Nodes
  <2>. QED
    BY <2>1, <2>2, BoundaryStays, <1>0 DEF At
<1>14. ASSUME NEW c \in Calls, IssueWrite(c)
      PROVE  BoundaryInv'
  <2>1. call' = call /\ \A d \in Calls \ {c} : step'[d] = step[d]
    BY <1>14, GoesAlone DEF IssueWrite, Ends
  <2>2. At(c, "issue", "write") /\ holder' = holder /\ Nodes' = Nodes /\ step'[c] \in {"activate", "refused"}
    BY <1>14, GoesAlone DEF IssueWrite, Ends, Nodes
  <2>3. CASE call[c].node \in Nodes
    <3>1. /\ live' = live \cup {call[c].node} /\ step'[c] = "activate"
          /\ \A d \in Calls : At(d, "unmark", "write") /\ call[d].node = call[c].node => d \in overtaken'
      BY <1>14, <2>3, GoesAlone DEF IssueWrite, Ends, Overtake, At, Underway
    <3>2. MarkersRead'
      BY <2>1, <2>2, <3>1, <1>0 DEF BoundaryInv, MarkersRead, At, Kept
    <3>3. call[c].node \notin holder => Torn({"issue", "unmark"}, {call[c].node})'
      BY <2>1, <2>2, <2>3, <3>1, <1>0 DEF BoundaryInv, MarkersRead, At, Kept, Torn
    <3>4. ASSUME NEW o \in (live \ holder)' PROVE Torn({"issue", "unmark"}, {o})'
      <4>1. CASE o = call[c].node
        BY <4>1, <3>3, <2>1, <2>2 DEF Torn
      <4>2. CASE o # call[c].node
        BY <4>2, <3>1, <2>2, <1>0, TornStays DEF BoundaryInv, StrandedKeysNeedARace, TypeInv, TypeOK
      <4>. QED
        BY <4>1, <4>2
    <3>. QED
      BY <3>2, <3>4 DEF BoundaryInv, StrandedKeysNeedARace
  <2>4. CASE call[c].node \notin Nodes
    <3>1. live' = live /\ step'[c] = "refused"
      BY <1>14, <2>4, GoesAlone DEF IssueWrite, Ends
    <3>. QED
      BY <2>1, <2>2, <3>1, BoundaryStays, <1>0 DEF At
  <2>. QED
    BY <2>3, <2>4
<1>15. ASSUME NEW c \in Calls, IssueActivate(c)
      PROVE  BoundaryInv'
  <2>1. call' = call /\ \A d \in Calls \ {c} : step'[d] = step[d]
    BY <1>15, GoesAlone DEF IssueActivate, Ends
  <2>2. At(c, "issue", "activate") /\ holder' = holder /\ Nodes' = Nodes
    BY <1>15 DEF IssueActivate, Nodes
  <2>3. /\ live' = live \cup {call[c].node} /\ call[c].node \in Nodes /\ step'[c] = "written"
        /\ \A d \in Calls : At(d, "unmark", "write") /\ call[d].node = call[c].node => d \in overtaken'
    BY <1>15, GoesAlone DEF IssueActivate, Ends, Overtake, At, Underway, ReferencesResolve
  <2>4. MarkersRead'
    BY <2>1, <2>2, <2>3, <1>0 DEF BoundaryInv, MarkersRead, At, Kept
  <2>5. call[c].node \notin holder => Torn({"issue", "unmark"}, {call[c].node})'
    BY <2>1, <2>2, <2>3, <1>0 DEF BoundaryInv, MarkersRead, At, Kept, Torn
  <2>6. ASSUME NEW o \in (live \ holder)' PROVE Torn({"issue", "unmark"}, {o})'
    <3>1. CASE o = call[c].node
      BY <3>1, <2>5, <2>1, <2>2 DEF Torn
    <3>2. CASE o # call[c].node
      BY <3>2, <2>2, <2>3, <1>0, TornStays DEF BoundaryInv, StrandedKeysNeedARace, TypeInv, TypeOK
    <3>. QED
      BY <3>1, <3>2
  <2>. QED
    BY <2>4, <2>6 DEF BoundaryInv, StrandedKeysNeedARace
<1>16. ASSUME NEW c \in Calls, IssueFails(c)
      PROVE  BoundaryInv'
  <2>1. call' = call /\ step'[c] = "written" /\ \A d \in Calls \ {c} : step'[d] = step[d]
    BY <1>16, GoesAlone DEF IssueFails, Ends
  <2>2. live' = live /\ holder' = holder /\ Nodes' = Nodes
    BY <1>16 DEF IssueFails, Nodes
  <2>. QED
    BY <2>1, <2>2, BoundaryStays, <1>0 DEF At
<1>17. ASSUME NEW c \in Calls, NEW n \in Orgs, Mark(c, n)
      PROVE  BoundaryInv'
  <2>1. /\ call'[c] = [op |-> "other", node |-> n, to |-> None] /\ step'[c] = "written"
        /\ \A d \in Calls \ {c} : call'[d] = call[d] /\ step'[d] = step[d]
    BY <1>17, BeginsAlone DEF Mark
  <2>2. live' \subseteq live /\ holder \subseteq holder' /\ Nodes' = Nodes
    BY <1>17 DEF Mark, Nodes
  <2>. QED
    BY <2>1, <2>2, BoundaryStays, <1>0 DEF At
<1>18. ASSUME NEW c \in Calls, NEW n \in Orgs, EndKeys(c, n)
      PROVE  BoundaryInv'
  <2>1. /\ call'[c] = [op |-> "other", node |-> n, to |-> None] /\ step'[c] = "written"
        /\ \A d \in Calls \ {c} : call'[d] = call[d] /\ step'[d] = step[d]
    BY <1>18, BeginsAlone DEF EndKeys
  <2>2. live' \subseteq live /\ holder \subseteq holder' /\ Nodes' = Nodes
    BY <1>18 DEF EndKeys, Nodes
  <2>. QED
    BY <2>1, <2>2, BoundaryStays, <1>0 DEF At
<1>19. ASSUME NEW c \in Calls, NEW n \in Orgs, AssignPrimaryOrg(c, n)
      PROVE  BoundaryInv'
  <2>1. /\ call'[c] = [op |-> "other", node |-> n, to |-> None] /\ step'[c] = "written"
        /\ \A d \in Calls \ {c} : call'[d] = call[d] /\ step'[d] = step[d]
    BY <1>19, BeginsAlone DEF AssignPrimaryOrg
  <2>2. live' \subseteq live /\ holder \subseteq holder' /\ Nodes' = Nodes
    BY <1>19 DEF AssignPrimaryOrg, Nodes
  <2>. QED
    BY <2>1, <2>2, BoundaryStays, <1>0 DEF At
<1>20. ASSUME NEW c \in Calls, NEW n \in Orgs, ClearPrimaryOrg(c, n)
      PROVE  BoundaryInv'
  <2>1. /\ call'[c] = [op |-> "other", node |-> n, to |-> None] /\ step'[c] = "written"
        /\ \A d \in Calls \ {c} : call'[d] = call[d] /\ step'[d] = step[d]
    BY <1>20, BeginsAlone DEF ClearPrimaryOrg
  <2>2. live' \subseteq live /\ holder \subseteq holder' /\ Nodes' = Nodes
    BY <1>20 DEF ClearPrimaryOrg, Nodes
  <2>. QED
    BY <2>1, <2>2, BoundaryStays, <1>0 DEF At
<1>21. ASSUME NEW c \in Calls, NEW n \in Orgs, SubmitRequest(c, n)
      PROVE  BoundaryInv'
  <2>1. /\ call'[c] = [op |-> "other", node |-> n, to |-> None] /\ step'[c] = "written"
        /\ \A d \in Calls \ {c} : call'[d] = call[d] /\ step'[d] = step[d]
    BY <1>21, BeginsAlone DEF SubmitRequest
  <2>2. live' \subseteq live /\ holder \subseteq holder' /\ Nodes' = Nodes
    BY <1>21 DEF SubmitRequest, Nodes
  <2>. QED
    BY <2>1, <2>2, BoundaryStays, <1>0 DEF At
<1>22. ASSUME UNCHANGED vars
      PROVE  BoundaryInv'
  BY <1>22 DEF vars, calls, reads, BoundaryInv, MarkersRead, StrandedKeysNeedARace, At, Torn, Nodes
<1>. QED
  BY <1>1, <1>2, <1>3, <1>4, <1>5, <1>6, <1>7, <1>8, <1>9, <1>10, <1>11, <1>12, <1>13,
     <1>14, <1>15, <1>16, <1>17, <1>18, <1>19, <1>20, <1>21, <1>22 DEF Next

\* A live key below a node that is no key boundary is always the doing of an Issue and an
\* unmarking (HandleSetKeyHolder) of which one had read before the other wrote.
THEOREM StrandedCorrect == Spec => []StrandedKeysNeedARace
<1>1. Spec => [](TypeInv /\ ReferencesResolve /\ IdsAreFresh /\ BoundaryInv)
  BY InitTypeInv, NextTypeInv, InitReferences, NextReferences, InitIds, NextIds,
     InitBoundary, NextBoundary, PTL DEF Spec
<1>2. BoundaryInv => StrandedKeysNeedARace
  BY DEF BoundaryInv
<1>. QED
  BY <1>1, <1>2, PTL

-----------------------------------------------------------------------------
(* Paths of a forest.                                                       *)

\* Nodes, their parents and their paths.
Forest(nodes, par, pth) ==
  /\ nodes \subseteq Orgs
  /\ pth \in [Orgs -> Seq(Orgs)]
  /\ Whole(nodes, par, pth)

\* A path ends in its node.
LEMMA PathEnds ==
  ASSUME NEW nodes, NEW par, NEW pth, Forest(nodes, par, pth), NEW o \in nodes
  PROVE  Len(pth[o]) \in Nat \ {0} /\ pth[o][Len(pth[o])] = o
<1>1. CASE pth[o] = <<o>>
  BY <1>1
<1>2. CASE par[o] \in nodes /\ pth[o] = Append(pth[par[o]], o)
  <2>1. pth[par[o]] \in Seq(Orgs) /\ o \in Orgs
    BY <1>2 DEF Forest
  <2>. QED
    BY <1>2, <2>1, AppendProperties
<1>. QED
  BY <1>1, <1>2 DEF Forest, Whole

\* A set of natural numbers has a least one.
LEMMA LeastNat ==
  ASSUME NEW S \in SUBSET Nat, S # {} PROVE \E k \in S : \A j \in S : k <= j
<1>. DEFINE R == OpToRel(<, Nat)
<1>1. \A i, j \in Nat : i < j => <<i, j>> \in R
  BY DEF OpToRel
<1>2. IsWellFoundedOn(R, Nat)
  BY NatLessThanWellFounded
<1>. HIDE DEF R
<1>3. PICK k \in S : \A j \in S : <<j, k>> \notin R
  BY <1>2, WFMin
<1>4. \A j \in S : j \in Nat /\ k \in Nat /\ ~(j < k)
  BY <1>1, <1>3
<1>. QED
  BY <1>4

\* All that a path names are nodes: a shortest path that named anything else would be the
\* path of a root or continue a shorter one.
LEMMA PathNamesNodes ==
  ASSUME NEW nodes, NEW par, NEW pth, Forest(nodes, par, pth), NEW o \in nodes
  PROVE  \A i \in 1..Len(pth[o]) : pth[o][i] \in nodes
<1>. DEFINE Bad == {q \in nodes : \E i \in 1..Len(pth[q]) : pth[q][i] \notin nodes}
            Lens == {k \in Nat : \E q \in Bad : Len(pth[q]) = k}
<1>1. \A q \in nodes : pth[q] \in Seq(Orgs) /\ Len(pth[q]) \in Nat
  BY LenProperties DEF Forest
<1>2. SUFFICES ASSUME Lens # {} PROVE FALSE
  BY <1>1
<1>3. PICK k \in Lens : \A j \in Lens : k <= j
  BY <1>2, LeastNat
<1>4. PICK q \in Bad : Len(pth[q]) = k
  BY <1>3
<1>5. PICK i \in 1..k : pth[q][i] \notin nodes
  BY <1>4
<1>6. CASE pth[q] = <<q>>
  BY <1>4, <1>5, <1>6
<1>7. CASE par[q] \in nodes /\ pth[q] = Append(pth[par[q]], q)
  <2>1. pth[par[q]] \in Seq(Orgs) /\ q \in Orgs
    BY <1>7 DEF Forest
  <2>2. k = Len(pth[par[q]]) + 1 /\ i < k /\ pth[par[q]][i] = pth[q][i] 
    BY <1>4, <1>5, <1>7, <2>1, AppendProperties
  <2>3. Len(pth[par[q]]) \in Lens
    BY <1>1, <1>5, <1>7, <2>2
  <2>4. k <= Len(pth[par[q]]) /\ Len(pth[par[q]]) \in Nat
    BY <1>1, <1>3, <1>7, <2>3
  <2>. QED
    BY <2>2, <2>4
<1>. QED
  BY <1>4, <1>6, <1>7 DEF Forest, Whole

\* Rebasing the path of a child is rebasing that of its parent.
LEMMA RebaseAppend ==
  ASSUME NEW q \in Seq(Orgs), NEW d \in Orgs, NEW from \in Seq(Orgs), NEW new \in Seq(Orgs),
         Len(from) <= Len(q)
  PROVE  Rebase(Append(q, d), from, new) = Append(Rebase(q, from, new), d)
<1>. DEFINE qd == Append(q, d)
            rest == SubSeq(q, Len(from) + 1, Len(q))
            restd == SubSeq(qd, Len(from) + 1, Len(qd))
<1>1. /\ qd \in Seq(Orgs) /\ Len(qd) = Len(q) + 1 /\ qd[Len(q) + 1] = d
      /\ \A i \in 1..Len(q) : qd[i] = q[i]
      /\ Len(from) \in Nat /\ Len(q) \in Nat /\ Len(new) \in Nat
  BY AppendProperties, LenProperties
<1>2. /\ rest \in Seq(Orgs) /\ Len(rest) = Len(q) - Len(from)
      /\ \A i \in 1..Len(q) - Len(from) : rest[i] = q[Len(from) + i]
  <2>1. \A i \in Len(from) + 1 .. Len(q) : q[i] \in Orgs
    BY <1>1, ElementOfSeq
  <2>. QED
    BY <1>1, <2>1, SubSeqProperties
<1>3. /\ restd \in Seq(Orgs) /\ Len(restd) = Len(q) + 1 - Len(from)
      /\ \A i \in 1..Len(q) + 1 - Len(from) : restd[i] = qd[Len(from) + i]
  <2>1. \A i \in Len(from) + 1 .. Len(qd) : qd[i] \in Orgs
    BY <1>1, ElementOfSeq
  <2>. HIDE DEF qd
  <2>. QED
    BY <1>1, <2>1, SubSeqProperties
<1>. HIDE DEF rest, restd
<1>4. restd = Append(rest, d)
  <2>1. /\ Append(rest, d) \in Seq(Orgs) /\ Len(Append(rest, d)) = Len(rest) + 1
        /\ Append(rest, d)[Len(rest) + 1] = d
        /\ \A i \in 1..Len(rest) : Append(rest, d)[i] = rest[i]
    BY <1>2, AppendProperties
  <2>. HIDE DEF qd
  <2>2. \A i \in 1..Len(restd) : restd[i] = Append(rest, d)[i]
    <3>1. TAKE i \in 1..Len(restd)
    <3>2. CASE i <= Len(rest)
      <4>1. i \in 1..Len(rest) /\ i \in 1..Len(q) + 1 - Len(from) /\ Len(from) + i \in 1..Len(q)
        BY <1>1, <1>2, <1>3, <3>2
      <4>. QED
        BY <1>1, <1>2, <1>3, <2>1, <4>1
    <3>3. CASE i = Len(rest) + 1
      <4>1. i \in 1..Len(q) + 1 - Len(from) /\ Len(from) + i = Len(q) + 1
        BY <1>1, <1>2, <1>3, <3>3
      <4>. QED
        BY <1>1, <1>3, <2>1, <3>3, <4>1
    <3>. QED
      BY <1>1, <1>2, <1>3, <3>2, <3>3
  <2>3. Len(restd) = Len(Append(rest, d))
    BY <1>1, <1>2, <1>3, <2>1
  <2>. QED
    BY <1>3, <2>1, <2>2, <2>3, SeqEqual
<1>5. new \o Append(rest, d) = Append(new \o rest, d)
  <2>1. /\ Append(rest, d) = rest \o <<d>> /\ new \o rest \in Seq(Orgs)
        /\ Append(new \o rest, d) = (new \o rest) \o <<d>>
    BY <1>2, AppendIsConcat, ConcatProperties
  <2>2. <<d>> \in Seq(Orgs)
    OBVIOUS
  <2>. QED
    BY <1>2, <2>1, <2>2, ConcatAssociative
<1>. QED
  BY <1>4, <1>5 DEF Rebase, rest, restd

LEMMA RebaseChild ==
  ASSUME NEW d \in Orgs, NEW from \in Seq(Orgs), NEW new \in Seq(Orgs)
  PROVE  Rebase(Append(from, d), from, new) = Append(new, d)
<1>1. Len(from) \in Nat
  BY LenProperties
<1>2. SubSeq(from, Len(from) + 1, Len(from)) = <<>>
  BY <1>1, SubSeqEmpty
<1>3. Rebase(from, from, new) = new
  BY <1>2, ConcatEmptySeq DEF Rebase
<1>. QED
  BY <1>1, <1>3, RebaseAppend

\* A node and all below it hung to a parent with the path bs.
Moved(nodes, par, pth, n, p, bs, par2, pth2) ==
  \A o \in nodes :
    /\ par2[o] = IF o = n THEN p ELSE par[o]
    /\ pth2[o] = IF o = n THEN Append(bs, n)
                 ELSE IF Below(pth[n], pth[o]) THEN Rebase(pth[o], pth[n], Append(bs, n))
                 ELSE pth[o]

\* The heart of Move: rebasing all below the old path keeps a forest and its paths whole,
\* when the new parent's path is up to date and not in the moved subtree.
LEMMA MovedWhole ==
  ASSUME NEW nodes, NEW par, NEW pth, Forest(nodes, par, pth),
         NEW n \in nodes, NEW p \in nodes \cup {None}, NEW bs \in Seq(Orgs),
         bs = IF p = None THEN <<>> ELSE pth[p],
         p # None => bs # pth[n] /\ ~Below(pth[n], bs),
         NEW par2, NEW pth2, Moved(nodes, par, pth, n, p, bs, par2, pth2)
  PROVE  Whole(nodes, par2, pth2)
<1>. DEFINE from == pth[n]
            new == Append(bs, n)
<1>1. /\ n \in Orgs /\ from \in Seq(Orgs) /\ new \in Seq(Orgs)
      /\ Len(from) \in Nat \ {0} /\ from[Len(from)] = n
  <2>1. n \in Orgs /\ from \in Seq(Orgs)
    BY DEF Forest
  <2>2. new \in Seq(Orgs)
    BY <2>1, AppendProperties
  <2>. QED
    BY <2>1, <2>2, PathEnds
<1>2. pth2[n] = new /\ par2[n] = p
  BY DEF Moved
<1>. HIDE DEF from, new
<1>. USE DEF Moved
<1>3. SUFFICES ASSUME NEW o \in nodes
               PROVE  \/ par2[o] = None /\ pth2[o] = <<o>>
                      \/ par2[o] \in nodes /\ pth2[o] = Append(pth2[par2[o]], o)
  BY DEF Whole
<1>4. CASE o = n
  <2>1. CASE p = None
    BY <1>2, <1>4, <2>1 DEF new
  <2>2. CASE p # None
    <3>1. p \in nodes /\ p # n
      BY <2>2
    <3>2. pth2[p] = bs
      BY <2>2, <3>1
    <3>. QED
      BY <1>2, <1>4, <3>1, <3>2 DEF new
  <2>. QED
    BY <2>1, <2>2
<1>5. CASE o # n /\ par[o] = None /\ pth[o] = <<o>>
  <2>1. ~Below(from, pth[o])
    BY <1>1, <1>5 DEF Below
  <2>. QED
    BY <1>5, <2>1 DEF from
<1>6. CASE o # n /\ par[o] \in nodes /\ pth[o] = Append(pth[par[o]], o)
  <2>. DEFINE q == par[o]
  <2>1. q \in nodes /\ par2[o] = q /\ pth[q] \in Seq(Orgs) /\ o \in Orgs /\ pth[o] = Append(pth[q], o)
    BY <1>6 DEF Forest
  <2>. HIDE DEF q
  <2>2. /\ Len(pth[q]) \in Nat \ {0} /\ pth[q][Len(pth[q])] = q
        /\ Len(pth[o]) = Len(pth[q]) + 1 /\ \A i \in 1..Len(pth[q]) : pth[o][i] = pth[q][i]
    BY <2>1, PathEnds, AppendProperties
  <2>3. CASE q = n
    <3>1. Below(from, pth[o])
      BY <1>1, <2>2, <2>3 DEF Below, from
    <3>2. pth2[o] = Rebase(Append(from, o), from, new)
      BY <1>6, <2>1, <2>3, <3>1 DEF from, new
    <3>3. pth2[o] = Append(new, o)
      BY <1>1, <2>1, <3>2, RebaseChild
    <3>. QED
      BY <1>2, <2>1, <2>3, <3>3
  <2>4. CASE q # n /\ Below(from, pth[q])
    <3>1. Below(from, pth[o]) /\ Len(from) <= Len(pth[q])
      BY <1>1, <2>2, <2>4 DEF Below
    <3>2. pth2[o] = Rebase(Append(pth[q], o), from, new) /\ pth2[q] = Rebase(pth[q], from, new)
      BY <1>6, <2>1, <2>4, <3>1 DEF from, new
    <3>3. pth2[o] = Append(pth2[q], o)
      BY <1>1, <2>1, <3>1, <3>2, RebaseAppend
    <3>. QED
      BY <2>1, <3>3
  <2>5. CASE q # n /\ ~Below(from, pth[q])
    <3>1. ASSUME Below(from, pth[o]) PROVE FALSE
      <4>1. Len(from) <= Len(pth[q]) /\ \A i \in 1..Len(from) : pth[q][i] = from[i]
        BY <1>1, <2>2, <3>1 DEF Below
      <4>2. Len(from) = Len(pth[q])
        BY <1>1, <2>2, <2>5, <4>1 DEF Below
      <4>. QED
        BY <1>1, <2>2, <2>5, <4>1, <4>2
    <3>. QED
      BY <1>6, <2>1, <2>5, <3>1 DEF from
  <2>. QED
    BY <2>3, <2>4, <2>5
<1>. QED
  BY <1>3, <1>4, <1>5, <1>6 DEF Forest, Whole
-----------------------------------------------------------------------------
(* The paths of the table.                                                  *)

\* What a call has read of paths is still true when it comes to write, unless the call
\* has been overtaken: the parent's path of a Create, both paths of a Move, that the new
\* parent is not in the node's subtree, and that no row below the node is missing.
ReadsOf(c) ==
  /\ At(c, "create", "write") /\ call[c].to \in Nodes \cup {None} => base[c] = PathOf(call[c].to)
  /\ call[c].op = "move" /\ step[c] \in {"parent", "write", "commit"} =>
       /\ old[c] # <<>> /\ old[c][Len(old[c])] = call[c].node
       /\ call[c].node \in Nodes => old[c] = path[call[c].node]
  /\ call[c].op = "move" /\ step[c] \in {"write", "commit"} /\ call[c].to \in Nodes \cup {None} =>
       /\ base[c] = PathOf(call[c].to)
       /\ call[c].to # None => base[c] # old[c] /\ ~Below(old[c], base[c])
  /\ At(c, "move", "commit") => \A o \in Nodes : Below(old[c], path[o]) => o \in found[c]

PathsRead == \A c \in Calls \ overtaken : ReadsOf(c)

TreeInv == ~Torn({"create", "move"}, Orgs) => Whole(Nodes, parent, path) /\ PathsRead

LEMMA InitTree == Init => TreeInv
<1>. SUFFICES ASSUME Init PROVE TreeInv
  OBVIOUS
<1>1. Whole(Nodes, parent, path)
  BY ForestsAssumption DEF Init, Nodes
<1>2. PathsRead
  BY DEF Init, PathsRead, ReadsOf, NoCall, At
<1>. QED
  BY <1>1, <1>2 DEF TreeInv

LEMMA TableIsForest ==
  ASSUME TypeInv, Whole(Nodes, parent, path) PROVE Forest(Nodes, parent, path)
  BY DEF TypeInv, TypeOK, Nodes, Forest

\* A step that leaves the paths alone, and of the nodes at most some that nobody is a
\* child of; what is left to show concerns the one call that moves.
LEMMA TreeStays ==
  ASSUME TypeInv, TreeInv, Kept, NEW c \in Calls,
         UNCHANGED <<parent, path>>, Nodes' \subseteq Nodes,
         \A o \in Nodes' : parent[o] \in Nodes => parent[o] \in Nodes',
         \A d \in Calls \ {c} : /\ call'[d] = call[d] /\ step'[d] = step[d]
                                /\ old'[d] = old[d] /\ base'[d] = base[d] /\ found'[d] = found[d],
         Whole(Nodes, parent, path) /\ PathsRead /\ c \notin overtaken => ReadsOf(c)'
  PROVE  TreeInv'
<1>. SUFFICES ASSUME ~Torn({"create", "move"}, Orgs)' PROVE Whole(Nodes, parent, path)' /\ PathsRead'
  BY DEF TreeInv
<1>1. ~Torn({"create", "move"}, Orgs)
  BY TornStays DEF TypeInv, TypeOK
<1>2. Whole(Nodes, parent, path) /\ PathsRead
  BY <1>1 DEF TreeInv
<1>3. Whole(Nodes, parent, path)'
  BY <1>2 DEF Whole
<1>4. ASSUME NEW d \in Calls \ overtaken' PROVE ReadsOf(d)'
  <2>1. d \notin overtaken
    BY DEF Kept
  <2>2. CASE d # c
    <3>1. ReadsOf(d)
      BY <1>2, <2>1 DEF PathsRead
    <3>. QED
      BY <2>2, <3>1 DEF ReadsOf, PathOf, At
  <2>. QED
    BY <1>2, <2>1, <2>2
<1>5. PathsRead'
  BY <1>4 DEF PathsRead
<1>. QED
  BY <1>3, <1>5

LEMMA NextTree == TypeInv /\ IdsAreFresh /\ TreeInv /\ [Next]_vars => TreeInv'
<1>. SUFFICES ASSUME TypeInv, IdsAreFresh, TreeInv, [Next]_vars PROVE TreeInv'
  OBVIOUS
<1>. USE DEF tree, others, reads
<1>0. Kept
  BY NextKept
<1>1. ASSUME NEW c \in Calls, NEW n \in Orgs, NEW p \in Orgs \cup {None}, CreateRead(c, n, p)
      PROVE  TreeInv'
  <2>1. /\ call'[c] = [op |-> "create", node |-> n, to |-> p]
        /\ \A d \in Calls \ {c} : call'[d] = call[d] /\ step'[d] = step[d]
        /\ UNCHANGED <<parent, path, old, found>> /\ Nodes' = Nodes
    BY <1>1, BeginsAlone DEF CreateRead, Nodes
  <2>2. base'[c] = PathOf(p) /\ \A d \in Calls \ {c} : base'[d] = base[d]
    BY <1>1 DEF CreateRead, TypeInv, TypeOK
  <2>. QED
    BY <2>1, <2>2, TreeStays, <1>0 DEF ReadsOf, At, PathOf
<1>2. ASSUME NEW c \in Calls, CreateWrite(c)
      PROVE  TreeInv'
  <2>. DEFINE n == call[c].node
              p == call[c].to
  <2>1. /\ call' = call /\ \A d \in Calls \ {c} : step'[d] = step[d]
        /\ UNCHANGED reads /\ step'[c] \in {"written", "refused"}
    BY <1>2, GoesAlone DEF CreateWrite, Ends
  <2>2. At(c, "create", "write") /\ n \in Orgs /\ row[n] = "unused"
    BY <1>2 DEF CreateWrite, At, TypeInv, CallsFit, IdsAreFresh, IdsOf
  <2>3. CASE p \notin Nodes \cup {None}
    <3>1. UNCHANGED <<parent, path>> /\ Nodes' = Nodes
      BY <1>2, <2>3 DEF CreateWrite, Nodes
    <3>. QED
      BY <2>1, <2>2, <3>1, TreeStays, <1>0 DEF ReadsOf, At
  <2>4. CASE p \in Nodes \cup {None}
    <3>1. /\ Nodes' = Nodes \cup {n} /\ n \notin Nodes /\ step'[c] = "written"
          /\ parent'[n] = p /\ path'[n] = Append(base[c], n)
          /\ \A o \in Orgs \ {n} : parent'[o] = parent[o] /\ path'[o] = path[o]
      BY <1>2, <2>2, <2>4, GoesAlone DEF CreateWrite, Ends, Nodes, TypeInv, TypeOK
    <3>1a. \A d \in Calls : At(d, "move", "commit") /\ Below(old[d], path'[n]) => d \in overtaken'
      BY <1>2, <2>4, <3>1 DEF CreateWrite, Overtake, At, Underway
    <3>2. SUFFICES ASSUME ~Torn({"create", "move"}, Orgs)' PROVE Whole(Nodes, parent, path)' /\ PathsRead'
      BY DEF TreeInv
    <3>3. Whole(Nodes, parent, path) /\ PathsRead
      BY <1>0, <3>2, TornStays DEF TreeInv, TypeInv, TypeOK
    <3>4. c \notin overtaken
      BY <1>0, <2>1, <2>2, <3>1, <3>2 DEF Torn, At, Kept
    <3>5. base[c] = PathOf(p)
      BY <2>2, <2>4, <3>3, <3>4 DEF PathsRead, ReadsOf
    <3>6. Whole(Nodes, parent, path)'
      <4>1. ASSUME NEW o \in Nodes
            PROVE  \/ parent'[o] = None /\ path'[o] = <<o>>
                   \/ parent'[o] \in Nodes' /\ path'[o] = Append(path'[parent'[o]], o)
        <5>1. o \in Orgs \ {n} /\ \A q \in Nodes : q \in Orgs \ {n}
          BY <3>1 DEF Nodes
        <5>. QED
          BY <3>1, <3>3, <5>1 DEF Whole
      <4>2. CASE p = None
        BY <3>1, <3>5, <4>1, <4>2 DEF Whole, PathOf
      <4>3. CASE p # None
        <5>1. p \in Nodes /\ path'[p] = path[p] /\ path'[n] = Append(path[p], n)
          BY <2>4, <3>1, <3>5, <4>3 DEF PathOf, Nodes
        <5>. QED
          BY <3>1, <4>1, <5>1 DEF Whole
      <4>. QED
        BY <4>2, <4>3
    <3>7. ASSUME NEW d \in Calls \ {c}
          PROVE  /\ call[d].op \in {"create", "move"} /\ step[d] \in {"write", "commit"} => call[d].to # n
                 /\ call[d].op = "move" => call[d].node # n
      BY <2>2 DEF IdsAreFresh, IdsOf, At
    <3>8. ASSUME NEW q \in Nodes' \cup {None}, q # n
          PROVE  q \in Nodes \cup {None} /\ PathOf(q)' = PathOf(q) /\ (q # None => path'[q] = path[q])
      BY <3>1, <3>8 DEF PathOf, Nodes
    <3>9. PathsRead'
      <4>1. SUFFICES ASSUME NEW d \in Calls \ {c}, d \notin overtaken' PROVE ReadsOf(d)'
        BY <2>1, <2>2 DEF PathsRead, ReadsOf, At
      <4>2. ReadsOf(d)
        BY <1>0, <3>3, <4>1 DEF PathsRead, Kept
      <4>3. \A o \in Nodes' : At(d, "move", "commit") /\ Below(old[d], path'[o]) => o \in found[d]
        BY <3>1, <3>8, <3>1a, <4>1, <4>2, NoneAssumption DEF ReadsOf, Nodes
      <4>4. call'[d] = call[d] /\ step'[d] = step[d] /\ UNCHANGED reads
        BY <2>1
      <4>. QED
        BY <3>7, <3>8, <4>2, <4>3, <4>4, NoneAssumption DEF ReadsOf, At, Nodes
    <3>. QED
      BY <3>6, <3>9
  <2>. QED
    BY <2>3, <2>4
<1>3. ASSUME NEW c \in Calls, NEW n \in Orgs, NEW p \in Orgs \cup {None}, MoveReadNode(c, n, p)
      PROVE  TreeInv'
  <2>1. /\ call'[c] = [op |-> "move", node |-> n, to |-> p] /\ step'[c] = "parent"
        /\ \A d \in Calls \ {c} : call'[d] = call[d] /\ step'[d] = step[d]
        /\ UNCHANGED <<parent, path, base, found>> /\ Nodes' = Nodes
    BY <1>3, BeginsAlone DEF MoveReadNode, Nodes
  <2>2. old'[c] = path[n] /\ \A d \in Calls \ {c} : old'[d] = old[d]
    BY <1>3 DEF MoveReadNode, TypeInv, TypeOK
  <2>3. Whole(Nodes, parent, path) => path[n] # <<>> /\ path[n][Len(path[n])] = n
    BY <1>3, TableIsForest, PathEnds, EmptySeq DEF MoveReadNode
  <2>. QED
    BY <2>1, <2>2, <2>3, TreeStays, <1>0 DEF ReadsOf, At
<1>4. ASSUME NEW c \in Calls, MoveReadParent(c)
      PROVE  TreeInv'
  <2>1. /\ call' = call /\ \A d \in Calls \ {c} : step'[d] = step[d]
        /\ UNCHANGED <<parent, path, old, found>> /\ Nodes' = Nodes
    BY <1>4, GoesAlone DEF MoveReadParent, Nodes
  <2>2. base'[c] = PathOf(call[c].to) /\ \A d \in Calls \ {c} : base'[d] = base[d]
    BY <1>4 DEF MoveReadParent, TypeInv, TypeOK
  <2>3. At(c, "move", "parent")
    BY <1>4 DEF MoveReadParent
  <2>4. step'[c] = "write" /\ call[c].to # None => base'[c] # old[c] /\ ~Below(old[c], base'[c])
    BY <1>4, <2>2, GoesAlone DEF MoveReadParent, PathOf
  <2>6. step'[c] \in {"write", "refused"}
    BY <1>4, GoesAlone DEF MoveReadParent
  <2>5. PathsRead /\ c \notin overtaken =>
          /\ old[c] # <<>> /\ old[c][Len(old[c])] = call[c].node
          /\ call[c].node \in Nodes => old[c] = path[call[c].node]
    BY <2>3 DEF PathsRead, ReadsOf, At
  <2>. QED
    BY <2>1, <2>2, <2>3, <2>4, <2>5, <2>6, TreeStays, <1>0 DEF ReadsOf, At, PathOf
<1>5. ASSUME NEW c \in Calls, MoveUpdate(c)
      PROVE  TreeInv'
  <2>1. /\ call' = call /\ \A d \in Calls \ {c} : step'[d] = step[d]
        /\ UNCHANGED <<parent, path, old, base>> /\ Nodes' = Nodes
    BY <1>5, GoesAlone DEF MoveUpdate, Nodes
  <2>2. At(c, "move", "write")
    BY <1>5 DEF MoveUpdate
  <2>3. /\ found'[c] = {o \in Nodes : Below(old[c], path[o])}
        /\ \A d \in Calls \ {c} : found'[d] = found[d]
    BY <1>5 DEF MoveUpdate, TypeInv, TypeOK
  <2>4. PathsRead /\ c \notin overtaken => ReadsOf(c)
    BY DEF PathsRead
  <2>5. ReadsOf(c) => ReadsOf(c)'
    BY <2>1, <2>2, <2>3 DEF ReadsOf, At, PathOf
  <2>. QED
    BY <2>1, <2>3, <2>4, <2>5, TreeStays, <1>0
<1>6. ASSUME NEW c \in Calls, MoveCommit(c)
      PROVE  TreeInv'
  <2>. DEFINE n == call[c].node
              p == call[c].to
  <2>1. /\ call' = call /\ \A d \in Calls \ {c} : step'[d] = step[d]
        /\ UNCHANGED reads /\ Nodes' = Nodes /\ step'[c] \in {"written", "refused"}
    BY <1>6, GoesAlone DEF MoveCommit, Ends, Nodes
  <2>2. At(c, "move", "commit") /\ n \in Orgs
    BY <1>6 DEF MoveCommit, At, TypeInv, CallsFit
  <2>3. CASE ~(n \in Nodes => p \in Nodes \cup {None})
    <3>1. UNCHANGED <<parent, path>>
      BY <1>6, <2>3 DEF MoveCommit
    <3>. QED
      BY <2>1, <3>1, TreeStays, <1>0 DEF ReadsOf, At
  <2>4. CASE n \in Nodes => p \in Nodes \cup {None}
    <3>1. /\ step'[c] = "written"
          /\ \A d \in Calls \ {c} : call[d].op \in {"create", "move"} /\ step[d] \in {"parent", "write", "commit"} => d \in overtaken'
      BY <1>6, <2>4, GoesAlone DEF MoveCommit, Ends, Overtake, Underway
    <3>2. PathsRead'
      BY <2>1, <3>1 DEF PathsRead, ReadsOf, At
    <3>3. SUFFICES ASSUME ~Torn({"create", "move"}, Orgs)' PROVE Whole(Nodes, parent, path)'
      BY <3>2 DEF TreeInv
    <3>4. Whole(Nodes, parent, path) /\ PathsRead
      BY <1>0, <3>3, TornStays DEF TreeInv, TypeInv, TypeOK
    <3>5. Forest(Nodes, parent, path)
      BY <3>4, TableIsForest
    <3>6. c \notin overtaken
      BY <1>0, <2>1, <2>2, <3>1, <3>3 DEF Torn, At, Kept
    <3>7. /\ old[c] # <<>> /\ old[c][Len(old[c])] = n
          /\ n \in Nodes => old[c] = path[n]
          /\ n \in Nodes => /\ base[c] = PathOf(p)
                            /\ p # None => base[c] # old[c] /\ ~Below(old[c], base[c])
          /\ \A o \in Nodes : Below(old[c], path[o]) => o \in found[c]
      BY <2>2, <2>4, <3>4, <3>6 DEF PathsRead, ReadsOf, At
    <3>8. /\ n \in Nodes => \A o \in Nodes : parent'[o] = IF o = n THEN p ELSE parent[o]
          /\ n \notin Nodes => parent' = parent
          /\ \A o \in Nodes : path'[o] = IF o = n THEN Append(base[c], n)
                                         ELSE IF o \in found[c] /\ Below(old[c], path[o]) THEN Rebase(path[o], old[c], Append(base[c], n))
                                         ELSE path[o]
      BY <1>6, <2>4 DEF MoveCommit, TypeInv, TypeOK, Nodes
    <3>9. CASE n \in Nodes
      <4>1. base[c] \in Seq(Orgs) /\ p \in Nodes \cup {None}
        BY <2>4, <3>9 DEF TypeInv, TypeOK
      <4>2. base[c] = IF p = None THEN <<>> ELSE path[p]
        BY <3>7, <3>9 DEF PathOf
      <4>. HIDE DEF n, p
      <4>3. p # None => base[c] # path[n] /\ ~Below(path[n], base[c])
        BY <3>7, <3>9
      <4>4. Moved(Nodes, parent, path, n, p, base[c], parent', path')
        BY <3>7, <3>8, <3>9 DEF Moved
      <4>5. Whole(Nodes, parent', path')
        BY <3>5, <3>9, <4>1, <4>2, <4>3, <4>4, MovedWhole
      <4>. QED
        BY <2>1, <4>5
    <3>10. CASE n \notin Nodes
      <4>1. ASSUME NEW o \in Nodes PROVE ~Below(old[c], path[o])
        <5>1. old[c] \in Seq(Orgs) /\ Len(old[c]) \in Nat \ {0}
          BY <3>7, EmptySeq DEF TypeInv, TypeOK
        <5>2. path[o] \in Seq(Orgs) /\ Len(path[o]) \in Nat
          BY LenProperties DEF TypeInv, TypeOK, Nodes
        <5>3. \A i \in 1..Len(path[o]) : path[o][i] \in Nodes
          BY <3>5, PathNamesNodes
        <5>. QED
          BY <3>7, <3>10, <5>1, <5>2, <5>3 DEF Below
      <4>2. \A o \in Nodes : path'[o] = path[o]
        BY <3>8, <3>10, <4>1
      <4>. QED
        BY <2>1, <3>4, <3>8, <3>10, <4>2 DEF Whole
    <3>. QED
      BY <3>9, <3>10
  <2>. QED
    BY <2>3, <2>4
<1>7. ASSUME NEW c \in Calls, MoveRollback(c)
      PROVE  TreeInv'
  <2>1. /\ call' = call /\ \A d \in Calls \ {c} : step'[d] = step[d]
        /\ UNCHANGED <<parent, path, reads>> /\ Nodes' = Nodes /\ step'[c] = "refused"
    BY <1>7, GoesAlone DEF MoveRollback, Ends, Nodes
  <2>. QED
    BY <2>1, TreeStays, <1>0 DEF ReadsOf, At
<1>8. ASSUME NEW c \in Calls, NEW n \in Orgs, DeleteBegin(c, n)
      PROVE  TreeInv'
  <2>1. /\ call'[c] = [op |-> "delete", node |-> n, to |-> None]
        /\ \A d \in Calls \ {c} : call'[d] = call[d] /\ step'[d] = step[d]
        /\ UNCHANGED <<parent, path, reads>> /\ Nodes' = Nodes
    BY <1>8, BeginsAlone DEF DeleteBegin, Nodes
  <2>. QED
    BY <2>1, TreeStays, <1>0 DEF ReadsOf, At
<1>9. ASSUME NEW c \in Calls, NEW i \in 1..4, DeleteCheck(c, i)
      PROVE  TreeInv'
  <2>1. /\ call' = call /\ \A d \in Calls \ {c} : step'[d] = step[d]
        /\ UNCHANGED <<parent, path, reads>> /\ Nodes' = Nodes
    BY <1>9, GoesAlone DEF DeleteCheck, Ends, Nodes
  <2>2. call[c].op = "delete"
    BY <1>9 DEF DeleteCheck, At
  <2>. QED
    BY <2>1, <2>2, TreeStays, <1>0 DEF ReadsOf, At, PathOf
<1>10. ASSUME NEW c \in Calls, DeleteWrite(c)
      PROVE  TreeInv'
  <2>1. /\ call' = call /\ \A d \in Calls \ {c} : step'[d] = step[d]
        /\ UNCHANGED <<parent, path, reads>>
    BY <1>10, GoesAlone DEF DeleteWrite, Ends
  <2>2. call[c].op = "delete"
    BY <1>10 DEF DeleteWrite, At
  <2>3. Nodes' \subseteq Nodes /\ \A o \in Nodes' : parent[o] \in Nodes => parent[o] \in Nodes'
    BY <1>10 DEF DeleteWrite, Referenced, Nodes, TypeInv, TypeOK
  <2>. QED
    BY <2>1, <2>2, <2>3, TreeStays, <1>0 DEF ReadsOf, At
<1>11. ASSUME NEW c \in Calls, NEW n \in Orgs, UnmarkRead(c, n)
      PROVE  TreeInv'
  <2>1. /\ call'[c] = [op |-> "unmark", node |-> n, to |-> None]
        /\ \A d \in Calls \ {c} : call'[d] = call[d] /\ step'[d] = step[d]
        /\ UNCHANGED <<parent, path, reads>> /\ Nodes' = Nodes
    BY <1>11, BeginsAlone DEF UnmarkRead, Nodes
  <2>. QED
    BY <2>1, TreeStays, <1>0 DEF ReadsOf, At
<1>12. ASSUME NEW c \in Calls, UnmarkWrite(c)
      PROVE  TreeInv'
  <2>1. /\ call' = call /\ \A d \in Calls \ {c} : step'[d] = step[d]
        /\ UNCHANGED <<parent, path, reads>> /\ Nodes' = Nodes
    BY <1>12, GoesAlone DEF UnmarkWrite, Ends, Nodes
  <2>2. call[c].op = "unmark"
    BY <1>12 DEF UnmarkWrite, At
  <2>. QED
    BY <2>1, <2>2, TreeStays, <1>0 DEF ReadsOf, At, PathOf
<1>13. ASSUME NEW c \in Calls, NEW n \in Orgs, IssueRead(c, n)
      PROVE  TreeInv'
  <2>1. /\ call'[c] = [op |-> "issue", node |-> n, to |-> None]
        /\ \A d \in Calls \ {c} : call'[d] = call[d] /\ step'[d] = step[d]
        /\ UNCHANGED <<parent, path, reads>> /\ Nodes' = Nodes
    BY <1>13, BeginsAlone DEF IssueRead, Nodes
  <2>. QED
    BY <2>1, TreeStays, <1>0 DEF ReadsOf, At
<1>14. ASSUME NEW c \in Calls, IssueWrite(c)
      PROVE  TreeInv'
  <2>1. /\ call' = call /\ \A d \in Calls \ {c} : step'[d] = step[d]
        /\ UNCHANGED <<parent, path, reads>> /\ Nodes' = Nodes
    BY <1>14, GoesAlone DEF IssueWrite, Ends, Nodes
  <2>2. call[c].op = "issue"
    BY <1>14 DEF IssueWrite, At
  <2>. QED
    BY <2>1, <2>2, TreeStays, <1>0 DEF ReadsOf, At, PathOf
<1>15. ASSUME NEW c \in Calls, IssueActivate(c)
      PROVE  TreeInv'
  <2>1. /\ call' = call /\ \A d \in Calls \ {c} : step'[d] = step[d]
        /\ UNCHANGED <<parent, path, reads>> /\ Nodes' = Nodes
    BY <1>15, GoesAlone DEF IssueActivate, Ends, Nodes
  <2>2. call[c].op = "issue"
    BY <1>15 DEF IssueActivate, At
  <2>. QED
    BY <2>1, <2>2, TreeStays, <1>0 DEF ReadsOf, At, PathOf
<1>16. ASSUME NEW c \in Calls, IssueFails(c)
      PROVE  TreeInv'
  <2>1. /\ call' = call /\ \A d \in Calls \ {c} : step'[d] = step[d]
        /\ UNCHANGED <<parent, path, reads>> /\ Nodes' = Nodes
    BY <1>16, GoesAlone DEF IssueFails, Ends, Nodes
  <2>2. call[c].op = "issue"
    BY <1>16 DEF IssueFails, At
  <2>. QED
    BY <2>1, <2>2, TreeStays, <1>0 DEF ReadsOf, At, PathOf
<1>17. ASSUME NEW c \in Calls, NEW n \in Orgs, Mark(c, n)
      PROVE  TreeInv'
  <2>1. /\ call'[c] = [op |-> "other", node |-> n, to |-> None]
        /\ \A d \in Calls \ {c} : call'[d] = call[d] /\ step'[d] = step[d]
        /\ UNCHANGED <<parent, path, reads>> /\ Nodes' = Nodes
    BY <1>17, BeginsAlone DEF Mark, Nodes
  <2>. QED
    BY <2>1, TreeStays, <1>0 DEF ReadsOf, At
<1>18. ASSUME NEW c \in Calls, NEW n \in Orgs, EndKeys(c, n)
      PROVE  TreeInv'
  <2>1. /\ call'[c] = [op |-> "other", node |-> n, to |-> None]
        /\ \A d \in Calls \ {c} : call'[d] = call[d] /\ step'[d] = step[d]
        /\ UNCHANGED <<parent, path, reads>> /\ Nodes' = Nodes
    BY <1>18, BeginsAlone DEF EndKeys, Nodes
  <2>. QED
    BY <2>1, TreeStays, <1>0 DEF ReadsOf, At
<1>19. ASSUME NEW c \in Calls, NEW n \in Orgs, AssignPrimaryOrg(c, n)
      PROVE  TreeInv'
  <2>1. /\ call'[c] = [op |-> "other", node |-> n, to |-> None]
        /\ \A d \in Calls \ {c} : call'[d] = call[d] /\ step'[d] = step[d]
        /\ UNCHANGED <<parent, path, reads>> /\ Nodes' = Nodes
    BY <1>19, BeginsAlone DEF AssignPrimaryOrg, Nodes
  <2>. QED
    BY <2>1, TreeStays, <1>0 DEF ReadsOf, At
<1>20. ASSUME NEW c \in Calls, NEW n \in Orgs, ClearPrimaryOrg(c, n)
      PROVE  TreeInv'
  <2>1. /\ call'[c] = [op |-> "other", node |-> n, to |-> None]
        /\ \A d \in Calls \ {c} : call'[d] = call[d] /\ step'[d] = step[d]
        /\ UNCHANGED <<parent, path, reads>> /\ Nodes' = Nodes
    BY <1>20, BeginsAlone DEF ClearPrimaryOrg, Nodes
  <2>. QED
    BY <2>1, TreeStays, <1>0 DEF ReadsOf, At
<1>21. ASSUME NEW c \in Calls, NEW n \in Orgs, SubmitRequest(c, n)
      PROVE  TreeInv'
  <2>1. /\ call'[c] = [op |-> "other", node |-> n, to |-> None]
        /\ \A d \in Calls \ {c} : call'[d] = call[d] /\ step'[d] = step[d]
        /\ UNCHANGED <<parent, path, reads>> /\ Nodes' = Nodes
    BY <1>21, BeginsAlone DEF SubmitRequest, Nodes
  <2>. QED
    BY <2>1, TreeStays, <1>0 DEF ReadsOf, At
<1>22. ASSUME UNCHANGED vars
      PROVE  TreeInv'
  BY <1>22 DEF vars, calls, reads, TreeInv, PathsRead, ReadsOf, PathOf, At, Torn, Nodes
<1>. QED
  BY <1>1, <1>2, <1>3, <1>4, <1>5, <1>6, <1>7, <1>8, <1>9, <1>10, <1>11, <1>12, <1>13,
     <1>14, <1>15, <1>16, <1>17, <1>18, <1>19, <1>20, <1>21, <1>22 DEF Next

\* Every node's path is its parent's path and itself, so that the nodes form a forest
\* (orgstore.go Create, Move, Delete), unless a create or a move wrote after a move had
\* committed of which its reads knew nothing.
THEOREM TreeCorrect == Spec => []TreeIsWhole
<1>1. Spec => [](TypeInv /\ ReferencesResolve /\ IdsAreFresh /\ TreeInv)
  BY InitTypeInv, NextTypeInv, InitReferences, NextReferences, InitIds, NextIds,
     InitTree, NextTree, PTL DEF Spec
<1>2. TreeInv => TreeIsWhole
  BY DEF TreeInv, TreeIsWhole
<1>. QED
  BY <1>1, <1>2, PTL
=============================================================================
