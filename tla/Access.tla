------------------------------- MODULE Access -------------------------------
(***************************************************************************)
(* The calls that change or read who may do what: grants and homes         *)
(* (internal/control/grantapi.go, grantstore.go), the tree they hang on    *)
(* (orgapi.go), requests with their approvers (approval.go), the cost      *)
(* report (usageapi.go, internal/usage/reader.go), and the notifications   *)
(* that requests leave in the outbox (requeststore.go, approvalworker.go). *)
(*                                                                         *)
(* A call goes through enforce, which may admit it, then through what its  *)
(* handler asks before it writes, then to the statement it writes; calls   *)
(* interleave between these. Users are disabled behind their back, the     *)
(* license expires, statements fail, the process crashes (MaxFaults), the  *)
(* mail server refuses at will.                                            *)
(*                                                                         *)
(* Abstracted: an edit of the tree is one statement (module OrgTree takes  *)
(* it apart); a request is pending or decided (module Requests has the     *)
(* rest); a refused call leaves no trace. Left out: the other fields of    *)
(* usage records, whose organizations alone are filtered.                  *)
(***************************************************************************)
EXTENDS Authz

CONSTANTS
  Tables,              \* the tables from which a behaviour starts
  Granted,             \* the roles that are granted
  Watched,             \* the users whose notices are followed; notices do not affect each other
  Calls,               \* calls and events from outside, numbered as they come
  MaxDeliverAttempts,
  MaxFaults            \* failures and crashes

ASSUME BoundsAssumption == {Calls, MaxDeliverAttempts, MaxFaults} \subseteq Nat /\ MaxDeliverAttempts > 0
ASSUME GrantedAssumption == Granted \subseteq Roles /\ Watched \subseteq Users

\* What stands on a path has the path that ends with it.
Whole(pth) ==
  \A n \in Orgs : \A k \in 1..Len(pth[n]) :
    pth[pth[n][k]] = SubSeq(pth[n], 1, k) /\ (k = Len(pth[n]) => pth[n][k] = n)

ASSUME TablesAssumption ==
  \A t \in Tables :
    LET places == {n \in Orgs : t.path[n] # <<>>} \cup {None} IN
    /\ t.active \subseteq Users /\ t.home \in [Users -> places]
    /\ t.grants \subseteq [user : Users, role : Roles, org : places]
    /\ t.path \in [Orgs -> Seq(Orgs)] /\ Whole(t.path)

VARIABLES
  call,      \* where a call stands: see NoCall
  request,   \* the request a call has submitted
  mail,      \* notifications: see NoMail
  worker,    \* where DeliverPending stands
  faults

tables == <<active, home, grants, path, expired>>
outbox == <<request, mail, worker>>
vars == <<tables, call, outbox, faults>>

Ids == 1..Calls
Notices == Ids \X {"submitted", "decided"} \X Watched
Places == Orgs \cup {None}

\* held is what the caller held where it was last asked whether he may write; calm, that
\* nothing was written by others since the call began.
NoCall ==
  [at |-> "idle", op |-> "none", by |-> None, active |-> FALSE, home |-> None, licensed |-> FALSE,
   user |-> None, role |-> "none", org |-> None, under |-> None, about |-> 0,
   held |-> {}, calm |-> TRUE, all |-> FALSE, granted |-> {}, nodes |-> {}]
Over == [NoCall EXCEPT !.at = "done"]
NoRequest == [status |-> "none", by |-> None, org |-> None]
NoMail == [status |-> "none", attempts |-> 0, delivered |-> 0]
Resting == [at |-> "wait", todo |-> {}, now |-> None, failed |-> FALSE]

AccessTypeOK ==
  /\ active \subseteq Users /\ home \in [Users -> Nodes \cup {None}] /\ expired \in BOOLEAN
  /\ grants \subseteq [user : Users, role : Roles, org : Nodes \cup {None}]
  /\ path \in [Orgs -> Seq(Orgs)] /\ Whole(path)
  /\ \A i \in Ids :
       /\ call[i].at \in {"idle", "enforced", "checked", "notify", "query", "done"}
       /\ call[i].held \subseteq Permissions /\ call[i].granted \cup call[i].nodes \subseteq Orgs
       /\ request[i] # NoRequest => request[i].org \in Nodes
  /\ mail \in [Notices -> [status : {"none", "pending", "sent", "failed"},
                           attempts : 0..MaxDeliverAttempts, delivered : 0..(MaxDeliverAttempts + MaxFaults)]]
  /\ worker.todo \subseteq Notices /\ worker.now \in Notices \cup {None}
  /\ faults \in 0..MaxFaults

AccessInit ==
  /\ \E t \in Tables : active = t.active /\ home = t.home /\ grants = t.grants /\ path = t.path
  /\ expired = FALSE
  /\ call = [i \in Ids |-> NoCall] /\ request = [i \in Ids |-> NoRequest]
  /\ mail = [k \in Notices |-> NoMail] /\ worker = Resting /\ faults = 0

-----------------------------------------------------------------------------
(* How a call goes.                                                         *)

Fault(yes) == (yes => faults < MaxFaults) /\ faults' = IF yes THEN faults + 1 ELSE faults

Unused(i) == call[i].at = "idle" /\ \A j \in 1..(i - 1) : call[j].at # "idle"
Stands(i, op, s) == call[i].at = s /\ call[i].op = op
Subject(i) == [user |-> call[i].by, active |-> call[i].active, home |-> call[i].home]
Ends(i) == call' = [call EXCEPT ![i] = Over]

\* RequireSession and enforce: the user is read once and kept.
Admit(i, op, u, target, args) ==
  /\ Unused(i) /\ u \in active /\ Enforce(SubjectOf(u), op, target)
  /\ call' = [call EXCEPT ![i] = [args EXCEPT !.at = "enforced", !.op = op, !.by = u, !.active = TRUE,
                                              !.home = home[u], !.licensed = ~expired]]
  /\ UNCHANGED <<tables, outbox, faults>>

\* What the handler asks itself before it writes.
Ask(i, allowed, held) ==
  /\ call' = [call EXCEPT ![i] = IF allowed THEN [@ EXCEPT !.at = "checked", !.held = held] ELSE Over]
  /\ UNCHANGED <<tables, outbox, faults>>

\* The statement that ends the call. Reports under way are overtaken by it.
Written(i) ==
  /\ call' = [j \in Ids |-> IF j = i THEN Over
                            ELSE IF call[j].op = "usage_summary" THEN [call[j] EXCEPT !.calm = FALSE] ELSE call[j]]
  /\ UNCHANGED <<outbox, faults>>

-----------------------------------------------------------------------------
(* Grants and homes. Where a target is taken from the body, the body is read twice:    *)
(* TargetFromBody looks a field up by its exact name, and takes a body it cannot read   *)
(* for one without it; the handler's decoder takes a name in any case of letters, the   *)
(* last of several, and ignores what follows the object. asked is what enforce asks     *)
(* about, org or p what the handler writes, and any two may come together.              *)

HandleCreateGrant(i, u, w, r, asked, org) ==
  Admit(i, "create_grant", u, asked, [NoCall EXCEPT !.user = w, !.role = r, !.org = org])

\* Mutant: what the role gives is not compared with what the granter holds.
CheckGrantNot(i) ==
  /\ Stands(i, "create_grant", "enforced")
  /\ Ask(i, Exists(call[i].org), HeldAt(Subject(i), call[i].org))

CheckGrant(i) ==
  /\ Stands(i, "create_grant", "enforced")
  /\ Ask(i, Exists(call[i].org) /\ CanGrant(Subject(i), call[i].role, call[i].org), HeldAt(Subject(i), call[i].org))

\* The node may have gone; the unique index makes a second such grant an error.
CreateGrant(i) ==
  /\ Stands(i, "create_grant", "checked")
  /\ LET g == [user |-> call[i].user, role |-> call[i].role, org |-> call[i].org] IN
     grants' = IF Exists(g.org) THEN grants \cup {g} ELSE grants
  /\ Written(i) /\ UNCHANGED <<active, home, path, expired>>

\* GetGrant. Nothing compares the role with what the caller holds.
HandleDeleteGrant(i, u, g) ==
  /\ g \in grants
  /\ Admit(i, "delete_grant", u, None, [NoCall EXCEPT !.user = g.user, !.role = g.role, !.org = g.org])

CheckDelete(i) ==
  /\ Stands(i, "delete_grant", "enforced")
  /\ Ask(i, Exists(call[i].org) /\ Can(Subject(i), "grant:write", call[i].org), {})

DeleteGrant(i) ==
  /\ Stands(i, "delete_grant", "checked")
  /\ grants' = grants \ {[user |-> call[i].user, role |-> call[i].role, org |-> call[i].org]}
  /\ Written(i) /\ UNCHANGED <<active, home, path, expired>>

\* No question of its own: what the caller holds is what enforce saw.
HandleAssignPrimaryOrg(i, u, w, asked, org) ==
  Admit(i, "assign_home", u, asked, [NoCall EXCEPT !.user = w, !.org = org, !.held = HeldAt(SubjectOf(u), asked)])

AssignPrimaryOrg(i) ==
  /\ Stands(i, "assign_home", "enforced")
  /\ home' = IF Exists(call[i].org) THEN [home EXCEPT ![call[i].user] = call[i].org] ELSE home
  /\ Written(i) /\ UNCHANGED <<active, grants, path, expired>>

-----------------------------------------------------------------------------
(* The tree.                                                                *)

Fresh == {n \in Orgs : path[n] = <<>> /\ \A i \in Ids : n \notin call[i].granted \cup {call[i].org, call[i].under}}
PathOf(p) == IF p = None THEN <<>> ELSE path[p]

HandleCreate(i, u, asked, p) ==
  Admit(i, "create_org", u, asked, [NoCall EXCEPT !.under = p, !.held = HeldAt(SubjectOf(u), asked)])

CreateOrg(i) ==
  /\ Stands(i, "create_org", "enforced") /\ Fresh # {}
  /\ LET n == CHOOSE o \in Fresh : TRUE IN
     path' = IF Exists(call[i].under) THEN [path EXCEPT ![n] = Append(PathOf(call[i].under), n)] ELSE path
  /\ Written(i) /\ UNCHANGED <<active, home, grants, expired>>

HandleMove(i, u, n, p) == Admit(i, "move_org", u, n, [NoCall EXCEPT !.org = n, !.under = p])

\* Mutant: only the node moved has to be the caller's.
CheckMoveNot(i) ==
  /\ Stands(i, "move_org", "enforced")
  /\ Ask(i, Exists(call[i].under), HeldAt(Subject(i), call[i].under))

\* Both ends have to be the caller's.
CheckMove(i) ==
  /\ Stands(i, "move_org", "enforced")
  /\ Ask(i, Exists(call[i].under) /\ Can(Subject(i), "org:write", call[i].under), HeldAt(Subject(i), call[i].under))

MoveOrg(i) ==
  /\ Stands(i, "move_org", "checked")
  /\ LET n == call[i].org
         p == call[i].under IN
     path' = IF n \in Nodes /\ Exists(p) /\ p \notin Subtree(n)
             THEN [o \in Orgs |-> IF o \in Subtree(n)
                                  THEN Append(PathOf(p), n) \o SubSeq(path[o], Len(path[n]) + 1, Len(path[o]))
                                  ELSE path[o]]
             ELSE path
  /\ Written(i) /\ UNCHANGED <<active, home, grants, expired>>

HandleDelete(i, u, n) == Admit(i, "delete_org", u, n, [NoCall EXCEPT !.org = n])

\* Mutant: the homes do not keep a node.
FreeOfChildren(n) == Subtree(n) = {n} /\ \A j \in Ids : request[j].org # n

\* What refers to a node keeps it, but for its grants.
Free(n) == Subtree(n) = {n} /\ (\A u \in Users : home[u] # n) /\ \A j \in Ids : request[j].org # n

DeleteOrg(i) ==
  /\ Stands(i, "delete_org", "enforced")
  /\ LET n == call[i].org IN
     IF n \in Nodes /\ Free(n)
     THEN path' = [path EXCEPT ![n] = <<>>] /\ grants' = {g \in grants : g.org # n}
     ELSE UNCHANGED <<path, grants>>
  /\ Written(i) /\ UNCHANGED <<active, home, expired>>

-----------------------------------------------------------------------------
(* Requests.                                                                *)

HandleSubmit(i, u, asked, org) == Admit(i, "submit_request", u, asked, [NoCall EXCEPT !.org = org])

Submit(i) ==
  /\ Stands(i, "submit_request", "enforced")
  /\ IF call[i].org \in Nodes
     THEN /\ request' = [request EXCEPT ![i] = [status |-> "pending", by |-> call[i].by, org |-> call[i].org]]
          /\ call' = [call EXCEPT ![i].at = "notify", ![i].about = i]
     ELSE Ends(i) /\ UNCHANGED request
  /\ UNCHANGED <<tables, mail, worker, faults>>

\* notifyApprovers, and what decide enqueues for the requester. A notice that is not
\* enqueued is logged and lost.
Recipients(i) ==
  Watched \cap IF call[i].op = "submit_request" THEN ApproversOf(call[i].org) ELSE {request[call[i].about].by}

Notify(i) ==
  /\ call[i].at = "notify"
  /\ \E lost \in SUBSET Recipients(i) :
       /\ Fault(lost # {})
       /\ LET event == IF call[i].op = "submit_request" THEN "submitted" ELSE "decided" IN
          mail' = [k \in Notices |-> IF k \in {call[i].about} \X {event} \X (Recipients(i) \ lost)
                                     THEN [NoMail EXCEPT !.status = "pending"] ELSE mail[k]]
  /\ Ends(i) /\ UNCHANGED <<tables, request, worker>>

\* The decider is read anew, and asked for key:write at the request's node.
HandleDecide(i, u, j) ==
  /\ request[j] # NoRequest
  /\ Admit(i, "decide_request", u, None, [NoCall EXCEPT !.about = j])

CheckDecide(i) ==
  /\ Stands(i, "decide_request", "enforced")
  /\ Ask(i, Can(SubjectOf(call[i].by), "key:write", request[call[i].about].org), {})

Decide(i) ==
  /\ Stands(i, "decide_request", "checked")
  /\ IF request[call[i].about].status = "pending"
     THEN request' = [request EXCEPT ![call[i].about].status = "decided"] /\ call' = [call EXCEPT ![i].at = "notify"]
     ELSE Ends(i) /\ UNCHANGED request
  /\ UNCHANGED <<tables, mail, worker, faults>>

-----------------------------------------------------------------------------
(* The cost report.                                                         *)

HandleSummary(i, u, want) == Admit(i, "usage_summary", u, None, [NoCall EXCEPT !.under = want])

CostScopes(i) ==
  /\ Stands(i, "usage_summary", "enforced")
  /\ LET scope == CostScope(Subject(i)) IN
     call' = [call EXCEPT ![i] = IF scope.all \/ scope.nodes # {}
                                 THEN [@ EXCEPT !.at = "checked", !.all = scope.all, !.granted = scope.nodes] ELSE Over]
  /\ UNCHANGED <<tables, outbox, faults>>

\* Mutant: narrow takes what is wanted without comparing it with what may be seen.
NarrowNot(visible, want) == Subtree(want)

\* narrow, for who does not see everything.
Narrow(visible, want) == visible \cap Subtree(want)

\* The subtrees, those of deleted nodes left out, and narrow.
CostSubtrees(i) ==
  /\ Stands(i, "usage_summary", "checked")
  /\ LET want == call[i].under
         visible == UNION {Subtree(n) : n \in call[i].granted \cap Nodes}
         orgs == IF want = None THEN visible
                 ELSE IF call[i].all THEN Subtree(want) ELSE Narrow(visible, want) IN
     call' = [call EXCEPT ![i] = IF want # None /\ (want \notin Nodes \/ orgs = {})
                                 THEN Over ELSE [@ EXCEPT !.at = "query", !.nodes = orgs]]
  /\ UNCHANGED <<tables, outbox, faults>>

\* Reader.Summary: no organizations are all organizations.
Reported(i) == IF call[i].nodes = {} THEN Orgs ELSE call[i].nodes

Summary(i) ==
  /\ Stands(i, "usage_summary", "query")
  /\ Ends(i) /\ UNCHANGED <<tables, outbox, faults>>

-----------------------------------------------------------------------------
(* DeliverPending.                                                          *)

Worker(at, todo, now, failed) == worker' = [at |-> at, todo |-> todo, now |-> now, failed |-> failed]

ListPending ==
  /\ worker.at = "wait"
  /\ {k \in Notices : mail[k].status = "pending"} # {}
  /\ Worker("list", {k \in Notices : mail[k].status = "pending"}, None, FALSE)
  /\ UNCHANGED <<tables, call, request, mail, faults>>

\* The server takes the message, refuses it, or takes it and the answer is lost.
Send(k) ==
  /\ worker.at = "list" /\ k \in worker.todo
  /\ \E taken, failed \in BOOLEAN :
       /\ ~taken => failed
       /\ Fault(taken /\ failed)
       /\ mail' = IF taken THEN [mail EXCEPT ![k].delivered = @ + 1] ELSE mail
       /\ Worker("mark", worker.todo \ {k}, k, failed)
  /\ UNCHANGED <<tables, call, request>>

\* Mutant: the error of Send is not looked at.
MarkedSent(m, failed) == [m EXCEPT !.status = "sent", !.attempts = @ + 1]

\* MarkSent, RecordFailure or MarkFailed.
Marked(m, failed) ==
  [m EXCEPT !.attempts = @ + 1,
            !.status = IF ~failed THEN "sent" ELSE IF m.attempts + 1 >= MaxDeliverAttempts THEN "failed" ELSE @]

\* A failure of the statement is logged.
Mark ==
  /\ worker.at = "mark"
  /\ \E done \in BOOLEAN :
       /\ Fault(~done)
       /\ mail' = IF done THEN [mail EXCEPT ![worker.now] = Marked(@, worker.failed)] ELSE mail
  /\ Worker("list", worker.todo, None, FALSE)
  /\ UNCHANGED <<tables, call, request>>

RoundEnds ==
  /\ worker.at = "list" /\ worker.todo = {}
  /\ worker' = Resting
  /\ UNCHANGED <<tables, call, request, mail, faults>>

WorkerStep == ListPending \/ (\E k \in worker.todo : Send(k)) \/ Mark \/ RoundEnds

-----------------------------------------------------------------------------
(* What happens to the calls.                                               *)

\* The directory has lost the user: Reconciler.ReconcileOnce.
Disable(i, u) ==
  /\ Unused(i) /\ u \in active
  /\ active' = active \ {u}
  /\ Written(i) /\ UNCHANGED <<home, grants, path, expired>>

Expire(i) ==
  /\ Unused(i) /\ ~expired
  /\ expired' = TRUE
  /\ Written(i) /\ UNCHANGED <<active, home, grants, path>>

\* Told only when something is under way.
Restart ==
  /\ worker # Resting \/ \E i \in Ids : call[i].at \notin {"idle", "done"}
  /\ Fault(TRUE)
  /\ call' = [i \in Ids |-> IF call[i].at = "idle" THEN NoCall ELSE Over]
  /\ worker' = Resting
  /\ UNCHANGED <<tables, request, mail>>

Begin(i) ==
  \E u \in active :
    \/ \E w \in Users, asked, org \in Places : HandleAssignPrimaryOrg(i, u, w, asked, org)
    \/ \E w \in Users, r \in Granted, asked, org \in Places : HandleCreateGrant(i, u, w, r, asked, org)
    \/ \E g \in grants : HandleDeleteGrant(i, u, g)
    \/ \E asked, p \in Places : HandleCreate(i, u, asked, p)
    \/ \E n \in Orgs, p \in Places : HandleMove(i, u, n, p)
    \/ \E n \in Orgs : HandleDelete(i, u, n)
    \/ \E asked \in Places, org \in Orgs : HandleSubmit(i, u, asked, org)
    \/ \E j \in Ids : HandleDecide(i, u, j)
    \/ \E want \in Places : HandleSummary(i, u, want)
    \/ Disable(i, u) \/ Expire(i)

Continue(i) ==
  \/ CheckGrant(i) \/ CreateGrant(i) \/ CheckDelete(i) \/ DeleteGrant(i) \/ AssignPrimaryOrg(i)
  \/ CreateOrg(i) \/ CheckMove(i) \/ MoveOrg(i) \/ DeleteOrg(i)
  \/ Submit(i) \/ Notify(i) \/ CheckDecide(i) \/ Decide(i)
  \/ CostScopes(i) \/ CostSubtrees(i) \/ Summary(i)

AccessNext ==
  \/ \E i \in Ids : (Unused(i) /\ Begin(i)) \/ Continue(i)
  \/ WorkerStep \/ Restart

AccessSpec == AccessInit /\ [][AccessNext]_vars

\* The worker goes round for ever.
FairAccessSpec == AccessSpec /\ WF_vars(WorkerStep)

-----------------------------------------------------------------------------
(* What the code promises.                                                  *)

\* What the tables give a user, whoever he is and wherever he is at home.
GivenAt(u, n) == HeldAt([user |-> u, active |-> TRUE, home |-> None], n)

Agree ==
  /\ \A n \in Nodes : ApproversOf(n) = {u \in Users : Can(SubjectOf(u), "key:write", n)}
  /\ \A n \in Nodes : {e.grant.user : e \in EffectiveGrants(n)} = {u \in Users : GivenAt(u, n) # {}}
  /\ \A u \in Users :
       LET s == SubjectOf(u)
           readable == {n \in Nodes : Can(s, "org:read", n)}
           usable == {w \in DOMAIN Requires :
                        Requires[w] = {} \/ \E p \in Requires[w], target \in Nodes \cup {None} : Can(s, p, target)}
           heldOnNode == UNION {RolePermissions[g.role] : g \in {h \in GrantsOf(u) : h.org # None}} IN
       u \in active =>
         /\ ToApprove(s) = {n \in Nodes : Can(s, "key:write", n)}
         /\ VisibleOrgs(s) = readable \cup {n \in Nodes : Subtree(n) \cap readable # {}}
         /\ usable \subseteq Workbenches(s)
         /\ \A w \in Workbenches(s) \ usable : Requires[w] \cap heldOnNode \cap GlobalPermissions # {}

\* The answers that are computed along other ways than Can agree with it. Those asked to
\* approve are, of all users, those who may; those whose session is open see the requests they
\* may approve and no others, the nodes they may read and what is above them, and the
\* workbenches they can use. (A workbench without a page to use takes a grant on a node of a
\* role whose permission for it is global.) The page of a node lists, of all users, those to
\* whom a grant would give something there: also who is disabled and therefore may do
\* nothing, and nobody for being at home there. The answers depend on the tables alone, so
\* they are compared before and after each change of a table.
ViewsAgree == [][tables' # tables => Agree /\ Agree']_vars

\* Whatever somebody comes to hold was given him by a call admitted under a valid license.
\* What a grant or a home gives him, its caller held himself; below a node that was created
\* or brought there he holds what he holds at its parent, and the caller might edit there.
\* The caller's side is what held at the decision, where it was last asked: the node
\* written to, but for a new parent or a home that enforce has read as another in the body
\* than the handler; what he lost between the decision and the statement, or a grant's node
\* gained by having moved, is not asked again.
AuthorityComesFromAuthority ==
  [][\/ tables' = tables
     \/ \A u \in Users : \A n \in Nodes' \cup {None} :
          \A p \in HeldAt(SubjectOf(u), n)' \ HeldAt(SubjectOf(u), n) :
            \E i \in Ids :
              /\ call[i].licensed /\ call'[i] = Over
              /\ \/ /\ call[i].op \in {"create_grant", "assign_home"}
                    /\ call[i].user = u /\ p \in call[i].held
                    /\ call[i].org = None \/ (n # None /\ call[i].org \in Above(n))
                 \/ /\ call[i].op \in {"create_org", "move_org"}
                    /\ n # None /\ path'[n] # path[n] /\ p \in HeldAt(SubjectOf(u), call[i].under)
                    /\ "org:write" \in call[i].held]_vars

\* A report that nothing has overtaken covers exactly what its reader may see and has asked
\* for. All organizations are only for who may see them all, or whose nodes have all been
\* deleted since they were read.
ReportsStayInScope ==
  \A i \in Ids : Stands(i, "usage_summary", "query") =>
    LET s == Subject(i)
        all == Can(s, "cost:read_all", None) \/ Can(s, "cost:read", None)
        seen == IF all THEN Orgs ELSE {n \in Nodes : Can(s, "cost:read", n)}
        wanted == IF call[i].under = None THEN Orgs ELSE Subtree(call[i].under) IN
    /\ call[i].calm => Reported(i) = seen \cap wanted
    /\ call[i].nodes = {} => call[i].all \/ call[i].granted \cap Nodes = {}

\* Every notice is settled in the end, as what it is: as sent when the server has taken it,
\* as failed after so many attempts.
NoticesAreSettled ==
  <>[](\A k \in Notices :
         \/ mail[k] = NoMail
         \/ mail[k].status = "sent" /\ mail[k].delivered > 0
         \/ mail[k].status = "failed" /\ mail[k].attempts = MaxDeliverAttempts)
=============================================================================
