---------------------------- MODULE LiteLLMSync ----------------------------
(***************************************************************************)
(* The organization tree and its image in LiteLLM: the Syncer              *)
(* (internal/control/litellmsync.go), the handlers that edit the tree and  *)
(* nudge it (orgapi.go), and the manual trigger (syncapi.go).              *)
(*                                                                         *)
(* A node at depth 2 is an organization upstream, a key holder at any      *)
(* depth a team attached to its ancestor at depth 2. A round reads the     *)
(* tree, then the organizations, then the teams, and works off the         *)
(* difference one call at a time; the tree is edited meanwhile, a second   *)
(* round may be under way, and a deleted node is taken down upstream by    *)
(* the handler that deleted it. Every statement and every upstream call is *)
(* one atomic step; it may fail ("err") or take effect although its caller *)
(* sees an error ("lost"), and the process may crash: MaxFaults in all.    *)
(*                                                                         *)
(* Directory imports edit the tree as well: module DirectoryImport adds    *)
(* them, and its runs are those of this module too.                        *)
(*                                                                         *)
(* Abstracted: an edit of the table is one statement (module OrgTree takes *)
(* it apart); a path is a sequence of ids, and ids are never used twice.   *)
(* Upstream refuses to create what exists, to update what does not, and a  *)
(* team whose organization does not exist; it deletes an organization      *)
(* together with its teams (the comments of internal/litellm). Left out:   *)
(* keys, whose presence only keeps nodes from being deleted or unmarked.   *)
(***************************************************************************)
EXTENDS Naturals, Sequences, FiniteSets

CONSTANTS
  Orgs,       \* organizations.id, those in use and those still to be given
  Names,      \* what nodes can be called
  Trees,      \* the tables from which a behaviour starts
  Manual,     \* calls of HandleTrigger
  Loop,       \* the round of Syncer.Run
  None,       \* no organization, no name
  MaxEdits,   \* handlers called
  MaxFaults   \* failures and crashes

ASSUME NoneAssumption == None \notin Orgs \cup Names
ASSUME LoopAssumption == Loop \notin Manual
ASSUME BoundsAssumption == MaxEdits \in Nat /\ MaxFaults \in Nat

\* What stands on a path has the path that ends with it.
Whole(pth) ==
  \A n \in Orgs : \A k \in 1..Len(pth[n]) :
    pth[pth[n][k]] = SubSeq(pth[n], 1, k) /\ (k = Len(pth[n]) => pth[n][k] = n)

ASSUME TreesAssumption ==
  \A t \in Trees :
    /\ t.path \in [Orgs -> Seq(Orgs)] /\ Whole(t.path)
    /\ t.name \in [Orgs -> Names]
    /\ t.holder \subseteq {n \in Orgs : t.path[n] # <<>>}

VARIABLES
  path,      \* organizations.path, <<>> where there is no row
  name,      \* organizations.name
  holder,    \* the nodes with is_key_holder
  gone,      \* the deleted nodes
  upOrg,     \* LiteLLM: the alias of an organization
  upTeam,    \* LiteLLM: the alias of a team and the organization it is attached to
  round,     \* where a round stands, and its plan
  nudged,    \* the trigger channel, of capacity 1
  due,       \* handlers that have edited the tree and have still to call Nudge
  dropping,  \* where a HandleDelete stands, and what it has read of its node
  behind,    \* the nodes edited since the loop last began a round
  silent,    \* those of them that nobody will nudge for: the writer saw an error
  excused,   \* the nodes something may be left of upstream
  edits, faults

tree == <<path, name, holder, gone>>
upstream == <<upOrg, upTeam>>
trigger == <<nudged, due, behind, silent>>
vars == <<tree, upstream, round, trigger, dropping, excused, edits, faults>>

Rounds == Manual \cup {Loop}
Nodes == {n \in Orgs : path[n] # <<>>}
Unused == Orgs \ (Nodes \cup gone)
NewId == CHOOSE n \in Unused : TRUE
PathOf(p) == IF p = None THEN <<>> ELSE path[p]
Below(p, q) == Len(p) < Len(q) /\ SubSeq(q, 1, Len(p)) = p
Subtree(n) == {o \in Nodes : o = n \/ Below(path[n], path[o])}

Team == [alias : Names \cup {None}, org : Orgs \cup {None}]
NoTeam == [alias |-> None, org |-> None]
Entity == [id : Orgs, alias : Names, org : Orgs \cup {None}]
Verbs == {"CreateOrganization", "UpdateOrganization", "CreateTeam", "UpdateTeam"}
Earlier == [v \in Verbs |-> CASE v = "CreateOrganization" -> {}
                              [] v = "UpdateOrganization" -> {"CreateOrganization"}
                              [] v = "CreateTeam" -> {"CreateOrganization", "UpdateOrganization"}
                              [] v = "UpdateTeam" -> Verbs \ {"UpdateTeam"}]
NoPlan == [orgs |-> {}, teams |-> {}, live |-> {}, todo |-> [v \in Verbs |-> {}]]
Kept == [stage |-> "none", depth2 |-> FALSE, holder |-> FALSE]

-----------------------------------------------------------------------------
(* DesiredStateFrom                                                         *)

WantedOrgs(rows) ==
  {[id |-> n, alias |-> name[n], org |-> None] : n \in {o \in rows : Len(path[o]) = 2}}

WantedTeams(rows) ==
  {[id |-> n, alias |-> name[n], org |-> IF Len(path[n]) >= 2 THEN path[n][2] ELSE None] :
     n \in rows \cap holder}

TypeOK ==
  /\ path \in [Orgs -> Seq(Orgs)] /\ Whole(path) /\ name \in [Orgs -> Names]
  /\ holder \cup behind \subseteq Nodes /\ silent \subseteq behind /\ gone \subseteq Orgs \ Nodes /\ excused \subseteq Orgs
  /\ upOrg \in [Orgs -> Names \cup {None}] /\ upTeam \in [Orgs -> Team]
  /\ \A r \in Rounds :
       /\ round[r].at \in {"wait", "local", "orgs", "teams", "apply"}
       /\ round[r].plan.orgs \cup round[r].plan.teams \subseteq Entity /\ round[r].plan.live \subseteq Orgs
       /\ \A v \in Verbs : round[r].plan.todo[v] \subseteq round[r].plan.orgs \cup round[r].plan.teams
  /\ nudged \in BOOLEAN /\ due \in 0..MaxEdits
  /\ dropping \in [Orgs -> [stage : {"none", "read", "deleted"}, depth2 : BOOLEAN, holder : BOOLEAN]]
  /\ edits \in 0..MaxEdits /\ faults \in 0..MaxFaults

\* Nothing is upstream yet; the process starts and with it the first round.
Init ==
  /\ \E t \in Trees : path = t.path /\ name = t.name /\ holder = t.holder
  /\ gone = {}
  /\ upOrg = [n \in Orgs |-> None] /\ upTeam = [n \in Orgs |-> NoTeam]
  /\ round = [r \in Rounds |-> [at |-> IF r = Loop THEN "local" ELSE "wait", plan |-> NoPlan]]
  /\ nudged = FALSE /\ due = 0 /\ behind = {} /\ silent = {}
  /\ dropping = [n \in Orgs |-> Kept]
  /\ excused = {} /\ edits = 0 /\ faults = 0

-----------------------------------------------------------------------------
(* Failures.                                                                *)

Outcomes == {"ok", "err", "lost"}
Applied(o) == o # "err"
Acked(o) == o = "ok"

\* One of MaxFaults, if it is a failure.
Costs(o) ==
  /\ o # "ok" => faults < MaxFaults
  /\ faults' = IF o = "ok" THEN faults ELSE faults + 1

-----------------------------------------------------------------------------
(* The handlers of orgapi.go: a statement, then Nudge, unless the statement *)
(* returns an error. One that fails changes nothing.                        *)

\* One of MaxEdits.
Called == edits < MaxEdits /\ edits' = edits + 1

\* Mutant: this handler forgets to nudge.
EditedQuietly(S) ==
  /\ behind' = behind \cup S
  /\ UNCHANGED <<upstream, round, nudged, due, silent, faults>>

Edited(S) ==
  /\ behind' = behind \cup S
  /\ \/ /\ Costs("ok") /\ due' = due + 1 /\ UNCHANGED silent
     \/ /\ Costs("lost") /\ silent' = silent \cup S /\ UNCHANGED due
  /\ UNCHANGED <<upstream, round, nudged>>

\* The name a new node is given is one of two that are only ever compared.
HandleCreate(p) ==
  /\ Called
  /\ Unused # {} /\ p \in Nodes \cup {None}
  /\ path' = [path EXCEPT ![NewId] = Append(PathOf(p), NewId)]
  /\ Edited({NewId})
  /\ UNCHANGED <<name, holder, gone, dropping, excused>>

HandleRename(n, nm) ==
  /\ Called
  /\ n \in Nodes /\ nm # name[n]
  /\ name' = [name EXCEPT ![n] = nm]
  /\ Edited({n})
  /\ UNCHANGED <<path, holder, gone, dropping, excused>>

\* A node that comes to depth 2 or leaves it changes its kind upstream.
HandleMove(n, p) ==
  /\ Called
  /\ n \in Nodes /\ p \in (Nodes \ Subtree(n)) \cup {None}
  /\ LET new == Append(PathOf(p), n)
         to == [o \in Subtree(n) |-> new \o SubSeq(path[o], Len(path[n]) + 1, Len(path[o]))] IN
     /\ new # path[n]
     /\ path' = [o \in Orgs |-> IF o \in Subtree(n) THEN to[o] ELSE path[o]]
     /\ excused' = excused \cup {o \in Subtree(n) : (Len(path[o]) = 2) # (Len(to[o]) = 2)}
     /\ Edited(Subtree(n))
  /\ UNCHANGED <<name, holder, gone, dropping>>

\* Unmarking leaves the team where it is (see the handler's comment).
HandleSetKeyHolder(n) ==
  /\ Called
  /\ n \in Nodes
  /\ holder' = IF n \in holder THEN holder \ {n} ELSE holder \cup {n}
  /\ excused' = IF n \in holder THEN excused \cup {n} ELSE excused
  /\ Edited({n})
  /\ UNCHANGED <<path, name, gone, dropping>>

Nudge ==
  /\ due > 0 /\ due' = due - 1
  /\ nudged' = TRUE
  /\ UNCHANGED <<tree, upstream, round, behind, silent, dropping, excused, edits, faults>>

-----------------------------------------------------------------------------
(* HandleDelete: read the node, delete the row, take its image down.        *)

DeleteGet(n) ==
  /\ Called
  /\ n \in Nodes /\ dropping[n].stage = "none"
  /\ dropping' = [dropping EXCEPT ![n] =
       [stage |-> "read", depth2 |-> Len(path[n]) = 2, holder |-> n \in holder]]
  /\ UNCHANGED <<tree, upstream, round, trigger, excused, faults>>

\* Mutant: a node with children is deleted nevertheless.
LeafNot(n) == TRUE

Leaf(n) == Subtree(n) = {n}

\* What was read of the row is still so.
FreshlyRead(n) == dropping[n] = [stage |-> "read", depth2 |-> Len(path[n]) = 2, holder |-> n \in holder]

\* The row goes. The handler goes on to DropNode unless the statement returned an error.
DeleteRow(n) ==
  /\ dropping[n].stage = "read" /\ n \in Nodes /\ Leaf(n)
  /\ path' = [path EXCEPT ![n] = <<>>]
  /\ holder' = holder \ {n} /\ gone' = gone \cup {n}
  /\ behind' = behind \ {n} /\ silent' = silent \ {n}
  /\ \/ /\ Costs("ok")
        /\ dropping' = [dropping EXCEPT ![n].stage = "deleted"]
        /\ excused' = IF FreshlyRead(n) THEN excused ELSE excused \cup {n}
     \/ /\ Costs("lost")
        /\ dropping' = [dropping EXCEPT ![n] = Kept]
        /\ excused' = excused \cup {n}
  /\ UNCHANGED <<name, upstream, round, nudged, due, edits>>

\* The node is missing or has children, or the statement fails.
DeleteRefused(n) ==
  /\ dropping[n].stage = "read"
  /\ IF n \in Nodes /\ Leaf(n) THEN Costs("err") ELSE UNCHANGED faults
  /\ dropping' = [dropping EXCEPT ![n] = Kept]
  /\ UNCHANGED <<tree, upstream, round, trigger, excused, edits>>

\* A round has read the tree with the node still in it.
Planned(n) ==
  \E r \in Rounds : n \in {e.id : e \in round[r].plan.orgs \cup round[r].plan.teams}

\* Mutant: only the organization is taken down.
DropNodeOrgOnly(n) ==
  /\ dropping[n].stage = "deleted"
  /\ \E o \in Outcomes :
       /\ Costs(o)
       /\ upOrg' = IF Applied(o) /\ dropping[n].depth2 THEN [upOrg EXCEPT ![n] = None] ELSE upOrg
       /\ excused' = IF Applied(o) /\ ~Planned(n) THEN excused ELSE excused \cup {n}
  /\ dropping' = [dropping EXCEPT ![n] = Kept]
  /\ UNCHANGED <<tree, upTeam, round, trigger, edits>>

\* DeleteOrganization takes every team attached to it along; a failure is logged.
DropNode(n) ==
  /\ dropping[n].stage = "deleted"
  /\ \E o \in Outcomes :
       /\ Costs(o)
       /\ upOrg' = IF Applied(o) /\ dropping[n].depth2 THEN [upOrg EXCEPT ![n] = None] ELSE upOrg
       /\ upTeam' =
            IF ~Applied(o) THEN upTeam
            ELSE IF dropping[n].depth2 /\ upOrg[n] # None
            THEN [t \in Orgs |-> IF upTeam[t].org = n THEN NoTeam ELSE upTeam[t]]
            ELSE IF ~dropping[n].depth2 /\ dropping[n].holder THEN [upTeam EXCEPT ![n] = NoTeam]
            ELSE upTeam
       /\ excused' = IF Applied(o) /\ ~Planned(n) THEN excused ELSE excused \cup {n}
  /\ dropping' = [dropping EXCEPT ![n] = Kept]
  /\ UNCHANGED <<tree, round, trigger, edits>>

-----------------------------------------------------------------------------
(* Plan and ReconcileOnce.                                                  *)

At(r, s) == round[r].at = s
Goes(r, s, plan) == round' = [round EXCEPT ![r] = [at |-> s, plan |-> plan]]

\* Run: the ticker or the trigger channel.
LoopBegins ==
  /\ At(Loop, "wait")
  /\ nudged' \in {nudged, FALSE}
  /\ behind' = {} /\ silent' = {}
  /\ Goes(Loop, "local", NoPlan)
  /\ UNCHANGED <<tree, upstream, due, dropping, excused, edits, faults>>

HandleTrigger(r) ==
  /\ Called
  /\ At(r, "wait")
  /\ Goes(r, "local", NoPlan)
  /\ UNCHANGED <<tree, upstream, trigger, dropping, excused, faults>>

\* Orgs.All and, of what it returns, the desired state.
PlanLocal(r) ==
  /\ At(r, "local")
  /\ Goes(r, "orgs", [NoPlan EXCEPT !.orgs = WantedOrgs(Nodes), !.teams = WantedTeams(Nodes)])
  /\ UNCHANGED <<tree, upstream, trigger, dropping, excused, edits, faults>>

PlanOrgs(r) ==
  /\ At(r, "orgs")
  /\ LET want == round[r].plan.orgs IN
     Goes(r, "teams", [round[r].plan EXCEPT
       !.live = {e.id : e \in {w \in want : upOrg[w.id] # None}},
       !.todo["CreateOrganization"] = {w \in want : upOrg[w.id] = None},
       !.todo["UpdateOrganization"] = {w \in want : upOrg[w.id] \notin {None, w.alias}}])
  /\ UNCHANGED <<tree, upstream, trigger, dropping, excused, edits, faults>>

\* Mutant: only the aliases are compared.
PlanTeamsByAlias(r) ==
  /\ At(r, "teams")
  /\ LET want == round[r].plan.teams IN
     Goes(r, "apply", [round[r].plan EXCEPT
       !.todo["CreateTeam"] = {w \in want : upTeam[w.id] = NoTeam},
       !.todo["UpdateTeam"] = {w \in want : upTeam[w.id].alias \notin {None, w.alias}}])
  /\ UNCHANGED <<tree, upstream, trigger, dropping, excused, edits, faults>>

\* sameOrgPtr is equality: a missing pointer is None.
PlanTeams(r) ==
  /\ At(r, "teams")
  /\ LET want == round[r].plan.teams IN
     Goes(r, "apply", [round[r].plan EXCEPT
       !.todo["CreateTeam"] = {w \in want : upTeam[w.id] = NoTeam},
       !.todo["UpdateTeam"] = {w \in want : upTeam[w.id] \notin {NoTeam, [alias |-> w.alias, org |-> w.org]}}])
  /\ UNCHANGED <<tree, upstream, trigger, dropping, excused, edits, faults>>

\* Any of the three reads fails: the round is given up, nothing is taken for missing.
PlanFails(r) ==
  /\ round[r].at \in {"local", "orgs", "teams"}
  /\ Costs("err")
  /\ Goes(r, "wait", NoPlan)
  /\ UNCHANGED <<tree, upstream, trigger, dropping, excused, edits>>

\* The round turns to e, once nothing of an earlier list is left.
Turn(r, v, e) ==
  /\ At(r, "apply") /\ e \in round[r].plan.todo[v]
  /\ \A u \in Earlier[v] : round[r].plan.todo[u] = {}
Done(r, v, e) == [round EXCEPT ![r].plan.todo[v] = @ \ {e}]

CreateOrganization(r, e) ==
  /\ Turn(r, "CreateOrganization", e)
  /\ \E o \in Outcomes :
       /\ Costs(o)
       /\ upOrg' = IF Applied(o) /\ upOrg[e.id] = None THEN [upOrg EXCEPT ![e.id] = e.alias] ELSE upOrg
       /\ round' = [Done(r, "CreateOrganization", e) EXCEPT
            ![r].plan.live = IF Acked(o) /\ upOrg[e.id] = None THEN @ \cup {e.id} ELSE @]
  /\ UNCHANGED <<tree, upTeam, trigger, dropping, excused, edits>>

UpdateOrganization(r, e) ==
  /\ Turn(r, "UpdateOrganization", e)
  /\ \E o \in Outcomes :
       /\ Costs(o)
       /\ upOrg' = IF Applied(o) /\ upOrg[e.id] # None THEN [upOrg EXCEPT ![e.id] = e.alias] ELSE upOrg
  /\ round' = Done(r, "UpdateOrganization", e)
  /\ UNCHANGED <<tree, upTeam, trigger, dropping, excused, edits>>

\* A team whose organization is not known to exist waits for the next round.
SkipTeam(r, v, e) ==
  /\ v \in {"CreateTeam", "UpdateTeam"} /\ Turn(r, v, e)
  /\ e.org \notin round[r].plan.live \cup {None}
  /\ round' = Done(r, v, e)
  /\ UNCHANGED <<tree, upstream, trigger, dropping, excused, edits, faults>>

Attachable(o) == o = None \/ upOrg[o] # None

CreateTeam(r, e) ==
  /\ Turn(r, "CreateTeam", e) /\ e.org \in round[r].plan.live \cup {None}
  /\ \E o \in Outcomes :
       /\ Costs(o)
       /\ upTeam' = IF Applied(o) /\ upTeam[e.id] = NoTeam /\ Attachable(e.org)
                    THEN [upTeam EXCEPT ![e.id] = [alias |-> e.alias, org |-> e.org]] ELSE upTeam
  /\ round' = Done(r, "CreateTeam", e)
  /\ UNCHANGED <<tree, upOrg, trigger, dropping, excused, edits>>

\* omitempty: a team is never detached.
UpdateTeam(r, e) ==
  /\ Turn(r, "UpdateTeam", e) /\ e.org \in round[r].plan.live \cup {None}
  /\ \E o \in Outcomes :
       /\ Costs(o)
       /\ upTeam' = IF Applied(o) /\ upTeam[e.id] # NoTeam /\ Attachable(e.org)
                    THEN [upTeam EXCEPT ![e.id] =
                            [alias |-> e.alias, org |-> IF e.org = None THEN @.org ELSE e.org]] ELSE upTeam
  /\ round' = Done(r, "UpdateTeam", e)
  /\ UNCHANGED <<tree, upOrg, trigger, dropping, excused, edits>>

RoundEnds(r) ==
  /\ At(r, "apply") /\ \A v \in Verbs : round[r].plan.todo[v] = {}
  /\ Goes(r, "wait", NoPlan)
  /\ UNCHANGED <<tree, upstream, trigger, dropping, excused, edits, faults>>

RoundStep(r) ==
  \/ PlanLocal(r) \/ PlanOrgs(r) \/ PlanTeams(r) \/ PlanFails(r) \/ RoundEnds(r)
  \/ \E v \in Verbs : \E e \in round[r].plan.todo[v] :
       \/ CreateOrganization(r, e) \/ UpdateOrganization(r, e)
       \/ SkipTeam(r, v, e) \/ CreateTeam(r, e) \/ UpdateTeam(r, e)

\* The control process dies and comes back: rounds, handlers and the channel are gone,
\* and the loop begins with a round.
Restart ==
  /\ Costs("err")
  /\ round' = [r \in Rounds |-> [at |-> IF r = Loop THEN "local" ELSE "wait", plan |-> NoPlan]]
  /\ nudged' = FALSE /\ due' = 0 /\ behind' = {} /\ silent' = {}
  /\ dropping' = [n \in Orgs |-> Kept]
  /\ excused' = excused \cup {n \in Orgs : dropping[n].stage = "deleted"}
  /\ UNCHANGED <<tree, upstream, edits>>

HandlerStep ==
  \/ \E p \in Orgs \cup {None} : HandleCreate(p)
  \/ \E n \in Orgs : \/ \E p \in Orgs \cup {None} : HandleMove(n, p)
                     \/ \E nm \in Names : HandleRename(n, nm)
                     \/ HandleSetKeyHolder(n)
                     \/ DeleteGet(n) \/ DeleteRow(n) \/ DeleteRefused(n) \/ DropNode(n)
  \/ Nudge

SyncStep ==
  \/ HandlerStep \/ LoopBegins
  \/ \E r \in Manual : HandleTrigger(r)
  \/ \E r \in Rounds : RoundStep(r)

Next == SyncStep \/ Restart

Spec == Init /\ [][Next]_vars

\* The loop goes round for ever (the ticker); handlers and manual rounds owe nothing.
Fairness == WF_vars(LoopBegins) /\ WF_vars(RoundStep(Loop))

FairSpec == Spec /\ Fairness

-----------------------------------------------------------------------------
(* What the code promises.                                                  *)

\* What a plan made now would find missing or mismatched (SyncPlan.InSync), but for the
\* one mismatch UpdateTeam cannot mend: a team that came to depth 1 stays attached.
InSync ==
  /\ \A e \in WantedOrgs(Nodes) : upOrg[e.id] = e.alias
  /\ \A e \in WantedTeams(Nodes) : upTeam[e.id].alias = e.alias /\ e.org \in {upTeam[e.id].org, None}

\* Once the edits and the failures end, the image upstream is that of the tree and stays
\* so, whatever the rounds that overlapped with them had planned from.
Converges == <>[]InSync

\* Of a deleted node nothing is left upstream, unless DropNode failed, was overtaken
\* by an edit of the node or by a round that had planned it, was never called because
\* the DELETE returned an error although it took effect or the process died, or the
\* node had been something else upstream before.
LeftoversHaveAReason ==
  \A n \in gone \ excused :
    dropping[n].stage = "none" => upOrg[n] = None /\ upTeam[n] = NoTeam

\* The cascade of DeleteOrganization takes a team of a node that is still there only
\* when the team has moved and is not attached to its new organization yet.
CascadeSparesAttachedTeams ==
  [][\A e \in WantedTeams(Nodes) :
       upTeam[e.id] # NoTeam /\ upTeam'[e.id] = NoTeam => upTeam[e.id].org # e.org]_vars
=============================================================================
