-------------------------- MODULE DirectoryImport --------------------------
(***************************************************************************)
(* Imports of the organization tree from a directory: ComputeDiff          *)
(* (internal/control/importdiff.go), ApplyImport (importapply.go), the     *)
(* handler that calls them (orgapi.go) and the LDAP source                 *)
(* (ldapsource.go), next to the handlers and rounds of LiteLLMSync.        *)
(*                                                                         *)
(* HandleImportApply fetches the directory, reads the tree, and applies    *)
(* the differences the administrator has selected one statement at a time, *)
(* with no transaction around them. Its error return comes before Nudge.   *)
(*                                                                         *)
(* Abstracted: the directory at a fetch is any of Directories, in any      *)
(* order of its entries, so that the order in which ApplyImport adds is    *)
(* any that has parents first; external ids stand for DNs. There is one    *)
(* source. Left out: the preview, which writes nothing and whose answer is *)
(* not taken back; the marking of missing nodes, which is a log line.      *)
(***************************************************************************)
EXTENDS LiteLLMSync

CONSTANTS
  Externals,    \* external ids
  Directories,  \* what FetchOrgTree can return: [entries -> [parent, name]]
  Selections,   \* what administrators select
  Calls         \* calls of HandleImportApply, numbered as they come

ASSUME ExternalsAssumption == None \notin Externals /\ Selections \subseteq SUBSET Externals
ASSUME CallsAssumption == Calls \in Nat
\* DNs spell their parents out: there are no cycles, and a parent outside the result is none.
ASSUME DirectoriesAssumption ==
  \A d \in Directories :
    /\ DOMAIN d \subseteq Externals
    /\ \A e \in DOMAIN d : d[e].parent \in (DOMAIN d \ {e}) \cup {None} /\ d[e].name \in Names

Imports == 1..Calls

VARIABLES
  ext,       \* organizations.external_id
  import,    \* where a call stands: see NoImport
  disturbed  \* the calls under way that had somebody else edit the tree since they read it

allVars == <<vars, ext, import, disturbed>>

NoImport == [at |-> "idle", dir |-> <<>>, picked |-> {}, added |-> {}, todo |-> {}, renamed |-> {},
             made |-> {}, item |-> None, under |-> None]

-----------------------------------------------------------------------------
(* ComputeDiff                                                              *)

NodeOf(e) == {n \in Nodes : ext[n] = e}
Added(d) == {e \in DOMAIN d : NodeOf(e) = {}}
Renamed(d) == {<<n, d[ext[n]].name>> : n \in {m \in Nodes : ext[m] \in DOMAIN d /\ name[m] # d[ext[m]].name}}

ImportTypeOK ==
  /\ TypeOK
  /\ ext \in [Orgs -> Externals \cup {None}]
  /\ \A e \in Externals : Cardinality(NodeOf(e)) <= 1
  /\ \A i \in Imports :
       /\ import[i].at \in {"idle", "add", "create", "done", "aborted"}
       /\ import[i].dir \in Directories \cup {<<>>}
       /\ import[i].todo \subseteq import[i].added /\ import[i].added \subseteq import[i].picked
       /\ import[i].made \subseteq Orgs
       /\ import[i].item \in Externals \cup {None} /\ import[i].under \in Orgs \cup {None}
  /\ disturbed \subseteq Imports

ImportInit ==
  /\ Init
  /\ ext = [n \in Orgs |-> None]
  /\ import = [i \in Imports |-> NoImport]
  /\ disturbed = {}

-----------------------------------------------------------------------------
(* HandleImportApply                                                        *)

Stands(i, s) == import[i].at = s
Running == {i \in Imports : import[i].at \in {"add", "create"}}

\* The error return: what has been written stays, with what the failed statement has
\* written nevertheless, and nobody is nudged.
Abort(i, written) ==
  /\ import' = [import EXCEPT ![i] = [NoImport EXCEPT !.at = "aborted"]]
  /\ silent' = silent \cup (import[i].made \cap behind) \cup written

\* FetchOrgTree and Orgs.All, ComputeDiff, and its items among the selected external ids.
Fetch(i, d, picked) ==
  /\ Called
  /\ Stands(i, "idle") /\ \A j \in 1..(i - 1) : ~Stands(j, "idle")
  /\ import' = [import EXCEPT ![i] =
       [@ EXCEPT !.at = "add", !.dir = d, !.picked = picked,
                 !.added = Added(d) \cap picked, !.todo = Added(d) \cap picked,
                 !.renamed = {r \in Renamed(d) : ext[r[1]] \in picked}]]
  /\ UNCHANGED <<tree, upstream, round, trigger, dropping, excused, faults, ext>>

\* Mutant: the items are taken as the directory lists them.
ParentPendingNever(i, e) == FALSE

ParentPending(i, e) == import[i].dir[e].parent \in import[i].todo

\* ByExternal of the item, which is skipped when it has come to exist, then of its parent,
\* without which the import is aborted.
Look(i, e) ==
  /\ Stands(i, "add") /\ e \in import[i].todo /\ ~ParentPending(i, e)
  /\ LET up == import[i].dir[e].parent IN
     IF NodeOf(e) # {}
     THEN import' = [import EXCEPT ![i].todo = @ \ {e}] /\ UNCHANGED silent
     ELSE IF up = None \/ NodeOf(up) # {}
     THEN /\ \E p \in IF up = None THEN {None} ELSE NodeOf(up) :
               import' = [import EXCEPT ![i] = [@ EXCEPT !.at = "create", !.item = e, !.under = p]]
          /\ UNCHANGED silent
     ELSE Abort(i, {})
  /\ UNCHANGED <<tree, upstream, round, nudged, due, behind, dropping, excused, edits, faults, ext>>

\* Mutant: the unique index on (external_source, external_id) is missing.
UniqueNot(e) == TRUE

Unique(e) == NodeOf(e) = {}

\* OrgStore.Create; the parent may have gone, and another import been faster.
ImportCreate(i) ==
  /\ Stands(i, "create") /\ Unused # {}
  /\ LET e == import[i].item
         p == import[i].under
         n == NewId IN
     IF p \in Nodes \cup {None} /\ Unique(e)
     THEN /\ path' = [path EXCEPT ![n] = Append(PathOf(p), n)]
          /\ name' = [name EXCEPT ![n] = import[i].dir[e].name]
          /\ ext' = [ext EXCEPT ![n] = e]
          /\ behind' = behind \cup {n}
          /\ \/ /\ Costs("ok") /\ UNCHANGED silent
                /\ import' = [import EXCEPT ![i] = [@ EXCEPT !.at = "add", !.item = None, !.under = None,
                     !.todo = import[i].todo \ {e}, !.made = import[i].made \cup {n}]]
             \/ Costs("lost") /\ Abort(i, {n})
     ELSE Abort(i, {}) /\ UNCHANGED <<path, name, ext, behind, faults>>
  /\ UNCHANGED <<holder, gone, upstream, round, nudged, due, dropping, excused, edits>>

\* After the added ones. A node that has been deleted meanwhile aborts the import.
ImportRename(i, r) ==
  /\ Stands(i, "add") /\ import[i].todo = {} /\ r \in import[i].renamed
  /\ IF r[1] \in Nodes
     THEN /\ name' = [name EXCEPT ![r[1]] = r[2]]
          /\ behind' = behind \cup {r[1]}
          /\ \/ /\ Costs("ok") /\ UNCHANGED silent
                /\ import' = [import EXCEPT ![i] =
                     [@ EXCEPT !.renamed = import[i].renamed \ {r}, !.made = import[i].made \cup {r[1]}]]
             \/ Costs("lost") /\ Abort(i, {r[1]})
     ELSE Abort(i, {}) /\ UNCHANGED <<name, behind, faults>>
  /\ UNCHANGED <<path, holder, gone, upstream, round, nudged, due, dropping, excused, edits, ext>>

ImportEnds(i) ==
  /\ Stands(i, "add") /\ import[i].todo = {} /\ import[i].renamed = {}
  /\ import' = [import EXCEPT ![i] = [NoImport EXCEPT !.at = "done"]]
  /\ nudged' = TRUE
  /\ UNCHANGED <<tree, upstream, round, due, behind, silent, dropping, excused, edits, faults, ext>>

\* A statement fails without effect.
ImportFails(i) ==
  /\ i \in Running
  /\ Costs("err")
  /\ Abort(i, {})
  /\ UNCHANGED <<tree, upstream, round, nudged, due, behind, dropping, excused, edits, ext>>

ImportStep(i) ==
  \/ \E d \in Directories, S \in Selections : Fetch(i, d, S \cap DOMAIN d)
  \/ \E e \in import[i].todo : Look(i, e)
  \/ ImportCreate(i)
  \/ \E r \in import[i].renamed : ImportRename(i, r)
  \/ ImportEnds(i) \/ ImportFails(i)

\* Those of S that have read the tree, if it is edited.
Disturbs(S) ==
  disturbed' = {i \in Running' : i \in disturbed \/ (i \in S /\ <<path, name>>' # <<path, name>>)}

ImportNext ==
  \/ SyncStep /\ UNCHANGED <<ext, import>> /\ Disturbs(Imports)
  \/ \E i \in Imports : ImportStep(i) /\ Disturbs(Imports \ {i})
  \/ /\ Restart
     /\ import' = [i \in Imports |-> IF i \in Running THEN [NoImport EXCEPT !.at = "aborted"] ELSE import[i]]
     /\ disturbed' = {} /\ UNCHANGED ext

ImportSpec == ImportInit /\ [][ImportNext]_allVars

FairImportSpec == ImportSpec /\ Fairness

-----------------------------------------------------------------------------
(* What the code promises.                                                  *)

\* No edit goes unnoticed until the next tick: a node edited since the loop began its
\* last round has left a nudge in the channel, or its handler is about to. Only what was
\* written without the writer learning of it, or by an import before it was aborted,
\* waits for the ticker: the error return of every handler comes before its Nudge.
EditsAreNoticed ==
  behind \subseteq silent \cup UNION {import[i].made : i \in Running} \/ nudged \/ due > 0

\* Where the directory has it: below the node of its parent there.
Placed(dir, e) ==
  \A n \in NodeOf(e) :
    dir[e].parent = IF Len(path[n]) = 1 THEN None ELSE ext[path[n][Len(path[n]) - 1]]

\* An import that nobody disturbs leaves no difference among what was selected, with every
\* new node where the directory has it; unless something fails, it is aborted only when
\* a node was selected without the parent it needs. (A node that moved in the directory
\* is no difference to ComputeDiff.)
ImportTakesEffect ==
  [][\A i \in Running \ disturbed :
       LET dir == import[i].dir
           picked == import[i].picked IN
       /\ import'[i].at = "done" =>
            /\ picked \cap Added(dir) = {}
            /\ \A r \in Renamed(dir) : ext[r[1]] \notin picked
            /\ \A e \in import[i].added : Placed(dir, e)
       /\ import'[i].at = "aborted" /\ faults' = faults =>
            \E e \in picked : dir[e].parent \notin picked \cup {None} /\ NodeOf(dir[e].parent) = {}]_allVars
=============================================================================
