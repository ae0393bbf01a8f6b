---------------------------- MODULE KeyLifecycle ----------------------------
(***************************************************************************)
(* The life of an API key: the row the control plane keeps in api_keys     *)
(* (internal/control/keyissue.go, keystore.go, reconciler.go) and the      *)
(* virtual key that stands behind it in LiteLLM (internal/litellm).        *)
(*                                                                         *)
(* Six actors touch a key, each a sequence of database statements and      *)
(* upstream calls with nothing held in between:                            *)
(*   - Issue, one request handler per key (the id and the upstream key are *)
(*     fresh random values, so a key names its Issue call);                *)
(*   - cleanup, run by a failed Issue and by the CleanupStalePending loop; *)
(*   - Revoke, one handler on one key;                                     *)
(*   - RevokeByUsers, the leaver's branch of the directory reconciler;     *)
(*   - RevokeByOrgSubtree and RevokeAll, one UPDATE over many rows;        *)
(*   - BlockPendingUpstream, the scan that retries upstream blocking.      *)
(* Every statement and every call is one atomic step. A call may fail      *)
(* ("err"), or take effect although its caller sees an error ("lost": the  *)
(* connection breaks, the request context is cancelled, the client's 10 s  *)
(* time-out runs out).                                                     *)
(*                                                                         *)
(* Abstracted: the secrets (a key is its id), encryption (the decrypt      *)
(* failures of the loops leave the state as an "err" does), permissions,   *)
(* which org or user owns a key (Subtrees and Leavers give the sets of     *)
(* keys one statement can select), the limit of 100 keys per scan.         *)
(***************************************************************************)
EXTENDS Naturals

CONSTANTS
  Keys,         \* every key that is ever issued
  Subtrees,     \* the sets of keys a bulk revocation can select
  Leavers,      \* the sets of keys owned by one batch of leavers
  MaxAttempts   \* maxBlockAttempts

ASSUME KeysAssumption == Subtrees \subseteq SUBSET Keys /\ Leavers \subseteq SUBSET Keys
ASSUME AttemptsAssumption == MaxAttempts \in Nat \ {0}

VARIABLES
  row,       \* api_keys.status, or "absent" when there is no such row
  stamp,     \* upstream_blocked_at IS NOT NULL
  attempts,  \* upstream_block_attempts
  upstream,  \* the LiteLLM key: "absent", "live" or "blocked"
  inflight,  \* a GenerateKey that timed out and may still be executed
  issue,     \* where the Issue call of the key stands
  clean,     \* where cleanup(key) stands, for each of its two callers
  revoke,    \* where an inline revocation stands, for each of its two callers
  leaving,   \* the leavers RevokeByUsers has selected but not yet updated, or {}
  scan,      \* where BlockPendingUpstream stands on the key
  cutShort,  \* history: the key was revoked while its Issue call was running
  late       \* history: LiteLLM made the key for a request its client had given up

vars == <<row, stamp, attempts, upstream, inflight, issue, clean, revoke, leaving, scan, cutShort, late>>
db == <<row, stamp, attempts>>
remote == <<upstream, inflight, late>>
actors == <<issue, clean, revoke, leaving, scan>>

Live == {"active", "pending"}
Outcomes == {"ok", "err", "lost"}

\* A call has its effect unless it failed, and its caller knows only of "ok".
Applied(o) == o # "err"
Acked(o) == o = "ok"

IssueRunning(k) == issue[k] \in {"inserted", "generated"} \/ clean["issue"][k] # "idle"

TypeOK ==
  /\ row \in [Keys -> {"absent", "pending", "active", "revoked"}]
  /\ stamp \in [Keys -> BOOLEAN]
  /\ attempts \in [Keys -> 0..MaxAttempts]
  /\ upstream \in [Keys -> {"absent", "live", "blocked"}]
  /\ inflight \in [Keys -> BOOLEAN]
  /\ issue \in [Keys -> {"none", "inserted", "generated", "returned", "errored", "crashed"}]
  /\ clean \in [{"issue", "sweep"} -> [Keys -> {"idle", "probe", "remove", "drop"}]]
  /\ revoke \in [{"admin", "leaver"} -> [Keys -> {"idle", "fetched", "marked", "blocked"}]]
  /\ leaving \in Leavers \cup {{}}
  /\ scan \in [Keys -> {"idle", "listed", "stamp", "record"}]
  /\ cutShort \in [Keys -> BOOLEAN]
  /\ late \in [Keys -> BOOLEAN]

Init ==
  /\ row = [k \in Keys |-> "absent"]
  /\ stamp = [k \in Keys |-> FALSE]
  /\ attempts = [k \in Keys |-> 0]
  /\ upstream = [k \in Keys |-> "absent"]
  /\ inflight = [k \in Keys |-> FALSE]
  /\ issue = [k \in Keys |-> "none"]
  /\ clean = [c \in {"issue", "sweep"} |-> [k \in Keys |-> "idle"]]
  /\ revoke = [c \in {"admin", "leaver"} |-> [k \in Keys |-> "idle"]]
  /\ leaving = {}
  /\ scan = [k \in Keys |-> "idle"]
  /\ cutShort = [k \in Keys |-> FALSE]
  /\ late = [k \in Keys |-> FALSE]

-----------------------------------------------------------------------------
(* Issue: CreatePending, then GenerateKey, then MarkActive. Any error after *)
(* the insert hands the key to cleanup and is reported to the caller.       *)

\* Keys.CreatePending. An insert that commits although Issue sees an error
\* leaves a pending row nobody is working on.
CreatePending(k) ==
  /\ issue[k] = "none"
  /\ \E o \in {"ok", "lost"} :
       /\ row' = [row EXCEPT ![k] = "pending"]
       /\ issue' = [issue EXCEPT ![k] = IF Acked(o) THEN "inserted" ELSE "errored"]
  /\ UNCHANGED <<stamp, attempts, remote, clean, revoke, leaving, scan, cutShort>>

\* Admin.GenerateKey with the key value Issue chose; on error, cleanup.
GenerateKey(k) ==
  /\ issue[k] = "inserted"
  /\ \E o \in Outcomes :
       /\ upstream' = IF Applied(o) /\ upstream[k] = "absent"
                      THEN [upstream EXCEPT ![k] = "live"] ELSE upstream
       /\ issue' = [issue EXCEPT ![k] = IF Acked(o) THEN "generated" ELSE "errored"]
       /\ clean' = IF Acked(o) THEN clean ELSE [clean EXCEPT !["issue"][k] = "probe"]
  /\ UNCHANGED <<db, inflight, late, revoke, leaving, scan, cutShort>>

\* The same call running into its time-out while the request is still on its way.
GenerateTimesOut(k) ==
  /\ issue[k] = "inserted"
  /\ inflight' = [inflight EXCEPT ![k] = TRUE]
  /\ issue' = [issue EXCEPT ![k] = "errored"]
  /\ clean' = [clean EXCEPT !["issue"][k] = "probe"]
  /\ UNCHANGED <<db, upstream, late, revoke, leaving, scan, cutShort>>

\* LiteLLM gets round to a request whose client has gone. Generating a key
\* value that exists already does nothing.
LateGenerate(k) ==
  /\ inflight[k]
  /\ inflight' = [inflight EXCEPT ![k] = FALSE]
  /\ IF upstream[k] = "absent"
     THEN /\ upstream' = [upstream EXCEPT ![k] = "live"]
          /\ late' = [late EXCEPT ![k] = TRUE]
     ELSE UNCHANGED <<upstream, late>>
  /\ UNCHANGED <<db, actors, cutShort>>

\* Keys.MarkActive: UPDATE ... SET status = 'active' WHERE id = $2, whatever the
\* status was. No row, or an error: cleanup.
MarkActive(k) ==
  /\ issue[k] = "generated"
  /\ \E o \in Outcomes :
       LET done == Acked(o) /\ row[k] # "absent" IN
       /\ row' = IF Applied(o) /\ row[k] # "absent" THEN [row EXCEPT ![k] = "active"] ELSE row
       /\ issue' = [issue EXCEPT ![k] = IF done THEN "returned" ELSE "errored"]
       /\ clean' = IF done THEN clean ELSE [clean EXCEPT !["issue"][k] = "probe"]
  /\ UNCHANGED <<stamp, attempts, remote, revoke, leaving, scan, cutShort>>

-----------------------------------------------------------------------------
(* cleanup: look the key up upstream, delete it there if it exists, and     *)
(* only then delete the row. An error anywhere keeps the row for the next   *)
(* sweep.                                                                   *)

\* Mutant: a sweep without the age threshold, which meets running Issue calls.
SweepListYoung(k) ==
  /\ row[k] = "pending"
  /\ clean["sweep"][k] = "idle"
  /\ clean' = [clean EXCEPT !["sweep"][k] = "probe"]
  /\ UNCHANGED <<db, remote, issue, revoke, leaving, scan, cutShort>>

\* Mutant: a sweep that also collects revoked rows as left-overs.
SweepListRevoked(k) ==
  /\ row[k] \in {"pending", "revoked"}
  /\ ~IssueRunning(k)
  /\ clean["sweep"][k] = "idle"
  /\ clean' = [clean EXCEPT !["sweep"][k] = "probe"]
  /\ UNCHANGED <<db, remote, issue, revoke, leaving, scan, cutShort>>

\* Mutant: a sweep that only collects the rows of a process that died, and not the
\* rows a failed cleanup kept.
SweepListCrashed(k) ==
  /\ row[k] = "pending" /\ issue[k] = "crashed"
  /\ clean["sweep"][k] = "idle"
  /\ clean' = [clean EXCEPT !["sweep"][k] = "probe"]
  /\ UNCHANGED <<db, remote, issue, revoke, leaving, scan, cutShort>>

\* CleanupStalePending lists the pending rows older than 10 minutes, which is more
\* than an Issue call takes (its one upstream call is cut off after 10 s): the Issue
\* call of a stale row is over. Only a database that stalls for minutes breaks this.
SweepList(k) ==
  /\ row[k] = "pending"
  /\ ~IssueRunning(k)
  /\ clean["sweep"][k] = "idle"
  /\ clean' = [clean EXCEPT !["sweep"][k] = "probe"]
  /\ UNCHANGED <<db, remote, issue, revoke, leaving, scan, cutShort>>

\* Mutant: any error of KeyExists is taken for "no such key".
CleanupProbeErrMeansAbsent(c, k) ==
  /\ clean[c][k] = "probe"
  /\ \/ clean' = [clean EXCEPT ![c][k] = IF upstream[k] = "absent" THEN "drop" ELSE "remove"]
     \/ clean' = [clean EXCEPT ![c][k] = "drop"]
  /\ UNCHANGED <<db, remote, issue, revoke, leaving, scan, cutShort>>

\* Admin.KeyExists: 404 is the answer "no", any other error gives up.
CleanupProbe(c, k) ==
  /\ clean[c][k] = "probe"
  /\ \/ clean' = [clean EXCEPT ![c][k] = IF upstream[k] = "absent" THEN "drop" ELSE "remove"]
     \/ clean' = [clean EXCEPT ![c][k] = "idle"]
  /\ UNCHANGED <<db, remote, issue, revoke, leaving, scan, cutShort>>

\* Admin.DeleteKey; on error the row stays.
CleanupRemove(c, k) ==
  /\ clean[c][k] = "remove"
  /\ \E o \in Outcomes :
       /\ upstream' = IF Applied(o) THEN [upstream EXCEPT ![k] = "absent"] ELSE upstream
       /\ clean' = [clean EXCEPT ![c][k] = IF Acked(o) THEN "drop" ELSE "idle"]
  /\ UNCHANGED <<db, inflight, late, issue, revoke, leaving, scan, cutShort>>

\* Keys.Delete, whatever the status of the row has become; errors are logged.
CleanupDrop(c, k) ==
  /\ clean[c][k] = "drop"
  /\ \/ /\ row' = [row EXCEPT ![k] = "absent"]
        /\ stamp' = [stamp EXCEPT ![k] = FALSE]
        /\ attempts' = [attempts EXCEPT ![k] = 0]
     \/ UNCHANGED db
  /\ clean' = [clean EXCEPT ![c][k] = "idle"]
  /\ UNCHANGED <<remote, issue, revoke, leaving, scan, cutShort>>

-----------------------------------------------------------------------------
(* Revocation: the row first, since Edge reads it on every request; the     *)
(* upstream block after it, and the stamp only after a confirmed block.     *)

\* The rows of S become 'revoked'. cutShort remembers which of them had an
\* Issue call in progress.
RevokeRows(S) ==
  /\ row' = [k \in Keys |-> IF k \in S THEN "revoked" ELSE row[k]]
  /\ cutShort' = [k \in Keys |-> cutShort[k] \/ (k \in S /\ issue[k] \in {"inserted", "generated"})]

\* Keys.Get of KeyIssuer.Revoke.
RevokeFetch(k) ==
  /\ revoke["admin"][k] = "idle"
  /\ row[k] # "absent"
  /\ revoke' = [revoke EXCEPT !["admin"][k] = "fetched"]
  /\ UNCHANGED <<db, remote, issue, clean, leaving, scan, cutShort>>

\* Keys.Revoke: unconditional on the status; no row or an error ends the call.
RevokeMark(k) ==
  /\ revoke["admin"][k] = "fetched"
  /\ \E o \in Outcomes :
       LET found == row[k] # "absent" IN
       /\ RevokeRows(IF Applied(o) /\ found THEN {k} ELSE {})
       /\ revoke' = [revoke EXCEPT !["admin"][k] = IF Acked(o) /\ found THEN "marked" ELSE "idle"]
  /\ UNCHANGED <<stamp, attempts, remote, issue, clean, leaving, scan>>

\* RevokeByUsers selects the live keys of the leavers, remembering them for
\* the block calls ...
LeaverSelect(S) ==
  /\ leaving = {} /\ S # {}
  /\ \A k \in Keys : revoke["leaver"][k] = "idle"
  /\ leaving' = S
  /\ revoke' = [revoke EXCEPT !["leaver"] =
                  [k \in Keys |-> IF k \in S /\ row[k] \in Live THEN "fetched" ELSE "idle"]]
  /\ UNCHANGED <<db, remote, issue, clean, scan, cutShort>>

\* ... and revokes, in a second statement, the keys that are live by then.
LeaverMark ==
  /\ leaving # {}
  /\ \E o \in Outcomes :
       /\ RevokeRows({k \in leaving : Applied(o) /\ row[k] \in Live})
       /\ revoke' = [revoke EXCEPT !["leaver"] =
                       [k \in Keys |-> IF Acked(o) /\ revoke["leaver"][k] = "fetched"
                                        THEN "marked" ELSE "idle"]]
  /\ leaving' = {}
  /\ UNCHANGED <<stamp, attempts, remote, issue, clean, scan>>

\* RevokeByOrgSubtree and RevokeAll: one UPDATE of the live rows, no upstream call.
BulkRevoke(S) ==
  /\ RevokeRows({k \in S : row[k] \in Live})
  /\ UNCHANGED <<stamp, attempts, remote, actors>>

\* Mutant: the inline path stamps the row although BlockKey failed.
InlineBlockIgnoresError(c, k) ==
  /\ revoke[c][k] = "marked"
  /\ \E o \in Outcomes :
       /\ upstream' = IF Applied(o) /\ upstream[k] = "live"
                      THEN [upstream EXCEPT ![k] = "blocked"] ELSE upstream
       /\ revoke' = [revoke EXCEPT ![c][k] = "blocked"]
  /\ UNCHANGED <<db, inflight, late, issue, clean, leaving, scan, cutShort>>

\* Admin.BlockKey of the two inline paths. A missing key is answered 404, an
\* error like any other here: no stamp, the scan will see to it.
InlineBlock(c, k) ==
  /\ revoke[c][k] = "marked"
  /\ \E o \in Outcomes :
       /\ upstream' = IF Applied(o) /\ upstream[k] = "live"
                      THEN [upstream EXCEPT ![k] = "blocked"] ELSE upstream
       /\ revoke' = [revoke EXCEPT ![c][k] =
                       IF Acked(o) /\ upstream[k] # "absent" THEN "blocked" ELSE "idle"]
  /\ UNCHANGED <<db, inflight, late, issue, clean, leaving, scan, cutShort>>

\* MarkUpstreamBlocked: upstream_blocked_at := now, if there is still a row.
Stamp(k, o) == stamp' = IF Applied(o) /\ row[k] # "absent" THEN [stamp EXCEPT ![k] = TRUE] ELSE stamp

InlineStamp(c, k) ==
  /\ revoke[c][k] = "blocked"
  /\ \E o \in Outcomes : Stamp(k, o)
  /\ revoke' = [revoke EXCEPT ![c][k] = "idle"]
  /\ UNCHANGED <<row, attempts, remote, issue, clean, leaving, scan, cutShort>>

-----------------------------------------------------------------------------
(* BlockPendingUpstream: what every revocation left unstamped.              *)

\* Mutant: the scan lists a key whose attempts are used up.
ScanListUnbounded(k) ==
  /\ row[k] = "revoked" /\ ~stamp[k]
  /\ scan[k] = "idle"
  /\ scan' = [scan EXCEPT ![k] = "listed"]
  /\ UNCHANGED <<db, remote, issue, clean, revoke, leaving, cutShort>>

ScanList(k) ==
  /\ row[k] = "revoked" /\ ~stamp[k] /\ attempts[k] < MaxAttempts
  /\ scan[k] = "idle"
  /\ scan' = [scan EXCEPT ![k] = "listed"]
  /\ UNCHANGED <<db, remote, issue, clean, revoke, leaving, cutShort>>

\* Mutant: a failed block call is logged and not counted.
ScanBlockUncounted(k) ==
  /\ scan[k] = "listed"
  /\ \E o \in Outcomes :
       /\ upstream' = IF Applied(o) /\ upstream[k] = "live"
                      THEN [upstream EXCEPT ![k] = "blocked"] ELSE upstream
       /\ scan' = [scan EXCEPT ![k] = IF Acked(o) THEN "stamp" ELSE "idle"]
  /\ UNCHANGED <<db, inflight, late, issue, clean, revoke, leaving, cutShort>>

\* Admin.BlockKey: here a 404 counts as blocked.
ScanBlock(k) ==
  /\ scan[k] = "listed"
  /\ \E o \in Outcomes :
       /\ upstream' = IF Applied(o) /\ upstream[k] = "live"
                      THEN [upstream EXCEPT ![k] = "blocked"] ELSE upstream
       /\ scan' = [scan EXCEPT ![k] = IF Acked(o) THEN "stamp" ELSE "record"]
  /\ UNCHANGED <<db, inflight, late, issue, clean, revoke, leaving, cutShort>>

ScanStamp(k) ==
  /\ scan[k] = "stamp"
  /\ \E o \in Outcomes : Stamp(k, o)
  /\ scan' = [scan EXCEPT ![k] = "idle"]
  /\ UNCHANGED <<row, attempts, remote, issue, clean, revoke, leaving, cutShort>>

\* RecordBlockAttempt: one more failed attempt; a failed UPDATE records nothing.
ScanRecord(k) ==
  /\ scan[k] = "record"
  /\ \E o \in Outcomes :
       attempts' = IF Applied(o) /\ row[k] # "absent" THEN [attempts EXCEPT ![k] = @ + 1] ELSE attempts
  /\ scan' = [scan EXCEPT ![k] = "idle"]
  /\ UNCHANGED <<row, stamp, remote, issue, clean, revoke, leaving, cutShort>>

-----------------------------------------------------------------------------
\* The control process dies: every handler and loop is gone, rows stay.
Restart ==
  /\ issue' = [k \in Keys |-> IF issue[k] \in {"inserted", "generated"} THEN "crashed" ELSE issue[k]]
  /\ clean' = [c \in {"issue", "sweep"} |-> [k \in Keys |-> "idle"]]
  /\ revoke' = [c \in {"admin", "leaver"} |-> [k \in Keys |-> "idle"]]
  /\ leaving' = {}
  /\ scan' = [k \in Keys |-> "idle"]
  /\ UNCHANGED <<db, remote, cutShort>>

\* Whatever the process and its environment do while it is up.
Work ==
  \/ \E k \in Keys :
       \/ CreatePending(k) \/ GenerateKey(k) \/ GenerateTimesOut(k) \/ LateGenerate(k) \/ MarkActive(k)
       \/ SweepList(k)
       \/ RevokeFetch(k) \/ RevokeMark(k)
       \/ ScanList(k) \/ ScanBlock(k) \/ ScanStamp(k) \/ ScanRecord(k)
  \/ \E k \in Keys, c \in {"issue", "sweep"} :
       CleanupProbe(c, k) \/ CleanupRemove(c, k) \/ CleanupDrop(c, k)
  \/ \E k \in Keys, c \in {"admin", "leaver"} : InlineBlock(c, k) \/ InlineStamp(c, k)
  \/ \E S \in Leavers : LeaverSelect(S)
  \/ LeaverMark
  \/ \E S \in Subtrees : BulkRevoke(S)

Next == Work \/ Restart

Spec == Init /\ [][Next]_vars

\* The loops run for ever and an Issue handler runs to its end; the database and
\* LiteLLM do not fail every single time they are asked; the process does not
\* crash for ever.
Fairness ==
  /\ <>[][Work]_vars
  /\ \A k \in Keys :
    /\ WF_vars(GenerateKey(k) \/ GenerateTimesOut(k)) /\ WF_vars(MarkActive(k))
    /\ WF_vars(SweepList(k))
    /\ \A c \in {"issue", "sweep"} :
         /\ WF_vars(CleanupProbe(c, k) \/ CleanupRemove(c, k) \/ CleanupDrop(c, k))
         /\ SF_vars(CleanupProbe(c, k) /\ clean'[c][k] # "idle")
         /\ SF_vars(CleanupRemove(c, k) /\ clean'[c][k] = "drop")
         /\ SF_vars(CleanupDrop(c, k) /\ row'[k] = "absent")
    /\ WF_vars(ScanList(k)) /\ WF_vars(ScanBlock(k))
    /\ WF_vars(ScanStamp(k)) /\ WF_vars(ScanRecord(k))
    /\ SF_vars(ScanRecord(k) /\ attempts' # attempts)

FairSpec == Spec /\ Fairness

-----------------------------------------------------------------------------
(* What the code promises.                                                  *)

\* No ownerless credential: whatever exists in LiteLLM has a row in api_keys
\* through which it can be seen and revoked, however Issue, cleanup, the sweep, the
\* revocations and crashes interleave and fail. This is why Issue writes the pending
\* row first and cleanup deletes the upstream key first. The one thing they do not
\* withstand is a request that LiteLLM executes after its client has given up.
NoOwnerlessCredential == \A k \in Keys : upstream[k] # "absent" /\ ~late[k] => row[k] # "absent"

\* A key whose plaintext was returned to a caller and that Edge accepts can be
\* forwarded upstream: no cleanup removes the key of a finished Issue, and no block
\* call meant for a revoked key hits it - except that a revocation which came in the
\* middle of the Issue call may leave it blocked.
HandedOverKeyIsServable ==
  \A k \in Keys : issue[k] = "returned" /\ row[k] = "active"
                   => upstream[k] = "live" \/ (cutShort[k] /\ upstream[k] = "blocked")

\* Once the Issue call has returned, a revocation is final: no loop and no
\* handler brings the key back or makes its row disappear.
HandedOverRevocationIsFinal ==
  [][\A k \in Keys : issue[k] = "returned" /\ row[k] = "revoked" => row'[k] = "revoked"]_vars

\* The stamp that takes a key off the scan's list is only there when the upstream
\* key cannot be used, unless the key was made behind the back of whoever
\* stamped it: by an Issue call still running at the revocation, or by a late request.
StampMeansBlocked ==
  \A k \in Keys : stamp[k] /\ ~cutShort[k] /\ ~late[k] => upstream[k] # "live"

\* Every path of revocation heals itself: a revoked key ends up blocked or gone
\* upstream, or its attempts are used up and it is left to a human - with the same
\* two exceptions.
RevocationReachesUpstream ==
  \A k \in Keys : (row[k] = "revoked" /\ ~cutShort[k] /\ ~late[k])
                     ~> (upstream[k] # "live" \/ attempts[k] = MaxAttempts)

\* No row stays pending: its Issue call ends, or a sweep removes what a crash or a
\* failed cleanup left behind.
PendingIsTransient == \A k \in Keys : row[k] = "pending" ~> row[k] # "pending"

-----------------------------------------------------------------------------
(* What the repository says of every key, and the code does not keep.       *)

\* "revoked is a terminal state, there is no way back" (rotation-revocation
\* design, D7): MarkActive of an Issue call overtaken by a revocation undoes it.
RevokedIsTerminal == [][\A k \in Keys : row[k] = "revoked" => row'[k] # "active"]_vars

\* "a credential upstream without a row here is structurally impossible"
\* (20260901000001_key_quota.sql): a GenerateKey executed after cleanup is one.
NoOwnerlessCredentialEver == \A k \in Keys : upstream[k] # "absent" => row[k] # "absent"
=============================================================================
