------------------------------ MODULE Requests ------------------------------
(***************************************************************************)
(* The approval flow of the control plane: the table requests              *)
(* (internal/control/requeststore.go), the handlers that submit, decide    *)
(* and claim (approval.go), and the worker that executes and reclaims      *)
(* temporary quota bumps in LiteLLM (approvalworker.go).                   *)
(*                                                                         *)
(* Handlers run concurrently, each a sequence of statements and calls with *)
(* nothing held in between; the worker is one loop. Every statement and    *)
(* every upstream call is one atomic step; it may fail ("err") or take     *)
(* effect although its caller sees an error ("lost").                      *)
(*                                                                         *)
(* Abstracted: Issue is one step (module KeyLifecycle models its inside);  *)
(* an amount of budget is the request that asked for it; all bumps target  *)
(* one key, the case in which they meet; bump_expires_at is the moment at  *)
(* which Expire happens.                                                   *)
(* Left out: the permission check between Get and Decide, notifications.   *)
(***************************************************************************)
EXTENDS Naturals

CONSTANTS
  Requests,    \* request ids
  Kinds,       \* the ways requests.kind can be given to them
  Deciders,    \* the administrators who approve and reject
  Claims,      \* Claim calls; the key a call issues is named after it
  MaxExecute,  \* maxExecuteAttempts
  MaxAttempts, \* bound: how far requests.attempts grows, see Spare
  None         \* no request, nobody, the budget the key was issued with

ASSUME KindsAssumption == Kinds \subseteq [Requests -> {"new_key", "quota_bump"}]
ASSUME NoneAssumption == None \notin Requests \cup Deciders \cup Claims
ASSUME ExecuteAssumption == MaxExecute \in Nat \ {0}
ASSUME AttemptsAssumption == MaxAttempts \in Nat /\ MaxAttempts > MaxExecute

VARIABLES
  kind,       \* requests.kind
  req,        \* requests.status, "none" before Submit
  decidedBy,  \* requests.decided_by
  issued,     \* requests.issued_key_id
  attempts,   \* requests.attempts
  expired,    \* has bump_expires_at passed?
  reclaimed,  \* requests.reclaimed_at IS NOT NULL
  claim,      \* where a Claim call stands
  on,         \* the request a Claim call is about
  key,        \* api_keys.status of the key a Claim call issued
  budget,     \* max_budget of the target key in LiteLLM
  worker      \* where the approval worker stands

table == <<kind, req, decidedBy, issued, attempts, expired, reclaimed>>
claiming == <<claim, on, key>>
vars == <<table, claiming, budget, worker>>

Outcomes == {"ok", "err", "lost"}
Applied(o) == o # "err"
Acked(o) == o = "ok"

Verdicts == {"approved", "rejected"}
InProgress == {"checked", "issued", "refused"}
Idle == [phase |-> "idle", todo |-> {}, on |-> None, step |-> "next"]

TypeOK ==
  /\ kind \in Kinds
  /\ req \in [Requests -> {"none", "pending", "rejected", "approved", "executed", "failed"}]
  /\ decidedBy \in [Requests -> Deciders \cup {None}]
  /\ issued \in [Requests -> Claims \cup {None}]
  /\ attempts \in [Requests -> Nat]
  /\ expired \in [Requests -> BOOLEAN]
  /\ reclaimed \in [Requests -> BOOLEAN]
  /\ claim \in [Claims -> {"none", "failed", "returned", "revoked", "abandoned"} \cup InProgress]
  /\ on \in [Claims -> Requests \cup {None}]
  /\ key \in [Claims -> {"none", "active", "revoked"}]
  /\ budget \in Requests \cup {None}
  /\ worker \in [phase : {"idle", "execute", "reclaim"}, todo : SUBSET Requests,
                 on : Requests \cup {None}, step : {"next", "mark", "record", "fail"}]

Init ==
  /\ kind \in Kinds
  /\ req = [r \in Requests |-> "none"]
  /\ decidedBy = [r \in Requests |-> None]
  /\ issued = [r \in Requests |-> None]
  /\ attempts = [r \in Requests |-> 0]
  /\ expired = [r \in Requests |-> FALSE]
  /\ reclaimed = [r \in Requests |-> FALSE]
  /\ claim = [c \in Claims |-> "none"]
  /\ on = [c \in Claims |-> None]
  /\ key = [c \in Claims |-> "none"]
  /\ budget = None
  /\ worker = Idle

-----------------------------------------------------------------------------
(* Submitting and deciding.                                                 *)

\* Submit: the target has been looked up, the row is inserted with status 'pending'.
Submit(r) ==
  /\ req[r] = "none"
  /\ req' = [req EXCEPT ![r] = "pending"]
  /\ UNCHANGED <<kind, decidedBy, issued, attempts, expired, reclaimed, claiming, budget, worker>>

\* Time passes bump_expires_at, whatever has become of the request by then.
Expire(r) ==
  /\ kind[r] = "quota_bump" /\ req[r] # "none" /\ ~expired[r]
  /\ expired' = [expired EXCEPT ![r] = TRUE]
  /\ UNCHANGED <<kind, req, decidedBy, issued, attempts, reclaimed, claiming, budget, worker>>

\* Mutant: the verdict is written over an earlier one.
DecideAnyStatus(d, r, v) ==
  /\ req[r] # "none"
  /\ req' = [req EXCEPT ![r] = v]
  /\ decidedBy' = [decidedBy EXCEPT ![r] = d]
  /\ UNCHANGED <<kind, issued, attempts, expired, reclaimed, claiming, budget, worker>>

\* Approve and Reject: the verdict is written only over status 'pending'. What decide
\* reads before this statement is the org of the request, which never changes.
Decide(d, r, v) ==
  /\ req[r] = "pending"
  /\ req' = [req EXCEPT ![r] = v]
  /\ decidedBy' = [decidedBy EXCEPT ![r] = d]
  /\ UNCHANGED <<kind, issued, attempts, expired, reclaimed, claiming, budget, worker>>

\* Mutant: MarkExecuted without its guard on the status.
MarkExecutedAnyStatus(r, o, k) ==
  IF Applied(o)
  THEN /\ req' = [req EXCEPT ![r] = "executed"]
       /\ issued' = [issued EXCEPT ![r] = k]
  ELSE UNCHANGED <<req, issued>>

\* MarkExecuted: only over status 'approved'.
MarkExecuted(r, o, k) ==
  IF Applied(o) /\ req[r] = "approved"
  THEN /\ req' = [req EXCEPT ![r] = "executed"]
       /\ issued' = [issued EXCEPT ![r] = k]
  ELSE UNCHANGED <<req, issued>>

Won(r, o) == Acked(o) /\ req[r] = "approved"

-----------------------------------------------------------------------------
(* Claim: check, issue, execute the request, and revoke the fresh key when  *)
(* executing it failed.                                                     *)

ClaimFetch(c, r) ==
  /\ claim[c] = "none"
  /\ kind[r] = "new_key" /\ req[r] = "approved"
  /\ claim' = [claim EXCEPT ![c] = "checked"]
  /\ on' = [on EXCEPT ![c] = r]
  /\ UNCHANGED <<table, key, budget, worker>>

\* Issuer.Issue. A failure leaves the request approved, to be claimed again, and no
\* active row - unless MarkActive was carried out, its answer lost, and the cleanup gave
\* up or could not delete the row.
ClaimIssue(c) ==
  /\ claim[c] = "checked"
  /\ \E end \in {"issued", "failed"}, row \in {"none", "active"} :
       /\ end = "issued" => row = "active"
       /\ claim' = [claim EXCEPT ![c] = end]
       /\ key' = [key EXCEPT ![c] = row]
  /\ UNCHANGED <<table, on, budget, worker>>

\* Mutant: the request id is passed where the key id belongs.
ClaimMarkNamesRequest(c) ==
  /\ claim[c] = "issued"
  /\ \E o \in Outcomes :
       /\ MarkExecuted(on[c], o, on[c])
       /\ claim' = [claim EXCEPT ![c] = IF Won(on[c], o) THEN "returned" ELSE "refused"]
  /\ UNCHANGED <<kind, decidedBy, attempts, expired, reclaimed, on, key, budget, worker>>

\* The winner hands its key over; any error makes this call a loser.
ClaimMark(c) ==
  /\ claim[c] = "issued"
  /\ \E o \in Outcomes :
       /\ MarkExecuted(on[c], o, c)
       /\ claim' = [claim EXCEPT ![c] = IF Won(on[c], o) THEN "returned" ELSE "refused"]
  /\ UNCHANGED <<kind, decidedBy, attempts, expired, reclaimed, on, key, budget, worker>>

\* Mutant: a losing call just reports its error.
ClaimRevokeForgotten(c) ==
  /\ claim[c] = "refused"
  /\ claim' = [claim EXCEPT ![c] = "revoked"]
  /\ UNCHANGED <<table, on, key, budget, worker>>

\* Issuer.Revoke of a loser; if that fails too, the key is left to a human.
ClaimRevoke(c) ==
  /\ claim[c] = "refused"
  /\ \E o \in Outcomes :
       /\ key' = IF Applied(o) THEN [key EXCEPT ![c] = "revoked"] ELSE key
       /\ claim' = [claim EXCEPT ![c] = IF Acked(o) THEN "revoked" ELSE "abandoned"]
  /\ UNCHANGED <<table, on, budget, worker>>

-----------------------------------------------------------------------------
(* The worker: a round executes the approved bumps, then reclaims the       *)
(* expired ones.                                                            *)

ApprovedBumps == {r \in Requests : kind[r] = "quota_bump" /\ req[r] = "approved"}
ExpiredBumps ==
  {r \in Requests : kind[r] = "quota_bump" /\ req[r] = "executed" /\ ~reclaimed[r] /\ expired[r]}

\* The list is read once; a failing query skips the phase.
ListApproved ==
  /\ worker.phase = "idle"
  /\ \E list \in {{}, ApprovedBumps} :
       worker' = [Idle EXCEPT !.phase = "execute", !.todo = list]
  /\ UNCHANGED <<table, claiming, budget>>

\* executeOne: UpdateKeyBudget to the requested amount. Failing to read or decrypt
\* the key is one more way to fail.
BumpUpdate(r) ==
  /\ worker.phase = "execute" /\ worker.step = "next" /\ r \in worker.todo
  /\ \E o \in Outcomes :
       /\ budget' = IF Applied(o) THEN r ELSE budget
       /\ worker' = [worker EXCEPT !.todo = @ \ {r}, !.on = r,
                                   !.step = IF Acked(o) THEN "mark" ELSE "record"]
  /\ UNCHANGED <<table, claiming>>

BumpMark ==
  /\ worker.phase = "execute" /\ worker.step = "mark"
  /\ \E o \in Outcomes :
       /\ MarkExecuted(worker.on, o, None)
       /\ worker' = [worker EXCEPT !.step = IF Won(worker.on, o) THEN "next" ELSE "record"]
  /\ UNCHANGED <<kind, decidedBy, attempts, expired, reclaimed, claiming, budget>>

\* Mutant: a failed attempt is not counted.
BumpRecordUncounted ==
  /\ worker.step = "record"
  /\ worker' = [worker EXCEPT !.step = "next"]
  /\ UNCHANGED <<table, claiming, budget>>

\* The bound on attempts, which grow beyond MaxExecute as long as MarkFailed does not get
\* through: from MaxAttempts on no call or crash keeps MarkFailed from it.
Spare(n) == n < MaxAttempts

\* RecordAttempt; at the limit, MarkFailed follows.
BumpRecord ==
  /\ worker.step = "record"
  /\ LET more == attempts[worker.on] + 1 IN
     \E o \in Outcomes :
       /\ o = "lost" => Spare(more)
       /\ attempts' = IF Applied(o) THEN [attempts EXCEPT ![worker.on] = more] ELSE attempts
       /\ worker' = [worker EXCEPT !.step = IF Acked(o) /\ more >= MaxExecute THEN "fail" ELSE "next"]
  /\ UNCHANGED <<kind, req, decidedBy, issued, expired, reclaimed, claiming, budget>>

\* MarkFailed, whatever the status has become.
BumpFail ==
  /\ worker.step = "fail"
  /\ \E o \in Outcomes :
       /\ o = "err" => Spare(attempts[worker.on])
       /\ req' = IF Applied(o) THEN [req EXCEPT ![worker.on] = "failed"] ELSE req
  /\ worker' = [worker EXCEPT !.step = "next"]
  /\ UNCHANGED <<kind, decidedBy, issued, attempts, expired, reclaimed, claiming, budget>>

\* Mutant: a bump whose amount was overwritten by another bump is not listed.
ListExpiredInForce ==
  /\ worker.phase = "execute" /\ worker.step = "next" /\ worker.todo = {}
  /\ worker' = [Idle EXCEPT !.phase = "reclaim",
                                    !.todo = {r \in ExpiredBumps : budget = r}]
  /\ UNCHANGED <<table, claiming, budget>>

ListExpired ==
  /\ worker.phase = "execute" /\ worker.step = "next" /\ worker.todo = {}
  /\ \E list \in {{}, ExpiredBumps} :
       worker' = [Idle EXCEPT !.phase = "reclaim", !.todo = list]
  /\ UNCHANGED <<table, claiming, budget>>

\* Mutant: reclaimOne marks the row although restoring the budget failed.
ReclaimUpdateIgnoresError(r) ==
  /\ worker.phase = "reclaim" /\ worker.step = "next" /\ r \in worker.todo
  /\ \E o \in Outcomes :
       /\ budget' = IF Applied(o) THEN None ELSE budget
       /\ worker' = [worker EXCEPT !.todo = @ \ {r}, !.on = r, !.step = "mark"]
  /\ UNCHANGED <<table, claiming>>

\* reclaimOne: UpdateKeyBudget back to prev_budget; an error leaves it to the next round.
ReclaimUpdate(r) ==
  /\ worker.phase = "reclaim" /\ worker.step = "next" /\ r \in worker.todo
  /\ \E o \in Outcomes :
       /\ budget' = IF Applied(o) THEN None ELSE budget
       /\ worker' = [worker EXCEPT !.todo = @ \ {r}, !.on = r,
                                   !.step = IF Acked(o) THEN "mark" ELSE "next"]
  /\ UNCHANGED <<table, claiming>>

ReclaimMark ==
  /\ worker.phase = "reclaim" /\ worker.step = "mark"
  /\ \E o \in Outcomes :
       reclaimed' = IF Applied(o) THEN [reclaimed EXCEPT ![worker.on] = TRUE] ELSE reclaimed
  /\ worker' = [worker EXCEPT !.step = "next"]
  /\ UNCHANGED <<kind, req, decidedBy, issued, attempts, expired, claiming, budget>>

RoundEnds ==
  /\ worker.phase = "reclaim" /\ worker.step = "next" /\ worker.todo = {}
  /\ worker' = Idle
  /\ UNCHANGED <<table, claiming, budget>>

\* The control process dies: the worker starts over, handlers are gone, and the key
\* of a Claim call that had issued one stays as it is.
Restart ==
  /\ worker.step = "fail" => Spare(attempts[worker.on])
  /\ worker' = Idle
  /\ claim' = [c \in Claims |-> IF claim[c] \in InProgress THEN "abandoned" ELSE claim[c]]
  /\ UNCHANGED <<table, on, key, budget>>

\* Whatever the process and its environment do while it is up.
Work ==
  \/ \E r \in Requests :
       Submit(r) \/ Expire(r) \/ BumpUpdate(r) \/ ReclaimUpdate(r)
  \/ \E d \in Deciders, r \in Requests, v \in Verdicts : Decide(d, r, v)
  \/ \E c \in Claims, r \in Requests : ClaimFetch(c, r)
  \/ \E c \in Claims : ClaimIssue(c) \/ ClaimMark(c) \/ ClaimRevoke(c)
  \/ ListApproved \/ BumpMark \/ BumpRecord \/ BumpFail
  \/ ListExpired \/ ReclaimMark \/ RoundEnds

Next == Work \/ Restart

Spec == Init /\ [][Next]_vars

\* The worker goes round for ever; the process does not crash for ever, and the
\* database and LiteLLM do not fail every single time they are asked.
Fairness ==
  /\ <>[][Work]_vars
  /\ WF_vars(ListApproved) /\ WF_vars(ListExpired) /\ WF_vars(RoundEnds)
  /\ WF_vars(BumpMark) /\ WF_vars(BumpRecord) /\ WF_vars(BumpFail) /\ WF_vars(ReclaimMark)
  /\ SF_vars(ListApproved /\ worker'.todo = ApprovedBumps)
  /\ SF_vars(ListExpired /\ worker'.todo = ExpiredBumps)
  /\ \A r \in Requests :
       /\ WF_vars(BumpUpdate(r)) /\ WF_vars(ReclaimUpdate(r))
       /\ SF_vars(BumpRecord /\ worker.on = r 
                    /\ attempts'[r] > attempts[r]
                    /\ (attempts'[r] >= MaxExecute => worker'.step = "fail"))
       /\ SF_vars(BumpFail /\ req'[r] = "failed")
       /\ SF_vars(ReclaimUpdate(r) /\ worker'.step = "mark")
       /\ SF_vars(ReclaimMark /\ worker.on = r /\ reclaimed'[r])

FairSpec == Spec /\ Fairness

-----------------------------------------------------------------------------
(* What the code promises.                                                  *)

\* One approval, one key: however many Claim calls race for a request, those that ran to
\* their end do not leave two keys that can be used. A second active key is left only by
\* a call that was cut short - the process died, the loser's revocation failed as well,
\* or Issue failed after it had made the row active - and such a call returns no key.
OneKeyPerApproval ==
  \A c, d \in Claims :
    (c # d /\ on[c] = on[d] /\ key[c] = "active" /\ key[d] = "active") =>
      \E e \in {c, d} : claim[e] \in InProgress \cup {"abandoned", "failed"}

\* The table is the audit trail: the row of a request names the one key that was
\* handed over for it.
AuditNamesTheKey ==
  \A c \in Claims : claim[c] = "returned" => req[on[c]] = "executed" /\ issued[on[c]] = c

\* A verdict is final: of two administrators deciding at once the second changes
\* neither the verdict nor the name under it, a rejected request stays rejected, and an
\* approved one is executed once. MarkFailed asks for no status, yet nothing becomes
\* failed but a bump that was approved and has used up its attempts - and may have been
\* executed already, if the answer got lost.
VerdictIsFinal ==
  [][\A r \in Requests : req[r] \notin {"none", "pending"} =>
       /\ decidedBy'[r] = decidedBy[r]
       /\ \/ req'[r] = req[r]
          \/ req[r] = "approved" /\ req'[r] = "executed"
          \/ /\ kind[r] = "quota_bump" /\ req[r] \in {"approved", "executed"}
             /\ attempts[r] >= MaxExecute /\ req'[r] = "failed"]_vars

\* A raised budget can be traced: the amount LiteLLM enforces is the one the key was
\* issued with or that of a request still to be executed, still to be reclaimed, or
\* marked failed for a human to look at - never that of a reclaimed or a rejected one.
RaisedBudgetIsTracked ==
  budget # None => \/ req[budget] \in {"approved", "failed"}
                   \/ req[budget] = "executed" /\ ~reclaimed[budget]

\* Every approved bump is executed or, after its attempts, given up.
ApprovedBumpSettles ==
  \A r \in Requests : (kind[r] = "quota_bump" /\ req[r] = "approved") ~> req[r] \in {"executed", "failed"}

\* Temporary means temporary: the scan reclaims every executed bump once it has
\* expired, through crashes and failing calls, unless it was marked failed.
ExpiredBumpIsReclaimed ==
  \A r \in Requests : (req[r] = "executed" /\ expired[r]) ~> (reclaimed[r] \/ req[r] = "failed")

-----------------------------------------------------------------------------
(* What a comment says, and the code does not keep.                         *)

\* "a temporary bump silently becomes permanent - the very error this feature must
\* not make" (approvalworker.go, ReclaimExpiredBumps): a bump that took effect and
\* was then marked failed is never reclaimed.
NoPermanentBump == budget # None => req[budget] # "failed"
=============================================================================
