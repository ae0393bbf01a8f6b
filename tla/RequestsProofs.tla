--------------------------- MODULE RequestsProofs ---------------------------
(***************************************************************************)
(* What TLAPS proves of Requests, for any number of requests, deciders and *)
(* Claim calls and any limit on attempts.                                  *)
(***************************************************************************)
EXTENDS Requests, TLAPS

\* While a step of the worker is under way there is a request it is about.
WorkerHasRequest == worker.step # "next" => worker.on \in Requests

TypeInv == TypeOK /\ WorkerHasRequest

\* The worker keeps to bumps, and Claim calls to requests for keys.
Apart ==
  /\ \A r \in worker.todo : kind[r] = "quota_bump"
  /\ worker.step # "next" => kind[worker.on] = "quota_bump"
  /\ \A c \in Claims : claim[c] # "none" => on[c] \in Requests /\ kind[on[c]] = "new_key"

\* What the worker read when it made its list is still true when it comes to an
\* entry: nobody else changes an approved bump, or an executed one.
ListIsFresh ==
  /\ worker.phase = "execute" => \A r \in worker.todo : req[r] = "approved"
  /\ worker.step # "next" => worker.on \notin worker.todo
  /\ worker.phase = "execute" /\ worker.step # "next" =>
       req[worker.on] \in {"approved", "executed"} /\ ~reclaimed[worker.on]
  /\ worker.phase = "reclaim" => \A r \in worker.todo : req[r] = "executed"
  /\ worker.phase = "reclaim" /\ worker.step # "next" =>
       worker.step = "mark" /\ req[worker.on] = "executed" /\ budget = None
  /\ worker.phase = "idle" => worker.todo = {} /\ worker.step = "next"
  /\ \A r \in Requests : reclaimed[r] => req[r] = "executed"
  /\ worker.step \in {"record", "fail"} => worker.phase = "execute"
  /\ worker.step = "fail" => attempts[worker.on] >= MaxExecute

-----------------------------------------------------------------------------
LEMMA InitTypeInv == Init => TypeInv
  BY ExecuteAssumption, NoneAssumption DEF Init, TypeInv, TypeOK, WorkerHasRequest, Idle, InProgress, Verdicts

LEMMA NextTypeInv == TypeInv /\ [Next]_vars => TypeInv'
<1>. SUFFICES ASSUME TypeInv, [Next]_vars PROVE TypeInv'
  OBVIOUS
<1>. USE ExecuteAssumption DEF TypeInv, TypeOK, WorkerHasRequest, table, claiming, InProgress
<1>1. ASSUME NEW r \in Requests, Submit(r)
      PROVE  TypeInv'
  BY <1>1 DEF Submit
<1>2. ASSUME NEW r \in Requests, Expire(r)
      PROVE  TypeInv'
  BY <1>2 DEF Expire
<1>3. ASSUME NEW d \in Deciders, NEW r \in Requests, NEW v \in Verdicts, Decide(d, r, v)
      PROVE  TypeInv'
  BY <1>3 DEF Decide, Verdicts
<1>4. ASSUME NEW c \in Claims, NEW r \in Requests, ClaimFetch(c, r)
      PROVE  TypeInv'
  BY <1>4 DEF ClaimFetch
<1>5. ASSUME NEW c \in Claims, ClaimIssue(c)
      PROVE  TypeInv'
  BY <1>5 DEF ClaimIssue
<1>6. ASSUME NEW c \in Claims, ClaimMark(c)
      PROVE  TypeInv'
  BY <1>6 DEF ClaimMark, MarkExecuted, Won, Applied, Acked, Outcomes
<1>7. ASSUME NEW c \in Claims, ClaimRevoke(c)
      PROVE  TypeInv'
  BY <1>7 DEF ClaimRevoke, Applied, Acked, Outcomes
<1>8. ASSUME ListApproved
      PROVE  TypeInv'
  <2>1. PICK list \in SUBSET Requests : worker' = [Idle EXCEPT !.phase = "execute", !.todo = list]
    BY <1>8 DEF ListApproved, ApprovedBumps, ExpiredBumps
  <2>2. worker' = [phase |-> "execute", todo |-> list, on |-> None, step |-> "next"]
    BY <2>1 DEF Idle
  <2>. QED
    BY <1>8, <2>2 DEF ListApproved
<1>9. ASSUME NEW r \in Requests, BumpUpdate(r)
      PROVE  TypeInv'
  <2>1. PICK s \in {"mark", "record"} :
          worker' = [worker EXCEPT !.todo = @ \ {r}, !.on = r, !.step = s]
    BY <1>9 DEF BumpUpdate, Acked, Outcomes
  <2>2. worker' = [phase |-> worker.phase, todo |-> worker.todo \ {r}, on |-> r, step |-> s]
    BY <2>1
  <2>3. budget' \in Requests \cup {None}
    BY <1>9 DEF BumpUpdate
  <2>. QED
    BY <1>9, <2>2, <2>3 DEF BumpUpdate
<1>10. ASSUME BumpMark
      PROVE  TypeInv'
  BY <1>10 DEF BumpMark, MarkExecuted, Won, Applied, Acked, Outcomes
<1>11. ASSUME BumpRecord
      PROVE  TypeInv'
  BY <1>11 DEF BumpRecord, Applied, Acked, Outcomes
<1>12. ASSUME BumpFail
      PROVE  TypeInv'
  BY <1>12 DEF BumpFail, Applied, Outcomes
<1>13. ASSUME ListExpired
      PROVE  TypeInv'
  <2>1. PICK list \in SUBSET Requests : worker' = [Idle EXCEPT !.phase = "reclaim", !.todo = list]
    BY <1>13 DEF ListExpired, ApprovedBumps, ExpiredBumps
  <2>2. worker' = [phase |-> "reclaim", todo |-> list, on |-> None, step |-> "next"]
    BY <2>1 DEF Idle
  <2>. QED
    BY <1>13, <2>2 DEF ListExpired
<1>14. ASSUME NEW r \in Requests, ReclaimUpdate(r)
      PROVE  TypeInv'
  <2>1. PICK s \in {"mark", "next"} :
          worker' = [worker EXCEPT !.todo = @ \ {r}, !.on = r, !.step = s]
    BY <1>14 DEF ReclaimUpdate, Acked, Outcomes
  <2>2. worker' = [phase |-> worker.phase, todo |-> worker.todo \ {r}, on |-> r, step |-> s]
    BY <2>1
  <2>3. budget' \in Requests \cup {None}
    BY <1>14 DEF ReclaimUpdate
  <2>. QED
    BY <1>14, <2>2, <2>3 DEF ReclaimUpdate
<1>15. ASSUME ReclaimMark
      PROVE  TypeInv'
  BY <1>15 DEF ReclaimMark, Applied, Outcomes
<1>16. ASSUME RoundEnds
      PROVE  TypeInv'
  BY <1>16 DEF RoundEnds, Idle
<1>17. ASSUME Restart
      PROVE  TypeInv'
  BY <1>17 DEF Restart, InProgress, Idle
<1>18. ASSUME UNCHANGED vars
      PROVE  TypeInv'
  BY <1>18 DEF vars
<1>. QED
  BY <1>1, <1>2, <1>3, <1>4, <1>5, <1>6, <1>7, <1>8, <1>9,
     <1>10, <1>11, <1>12, <1>13, <1>14, <1>15, <1>16, <1>17, <1>18 DEF Next, Work

\* Every variable of the approval flow keeps its type (approval.go, requeststore.go,
\* approvalworker.go).
THEOREM TypeCorrect == Spec => []TypeOK
<1>1. Spec => []TypeInv
  BY InitTypeInv, NextTypeInv, PTL DEF Spec
<1>2. TypeInv => TypeOK
  BY DEF TypeInv
<1>. QED
  BY <1>1, <1>2, PTL

-----------------------------------------------------------------------------
LEMMA InitApart == Init => Apart
  BY DEF Init, Apart, Idle

LEMMA NextApart == TypeInv /\ Apart /\ [Next]_vars => Apart'
<1>. SUFFICES ASSUME TypeInv, Apart, [Next]_vars PROVE Apart'
  OBVIOUS
<1>. USE DEF TypeInv, TypeOK, WorkerHasRequest, Apart, table, claiming
<1>1. ASSUME NEW r \in Requests, Submit(r)
      PROVE  Apart'
  BY <1>1 DEF Submit
<1>2. ASSUME NEW r \in Requests, Expire(r)
      PROVE  Apart'
  BY <1>2 DEF Expire
<1>3. ASSUME NEW d \in Deciders, NEW r \in Requests, NEW v \in Verdicts, Decide(d, r, v)
      PROVE  Apart'
  BY <1>3 DEF Decide, Verdicts
<1>4. ASSUME NEW c \in Claims, NEW r \in Requests, ClaimFetch(c, r)
      PROVE  Apart'
  BY <1>4 DEF ClaimFetch
<1>5. ASSUME NEW c \in Claims, ClaimIssue(c)
      PROVE  Apart'
  BY <1>5 DEF ClaimIssue
<1>6. ASSUME NEW c \in Claims, ClaimMark(c)
      PROVE  Apart'
  BY <1>6 DEF ClaimMark, MarkExecuted, Won, Applied, Acked, Outcomes
<1>7. ASSUME NEW c \in Claims, ClaimRevoke(c)
      PROVE  Apart'
  BY <1>7 DEF ClaimRevoke, Applied, Acked, Outcomes
<1>8. ASSUME ListApproved
      PROVE  Apart'
  BY <1>8 DEF ListApproved, ApprovedBumps, Idle
<1>9. ASSUME NEW r \in Requests, BumpUpdate(r)
      PROVE  Apart'
  BY <1>9 DEF BumpUpdate, Applied, Acked, Outcomes
<1>10. ASSUME BumpMark
      PROVE  Apart'
  BY <1>10 DEF BumpMark, MarkExecuted, Won, Applied, Acked, Outcomes
<1>11. ASSUME BumpRecord
      PROVE  Apart'
  BY <1>11 DEF BumpRecord, Applied, Acked, Outcomes
<1>12. ASSUME BumpFail
      PROVE  Apart'
  BY <1>12 DEF BumpFail, Applied, Outcomes
<1>13. ASSUME ListExpired
      PROVE  Apart'
  BY <1>13 DEF ListExpired, ExpiredBumps, Idle
<1>14. ASSUME NEW r \in Requests, ReclaimUpdate(r)
      PROVE  Apart'
  BY <1>14 DEF ReclaimUpdate, Applied, Acked, Outcomes
<1>15. ASSUME ReclaimMark
      PROVE  Apart'
  BY <1>15 DEF ReclaimMark, Applied, Outcomes
<1>16. ASSUME RoundEnds
      PROVE  Apart'
  BY <1>16 DEF RoundEnds, Idle
<1>17. ASSUME Restart
      PROVE  Apart'
  BY <1>17 DEF Restart, InProgress, Idle
<1>18. ASSUME UNCHANGED vars
      PROVE  Apart'
  BY <1>18 DEF vars
<1>. QED
  BY <1>1, <1>2, <1>3, <1>4, <1>5, <1>6, <1>7, <1>8, <1>9,
     <1>10, <1>11, <1>12, <1>13, <1>14, <1>15, <1>16, <1>17, <1>18 DEF Next, Work

LEMMA NextAudit == TypeInv /\ Apart /\ AuditNamesTheKey /\ [Next]_vars => AuditNamesTheKey'
<1>. SUFFICES ASSUME TypeInv, Apart, AuditNamesTheKey, [Next]_vars PROVE AuditNamesTheKey'
  OBVIOUS
<1>. USE DEF TypeInv, TypeOK, WorkerHasRequest, Apart, AuditNamesTheKey, table, claiming
<1>1. ASSUME NEW r \in Requests, Submit(r)
      PROVE  AuditNamesTheKey'
  BY <1>1 DEF Submit
<1>2. ASSUME NEW r \in Requests, Expire(r)
      PROVE  AuditNamesTheKey'
  BY <1>2 DEF Expire
<1>3. ASSUME NEW d \in Deciders, NEW r \in Requests, NEW v \in Verdicts, Decide(d, r, v)
      PROVE  AuditNamesTheKey'
  BY <1>3 DEF Decide, Verdicts
<1>4. ASSUME NEW c \in Claims, NEW r \in Requests, ClaimFetch(c, r)
      PROVE  AuditNamesTheKey'
  BY <1>4 DEF ClaimFetch
<1>5. ASSUME NEW c \in Claims, ClaimIssue(c)
      PROVE  AuditNamesTheKey'
  BY <1>5 DEF ClaimIssue
<1>6. ASSUME NEW c \in Claims, ClaimMark(c)
      PROVE  AuditNamesTheKey'
  BY <1>6 DEF ClaimMark, MarkExecuted, Won, Applied, Acked, Outcomes
<1>7. ASSUME NEW c \in Claims, ClaimRevoke(c)
      PROVE  AuditNamesTheKey'
  BY <1>7 DEF ClaimRevoke, Applied, Acked, Outcomes
<1>8. ASSUME ListApproved
      PROVE  AuditNamesTheKey'
  BY <1>8 DEF ListApproved, ApprovedBumps, Idle
<1>9. ASSUME NEW r \in Requests, BumpUpdate(r)
      PROVE  AuditNamesTheKey'
  BY <1>9 DEF BumpUpdate, Applied, Acked, Outcomes
<1>10. ASSUME BumpMark
      PROVE  AuditNamesTheKey'
  BY <1>10 DEF BumpMark, MarkExecuted, Won, Applied, Acked, Outcomes
<1>11. ASSUME BumpRecord
      PROVE  AuditNamesTheKey'
  BY <1>11 DEF BumpRecord, Applied, Acked, Outcomes
<1>12. ASSUME BumpFail
      PROVE  AuditNamesTheKey'
  BY <1>12 DEF BumpFail, Applied, Outcomes
<1>13. ASSUME ListExpired
      PROVE  AuditNamesTheKey'
  BY <1>13 DEF ListExpired, ExpiredBumps, Idle
<1>14. ASSUME NEW r \in Requests, ReclaimUpdate(r)
      PROVE  AuditNamesTheKey'
  BY <1>14 DEF ReclaimUpdate, Applied, Acked, Outcomes
<1>15. ASSUME ReclaimMark
      PROVE  AuditNamesTheKey'
  BY <1>15 DEF ReclaimMark, Applied, Outcomes
<1>16. ASSUME RoundEnds
      PROVE  AuditNamesTheKey'
  BY <1>16 DEF RoundEnds, Idle
<1>17. ASSUME Restart
      PROVE  AuditNamesTheKey'
  BY <1>17 DEF Restart, InProgress, Idle
<1>18. ASSUME UNCHANGED vars
      PROVE  AuditNamesTheKey'
  BY <1>18 DEF vars
<1>. QED
  BY <1>1, <1>2, <1>3, <1>4, <1>5, <1>6, <1>7, <1>8, <1>9,
     <1>10, <1>11, <1>12, <1>13, <1>14, <1>15, <1>16, <1>17, <1>18 DEF Next, Work

\* For any number of Claim calls racing for a request, with crashes, lost answers and
\* retries: a call that hands a key over is the one the request's row names, so at
\* most one call ever does (approval.go, Claim; requeststore.go, MarkExecuted).
THEOREM AuditCorrect == Spec => []AuditNamesTheKey
<1>1. Init => Apart /\ AuditNamesTheKey
  BY InitApart DEF Init, AuditNamesTheKey
<1>2. TypeInv /\ Apart /\ AuditNamesTheKey /\ [Next]_vars => Apart' /\ AuditNamesTheKey'
  BY NextApart, NextAudit
<1>. QED
  BY <1>1, <1>2, InitTypeInv, NextTypeInv, PTL DEF Spec

\* What becomes of the key of a Claim call: none before it is issued, and a call that
\* reports a revocation has carried it out.
KeyFollowsClaim ==
  \A c \in Claims :
    /\ claim[c] \in {"none", "checked"} => key[c] = "none"
    /\ claim[c] = "revoked" => key[c] = "revoked"

LEMMA NextKeyFollows == TypeInv /\ KeyFollowsClaim /\ [Next]_vars => KeyFollowsClaim'
<1>. SUFFICES ASSUME TypeInv, KeyFollowsClaim, [Next]_vars PROVE KeyFollowsClaim'
  OBVIOUS
<1>. USE DEF TypeInv, TypeOK, KeyFollowsClaim, claiming
<1>1. ASSUME NEW r \in Requests, Submit(r)
      PROVE  KeyFollowsClaim'
  BY <1>1 DEF Submit
<1>2. ASSUME NEW r \in Requests, Expire(r)
      PROVE  KeyFollowsClaim'
  BY <1>2 DEF Expire
<1>3. ASSUME NEW d \in Deciders, NEW r \in Requests, NEW v \in Verdicts, Decide(d, r, v)
      PROVE  KeyFollowsClaim'
  BY <1>3 DEF Decide
<1>4. ASSUME NEW c \in Claims, NEW r \in Requests, ClaimFetch(c, r)
      PROVE  KeyFollowsClaim'
  BY <1>4 DEF ClaimFetch
<1>5. ASSUME NEW c \in Claims, ClaimIssue(c)
      PROVE  KeyFollowsClaim'
  BY <1>5 DEF ClaimIssue
<1>6. ASSUME NEW c \in Claims, ClaimMark(c)
      PROVE  KeyFollowsClaim'
  BY <1>6 DEF ClaimMark
<1>7. ASSUME NEW c \in Claims, ClaimRevoke(c)
      PROVE  KeyFollowsClaim'
  BY <1>7 DEF ClaimRevoke, Applied, Acked, Outcomes
<1>8. ASSUME ListApproved
      PROVE  KeyFollowsClaim'
  BY <1>8 DEF ListApproved
<1>9. ASSUME NEW r \in Requests, BumpUpdate(r)
      PROVE  KeyFollowsClaim'
  BY <1>9 DEF BumpUpdate
<1>10. ASSUME BumpMark
      PROVE  KeyFollowsClaim'
  BY <1>10 DEF BumpMark
<1>11. ASSUME BumpRecord
      PROVE  KeyFollowsClaim'
  BY <1>11 DEF BumpRecord
<1>12. ASSUME BumpFail
      PROVE  KeyFollowsClaim'
  BY <1>12 DEF BumpFail
<1>13. ASSUME ListExpired
      PROVE  KeyFollowsClaim'
  BY <1>13 DEF ListExpired
<1>14. ASSUME NEW r \in Requests, ReclaimUpdate(r)
      PROVE  KeyFollowsClaim'
  BY <1>14 DEF ReclaimUpdate
<1>15. ASSUME ReclaimMark
      PROVE  KeyFollowsClaim'
  BY <1>15 DEF ReclaimMark
<1>16. ASSUME RoundEnds
      PROVE  KeyFollowsClaim'
  BY <1>16 DEF RoundEnds
<1>17. ASSUME Restart
      PROVE  KeyFollowsClaim'
  BY <1>17 DEF Restart, InProgress
<1>18. ASSUME UNCHANGED vars
      PROVE  KeyFollowsClaim'
  BY <1>18 DEF vars
<1>. QED
  BY <1>1, <1>2, <1>3, <1>4, <1>5, <1>6, <1>7, <1>8, <1>9,
     <1>10, <1>11, <1>12, <1>13, <1>14, <1>15, <1>16, <1>17, <1>18 DEF Next, Work

\* Of the calls that ran to their end only the one the row names leaves a usable key.
LEMMA OneKeyFromAudit == TypeInv /\ AuditNamesTheKey /\ KeyFollowsClaim => OneKeyPerApproval
<1>. SUFFICES ASSUME TypeInv, AuditNamesTheKey, KeyFollowsClaim,
                     NEW c \in Claims, NEW d \in Claims,
                     c # d, on[c] = on[d], key[c] = "active", key[d] = "active",
                     \A e \in {c, d} : claim[e] \notin InProgress \cup {"abandoned", "failed"}
              PROVE  FALSE
  BY DEF OneKeyPerApproval
<1>1. claim[c] = "returned" /\ claim[d] = "returned"
  BY DEF TypeInv, TypeOK, KeyFollowsClaim, InProgress
<1>2. issued[on[c]] = c /\ issued[on[d]] = d
  BY <1>1 DEF AuditNamesTheKey
<1>. QED
  BY <1>2

\* However many Claim calls race for one approval, with failing issues and revocations,
\* lost answers and crashes in between: two keys stay usable only if a call is still
\* running or was cut short (approval.go, Claim; keyissue.go, Issue).
THEOREM OneKeyIsHandedOver == Spec => []OneKeyPerApproval
<1>1. Init => Apart /\ AuditNamesTheKey /\ KeyFollowsClaim
  BY InitApart DEF Init, AuditNamesTheKey, KeyFollowsClaim
<1>2. TypeInv /\ Apart /\ AuditNamesTheKey /\ KeyFollowsClaim /\ [Next]_vars
        => Apart' /\ AuditNamesTheKey' /\ KeyFollowsClaim'
  BY NextApart, NextAudit, NextKeyFollows
<1>. QED
  BY <1>1, <1>2, OneKeyFromAudit, InitTypeInv, NextTypeInv, PTL DEF Spec

-----------------------------------------------------------------------------
LEMMA InitFresh == Init => ListIsFresh
  BY DEF Init, ListIsFresh, Idle

LEMMA NextFresh == TypeInv /\ Apart /\ ListIsFresh /\ [Next]_vars => ListIsFresh'
<1>. SUFFICES ASSUME TypeInv, Apart, ListIsFresh, [Next]_vars PROVE ListIsFresh'
  OBVIOUS
<1>. USE DEF TypeInv, TypeOK, WorkerHasRequest, Apart, ListIsFresh, table, claiming
<1>1. ASSUME NEW r \in Requests, Submit(r)
      PROVE  ListIsFresh'
  BY <1>1 DEF Submit
<1>2. ASSUME NEW r \in Requests, Expire(r)
      PROVE  ListIsFresh'
  BY <1>2 DEF Expire
<1>3. ASSUME NEW d \in Deciders, NEW r \in Requests, NEW v \in Verdicts, Decide(d, r, v)
      PROVE  ListIsFresh'
  BY <1>3 DEF Decide, Verdicts
<1>4. ASSUME NEW c \in Claims, NEW r \in Requests, ClaimFetch(c, r)
      PROVE  ListIsFresh'
  BY <1>4 DEF ClaimFetch
<1>5. ASSUME NEW c \in Claims, ClaimIssue(c)
      PROVE  ListIsFresh'
  BY <1>5 DEF ClaimIssue
<1>6. ASSUME NEW c \in Claims, ClaimMark(c)
      PROVE  ListIsFresh'
  BY <1>6 DEF ClaimMark, MarkExecuted, Won, Applied, Acked, Outcomes
<1>7. ASSUME NEW c \in Claims, ClaimRevoke(c)
      PROVE  ListIsFresh'
  BY <1>7 DEF ClaimRevoke, Applied, Acked, Outcomes
<1>8. ASSUME ListApproved
      PROVE  ListIsFresh'
  BY <1>8 DEF ListApproved, ApprovedBumps, Idle
<1>9. ASSUME NEW r \in Requests, BumpUpdate(r)
      PROVE  ListIsFresh'
  BY <1>9 DEF BumpUpdate, Applied, Acked, Outcomes
<1>10. ASSUME BumpMark
      PROVE  ListIsFresh'
  <2>1. /\ worker'.phase = "execute" /\ worker'.on = worker.on /\ worker'.todo = worker.todo
        /\ worker.on \notin worker.todo
    BY <1>10 DEF BumpMark
  <2>2. /\ \A r \in Requests : r # worker.on => req'[r] = req[r]
        /\ req'[worker.on] \in {req[worker.on], "executed"}
    BY <1>10 DEF BumpMark, MarkExecuted
  <2>3. reclaimed' = reclaimed /\ ~reclaimed[worker.on]
    BY <1>10 DEF BumpMark
  <2>. QED
    BY <1>10, <2>1, <2>2, <2>3 DEF BumpMark
<1>11. ASSUME BumpRecord
      PROVE  ListIsFresh'
  BY <1>11 DEF BumpRecord, Applied, Acked, Outcomes
<1>12. ASSUME BumpFail
      PROVE  ListIsFresh'
  <2>1. worker' = [worker EXCEPT !.step = "next"] /\ reclaimed' = reclaimed /\ worker.phase = "execute"
    BY <1>12 DEF BumpFail
  <2>2. /\ \A r \in Requests : r # worker.on => req'[r] = req[r]
        /\ worker.on \notin worker.todo /\ ~reclaimed[worker.on]
    BY <1>12, <2>1 DEF BumpFail
  <2>. QED
    BY <2>1, <2>2
<1>13. ASSUME ListExpired
      PROVE  ListIsFresh'
  BY <1>13 DEF ListExpired, ExpiredBumps, Idle
<1>14. ASSUME NEW r \in Requests, ReclaimUpdate(r)
      PROVE  ListIsFresh'
  BY <1>14 DEF ReclaimUpdate, Applied, Acked, Outcomes
<1>15. ASSUME ReclaimMark
      PROVE  ListIsFresh'
  BY <1>15 DEF ReclaimMark, Applied, Outcomes
<1>16. ASSUME RoundEnds
      PROVE  ListIsFresh'
  BY <1>16 DEF RoundEnds, Idle
<1>17. ASSUME Restart
      PROVE  ListIsFresh'
  BY <1>17 DEF Restart, InProgress, Idle
<1>18. ASSUME UNCHANGED vars
      PROVE  ListIsFresh'
  BY <1>18 DEF vars
<1>. QED
  BY <1>1, <1>2, <1>3, <1>4, <1>5, <1>6, <1>7, <1>8, <1>9,
     <1>10, <1>11, <1>12, <1>13, <1>14, <1>15, <1>16, <1>17, <1>18 DEF Next, Work

\* A verdict, once written, is never changed by another decider, by a Claim call or by
\* the worker: a rejected request stays rejected, an approved one is executed once, and
\* only a bump that has used up its attempts is marked failed (requeststore.go, Decide,
\* MarkExecuted and the unguarded MarkFailed).
THEOREM VerdictFinal == Spec => VerdictIsFinal
<1>. DEFINE Final == \A r \in Requests : req[r] \notin {"none", "pending"} =>
                       /\ decidedBy'[r] = decidedBy[r]
                       /\ \/ req'[r] = req[r]
                          \/ req[r] = "approved" /\ req'[r] = "executed"
                          \/ /\ kind[r] = "quota_bump" /\ req[r] \in {"approved", "executed"}
                             /\ attempts[r] >= MaxExecute /\ req'[r] = "failed"
<1>1. TypeInv /\ Apart /\ ListIsFresh /\ [Next]_vars => [Final]_vars
  <2>. SUFFICES ASSUME TypeInv, Apart, ListIsFresh, [Next]_vars PROVE Final
    OBVIOUS
  <2>. USE DEF TypeInv, TypeOK, WorkerHasRequest, table, claiming
  <2>1. ASSUME NEW r \in Requests, Submit(r)
        PROVE  Final
    BY <2>1 DEF Submit
  <2>2. ASSUME NEW r \in Requests, Expire(r)
        PROVE  Final
    BY <2>2 DEF Expire
  <2>3. ASSUME NEW d \in Deciders, NEW r \in Requests, NEW v \in Verdicts, Decide(d, r, v)
        PROVE  Final
    BY <2>3 DEF Decide, Verdicts
  <2>4. ASSUME NEW c \in Claims, NEW r \in Requests, ClaimFetch(c, r)
        PROVE  Final
    BY <2>4 DEF ClaimFetch
  <2>5. ASSUME NEW c \in Claims, ClaimIssue(c)
        PROVE  Final
    BY <2>5 DEF ClaimIssue
  <2>6. ASSUME NEW c \in Claims, ClaimMark(c)
        PROVE  Final
    BY <2>6 DEF ClaimMark, MarkExecuted, Won, Applied, Acked, Outcomes
  <2>7. ASSUME NEW c \in Claims, ClaimRevoke(c)
        PROVE  Final
    BY <2>7 DEF ClaimRevoke, Applied, Acked, Outcomes
  <2>8. ASSUME ListApproved
        PROVE  Final
    BY <2>8 DEF ListApproved, ApprovedBumps, Idle
  <2>9. ASSUME NEW r \in Requests, BumpUpdate(r)
        PROVE  Final
    BY <2>9 DEF BumpUpdate, Applied, Acked, Outcomes
  <2>10. ASSUME BumpMark
        PROVE  Final
    BY <2>10 DEF BumpMark, MarkExecuted, Won, Applied, Acked, Outcomes
  <2>11. ASSUME BumpRecord
        PROVE  Final
    BY <2>11 DEF BumpRecord, Applied, Acked, Outcomes
  <2>12. ASSUME BumpFail
        PROVE  Final
    <3>1. /\ worker.on \in Requests /\ kind[worker.on] = "quota_bump" /\ attempts[worker.on] >= MaxExecute
          /\ req[worker.on] \in {"approved", "executed"}
      BY <2>12 DEF BumpFail, Apart, ListIsFresh
    <3>2. /\ \A r \in Requests : r # worker.on => req'[r] = req[r]
          /\ req'[worker.on] \in {req[worker.on], "failed"} /\ decidedBy' = decidedBy
      BY <2>12 DEF BumpFail
    <3>. QED
      BY <3>1, <3>2
  <2>13. ASSUME ListExpired
        PROVE  Final
    BY <2>13 DEF ListExpired, ExpiredBumps, Idle
  <2>14. ASSUME NEW r \in Requests, ReclaimUpdate(r)
        PROVE  Final
    BY <2>14 DEF ReclaimUpdate, Applied, Acked, Outcomes
  <2>15. ASSUME ReclaimMark
        PROVE  Final
    BY <2>15 DEF ReclaimMark, Applied, Outcomes
  <2>16. ASSUME RoundEnds
        PROVE  Final
    BY <2>16 DEF RoundEnds, Idle
  <2>17. ASSUME Restart
        PROVE  Final
    BY <2>17 DEF Restart, InProgress, Idle
  <2>18. ASSUME UNCHANGED vars
        PROVE  Final
    BY <2>18 DEF vars
  <2>. QED
    BY <2>1, <2>2, <2>3, <2>4, <2>5, <2>6, <2>7, <2>8, <2>9,
       <2>10, <2>11, <2>12, <2>13, <2>14, <2>15, <2>16, <2>17, <2>18 DEF Next, Work
<1>2. Init => Apart /\ ListIsFresh
  BY InitApart, InitFresh
<1>3. TypeInv /\ Apart /\ ListIsFresh /\ [Next]_vars => Apart' /\ ListIsFresh'
  BY NextApart, NextFresh
<1>. QED
  BY <1>1, <1>2, <1>3, InitTypeInv, NextTypeInv, PTL DEF Spec, VerdictIsFinal

LEMMA NextTracked ==
  TypeInv /\ Apart /\ ListIsFresh /\ RaisedBudgetIsTracked /\ [Next]_vars => RaisedBudgetIsTracked'
<1>. SUFFICES ASSUME TypeInv, Apart, ListIsFresh, RaisedBudgetIsTracked, [Next]_vars
              PROVE  RaisedBudgetIsTracked'
  OBVIOUS
<1>. USE NoneAssumption
     DEF TypeInv, TypeOK, WorkerHasRequest, Apart, ListIsFresh, RaisedBudgetIsTracked, table, claiming
<1>1. ASSUME NEW r \in Requests, Submit(r)
      PROVE  RaisedBudgetIsTracked'
  BY <1>1 DEF Submit
<1>2. ASSUME NEW r \in Requests, Expire(r)
      PROVE  RaisedBudgetIsTracked'
  BY <1>2 DEF Expire
<1>3. ASSUME NEW d \in Deciders, NEW r \in Requests, NEW v \in Verdicts, Decide(d, r, v)
      PROVE  RaisedBudgetIsTracked'
  BY <1>3 DEF Decide, Verdicts
<1>4. ASSUME NEW c \in Claims, NEW r \in Requests, ClaimFetch(c, r)
      PROVE  RaisedBudgetIsTracked'
  BY <1>4 DEF ClaimFetch
<1>5. ASSUME NEW c \in Claims, ClaimIssue(c)
      PROVE  RaisedBudgetIsTracked'
  BY <1>5 DEF ClaimIssue
<1>6. ASSUME NEW c \in Claims, ClaimMark(c)
      PROVE  RaisedBudgetIsTracked'
  BY <1>6 DEF ClaimMark, MarkExecuted, Won, Applied, Acked, Outcomes
<1>7. ASSUME NEW c \in Claims, ClaimRevoke(c)
      PROVE  RaisedBudgetIsTracked'
  BY <1>7 DEF ClaimRevoke, Applied, Acked, Outcomes
<1>8. ASSUME ListApproved
      PROVE  RaisedBudgetIsTracked'
  BY <1>8 DEF ListApproved, ApprovedBumps, Idle
<1>9. ASSUME NEW r \in Requests, BumpUpdate(r)
      PROVE  RaisedBudgetIsTracked'
  BY <1>9 DEF BumpUpdate, Applied, Acked, Outcomes
<1>10. ASSUME BumpMark
      PROVE  RaisedBudgetIsTracked'
  BY <1>10 DEF BumpMark, MarkExecuted, Won, Applied, Acked, Outcomes
<1>11. ASSUME BumpRecord
      PROVE  RaisedBudgetIsTracked'
  BY <1>11 DEF BumpRecord, Applied, Acked, Outcomes
<1>12. ASSUME BumpFail
      PROVE  RaisedBudgetIsTracked'
  BY <1>12 DEF BumpFail, Applied, Outcomes
<1>13. ASSUME ListExpired
      PROVE  RaisedBudgetIsTracked'
  BY <1>13 DEF ListExpired, ExpiredBumps, Idle
<1>14. ASSUME NEW r \in Requests, ReclaimUpdate(r)
      PROVE  RaisedBudgetIsTracked'
  BY <1>14 DEF ReclaimUpdate, Applied, Acked, Outcomes
<1>15. ASSUME ReclaimMark
      PROVE  RaisedBudgetIsTracked'
  BY <1>15 DEF ReclaimMark, Applied, Outcomes
<1>16. ASSUME RoundEnds
      PROVE  RaisedBudgetIsTracked'
  BY <1>16 DEF RoundEnds, Idle
<1>17. ASSUME Restart
      PROVE  RaisedBudgetIsTracked'
  BY <1>17 DEF Restart, InProgress, Idle
<1>18. ASSUME UNCHANGED vars
      PROVE  RaisedBudgetIsTracked'
  BY <1>18 DEF vars
<1>. QED
  BY <1>1, <1>2, <1>3, <1>4, <1>5, <1>6, <1>7, <1>8, <1>9,
     <1>10, <1>11, <1>12, <1>13, <1>14, <1>15, <1>16, <1>17, <1>18 DEF Next, Work

\* Whatever fails, crashes or overlaps, a budget raised in LiteLLM is that of a request
\* that is still to be executed, still to be reclaimed, or marked failed
\* (approvalworker.go, executeOne and reclaimOne).
THEOREM BudgetTracked == Spec => []RaisedBudgetIsTracked
<1>1. Init => Apart /\ ListIsFresh /\ RaisedBudgetIsTracked
  BY InitApart, InitFresh DEF Init, RaisedBudgetIsTracked
<1>2. TypeInv /\ Apart /\ ListIsFresh /\ RaisedBudgetIsTracked /\ [Next]_vars
        => Apart' /\ ListIsFresh' /\ RaisedBudgetIsTracked'
  BY NextApart, NextFresh, NextTracked
<1>. QED
  BY <1>1, <1>2, InitTypeInv, NextTypeInv, PTL DEF Spec

-----------------------------------------------------------------------------
(* A round of the worker.                                                   *)

\* No call of the worker fails, and the process does not crash.
Unfailing ==
  /\ ~Restart
  /\ \A r \in Requests : BumpUpdate(r) \/ ReclaimUpdate(r) => worker'.step = "mark"
  /\ BumpMark => worker'.step = "next"
  /\ ReclaimMark => reclaimed'[worker.on]

\* An approved bump that is on the list, or being executed, or has been.
Executing(r) ==
  \/ /\ worker.phase = "execute" /\ req[r] = "approved"
     /\ r \in worker.todo \/ (worker.on = r /\ worker.step = "mark")
  \/ req[r] = "executed" /\ (worker.step \in {"record", "fail"} => worker.on # r)

\* An expired bump that is on the list, or being reclaimed, or has been.
Reclaiming(r) ==
  \/ reclaimed[r]
  \/ worker.phase = "reclaim" /\ (r \in worker.todo \/ (worker.on = r /\ worker.step = "mark"))

WorkerInv == TypeInv /\ Apart /\ ListIsFresh

LEMMA NextExecuting ==
  ASSUME NEW r \in Requests
  PROVE  WorkerInv /\ kind[r] = "quota_bump" /\ Executing(r) /\ [Next]_vars /\ [Unfailing]_vars
           => kind'[r] = "quota_bump" /\ Executing(r)'
<1>. SUFFICES ASSUME WorkerInv, kind[r] = "quota_bump", Executing(r), [Next]_vars, [Unfailing]_vars
              PROVE  kind'[r] = "quota_bump" /\ Executing(r)'
  OBVIOUS
<1>. USE DEF WorkerInv, TypeInv, TypeOK, WorkerHasRequest, Apart, ListIsFresh, Executing, table, claiming
<1>1. ASSUME NEW q \in Requests, Submit(q) \/ Expire(q)
      PROVE  kind'[r] = "quota_bump" /\ Executing(r)'
  BY <1>1 DEF Submit, Expire
<1>2. ASSUME NEW d \in Deciders, NEW q \in Requests, NEW v \in Verdicts, Decide(d, q, v)
      PROVE  kind'[r] = "quota_bump" /\ Executing(r)'
  BY <1>2 DEF Decide
<1>3. ASSUME NEW c \in Claims, (\E q \in Requests : ClaimFetch(c, q)) \/ ClaimIssue(c) \/ ClaimRevoke(c)
      PROVE  kind'[r] = "quota_bump" /\ Executing(r)'
  BY <1>3 DEF ClaimFetch, ClaimIssue, ClaimRevoke
<1>4. ASSUME NEW c \in Claims, ClaimMark(c)
      PROVE  kind'[r] = "quota_bump" /\ Executing(r)'
  <2>1. on[c] # r
    BY <1>4 DEF ClaimMark
  <2>2. req'[r] = req[r]
    BY <1>4, <2>1 DEF ClaimMark, MarkExecuted
  <2>. QED
    BY <1>4, <2>2 DEF ClaimMark
<1>5. ASSUME ListApproved \/ ListExpired \/ RoundEnds
      PROVE  kind'[r] = "quota_bump" /\ Executing(r)'
  <2>1. req[r] = "executed"
    BY <1>5 DEF ListApproved, ListExpired, RoundEnds
  <2>2. UNCHANGED <<kind, req>>
    BY <1>5 DEF ListApproved, ListExpired, RoundEnds
  <2>3. worker'.step = "next"
    <3>1. CASE ListApproved
      BY <3>1 DEF ListApproved, Idle
    <3>2. CASE ListExpired
      BY <3>2 DEF ListExpired, Idle
    <3>3. CASE RoundEnds
      BY <3>3 DEF RoundEnds, Idle
    <3>. QED
      BY <1>5, <3>1, <3>2, <3>3
  <2>. QED
    BY <2>1, <2>2, <2>3
<1>6. ASSUME NEW q \in Requests, BumpUpdate(q)
      PROVE  kind'[r] = "quota_bump" /\ Executing(r)'
  <2>1. /\ worker.step = "next" /\ q \in worker.todo /\ worker'.on = q /\ worker'.phase = "execute"
        /\ worker'.todo = worker.todo \ {q} /\ UNCHANGED <<kind, req>>
    BY <1>6 DEF BumpUpdate
  <2>2. Unfailing
    BY <2>1 DEF vars
  <2>3. worker'.step = "mark"
    BY <1>6, <2>2 DEF Unfailing
  <2>. QED
    BY <2>1, <2>3
<1>7. ASSUME BumpMark
      PROVE  kind'[r] = "quota_bump" /\ Executing(r)'
  <2>1. worker.step = "mark" /\ worker'.on = worker.on /\ worker'.phase = "execute" /\ worker'.todo = worker.todo
    BY <1>7 DEF BumpMark
  <2>2. worker'.step = "next"
    <3>1. CASE Unfailing
      BY <1>7, <3>1 DEF Unfailing
    <3>2. CASE UNCHANGED vars
      BY <1>7, <3>2 DEF BumpMark, vars, Won, Acked
    <3>. QED
      BY <3>1, <3>2
  <2>3. req'[worker.on] = "executed" /\ \A q \in Requests : q # worker.on => req'[q] = req[q]
    BY <1>7, <2>2 DEF BumpMark, MarkExecuted, Won, Acked, Applied
  <2>. QED
    BY <1>7, <2>1, <2>2, <2>3 DEF BumpMark
<1>8. ASSUME BumpRecord
      PROVE  kind'[r] = "quota_bump" /\ Executing(r)'
  BY <1>8 DEF BumpRecord
<1>9. ASSUME BumpFail
      PROVE  kind'[r] = "quota_bump" /\ Executing(r)'
  <2>1. worker.on # r
    BY <1>9 DEF BumpFail
  <2>2. req'[r] = req[r] /\ worker' = [worker EXCEPT !.step = "next"] /\ worker.on \notin worker.todo
    BY <1>9, <2>1 DEF BumpFail
  <2>. QED
    BY <1>9, <2>1, <2>2 DEF BumpFail
<1>10. ASSUME NEW q \in Requests, ReclaimUpdate(q)
       PROVE  kind'[r] = "quota_bump" /\ Executing(r)'
  <2>1. worker'.todo = worker.todo \ {q} /\ q \in worker.todo
    BY <1>10 DEF ReclaimUpdate
  <2>2. Unfailing
    BY <2>1 DEF vars
  <2>3. worker'.step = "mark"
    BY <1>10, <2>2 DEF Unfailing
  <2>. QED
    BY <1>10, <2>3 DEF ReclaimUpdate
<1>11. ASSUME ReclaimMark
       PROVE  kind'[r] = "quota_bump" /\ Executing(r)'
  BY <1>11 DEF ReclaimMark
<1>12. ASSUME Restart
       PROVE  kind'[r] = "quota_bump" /\ Executing(r)'
  BY <1>12 DEF Unfailing, vars
<1>13. ASSUME UNCHANGED vars
       PROVE  kind'[r] = "quota_bump" /\ Executing(r)'
  BY <1>13 DEF vars
<1>. QED
  BY <1>1, <1>2, <1>3, <1>4, <1>5, <1>6, <1>7, <1>8, <1>9, <1>10, <1>11, <1>12, <1>13 DEF Next, Work

LEMMA NextReclaiming ==
  ASSUME NEW r \in Requests
  PROVE  WorkerInv /\ Reclaiming(r) /\ [Next]_vars /\ [Unfailing]_vars => Reclaiming(r)'
<1>. SUFFICES ASSUME WorkerInv, Reclaiming(r), [Next]_vars, [Unfailing]_vars PROVE Reclaiming(r)'
  OBVIOUS
<1>. USE DEF WorkerInv, TypeInv, TypeOK, WorkerHasRequest, ListIsFresh, Reclaiming, table, claiming
<1>1. ASSUME UNCHANGED <<reclaimed, worker>>
      PROVE  Reclaiming(r)'
  BY <1>1
<1>2. ASSUME NEW q \in Requests, Submit(q) \/ Expire(q)
      PROVE  Reclaiming(r)'
  BY <1>1, <1>2 DEF Submit, Expire
<1>3. ASSUME NEW d \in Deciders, NEW q \in Requests, NEW v \in Verdicts, Decide(d, q, v)
      PROVE  Reclaiming(r)'
  BY <1>1, <1>3 DEF Decide
<1>4. ASSUME NEW c \in Claims, (\E q \in Requests : ClaimFetch(c, q)) \/ ClaimIssue(c) \/ ClaimMark(c) \/ ClaimRevoke(c)
      PROVE  Reclaiming(r)'
  BY <1>1, <1>4 DEF ClaimFetch, ClaimIssue, ClaimMark, ClaimRevoke
<1>5. ASSUME ListApproved \/ BumpMark \/ BumpRecord \/ BumpFail \/ ListExpired \/ RoundEnds \/ \E q \in Requests : BumpUpdate(q)
      PROVE  Reclaiming(r)'
  BY <1>5 DEF ListApproved, BumpMark, BumpRecord, BumpFail, ListExpired, RoundEnds, BumpUpdate
<1>6. ASSUME NEW q \in Requests, ReclaimUpdate(q)
      PROVE  Reclaiming(r)'
  <2>1. /\ q \in worker.todo /\ worker'.on = q /\ worker'.phase = "reclaim"
        /\ worker'.todo = worker.todo \ {q} /\ UNCHANGED reclaimed
    BY <1>6 DEF ReclaimUpdate
  <2>2. Unfailing
    BY <2>1 DEF vars
  <2>3. worker'.step = "mark"
    BY <1>6, <2>2 DEF Unfailing
  <2>. QED
    BY <1>6, <2>1, <2>3 DEF ReclaimUpdate
<1>7. ASSUME ReclaimMark
      PROVE  Reclaiming(r)'
  <2>1. reclaimed'[worker.on] /\ \A q \in Requests : reclaimed[q] => reclaimed'[q]
    BY <1>7 DEF ReclaimMark, Unfailing, vars
  <2>2. worker'.phase = "reclaim" /\ worker'.todo = worker.todo
    BY <1>7 DEF ReclaimMark
  <2>. QED
    BY <2>1, <2>2
<1>8. ASSUME Restart
      PROVE  Reclaiming(r)'
  BY <1>8 DEF Unfailing, vars
<1>9. ASSUME UNCHANGED vars
      PROVE  Reclaiming(r)'
  BY <1>9, <1>1 DEF vars
<1>. QED
  BY <1>2, <1>3, <1>4, <1>5, <1>6, <1>7, <1>8, <1>9 DEF Next, Work

\* An approved bump that the worker has listed is executed when it has been through its
\* list, and an expired one reclaimed, unless a call of the worker fails or the process
\* crashes; whatever administrators, Claim calls and the clock do meanwhile
\* (ExecuteApprovedBumps, ReclaimExpiredBumps).
RoundSettles(r) ==
  /\ [](worker.phase = "execute" /\ r \in worker.todo /\ [][Unfailing]_vars =>
          [](worker.phase # "execute" => req[r] = "executed"))
  /\ [](worker.phase = "reclaim" /\ r \in worker.todo /\ [][Unfailing]_vars =>
          [](worker.phase # "reclaim" => reclaimed[r]))

THEOREM RoundsSettle ==
  ASSUME NEW r \in Requests
  PROVE  Spec => RoundSettles(r)
<1>. DEFINE Executed == kind[r] = "quota_bump" /\ Executing(r)
<1>1. Init => WorkerInv
  BY InitTypeInv, InitApart, InitFresh DEF WorkerInv
<1>2. WorkerInv /\ [Next]_vars => WorkerInv'
  BY NextTypeInv, NextApart, NextFresh DEF WorkerInv
<1>3. WorkerInv /\ worker.phase = "execute" /\ r \in worker.todo => Executed
  BY DEF WorkerInv, Apart, ListIsFresh, Executing
<1>4. Executed /\ worker.phase # "execute" => req[r] = "executed"
  BY DEF Executing
<1>5. worker.phase = "reclaim" /\ r \in worker.todo => Reclaiming(r)
  BY DEF Reclaiming
<1>6. Reclaiming(r) /\ worker.phase # "reclaim" => reclaimed[r]
  BY DEF Reclaiming
<1>7. WorkerInv /\ Executed /\ [Next]_vars /\ [Unfailing]_vars => Executed'
  BY NextExecuting
<1>8. WorkerInv /\ Reclaiming(r) /\ [Next]_vars /\ [Unfailing]_vars => Reclaiming(r)'
  BY NextReclaiming
<1>. HIDE DEF Executed
<1>. QED
  BY <1>1, <1>2, <1>3, <1>4, <1>5, <1>6, <1>7, <1>8, PTL DEF Spec, RoundSettles
=============================================================================
