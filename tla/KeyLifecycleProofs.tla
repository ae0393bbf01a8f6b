------------------------- MODULE KeyLifecycleProofs -------------------------
(***************************************************************************)
(* What TLAPS proves of KeyLifecycle, for every set of keys, of subtrees   *)
(* and of leavers and every limit on block attempts.                       *)
(***************************************************************************)
EXTENDS KeyLifecycle, TLAPS

\* The scan only works on a key it may still count an attempt for.
ScanBelowLimit == \A k \in Keys : scan[k] # "idle" => attempts[k] < MaxAttempts

TypeInv == TypeOK /\ ScanBelowLimit

\* How the row, the upstream key and the Issue call of one key hang together. No
\* cleanup touches the key before its Issue call has failed or died.
Coupled(k) ==
  /\ issue[k] = "none" => row[k] = "absent"
  /\ issue[k] \in {"inserted", "generated"} => row[k] # "absent"
  /\ issue[k] \in {"generated", "returned"} => upstream[k] # "absent"
  /\ issue[k] = "returned" => row[k] \in {"active", "revoked"}
  /\ \A c \in {"issue", "sweep"} : clean[c][k] # "idle" => issue[k] \in {"errored", "crashed"}

CoupledInv == \A k \in Keys : Coupled(k)

\* Unless LiteLLM executed a request late, an upstream key never appears behind the
\* back of a cleanup that found none or deleted it.
Owned(k) ==
  ~late[k] =>
    /\ row[k] = "absent" => upstream[k] = "absent"
    /\ \A c \in {"issue", "sweep"} : clean[c][k] = "drop" => upstream[k] = "absent"

OwnedInv == \A k \in Keys : Owned(k)

\* The Issue call is over: it returned, failed or died with its process.
Settled(k) == issue[k] \in {"returned", "errored", "crashed"}

\* Nobody blocks the upstream key of an Issue call still running, or of one that
\* returned and was never revoked: a blocking call is preceded by a revocation.
Served(k) ==
  /\ revoke["leaver"][k] = "fetched" => k \in leaving
  /\ \A c \in {"admin", "leaver"} : revoke[c][k] # "idle" => issue[k] # "none"
  /\ ~cutShort[k] /\ (~Settled(k) \/ (issue[k] = "returned" /\ row[k] = "active")) =>
       /\ row[k] # "revoked" /\ upstream[k] # "blocked" /\ scan[k] = "idle"
       /\ \A c \in {"admin", "leaver"} : revoke[c][k] \notin {"marked", "blocked"}

ServedInv == \A k \in Keys : Served(k)

\* Why a stamp can be trusted on a key whose Issue call was not cut short: whoever
\* is about to stamp it started after the last moment the upstream key could appear.
Trusted(k) ==
  ~cutShort[k] /\ ~late[k] =>
    /\ stamp[k] => Settled(k)
    /\ stamp[k] \/ scan[k] = "stamp" => upstream[k] # "live"
    /\ \A c \in {"admin", "leaver"} : revoke[c][k] = "blocked" => upstream[k] # "live"

TrustedInv == \A k \in Keys : Trusted(k)

-----------------------------------------------------------------------------
(* Types.                                                                   *)

LEMMA InitTypeInv == Init => TypeInv
  BY AttemptsAssumption DEF Init, TypeInv, TypeOK, ScanBelowLimit

LEMMA NextTypeInv == TypeInv /\ [Next]_vars => TypeInv'
<1>. SUFFICES ASSUME TypeInv, [Next]_vars PROVE TypeInv'
  OBVIOUS
<1>. USE KeysAssumption, AttemptsAssumption
     DEF TypeInv, TypeOK, ScanBelowLimit, db, remote, actors
<1>1. ASSUME NEW k \in Keys, CreatePending(k)
      PROVE  TypeInv'
  BY <1>1 DEF CreatePending, Acked
<1>2. ASSUME NEW k \in Keys, GenerateKey(k)
      PROVE  TypeInv'
  BY <1>2 DEF GenerateKey, Applied, Acked, Outcomes
<1>3. ASSUME NEW k \in Keys, GenerateTimesOut(k)
      PROVE  TypeInv'
  BY <1>3 DEF GenerateTimesOut
<1>4. ASSUME NEW k \in Keys, LateGenerate(k)
      PROVE  TypeInv'
  BY <1>4 DEF LateGenerate
<1>5. ASSUME NEW k \in Keys, MarkActive(k)
      PROVE  TypeInv'
  BY <1>5 DEF MarkActive, Applied, Acked, Outcomes
<1>6. ASSUME NEW k \in Keys, SweepList(k)
      PROVE  TypeInv'
  BY <1>6 DEF SweepList, IssueRunning
<1>7. ASSUME NEW k \in Keys, RevokeFetch(k)
      PROVE  TypeInv'
  BY <1>7 DEF RevokeFetch
<1>8. ASSUME NEW k \in Keys, RevokeMark(k)
      PROVE  TypeInv'
  BY <1>8 DEF RevokeMark, RevokeRows, Applied, Acked, Outcomes
<1>9. ASSUME NEW k \in Keys, ScanList(k)
      PROVE  TypeInv'
  BY <1>9 DEF ScanList
<1>10. ASSUME NEW k \in Keys, ScanBlock(k)
      PROVE  TypeInv'
  BY <1>10 DEF ScanBlock, Applied, Acked, Outcomes
<1>11. ASSUME NEW k \in Keys, ScanStamp(k)
      PROVE  TypeInv'
  BY <1>11 DEF ScanStamp, Stamp, Applied, Outcomes
<1>12. ASSUME NEW k \in Keys, ScanRecord(k)
      PROVE  TypeInv'
  BY <1>12 DEF ScanRecord, Applied, Outcomes
<1>13. ASSUME NEW k \in Keys, NEW c \in {"issue", "sweep"}, CleanupProbe(c, k)
      PROVE  TypeInv'
  BY <1>13 DEF CleanupProbe
<1>14. ASSUME NEW k \in Keys, NEW c \in {"issue", "sweep"}, CleanupRemove(c, k)
      PROVE  TypeInv'
  BY <1>14 DEF CleanupRemove, Applied, Acked, Outcomes
<1>15. ASSUME NEW k \in Keys, NEW c \in {"issue", "sweep"}, CleanupDrop(c, k)
      PROVE  TypeInv'
  <2>1. CASE UNCHANGED db
    BY <1>15, <2>1 DEF CleanupDrop
  <2>2. CASE /\ row' = [row EXCEPT ![k] = "absent"]
             /\ stamp' = [stamp EXCEPT ![k] = FALSE]
             /\ attempts' = [attempts EXCEPT ![k] = 0]
    <3>1. TypeOK'
      BY <1>15, <2>2 DEF CleanupDrop
    <3>2. scan' = scan
      BY <1>15 DEF CleanupDrop
    <3>3. ScanBelowLimit'
      BY <2>2, <3>2
    <3>. QED
      BY <3>1, <3>3
  <2>. QED
    BY <1>15, <2>1, <2>2 DEF CleanupDrop
<1>16. ASSUME NEW k \in Keys, NEW c \in {"admin", "leaver"}, InlineBlock(c, k)
      PROVE  TypeInv'
  BY <1>16 DEF InlineBlock, Applied, Acked, Outcomes
<1>17. ASSUME NEW k \in Keys, NEW c \in {"admin", "leaver"}, InlineStamp(c, k)
      PROVE  TypeInv'
  BY <1>17 DEF InlineStamp, Stamp, Applied, Outcomes
<1>18. ASSUME NEW S \in Leavers, LeaverSelect(S)
      PROVE  TypeInv'
  BY <1>18 DEF LeaverSelect, Live
<1>19. ASSUME LeaverMark PROVE TypeInv'
  BY <1>19 DEF LeaverMark, RevokeRows, Applied, Acked, Outcomes, Live
<1>20. ASSUME NEW S \in Subtrees, BulkRevoke(S)
      PROVE  TypeInv'
  BY <1>20 DEF BulkRevoke, RevokeRows, Live
<1>21. ASSUME Restart PROVE TypeInv'
  BY <1>21 DEF Restart
<1>22. ASSUME UNCHANGED vars PROVE TypeInv'
  BY <1>22 DEF vars
<1>. QED
  BY <1>1, <1>2, <1>3, <1>4, <1>5, <1>6, <1>7, <1>8, <1>9, <1>10, <1>11,
     <1>12, <1>13, <1>14, <1>15, <1>16, <1>17, <1>18, <1>19, <1>20, <1>21,
     <1>22 DEF Next, Work

\* Every variable of the key model keeps its type; no key is ever charged more block
\* attempts than maxBlockAttempts (ListRevokedUnblocked's bound, keystore.go).
THEOREM TypeCorrect == Spec => []TypeOK
<1>1. Spec => []TypeInv
  BY InitTypeInv, NextTypeInv, PTL DEF Spec
<1>2. TypeInv => TypeOK
  BY DEF TypeInv
<1>. QED
  BY <1>1, <1>2, PTL

-----------------------------------------------------------------------------
(* Keys that were handed over.                                              *)

LEMMA InitCoupled == Init => CoupledInv
<1>. SUFFICES ASSUME Init, NEW k \in Keys PROVE Coupled(k)
  BY DEF CoupledInv
<1>1. issue[k] = "none" /\ row[k] = "absent" /\ \A c \in {"issue", "sweep"} : clean[c][k] = "idle"
  BY DEF Init
<1>. QED
  BY <1>1 DEF Coupled

LEMMA NextCoupled == TypeInv /\ CoupledInv /\ [Next]_vars => CoupledInv'
<1>. SUFFICES ASSUME TypeInv, CoupledInv, [Next]_vars PROVE CoupledInv'
  OBVIOUS
<1>. USE KeysAssumption DEF TypeInv, TypeOK, CoupledInv, Coupled, db, remote, actors
<1>1. ASSUME NEW k \in Keys, CreatePending(k)
      PROVE  CoupledInv'
  BY <1>1 DEF CreatePending, Acked
<1>2. ASSUME NEW k \in Keys, GenerateKey(k)
      PROVE  CoupledInv'
  BY <1>2 DEF GenerateKey, Applied, Acked, Outcomes
<1>3. ASSUME NEW k \in Keys, GenerateTimesOut(k)
      PROVE  CoupledInv'
  BY <1>3 DEF GenerateTimesOut
<1>4. ASSUME NEW k \in Keys, LateGenerate(k)
      PROVE  CoupledInv'
  BY <1>4 DEF LateGenerate
<1>5. ASSUME NEW k \in Keys, MarkActive(k)
      PROVE  CoupledInv'
  BY <1>5 DEF MarkActive, Applied, Acked, Outcomes
<1>6. ASSUME NEW k \in Keys, SweepList(k)
      PROVE  CoupledInv'
  BY <1>6 DEF SweepList, IssueRunning
<1>7. ASSUME NEW k \in Keys, RevokeFetch(k)
      PROVE  CoupledInv'
  BY <1>7 DEF RevokeFetch
<1>8. ASSUME NEW k \in Keys, RevokeMark(k)
      PROVE  CoupledInv'
  BY <1>8 DEF RevokeMark, RevokeRows, Applied, Acked, Outcomes
<1>9. ASSUME NEW k \in Keys, ScanList(k)
      PROVE  CoupledInv'
  BY <1>9 DEF ScanList
<1>10. ASSUME NEW k \in Keys, ScanBlock(k)
      PROVE  CoupledInv'
  BY <1>10 DEF ScanBlock, Applied, Acked, Outcomes
<1>11. ASSUME NEW k \in Keys, ScanStamp(k)
      PROVE  CoupledInv'
  BY <1>11 DEF ScanStamp, Stamp, Applied, Outcomes
<1>12. ASSUME NEW k \in Keys, ScanRecord(k)
      PROVE  CoupledInv'
  BY <1>12 DEF ScanRecord, Applied, Outcomes
<1>13. ASSUME NEW k \in Keys, NEW c \in {"issue", "sweep"}, CleanupProbe(c, k)
      PROVE  CoupledInv'
  BY <1>13 DEF CleanupProbe
<1>14. ASSUME NEW k \in Keys, NEW c \in {"issue", "sweep"}, CleanupRemove(c, k)
      PROVE  CoupledInv'
  BY <1>14 DEF CleanupRemove, Applied, Acked, Outcomes
<1>15. ASSUME NEW k \in Keys, NEW c \in {"issue", "sweep"}, CleanupDrop(c, k)
      PROVE  CoupledInv'
  BY <1>15 DEF CleanupDrop
<1>16. ASSUME NEW k \in Keys, NEW c \in {"admin", "leaver"}, InlineBlock(c, k)
      PROVE  CoupledInv'
  BY <1>16 DEF InlineBlock, Applied, Acked, Outcomes
<1>17. ASSUME NEW k \in Keys, NEW c \in {"admin", "leaver"}, InlineStamp(c, k)
      PROVE  CoupledInv'
  BY <1>17 DEF InlineStamp, Stamp, Applied, Outcomes
<1>18. ASSUME NEW S \in Leavers, LeaverSelect(S)
      PROVE  CoupledInv'
  BY <1>18 DEF LeaverSelect, Live
<1>19. ASSUME LeaverMark PROVE CoupledInv'
  BY <1>19 DEF LeaverMark, RevokeRows, Applied, Acked, Outcomes, Live
<1>20. ASSUME NEW S \in Subtrees, BulkRevoke(S)
      PROVE  CoupledInv'
  BY <1>20 DEF BulkRevoke, RevokeRows, Live
<1>21. ASSUME Restart PROVE CoupledInv'
  BY <1>21 DEF Restart
<1>22. ASSUME UNCHANGED vars PROVE CoupledInv'
  BY <1>22 DEF vars
<1>. QED
  BY <1>1, <1>2, <1>3, <1>4, <1>5, <1>6, <1>7, <1>8, <1>9, <1>10, <1>11,
     <1>12, <1>13, <1>14, <1>15, <1>16, <1>17, <1>18, <1>19, <1>20, <1>21,
     <1>22 DEF Next, Work

LEMMA AlwaysCoupled == Spec => [](TypeInv /\ CoupledInv)
  BY InitTypeInv, NextTypeInv, InitCoupled, NextCoupled, PTL DEF Spec

LEMMA InitServed == Init => ServedInv
<1>. SUFFICES ASSUME Init, NEW k \in Keys PROVE Served(k)
  BY DEF ServedInv
<1>1. /\ row[k] = "absent" /\ upstream[k] = "absent" /\ scan[k] = "idle"
      /\ \A c \in {"admin", "leaver"} : revoke[c][k] = "idle"
  BY DEF Init
<1>. QED
  BY <1>1 DEF Served

\* A statement that revokes rows cuts short every Issue call it overtakes.
LEMMA RevokeRowsCutShort ==
  ASSUME TypeInv, CoupledInv, NEW S, RevokeRows(S), \A k \in S : row[k] # "absent",
         NEW j \in Keys
  PROVE  /\ row'[j] = IF j \in S THEN "revoked" ELSE row[j]
         /\ cutShort[j] => cutShort'[j]
         /\ j \in S /\ ~cutShort'[j] => Settled(j)
<1>1. /\ row'[j] = IF j \in S THEN "revoked" ELSE row[j]
      /\ cutShort'[j] = (cutShort[j] \/ (j \in S /\ issue[j] \in {"inserted", "generated"}))
  BY DEF RevokeRows
<1>2. CASE j \in S
  <2>1. issue[j] # "none"
    BY <1>2 DEF CoupledInv, Coupled
  <2>2. issue[j] \in {"inserted", "generated"} \/ Settled(j)
    BY <2>1 DEF TypeInv, TypeOK, Settled
  <2>. QED
    BY <1>1, <1>2, <2>2
<1>3. CASE j \notin S
  BY <1>1, <1>3
<1>. QED
  BY <1>2, <1>3

LEMMA NextServed == TypeInv /\ CoupledInv /\ ServedInv /\ [Next]_vars => ServedInv'
<1>. SUFFICES ASSUME TypeInv, CoupledInv, ServedInv, [Next]_vars PROVE ServedInv'
  OBVIOUS
<1>. USE KeysAssumption
     DEF TypeInv, TypeOK, CoupledInv, Coupled, ServedInv, Served, Settled, db, remote, actors
<1>1. ASSUME NEW k \in Keys, CreatePending(k)
      PROVE  ServedInv'
  BY <1>1 DEF CreatePending, Acked
<1>2. ASSUME NEW k \in Keys, GenerateKey(k)
      PROVE  ServedInv'
  BY <1>2 DEF GenerateKey, Applied, Acked, Outcomes
<1>3. ASSUME NEW k \in Keys, GenerateTimesOut(k)
      PROVE  ServedInv'
  BY <1>3 DEF GenerateTimesOut
<1>4. ASSUME NEW k \in Keys, LateGenerate(k)
      PROVE  ServedInv'
  BY <1>4 DEF LateGenerate
<1>5. ASSUME NEW k \in Keys, MarkActive(k)
      PROVE  ServedInv'
  BY <1>5 DEF MarkActive, Applied, Acked, Outcomes
<1>6. ASSUME NEW k \in Keys, SweepList(k)
      PROVE  ServedInv'
  BY <1>6 DEF SweepList, IssueRunning
<1>7. ASSUME NEW k \in Keys, RevokeFetch(k)
      PROVE  ServedInv'
  BY <1>7 DEF RevokeFetch
<1>8. ASSUME NEW k \in Keys, RevokeMark(k)
      PROVE  ServedInv'
  <2>. SUFFICES ASSUME NEW j \in Keys PROVE Served(j)'
    OBVIOUS
  <2>. HIDE DEF TypeInv, TypeOK, CoupledInv, Coupled, ServedInv, Served, Settled
  <2>1. PICK S : RevokeRows(S) /\ \A i \in S : row[i] # "absent"
    BY <1>8 DEF RevokeMark, Applied
  <2>2. UNCHANGED <<issue, scan, upstream>>
    BY <1>8 DEF RevokeMark, remote
  <2>3. /\ row'[j] = IF j \in S THEN "revoked" ELSE row[j]
        /\ cutShort[j] => cutShort'[j]
        /\ j \in S /\ ~cutShort'[j] => Settled(j)
    BY <2>1, RevokeRowsCutShort
  <2>4. revoke'["leaver"][j] = "fetched" => j \in leaving'
    BY <1>8 DEF RevokeMark, TypeInv, TypeOK, ServedInv, Served
  <2>5. \A c \in {"admin", "leaver"} :
          /\ revoke'[c][j] # "idle" => revoke[c][j] # "idle"
          /\ revoke'[c][j] = "blocked" => revoke[c][j] = "blocked"
    BY <1>8 DEF RevokeMark, TypeInv, TypeOK
  <2>6. \A c \in {"admin", "leaver"} :
          revoke'[c][j] = "marked" => revoke[c][j] = "marked" \/ row'[j] = "revoked"
    BY <1>8 DEF RevokeMark, RevokeRows, Acked, Applied, TypeInv, TypeOK
  <2>. QED
    BY <2>2, <2>3, <2>4, <2>5, <2>6 DEF ServedInv, Served, Settled
<1>9. ASSUME NEW k \in Keys, ScanList(k)
      PROVE  ServedInv'
  BY <1>9 DEF ScanList
<1>10. ASSUME NEW k \in Keys, ScanBlock(k)
      PROVE  ServedInv'
  BY <1>10 DEF ScanBlock, Applied, Acked, Outcomes
<1>11. ASSUME NEW k \in Keys, ScanStamp(k)
      PROVE  ServedInv'
  BY <1>11 DEF ScanStamp, Stamp, Applied, Outcomes
<1>12. ASSUME NEW k \in Keys, ScanRecord(k)
      PROVE  ServedInv'
  BY <1>12 DEF ScanRecord, Applied, Outcomes
<1>13. ASSUME NEW k \in Keys, NEW c \in {"issue", "sweep"}, CleanupProbe(c, k)
      PROVE  ServedInv'
  BY <1>13 DEF CleanupProbe
<1>14. ASSUME NEW k \in Keys, NEW c \in {"issue", "sweep"}, CleanupRemove(c, k)
      PROVE  ServedInv'
  BY <1>14 DEF CleanupRemove, Applied, Acked, Outcomes
<1>15. ASSUME NEW k \in Keys, NEW c \in {"issue", "sweep"}, CleanupDrop(c, k)
      PROVE  ServedInv'
  BY <1>15 DEF CleanupDrop
<1>16. ASSUME NEW k \in Keys, NEW c \in {"admin", "leaver"}, InlineBlock(c, k)
      PROVE  ServedInv'
  BY <1>16 DEF InlineBlock, Applied, Acked, Outcomes
<1>17. ASSUME NEW k \in Keys, NEW c \in {"admin", "leaver"}, InlineStamp(c, k)
      PROVE  ServedInv'
  BY <1>17 DEF InlineStamp, Stamp, Applied, Outcomes
<1>18. ASSUME NEW S \in Leavers, LeaverSelect(S)
      PROVE  ServedInv'
  BY <1>18 DEF LeaverSelect, Live
<1>19. ASSUME LeaverMark
      PROVE  ServedInv'
  <2>. SUFFICES ASSUME NEW j \in Keys PROVE Served(j)'
    OBVIOUS
  <2>. HIDE DEF TypeInv, TypeOK, CoupledInv, Coupled, ServedInv, Served, Settled
  <2>1. PICK S : RevokeRows(S) /\ \A i \in S : row[i] # "absent"
    BY <1>19 DEF LeaverMark, Live
  <2>2. UNCHANGED <<issue, scan, upstream>>
    BY <1>19 DEF LeaverMark, remote
  <2>3. /\ row'[j] = IF j \in S THEN "revoked" ELSE row[j]
        /\ cutShort[j] => cutShort'[j]
        /\ j \in S /\ ~cutShort'[j] => Settled(j)
    BY <2>1, RevokeRowsCutShort
  <2>4. revoke'["leaver"][j] = "fetched" => j \in leaving'
    BY <1>19 DEF LeaverMark, TypeInv, TypeOK
  <2>5. \A c \in {"admin", "leaver"} :
          /\ revoke'[c][j] # "idle" => revoke[c][j] # "idle"
          /\ revoke'[c][j] = "blocked" => revoke[c][j] = "blocked"
    BY <1>19 DEF LeaverMark, TypeInv, TypeOK
  <2>6. \A c \in {"admin", "leaver"} :
          revoke'[c][j] = "marked"
            => revoke[c][j] = "marked" \/ row'[j] = "revoked" \/ (Settled(j) /\ row'[j] = "absent")
    <3>1. CASE revoke["leaver"][j] = "fetched" /\ row[j] = "absent"
      <4>1. Settled(j)
        BY <3>1 DEF TypeInv, TypeOK, CoupledInv, Coupled, ServedInv, Served, Settled
      <4>2. row'[j] \in {"absent", "revoked"}
        BY <2>3, <3>1
      <4>. QED
        BY <4>1, <4>2
    <3>2. CASE revoke["leaver"][j] = "fetched" /\ row[j] # "absent"
      <4>1. j \in leaving /\ row[j] \in {"pending", "active", "revoked"}
        BY <3>2 DEF TypeInv, TypeOK, ServedInv, Served
      <4>2. revoke'["admin"] = revoke["admin"]
        BY <1>19 DEF LeaverMark, TypeInv, TypeOK
      <4>3. revoke'["leaver"][j] = "marked" => row'[j] = "revoked"
        BY <1>19, <4>1 DEF LeaverMark, RevokeRows, Acked, Applied, Live, TypeInv, TypeOK
      <4>. QED
        BY <4>2, <4>3
    <3>3. CASE revoke["leaver"][j] # "fetched"
      BY <1>19, <3>3 DEF LeaverMark, TypeInv, TypeOK
    <3>. QED
      BY <3>1, <3>2, <3>3
  <2>. QED
    BY <2>2, <2>3, <2>4, <2>5, <2>6 DEF ServedInv, Served, Settled
<1>20. ASSUME NEW S \in Subtrees, BulkRevoke(S)
      PROVE  ServedInv'
  BY <1>20 DEF BulkRevoke, RevokeRows, Live
<1>21. ASSUME Restart
      PROVE  ServedInv'
  BY <1>21 DEF Restart
<1>22. ASSUME UNCHANGED vars
      PROVE  ServedInv'
  BY <1>22 DEF vars
<1>. HIDE DEF TypeInv, TypeOK, CoupledInv, Coupled, ServedInv, Served, Settled, db, remote, actors
<1>. QED
  BY <1>1, <1>2, <1>3, <1>4, <1>5, <1>6, <1>7, <1>8, <1>9, <1>10, <1>11,
     <1>12, <1>13, <1>14, <1>15, <1>16, <1>17, <1>18, <1>19, <1>20, <1>21, <1>22 DEF Next, Work

LEMMA AlwaysServed == Spec => [](TypeInv /\ CoupledInv /\ ServedInv)
  BY AlwaysCoupled, InitServed, NextServed, PTL DEF Spec

\* A key whose plaintext was handed to a caller and that Edge accepts can be used
\* upstream, whatever cleanup, sweep, scan or other key's revocation does, unless its
\* own Issue call was overtaken by a revocation (keyissue.go, cleanup and BlockKey's callers).
THEOREM HandedOverServable == Spec => []HandedOverKeyIsServable
<1>1. TypeInv /\ CoupledInv /\ ServedInv => HandedOverKeyIsServable
  BY DEF TypeInv, TypeOK, CoupledInv, Coupled, ServedInv, Served, HandedOverKeyIsServable
<1>. QED
  BY <1>1, AlwaysServed, PTL

\* A revoked key whose Issue call has returned stays revoked: only MarkActive and
\* cleanup could change it, and neither runs for such a key any more.
THEOREM HandedOverRevocation == Spec => HandedOverRevocationIsFinal
<1>. DEFINE Final == \A k \in Keys : issue[k] = "returned" /\ row[k] = "revoked" => row'[k] = "revoked"
<1>1. TypeInv /\ CoupledInv /\ [Next]_vars => [Final]_vars
  <2>. SUFFICES ASSUME TypeInv, CoupledInv, [Next]_vars,
                       NEW j \in Keys, issue[j] = "returned", row[j] = "revoked"
                PROVE  row'[j] = "revoked"
    OBVIOUS
  <2>. USE DEF TypeInv, TypeOK, CoupledInv, Coupled, db
  <2>1. ASSUME NEW k \in Keys, CreatePending(k)
        PROVE  row'[j] = "revoked"
    BY <2>1 DEF CreatePending, Acked
  <2>2. ASSUME NEW k \in Keys, GenerateKey(k)
        PROVE  row'[j] = "revoked"
    BY <2>2 DEF GenerateKey, Applied, Acked, Outcomes
  <2>3. ASSUME NEW k \in Keys, GenerateTimesOut(k)
        PROVE  row'[j] = "revoked"
    BY <2>3 DEF GenerateTimesOut
  <2>4. ASSUME NEW k \in Keys, LateGenerate(k)
        PROVE  row'[j] = "revoked"
    BY <2>4 DEF LateGenerate
  <2>5. ASSUME NEW k \in Keys, MarkActive(k)
        PROVE  row'[j] = "revoked"
    BY <2>5 DEF MarkActive, Applied, Acked, Outcomes
  <2>6. ASSUME NEW k \in Keys, SweepList(k)
        PROVE  row'[j] = "revoked"
    BY <2>6 DEF SweepList, IssueRunning
  <2>7. ASSUME NEW k \in Keys, RevokeFetch(k)
        PROVE  row'[j] = "revoked"
    BY <2>7 DEF RevokeFetch
  <2>8. ASSUME NEW k \in Keys, RevokeMark(k)
        PROVE  row'[j] = "revoked"
    BY <2>8 DEF RevokeMark, RevokeRows, Applied, Acked, Outcomes
  <2>9. ASSUME NEW k \in Keys, ScanList(k)
        PROVE  row'[j] = "revoked"
    BY <2>9 DEF ScanList
  <2>10. ASSUME NEW k \in Keys, ScanBlock(k)
        PROVE  row'[j] = "revoked"
    BY <2>10 DEF ScanBlock, Applied, Acked, Outcomes
  <2>11. ASSUME NEW k \in Keys, ScanStamp(k)
        PROVE  row'[j] = "revoked"
    BY <2>11 DEF ScanStamp, Stamp, Applied, Outcomes
  <2>12. ASSUME NEW k \in Keys, ScanRecord(k)
        PROVE  row'[j] = "revoked"
    BY <2>12 DEF ScanRecord, Applied, Outcomes
  <2>13. ASSUME NEW k \in Keys, NEW c \in {"issue", "sweep"}, CleanupProbe(c, k)
        PROVE  row'[j] = "revoked"
    BY <2>13 DEF CleanupProbe
  <2>14. ASSUME NEW k \in Keys, NEW c \in {"issue", "sweep"}, CleanupRemove(c, k)
        PROVE  row'[j] = "revoked"
    BY <2>14 DEF CleanupRemove, Applied, Acked, Outcomes
  <2>15. ASSUME NEW k \in Keys, NEW c \in {"issue", "sweep"}, CleanupDrop(c, k)
        PROVE  row'[j] = "revoked"
    BY <2>15 DEF CleanupDrop
  <2>16. ASSUME NEW k \in Keys, NEW c \in {"admin", "leaver"}, InlineBlock(c, k)
        PROVE  row'[j] = "revoked"
    BY <2>16 DEF InlineBlock, Applied, Acked, Outcomes
  <2>17. ASSUME NEW k \in Keys, NEW c \in {"admin", "leaver"}, InlineStamp(c, k)
        PROVE  row'[j] = "revoked"
    BY <2>17 DEF InlineStamp, Stamp, Applied, Outcomes
  <2>18. ASSUME NEW S \in Leavers, LeaverSelect(S)
        PROVE  row'[j] = "revoked"
    BY <2>18 DEF LeaverSelect, Live
  <2>19. ASSUME LeaverMark
        PROVE  row'[j] = "revoked"
    BY <2>19 DEF LeaverMark, RevokeRows, Applied, Acked, Outcomes, Live
  <2>20. ASSUME NEW S \in Subtrees, BulkRevoke(S)
        PROVE  row'[j] = "revoked"
    BY <2>20 DEF BulkRevoke, RevokeRows, Live
  <2>21. ASSUME Restart
        PROVE  row'[j] = "revoked"
    BY <2>21 DEF Restart
  <2>22. ASSUME UNCHANGED vars
        PROVE  row'[j] = "revoked"
    BY <2>22 DEF vars
  <2>. QED
    BY <2>1, <2>2, <2>3, <2>4, <2>5, <2>6, <2>7, <2>8, <2>9, <2>10, <2>11,
       <2>12, <2>13, <2>14, <2>15, <2>16, <2>17, <2>18, <2>19, <2>20, <2>21, <2>22 DEF Next, Work
<1>. QED
  BY <1>1, AlwaysCoupled, PTL DEF Spec, HandedOverRevocationIsFinal

-----------------------------------------------------------------------------
(* No ownerless credential.                                                 *)

LEMMA InitOwned == Init => OwnedInv
<1>. SUFFICES ASSUME Init, NEW k \in Keys PROVE Owned(k)
  BY DEF OwnedInv
<1>1. upstream[k] = "absent" /\ \A c \in {"issue", "sweep"} : clean[c][k] = "idle"
  BY DEF Init
<1>. QED
  BY <1>1 DEF Owned

LEMMA NextOwned == TypeInv /\ CoupledInv /\ OwnedInv /\ [Next]_vars => OwnedInv'
<1>. SUFFICES ASSUME TypeInv, CoupledInv, OwnedInv, [Next]_vars PROVE OwnedInv'
  OBVIOUS
<1>. USE KeysAssumption DEF TypeInv, TypeOK, CoupledInv, Coupled, OwnedInv, Owned, db, remote, actors
<1>1. ASSUME NEW k \in Keys, CreatePending(k)
      PROVE  OwnedInv'
  BY <1>1 DEF CreatePending, Acked
<1>2. ASSUME NEW k \in Keys, GenerateKey(k)
      PROVE  OwnedInv'
  BY <1>2 DEF GenerateKey, Applied, Acked, Outcomes
<1>3. ASSUME NEW k \in Keys, GenerateTimesOut(k)
      PROVE  OwnedInv'
  BY <1>3 DEF GenerateTimesOut
<1>4. ASSUME NEW k \in Keys, LateGenerate(k)
      PROVE  OwnedInv'
  BY <1>4 DEF LateGenerate
<1>5. ASSUME NEW k \in Keys, MarkActive(k)
      PROVE  OwnedInv'
  BY <1>5 DEF MarkActive, Applied, Acked, Outcomes
<1>6. ASSUME NEW k \in Keys, SweepList(k)
      PROVE  OwnedInv'
  BY <1>6 DEF SweepList, IssueRunning
<1>7. ASSUME NEW k \in Keys, RevokeFetch(k)
      PROVE  OwnedInv'
  BY <1>7 DEF RevokeFetch
<1>8. ASSUME NEW k \in Keys, RevokeMark(k)
      PROVE  OwnedInv'
  BY <1>8 DEF RevokeMark, RevokeRows, Applied, Acked, Outcomes
<1>9. ASSUME NEW k \in Keys, ScanList(k)
      PROVE  OwnedInv'
  BY <1>9 DEF ScanList
<1>10. ASSUME NEW k \in Keys, ScanBlock(k)
      PROVE  OwnedInv'
  BY <1>10 DEF ScanBlock, Applied, Acked, Outcomes
<1>11. ASSUME NEW k \in Keys, ScanStamp(k)
      PROVE  OwnedInv'
  BY <1>11 DEF ScanStamp, Stamp, Applied, Outcomes
<1>12. ASSUME NEW k \in Keys, ScanRecord(k)
      PROVE  OwnedInv'
  BY <1>12 DEF ScanRecord, Applied, Outcomes
<1>13. ASSUME NEW k \in Keys, NEW c \in {"issue", "sweep"}, CleanupProbe(c, k)
      PROVE  OwnedInv'
  BY <1>13 DEF CleanupProbe
<1>14. ASSUME NEW k \in Keys, NEW c \in {"issue", "sweep"}, CleanupRemove(c, k)
      PROVE  OwnedInv'
  BY <1>14 DEF CleanupRemove, Applied, Acked, Outcomes
<1>15. ASSUME NEW k \in Keys, NEW c \in {"issue", "sweep"}, CleanupDrop(c, k)
      PROVE  OwnedInv'
  BY <1>15 DEF CleanupDrop
<1>16. ASSUME NEW k \in Keys, NEW c \in {"admin", "leaver"}, InlineBlock(c, k)
      PROVE  OwnedInv'
  BY <1>16 DEF InlineBlock, Applied, Acked, Outcomes
<1>17. ASSUME NEW k \in Keys, NEW c \in {"admin", "leaver"}, InlineStamp(c, k)
      PROVE  OwnedInv'
  BY <1>17 DEF InlineStamp, Stamp, Applied, Outcomes
<1>18. ASSUME NEW S \in Leavers, LeaverSelect(S)
      PROVE  OwnedInv'
  BY <1>18 DEF LeaverSelect, Live
<1>19. ASSUME LeaverMark
      PROVE  OwnedInv'
  BY <1>19 DEF LeaverMark, RevokeRows, Applied, Acked, Outcomes, Live
<1>20. ASSUME NEW S \in Subtrees, BulkRevoke(S)
      PROVE  OwnedInv'
  BY <1>20 DEF BulkRevoke, RevokeRows, Live
<1>21. ASSUME Restart
      PROVE  OwnedInv'
  BY <1>21 DEF Restart
<1>22. ASSUME UNCHANGED vars
      PROVE  OwnedInv'
  BY <1>22 DEF vars
<1>. QED
  BY <1>1, <1>2, <1>3, <1>4, <1>5, <1>6, <1>7, <1>8, <1>9, <1>10, <1>11,
     <1>12, <1>13, <1>14, <1>15, <1>16, <1>17, <1>18, <1>19, <1>20, <1>21, <1>22 DEF Next, Work

\* Unless LiteLLM executes a GenerateKey after its caller has given up on it, nothing
\* exists in LiteLLM that has no row in api_keys: not after any crash, any failed or
\* half-failed call, any race between Issue, cleanup, the sweep and revocations.
THEOREM NoOwnerless == Spec => []NoOwnerlessCredential
<1>1. Init => OwnedInv
  BY InitOwned
<1>2. TypeInv /\ CoupledInv /\ OwnedInv /\ [Next]_vars => OwnedInv'
  BY NextOwned
<1>3. OwnedInv => NoOwnerlessCredential
  BY DEF OwnedInv, Owned, NoOwnerlessCredential
<1>. QED
  BY <1>1, <1>2, <1>3, AlwaysCoupled, PTL DEF Spec

-----------------------------------------------------------------------------
(* Stamps.                                                                  *)

LEMMA InitTrusted == Init => TrustedInv
<1>. SUFFICES ASSUME Init, NEW k \in Keys PROVE Trusted(k)
  BY DEF TrustedInv
<1>1. /\ ~stamp[k] /\ scan[k] = "idle"
      /\ \A c \in {"admin", "leaver"} : revoke[c][k] = "idle"
  BY DEF Init
<1>. QED
  BY <1>1 DEF Trusted

LEMMA NextTrusted ==
  TypeInv /\ CoupledInv /\ ServedInv /\ OwnedInv /\ TrustedInv /\ [Next]_vars => TrustedInv'
<1>. SUFFICES ASSUME TypeInv, CoupledInv, ServedInv, OwnedInv, TrustedInv, [Next]_vars
              PROVE  TrustedInv'
  OBVIOUS
<1>. USE KeysAssumption
     DEF TypeInv, TypeOK, CoupledInv, Coupled, ServedInv, Served, OwnedInv, Owned,
         TrustedInv, Trusted, Settled, db, remote, actors
<1>1. ASSUME NEW k \in Keys, CreatePending(k)
      PROVE  TrustedInv'
  BY <1>1 DEF CreatePending, Acked
<1>2. ASSUME NEW k \in Keys, GenerateKey(k)
      PROVE  TrustedInv'
  BY <1>2 DEF GenerateKey, Applied, Acked, Outcomes
<1>3. ASSUME NEW k \in Keys, GenerateTimesOut(k)
      PROVE  TrustedInv'
  BY <1>3 DEF GenerateTimesOut
<1>4. ASSUME NEW k \in Keys, LateGenerate(k)
      PROVE  TrustedInv'
  BY <1>4 DEF LateGenerate
<1>5. ASSUME NEW k \in Keys, MarkActive(k)
      PROVE  TrustedInv'
  BY <1>5 DEF MarkActive, Applied, Acked, Outcomes
<1>6. ASSUME NEW k \in Keys, SweepList(k)
      PROVE  TrustedInv'
  BY <1>6 DEF SweepList, IssueRunning
<1>7. ASSUME NEW k \in Keys, RevokeFetch(k)
      PROVE  TrustedInv'
  BY <1>7 DEF RevokeFetch
<1>8. ASSUME NEW k \in Keys, RevokeMark(k)
      PROVE  TrustedInv'
  BY <1>8 DEF RevokeMark, RevokeRows, Applied, Acked, Outcomes
<1>9. ASSUME NEW k \in Keys, ScanList(k)
      PROVE  TrustedInv'
  BY <1>9 DEF ScanList
<1>10. ASSUME NEW k \in Keys, ScanBlock(k)
      PROVE  TrustedInv'
  BY <1>10 DEF ScanBlock, Applied, Acked, Outcomes
<1>11. ASSUME NEW k \in Keys, ScanStamp(k)
      PROVE  TrustedInv'
  BY <1>11 DEF ScanStamp, Stamp, Applied, Outcomes
<1>12. ASSUME NEW k \in Keys, ScanRecord(k)
      PROVE  TrustedInv'
  BY <1>12 DEF ScanRecord, Applied, Outcomes
<1>13. ASSUME NEW k \in Keys, NEW c \in {"issue", "sweep"}, CleanupProbe(c, k)
      PROVE  TrustedInv'
  BY <1>13 DEF CleanupProbe
<1>14. ASSUME NEW k \in Keys, NEW c \in {"issue", "sweep"}, CleanupRemove(c, k)
      PROVE  TrustedInv'
  BY <1>14 DEF CleanupRemove, Applied, Acked, Outcomes
<1>15. ASSUME NEW k \in Keys, NEW c \in {"issue", "sweep"}, CleanupDrop(c, k)
      PROVE  TrustedInv'
  BY <1>15 DEF CleanupDrop
<1>16. ASSUME NEW k \in Keys, NEW c \in {"admin", "leaver"}, InlineBlock(c, k)
      PROVE  TrustedInv'
  BY <1>16 DEF InlineBlock, Applied, Acked, Outcomes
<1>17. ASSUME NEW k \in Keys, NEW c \in {"admin", "leaver"}, InlineStamp(c, k)
      PROVE  TrustedInv'
  BY <1>17 DEF InlineStamp, Stamp, Applied, Outcomes
<1>18. ASSUME NEW S \in Leavers, LeaverSelect(S)
      PROVE  TrustedInv'
  BY <1>18 DEF LeaverSelect, Live
<1>19. ASSUME LeaverMark
      PROVE  TrustedInv'
  BY <1>19 DEF LeaverMark, RevokeRows, Applied, Acked, Outcomes, Live
<1>20. ASSUME NEW S \in Subtrees, BulkRevoke(S)
      PROVE  TrustedInv'
  BY <1>20 DEF BulkRevoke, RevokeRows, Live
<1>21. ASSUME Restart
      PROVE  TrustedInv'
  BY <1>21 DEF Restart
<1>22. ASSUME UNCHANGED vars
      PROVE  TrustedInv'
  BY <1>22 DEF vars
<1>. QED
  BY <1>1, <1>2, <1>3, <1>4, <1>5, <1>6, <1>7, <1>8, <1>9, <1>10, <1>11,
     <1>12, <1>13, <1>14, <1>15, <1>16, <1>17, <1>18, <1>19, <1>20, <1>21, <1>22 DEF Next, Work

\* A stamp on a key whose Issue call was not cut short by the revocation, and which
\* no late request made, means that the upstream key is unusable, whoever wrote the
\* stamp: the scan may forget about the key (keyissue.go, BlockPendingUpstream).
THEOREM StampsAreTrue == Spec => []StampMeansBlocked
<1>1. Init => OwnedInv /\ TrustedInv
  BY InitOwned, InitTrusted
<1>2. TypeInv /\ CoupledInv /\ ServedInv /\ OwnedInv /\ TrustedInv /\ [Next]_vars
         => OwnedInv' /\ TrustedInv'
  BY NextOwned, NextTrusted
<1>3. TrustedInv => StampMeansBlocked
  BY DEF TrustedInv, Trusted, StampMeansBlocked
<1>. QED
  BY <1>1, <1>2, <1>3, AlwaysServed, PTL DEF Spec

-----------------------------------------------------------------------------
(* A pass of the sweep, and of the scan.                                    *)

\* No call of the sweep or of the scan fails, and the process does not crash.
Unfailing ==
  /\ ~Restart
  /\ \A k \in Keys :
       /\ CleanupProbe("sweep", k) => clean'["sweep"][k] # "idle"
       /\ CleanupRemove("sweep", k) => clean'["sweep"][k] = "drop"
       /\ CleanupDrop("sweep", k) => row'[k] = "absent"
       /\ ScanBlock(k) => scan'[k] = "stamp"
       /\ ScanStamp(k) => row[k] = "absent" \/ stamp'[k]

\* The key had a row and has none any more.
Gone(k) == issue[k] # "none" /\ row[k] = "absent"

\* The sweep is at work on the key, or has removed it.
Sweeping(k) == issue[k] # "none" /\ (clean["sweep"][k] # "idle" \/ row[k] = "absent")

\* The scan is at work on the key, or has stamped it, or has nothing left to stamp.
Scanning(k) == issue[k] # "none" /\ (scan[k] \in {"listed", "stamp"} \/ stamp[k] \/ row[k] = "absent")

\* There is nothing left for the scan to do.
Shut(k) ==
  /\ Gone(k) \/ stamp[k]
  /\ ~cutShort[k] /\ ~late[k] => upstream[k] # "live"

SweepLeaves(k) ==
  \/ CleanupProbe("sweep", k) \/ CleanupRemove("sweep", k) \/ CleanupDrop("sweep", k) \/ Restart
ScanLeaves(k) == ScanBlock(k) \/ ScanStamp(k) \/ Restart

\* What any step may do to a key that has been issued: nobody brings back a row that
\* is gone, a stamp goes only with its row, and sweep and scan leave a key by
\* themselves.
LEMMA KeyStep ==
  ASSUME NEW k \in Keys
  PROVE  TypeInv /\ CoupledInv /\ issue[k] # "none" /\ [Next]_vars =>
           /\ issue'[k] # "none"
           /\ row[k] = "absent" => row'[k] = "absent"
           /\ stamp[k] => stamp'[k] \/ row'[k] = "absent"
           /\ clean["sweep"][k] # "idle" => clean'["sweep"][k] # "idle" \/ SweepLeaves(k)
           /\ scan[k] \in {"listed", "stamp"} => scan'[k] = scan[k] \/ ScanLeaves(k)
<1>. DEFINE Goal == /\ issue'[k] # "none"
                    /\ row[k] = "absent" => row'[k] = "absent"
                    /\ stamp[k] => stamp'[k] \/ row'[k] = "absent"
                    /\ clean["sweep"][k] # "idle" => clean'["sweep"][k] # "idle" \/ SweepLeaves(k)
                    /\ scan[k] \in {"listed", "stamp"} => scan'[k] = scan[k] \/ ScanLeaves(k)
<1>. SUFFICES ASSUME TypeInv, CoupledInv, issue[k] # "none", [Next]_vars PROVE Goal
  OBVIOUS
<1>. USE KeysAssumption DEF TypeInv, TypeOK, CoupledInv, Coupled, db, remote, actors
<1>1. ASSUME NEW q \in Keys, CreatePending(q) PROVE Goal
  BY <1>1 DEF CreatePending, Acked
<1>2. ASSUME NEW q \in Keys, GenerateKey(q) PROVE Goal
  BY <1>2 DEF GenerateKey, Applied, Acked, Outcomes
<1>3. ASSUME NEW q \in Keys, GenerateTimesOut(q) PROVE Goal
  BY <1>3 DEF GenerateTimesOut
<1>4. ASSUME NEW q \in Keys, LateGenerate(q) PROVE Goal
  BY <1>4 DEF LateGenerate
<1>5. ASSUME NEW q \in Keys, MarkActive(q) PROVE Goal
  BY <1>5 DEF MarkActive, Applied, Acked, Outcomes
<1>6. ASSUME NEW q \in Keys, SweepList(q) PROVE Goal
  BY <1>6 DEF SweepList, IssueRunning
<1>7. ASSUME NEW q \in Keys, RevokeFetch(q) PROVE Goal
  BY <1>7 DEF RevokeFetch
<1>8. ASSUME NEW q \in Keys, RevokeMark(q) PROVE Goal
  BY <1>8 DEF RevokeMark, RevokeRows, Applied, Acked, Outcomes
<1>9. ASSUME NEW q \in Keys, ScanList(q) PROVE Goal
  BY <1>9 DEF ScanList
<1>10. ASSUME NEW q \in Keys, ScanBlock(q) PROVE Goal
  BY <1>10 DEF ScanBlock, ScanLeaves, Applied, Acked, Outcomes
<1>11. ASSUME NEW q \in Keys, ScanStamp(q) PROVE Goal
  BY <1>11 DEF ScanStamp, ScanLeaves, Stamp, Applied, Outcomes
<1>12. ASSUME NEW q \in Keys, ScanRecord(q) PROVE Goal
  BY <1>12 DEF ScanRecord, Applied, Outcomes
<1>13. ASSUME NEW q \in Keys, NEW c \in {"issue", "sweep"}, CleanupProbe(c, q) PROVE Goal
  BY <1>13 DEF CleanupProbe, SweepLeaves
<1>14. ASSUME NEW q \in Keys, NEW c \in {"issue", "sweep"}, CleanupRemove(c, q) PROVE Goal
  <2>1. CASE c = "sweep" /\ q = k
    <3>1. SweepLeaves(k)
      BY <1>14, <2>1 DEF SweepLeaves
    <3>. QED
      BY <1>14, <2>1, <3>1 DEF CleanupRemove, Applied, Acked, Outcomes
  <2>2. CASE ~(c = "sweep" /\ q = k)
    <3>1. clean'["sweep"][k] = clean["sweep"][k]
      BY <1>14, <2>2 DEF CleanupRemove
    <3>. QED
      BY <1>14, <3>1 DEF CleanupRemove, Applied, Acked, Outcomes
  <2>. QED
    BY <2>1, <2>2
<1>15. ASSUME NEW q \in Keys, NEW c \in {"issue", "sweep"}, CleanupDrop(c, q) PROVE Goal
  <2>1. CASE c = "sweep" /\ q = k
    <3>1. SweepLeaves(k)
      BY <1>15, <2>1 DEF SweepLeaves
    <3>. QED
      BY <1>15, <2>1, <3>1 DEF CleanupDrop
  <2>2. CASE ~(c = "sweep" /\ q = k)
    <3>1. clean'["sweep"][k] = clean["sweep"][k]
      BY <1>15, <2>2 DEF CleanupDrop
    <3>. QED
      BY <1>15, <3>1 DEF CleanupDrop
  <2>. QED
    BY <2>1, <2>2
<1>16. ASSUME NEW q \in Keys, NEW c \in {"admin", "leaver"}, InlineBlock(c, q) PROVE Goal
  BY <1>16 DEF InlineBlock, Applied, Acked, Outcomes
<1>17. ASSUME NEW q \in Keys, NEW c \in {"admin", "leaver"}, InlineStamp(c, q) PROVE Goal
  BY <1>17 DEF InlineStamp, Stamp, Applied, Outcomes
<1>18. ASSUME NEW S \in Leavers, LeaverSelect(S) PROVE Goal
  BY <1>18 DEF LeaverSelect, Live
<1>19. ASSUME LeaverMark PROVE Goal
  BY <1>19 DEF LeaverMark, RevokeRows, Applied, Acked, Outcomes, Live
<1>20. ASSUME NEW S \in Subtrees, BulkRevoke(S) PROVE Goal
  BY <1>20 DEF BulkRevoke, RevokeRows, Live
<1>21. ASSUME Restart PROVE Goal
  BY <1>21 DEF Restart, SweepLeaves, ScanLeaves
<1>22. ASSUME UNCHANGED vars PROVE Goal
  BY <1>22 DEF vars
<1>. QED
  BY <1>1, <1>2, <1>3, <1>4, <1>5, <1>6, <1>7, <1>8, <1>9, <1>10, <1>11,
     <1>12, <1>13, <1>14, <1>15, <1>16, <1>17, <1>18, <1>19, <1>20, <1>21, <1>22 DEF Next, Work

LEMMA NextSweeping ==
  ASSUME NEW k \in Keys
  PROVE  TypeInv /\ CoupledInv /\ Sweeping(k) /\ [Next]_vars /\ [Unfailing]_vars => Sweeping(k)'
<1>. SUFFICES ASSUME TypeInv, CoupledInv, Sweeping(k), [Next]_vars, [Unfailing]_vars PROVE Sweeping(k)'
  OBVIOUS
<1>1. issue'[k] # "none" /\ (row[k] = "absent" => row'[k] = "absent")
  BY KeyStep DEF Sweeping
<1>2. ASSUME clean["sweep"][k] # "idle", clean'["sweep"][k] = "idle"
      PROVE  row'[k] = "absent"
  <2>1. SweepLeaves(k)
    BY <1>2, KeyStep DEF Sweeping
  <2>2. Unfailing
    BY <1>2 DEF vars
  <2>. QED
    BY <1>2, <2>1, <2>2 DEF SweepLeaves, Unfailing
<1>. QED
  BY <1>1, <1>2 DEF Sweeping

LEMMA NextScanning ==
  ASSUME NEW k \in Keys
  PROVE  TypeInv /\ CoupledInv /\ Scanning(k) /\ [Next]_vars /\ [Unfailing]_vars => Scanning(k)'
<1>. SUFFICES ASSUME TypeInv, CoupledInv, Scanning(k), [Next]_vars, [Unfailing]_vars PROVE Scanning(k)'
  OBVIOUS
<1>1. /\ issue'[k] # "none"
      /\ row[k] = "absent" => row'[k] = "absent"
      /\ stamp[k] => stamp'[k] \/ row'[k] = "absent"
  BY KeyStep DEF Scanning
<1>2. ASSUME scan[k] \in {"listed", "stamp"}, scan'[k] \notin {"listed", "stamp"}
      PROVE  stamp'[k] \/ row'[k] = "absent"
  <2>1. ScanLeaves(k)
    BY <1>2, KeyStep DEF Scanning
  <2>2. Unfailing
    BY <1>2 DEF vars
  <2>3. scan'[k] = "stamp" \/ stamp'[k] \/ row[k] = "absent"
    BY <2>1, <2>2 DEF ScanLeaves, Unfailing
  <2>. QED
    BY <1>1, <1>2, <2>3
<1>. QED
  BY <1>1, <1>2 DEF Scanning

\* A row the sweep has listed is gone when the sweep is done with it, and a revoked key
\* the scan has listed is stamped, or gone, and unusable upstream - for good, whatever
\* handlers, revocations and late requests do meanwhile - unless a call of theirs fails
\* or the process crashes (keyissue.go, CleanupStalePending, BlockPendingUpstream).
LoopsHeal(k) ==
  /\ [](clean["sweep"][k] = "probe" /\ [][Unfailing]_vars =>
          [](clean["sweep"][k] = "idle" => []Gone(k)))
  /\ [](row[k] = "revoked" /\ scan[k] = "listed" /\ [][Unfailing]_vars =>
          [](scan[k] = "idle" => []Shut(k)))

THEOREM LoopsDoHeal ==
  ASSUME NEW k \in Keys
  PROVE  Spec => LoopsHeal(k)
<1>. DEFINE Inv == TypeInv /\ CoupledInv /\ ServedInv /\ OwnedInv /\ TrustedInv
            Over == issue[k] # "none" /\ (row[k] = "absent" \/ stamp[k])
<1>1. Init => Inv
  BY InitTypeInv, InitCoupled, InitServed, InitOwned, InitTrusted
<1>2. Inv /\ [Next]_vars => Inv'
  BY NextTypeInv, NextCoupled, NextServed, NextOwned, NextTrusted
<1>3. Inv /\ clean["sweep"][k] = "probe" => Sweeping(k)
  BY DEF CoupledInv, Coupled, Sweeping
<1>4. Sweeping(k) /\ clean["sweep"][k] = "idle" => Gone(k)
  BY DEF Sweeping, Gone
<1>5. Inv /\ Sweeping(k) /\ [Next]_vars /\ [Unfailing]_vars => Sweeping(k)'
  BY NextSweeping
<1>6. Inv /\ Gone(k) /\ [Next]_vars => Gone(k)'
  BY KeyStep DEF Gone
<1>7. Inv /\ row[k] = "revoked" /\ scan[k] = "listed" => Scanning(k)
  BY DEF CoupledInv, Coupled, Scanning
<1>8. Scanning(k) /\ scan[k] = "idle" => Over
  BY DEF Scanning
<1>9. Inv /\ Scanning(k) /\ [Next]_vars /\ [Unfailing]_vars => Scanning(k)'
  BY NextScanning
<1>10. Inv /\ Over /\ [Next]_vars => Over'
  BY KeyStep
<1>11. Inv /\ Over => Shut(k)
  BY DEF OwnedInv, Owned, TrustedInv, Trusted, Shut, Gone
<1>. HIDE DEF Inv, Over
<1>. QED
  BY <1>1, <1>2, <1>3, <1>4, <1>5, <1>6, <1>7, <1>8, <1>9, <1>10, <1>11, PTL DEF Spec, LoopsHeal
=============================================================================
