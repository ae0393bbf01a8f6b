--------------------------- MODULE GatewayProofs ---------------------------
(***************************************************************************)
(* What TLAPS proves of Accounts, Gateway and Pricing, for any number of   *)
(* people, seats, calls and failures, any window, word and prices.         *)
(***************************************************************************)
EXTENDS Gateway, FiniteSetTheorems, WellFoundedInduction, TLAPS

-----------------------------------------------------------------------------
(* The invariant.                                                           *)

Directories == {"none", "enabled", "local", "disabled", "deleted"}
Statuses == {"none", "active", "disabled"}

Stages == {"idle", "done", "asked", "rotated", "known", "new", "admitted", "stored", "counted", "entering",
           "pending", "failed"}

CallRecord ==
  [at : Stages, op : {"none", "login", "issue", "rotate"}, who : People \cup {None}, calm : BOOLEAN, gen : Nat, asked : Int]

\* A call that stands somewhere is about a person; one that asks for a window asks for one
\* within the limit.
CallSet ==
  {c \in CallRecord :
     /\ c.op # "none" => c.who \in People
     /\ c.at = "asked" => c.op = "rotate" /\ Window(c.asked) \in 0..MaxWindow}

KeyRecord == [status : {"none", "pending", "active", "revoked"}, hash : Nat, prev : Nat, until : Int, expires : Nat]
RoundRecord ==
  [at : {"wait", "fetched", "listed", "marked", "revoked"}, remote : SUBSET People, todo : SUBSET People, new : SUBSET People]
Rotations == Seq([at : Nat, window : Int])

TypeOK ==
  /\ directory \in [People -> Directories]
  /\ user \in [People -> Statuses]
  /\ admins \subseteq People
  /\ call \in [Ids -> CallSet]
  /\ round \in RoundRecord
  /\ key \in [People -> KeyRecord]
  /\ now \in Nat
  /\ rotations \in [People -> Rotations]
  /\ proxied = [c \in Ids |-> proxied[c]]

\* What has an account or logs in has been in the company.
Known ==
  /\ \A p \in People : user[p] # "none" => directory[p] # "none"
  /\ \A i \in Ids : call[i].op = "login" => directory[call[i].who] # "none"

\* What a login has counted still holds, unless another has written since.
CountsHold ==
  \A i \in Ids :
    /\ At(i, "login", "admitted") /\ user[call[i].who] = "none" /\ call[i].calm => Cardinality(Active) < Seats
    /\ At(i, "login", "counted") => call[i].who \in Bootstrap /\ (call[i].calm => ActiveAdmins = {})

\* Whom a round passes over or is about to disable although the directory lists him by now
\* has joined while it was reading.
RoundIsRight ==
  /\ round.at = "fetched" => \A p \in Listed : user[p] # "none" /\ p \notin round.remote => p \in round.new
  /\ round.at = "listed" => \A p \in round.todo : user[p] = "active" /\ (p \in Listed => p \in round.new)

AccountsInv == TypeOK /\ Known /\ CountsHold /\ RoundIsRight

-----------------------------------------------------------------------------
(* Types.                                                                   *)

LEMMA CallGoes ==
  ASSUME NEW c \in CallSet, NEW s \in Stages \ {"asked"}, NEW b \in BOOLEAN
  PROVE  /\ [c EXCEPT !.at = s] \in CallSet
         /\ [c EXCEPT !.at = s, !.calm = b] \in CallSet
  BY DEF CallSet, CallRecord

LEMMA Settled == NoCall \in CallSet /\ Over \in CallSet /\ NoCall.at = "idle" /\ NoCall.op = "none" /\ Over.at = "done" /\ Over.op = "none"
<1>1. NoCall \in CallSet /\ NoCall.at = "idle" /\ NoCall.op = "none"
  BY DEF NoCall, CallSet, CallRecord, Stages
<1>2. Over \in CallSet
  BY <1>1, CallGoes DEF Over, Stages
<1>3. Over.at = "done" /\ Over.op = "none"
  BY <1>1 DEF Over, CallSet, CallRecord
<1>. QED
  BY <1>1, <1>2, <1>3

LEMMA CallsGo ==
  ASSUME call \in [Ids -> CallSet], NEW i \in Ids, NEW next \in CallSet
  PROVE  /\ Ends(i) => call' \in [Ids -> CallSet]
         /\ Overtakes(i, next) => call' \in [Ids -> CallSet]
<1>1. ASSUME NEW c \in CallSet
      PROVE  [c EXCEPT !.calm = FALSE] \in CallSet
  BY <1>1 DEF CallSet, CallRecord
<1>. QED
  BY <1>1, Settled DEF Ends, Overtakes

LEMMA RoundsRest == Resting \in RoundRecord /\ Resting.at = "wait"
  BY DEF Resting, RoundRecord

LEMMA RoundsGo ==
  ASSUME round \in RoundRecord, NEW S \in SUBSET People
  PROVE  /\ [Resting EXCEPT !.at = "fetched", !.remote = S] \in RoundRecord
         /\ [round EXCEPT !.at = "listed", !.todo = S] \in RoundRecord
  BY RoundsRest DEF RoundRecord

LEMMA FieldsStay ==
  ASSUME NEW row \in KeyRecord
  PROVE  /\ \A n \in Nat : [row EXCEPT !.hash = n] \in KeyRecord /\ [row EXCEPT !.prev = n] \in KeyRecord
         /\ \A t \in Int : [row EXCEPT !.until = t] \in KeyRecord
  BY DEF KeyRecord

LEMMA KeysStay ==
  ASSUME now \in Nat, NEW row \in KeyRecord
  PROVE  /\ [row EXCEPT !.prev = 0, !.until = 0] \in KeyRecord
         /\ \A window \in Int : Rotated(row, window) \in KeyRecord
<1>1. [row EXCEPT !.prev = 0, !.until = 0] \in KeyRecord
  <2>1. 0 \in Nat /\ 0 \in Int
    OBVIOUS
  <2>2. [row EXCEPT !.prev = 0] \in KeyRecord
    BY <2>1, FieldsStay
  <2>. QED
    BY <2>1, <2>2, FieldsStay, Zenon
<1>2. ASSUME NEW window \in Int
      PROVE  [row EXCEPT !.hash = @ + 1, !.prev = row.hash, !.until = now + window] \in KeyRecord
  <2>1. row.hash \in Nat /\ row.hash + 1 \in Nat /\ now + window \in Int
    BY DEF KeyRecord
  <2>2. [row EXCEPT !.hash = @ + 1] \in KeyRecord
    BY <2>1, FieldsStay
  <2>3. [row EXCEPT !.hash = @ + 1, !.prev = row.hash] \in KeyRecord
    BY <2>1, <2>2, FieldsStay
  <2>. QED
    BY <2>1, <2>3, FieldsStay
<1>. QED
  BY <1>1, <1>2 DEF Rotated

LEMMA InitTypeOK == GatewayInit => TypeOK
<1>. SUFFICES ASSUME GatewayInit PROVE TypeOK
  OBVIOUS
<1>. USE DEF GatewayInit, AccountsInit
<1>1. PICK s \in Starts : directory = s.directory /\ user = s.user /\ admins = s.admins /\ session = s.session /\ key = s.key
  OBVIOUS
<1>2. directory \in [People -> Directories] /\ user \in [People -> Statuses] /\ admins \subseteq People
  BY <1>1, StartsAssumption DEF Directories, Statuses
<1>3. key \in [People -> KeyRecord]
  <2>1. s.key \in [People -> [status : {"none", "active", "revoked"}, hash : {1, 2}, prev : {0, 1}, until : Nat, expires : Nat]]
    BY <1>1, KeysAssumption
  <2>2. ASSUME NEW row \in [status : {"none", "active", "revoked"}, hash : {1, 2}, prev : {0, 1}, until : Nat, expires : Nat]
        PROVE  row \in KeyRecord
    BY DEF KeyRecord
  <2>. QED
    BY <1>1, <2>1, <2>2
<1>4. call \in [Ids -> CallSet]
  BY Settled
<1>5. round \in RoundRecord
  BY DEF Resting, RoundRecord
<1>6. rotations \in [People -> Rotations]
  <2>1. ASSUME NEW p \in People
        PROVE  (IF key[p].prev = 0 THEN <<>> ELSE <<[at |-> 0, window |-> key[p].until]>>) \in Rotations
    <3>1. key[p].until \in Int
      BY <1>3 DEF KeyRecord
    <3>2. [at |-> 0, window |-> key[p].until] \in [at : Nat, window : Int]
      BY <3>1
    <3>3. <<[at |-> 0, window |-> key[p].until]>> \in Seq([at : Nat, window : Int])
      BY <3>2
    <3>4. <<>> \in Seq([at : Nat, window : Int])
      OBVIOUS
    <3>. QED
      BY <3>3, <3>4 DEF Rotations
  <2>. QED
    BY <2>1
<1>7. now \in Nat /\ proxied = [c \in Ids |-> proxied[c]]
  OBVIOUS
<1>. QED
  BY <1>2, <1>3, <1>4, <1>5, <1>6, <1>7 DEF TypeOK

LEMMA NextTypeOK == TypeOK /\ [GatewayNext]_gatewayVars => TypeOK'
<1>. SUFFICES ASSUME TypeOK, [GatewayNext]_gatewayVars PROVE TypeOK'
  OBVIOUS
<1>. USE DEF TypeOK, accounts, accountVars
<1>a. ASSUME NEW i \in Ids, Ends(i)
      PROVE  call' \in [Ids -> CallSet]
  BY <1>a, CallsGo, Settled
<1>b. ASSUME NEW i \in Ids, NEW s \in Stages \ {"asked"}, NEW b \in BOOLEAN,
             \/ call' = [call EXCEPT ![i].at = s]
             \/ call' = [call EXCEPT ![i].at = s, ![i].calm = b]
      PROVE  call' \in [Ids -> CallSet]
  <2>1. PICK next \in CallSet : call' = [call EXCEPT ![i] = next]
    <3>1. [call[i] EXCEPT !.at = s] \in CallSet /\ [call[i] EXCEPT !.at = s, !.calm = b] \in CallSet
      BY CallGoes
    <3>2. \/ call' = [call EXCEPT ![i] = [call[i] EXCEPT !.at = s]]
          \/ call' = [call EXCEPT ![i] = [call[i] EXCEPT !.at = s, !.calm = b]]
      BY <1>b
    <3>. QED
      BY <3>1, <3>2
  <2>. QED
    BY <2>1
<1>1. ASSUME NEW i \in Ids, NEW p \in People, Exchange(i, p), UNCHANGED <<now, rotations, proxied>>
      PROVE  TypeOK'
  <2>1. [NoCall EXCEPT !.at = "known", !.op = "login", !.who = p] \in CallSet
    BY Settled DEF CallSet, CallRecord, Stages
  <2>. QED
    BY <1>1, <2>1 DEF Exchange
<1>2. ASSUME NEW i \in Ids, ByExternalID(i), UNCHANGED <<now, rotations, proxied>>
      PROVE  TypeOK'
  <2>1. call' \in [Ids -> CallSet]
    BY <1>2, <1>a, <1>b DEF ByExternalID, Goes, Stages
  <2>. QED
    BY <1>2, <2>1 DEF ByExternalID
<1>3. ASSUME NEW i \in Ids, AdmitNewUser(i), UNCHANGED <<now, rotations, proxied>>
      PROVE  TypeOK'
  <2>1. call' \in [Ids -> CallSet]
    BY <1>3, <1>a, <1>b DEF AdmitNewUser, Stages
  <2>. QED
    BY <1>3, <2>1 DEF AdmitNewUser
<1>4. ASSUME NEW i \in Ids, Upsert(i), UNCHANGED <<now, rotations, proxied>>
      PROVE  TypeOK'
  <2>1. call[i].who \in People
    BY <1>4 DEF Upsert, At, CallSet
  <2>2. user' \in [People -> Statuses] /\ round' \in RoundRecord
    BY <1>4, <2>1 DEF Upsert, Statuses, RoundRecord
  <2>3. call' \in [Ids -> CallSet]
    <3>1. [call[i] EXCEPT !.at = "stored"] \in CallSet
      BY CallGoes DEF Stages
    <3>. QED
      BY <1>4, <1>b, <3>1, CallsGo DEF Upsert, Goes, Stages
  <2>. QED
    BY <1>4, <2>2, <2>3 DEF Upsert
<1>5. ASSUME NEW i \in Ids, CountGlobalGrants(i), UNCHANGED <<now, rotations, proxied>>
      PROVE  TypeOK'
  <2>1. call' \in [Ids -> CallSet]
    BY <1>5, <1>b DEF CountGlobalGrants, Stages
  <2>. QED
    BY <1>5, <2>1 DEF CountGlobalGrants
<1>6. ASSUME NEW i \in Ids, GrantBootstrapAdmin(i), UNCHANGED <<now, rotations, proxied>>
      PROVE  TypeOK'
  <2>1. call[i].who \in People
    BY <1>6 DEF GrantBootstrapAdmin, At, CallSet
  <2>2. [call[i] EXCEPT !.at = "entering"] \in CallSet
    BY CallGoes DEF Stages
  <2>3. call' \in [Ids -> CallSet]
    BY <1>6, <2>2, CallsGo DEF GrantBootstrapAdmin
  <2>. QED
    BY <1>6, <2>1, <2>3 DEF GrantBootstrapAdmin
<1>7. ASSUME NEW i \in Ids, CreateSession(i) \/ LoginFails(i) \/ (\E s \in session : HandleLogout(i, s)) \/ Expire(i),
             UNCHANGED <<now, rotations, proxied>>
      PROVE  TypeOK'
  BY <1>7, <1>a DEF CreateSession, LoginFails, HandleLogout, Expire
<1>8. ASSUME NEW i \in Ids, NEW p \in People, Joins(i, p) \/ Leaves(i, p), UNCHANGED <<now, rotations, proxied>>
      PROVE  TypeOK'
  <2>1. directory' \in [People -> Directories]
    BY <1>8 DEF Joins, Leaves, Directories
  <2>. QED
    BY <1>8, <1>a, <2>1 DEF Joins, Leaves
<1>9. ASSUME FetchRemote \/ ListActive, UNCHANGED <<now, rotations, proxied>>
      PROVE  TypeOK'
  <2>1. Listed \in SUBSET People /\ ToDisable \in SUBSET People
    BY DEF Listed, ToDisable, Active
  <2>2. round' \in RoundRecord
    BY <1>9, <2>1, RoundsRest, RoundsGo DEF FetchRemote, ListActive
  <2>. QED
    BY <1>9, <2>2 DEF FetchRemote, ListActive
<1>10. ASSUME MarkDisabled, UNCHANGED <<now, rotations, proxied>>
      PROVE  TypeOK'
  <2>1. round' \in RoundRecord /\ user' \in [People -> Statuses]
    BY <1>10 DEF MarkDisabled, Statuses, RoundRecord
  <2>. QED
    BY <1>10, <2>1 DEF MarkDisabled
<1>11. ASSUME RevokeByUsers, UNCHANGED <<now, rotations, proxied>>
      PROVE  TypeOK'
  <2>1. round' \in RoundRecord
    BY <1>11 DEF RevokeByUsers, RoundRecord
  <2>2. key' \in [People -> KeyRecord]
    BY <1>11 DEF RevokeByUsers, KeyRecord
  <2>. QED
    BY <1>11, <2>1, <2>2 DEF RevokeByUsers
<1>12. ASSUME DeleteByUser \/ RoundFails, UNCHANGED <<now, rotations, proxied>>
      PROVE  TypeOK'
  <2>1. round' \in RoundRecord
    <3>1. CASE DeleteByUser
      <4>1. PICK p \in round.todo : round' = IF round.todo = {p} THEN Resting ELSE [round EXCEPT !.todo = @ \ {p}]
        BY <3>1 DEF DeleteByUser
      <4>2. [round EXCEPT !.todo = @ \ {p}] \in RoundRecord
        BY DEF RoundRecord
      <4>. QED
        BY <4>1, <4>2, RoundsRest
    <3>2. CASE RoundFails
      BY <3>2, RoundsRest DEF RoundFails
    <3>. QED
      BY <1>12, <3>1, <3>2
  <2>. QED
    BY <1>12, <2>1 DEF DeleteByUser, RoundFails
<1>13. ASSUME RestartControl, UNCHANGED <<now, rotations, proxied>>
      PROVE  TypeOK'
  <2>1. round' \in RoundRecord
    BY <1>13, RoundsRest DEF RestartControl
  <2>2. call' \in [Ids -> CallSet]
    BY <1>13, Settled DEF RestartControl
  <2>. QED
    BY <1>13, <2>1, <2>2 DEF RestartControl
<1>14. ASSUME NEW i \in Ids, NEW s \in session, NEW p \in People, NEW asked \in Asked, HandleRotate(i, s, p, asked)
      PROVE  TypeOK'
  <2>1. asked \in Int
    BY GatewayAssumption
  <2>2. [NoCall EXCEPT !.at = "asked", !.op = "rotate", !.who = p, !.asked = asked] \in CallSet
    BY <1>14, <2>1, Settled DEF HandleRotate, CallSet, CallRecord, Stages
  <2>. QED
    BY <1>14, <2>2 DEF HandleRotate
<1>15. ASSUME NEW i \in Ids, Rotate(i)
      PROVE  TypeOK'
  <2>1. call[i].who \in People /\ Window(call[i].asked) \in 0..MaxWindow /\ 0..MaxWindow \subseteq Int
    BY <1>15, GatewayAssumption DEF Rotate, At, CallSet
  <2>2. key' \in [People -> KeyRecord]
    <3>1. Rotated(key[call[i].who], Window(call[i].asked)) \in KeyRecord
      BY <2>1, KeysStay
    <3>. QED
      BY <1>15, <2>1, <3>1 DEF Rotate
  <2>3. rotations' \in [People -> Rotations]
    <3>1. [at |-> now, window |-> Window(call[i].asked)] \in [at : Nat, window : Int]
      BY <2>1
    <3>2. ASSUME NEW r \in Rotations
          PROVE  Append(r, [at |-> now, window |-> Window(call[i].asked)]) \in Rotations
      BY <3>1, <3>2 DEF Rotations
    <3>3. rotations[call[i].who] \in Rotations
      BY <2>1
    <3>4. CASE UNCHANGED rotations
      BY <3>4
    <3>5. CASE rotations' = [rotations EXCEPT ![call[i].who] = Append(@, [at |-> now, window |-> Window(call[i].asked)])]
      BY <3>2, <3>3, <3>5
    <3>. QED
      BY <1>15, <3>4, <3>5 DEF Rotate
  <2>4. call' \in [Ids -> CallSet]
    <3>1. key[call[i].who].hash + 1 \in Nat
      BY <2>1 DEF KeyRecord
    <3>2. [call[i] EXCEPT !.at = "rotated", !.gen = key[call[i].who].hash + 1] \in CallSet
      BY <3>1 DEF CallSet, CallRecord, Stages
    <3>3. CASE Ends(i)
      BY <3>3, <1>a
    <3>4. CASE call' = [call EXCEPT ![i].at = "rotated", ![i].gen = key[call[i].who].hash + 1]
      BY <3>2, <3>4
    <3>. QED
      BY <1>15, <3>3, <3>4 DEF Rotate
  <2>. QED
    BY <1>15, <2>2, <2>3, <2>4 DEF Rotate
<1>16. ASSUME NEW i \in Ids, RotateAnswered(i)
      PROVE  TypeOK'
  BY <1>16, <1>a DEF RotateAnswered
<1>17. ASSUME RetireExpiredPrevKeys
      PROVE  TypeOK'
  <2>1. key' \in [People -> KeyRecord]
    <3>1. ASSUME NEW p \in People
          PROVE  [key[p] EXCEPT !.prev = 0, !.until = 0] \in KeyRecord
      <4>1. key[p] \in KeyRecord /\ now \in Nat
        OBVIOUS
      <4>. QED
        BY <4>1, KeysStay, Zenon
    <3>. QED
      BY <1>17, <3>1 DEF RetireExpiredPrevKeys
  <2>. QED
    BY <1>17, <2>1 DEF RetireExpiredPrevKeys
<1>18. ASSUME NEW c \in Ids, NEW p \in People, NEW request \in Requests, NEW gen \in 1..key[p].hash, Authenticate(c, p, gen, request)
      PROVE  TypeOK'
  BY <1>18, <1>a DEF Authenticate
<1>19. ASSUME NEW c \in Ids, ServeHTTP(c) \/ Write(c) \/ RestartEdge(c)
      PROVE  TypeOK'
  BY <1>19 DEF ServeHTTP, Write, RestartEdge
<1>20. ASSUME Tick
      PROVE  TypeOK'
  BY <1>20 DEF Tick
<1>20a. ASSUME NEW i \in Ids, NEW s \in session, NEW p \in People, HandleIssue(i, s, p)
        PROVE  TypeOK'
  <2>1. [NoCall EXCEPT !.at = "pending", !.op = "issue", !.who = p] \in CallSet
    BY Settled DEF CallSet, CallRecord, Stages
  <2>2a. <<>> \in Rotations
    BY DEF Rotations
  <2>2b. NoKey \in KeyRecord
    BY DEF NoKey, KeyRecord
  <2>2c. [NoKey EXCEPT !.status = "pending"] \in KeyRecord
    BY <2>2b DEF KeyRecord
  <2>2. [NoKey EXCEPT !.status = "pending"] \in KeyRecord /\ <<>> \in Rotations
    BY <2>2a, <2>2c
  <2>3. call' \in [Ids -> CallSet]
    BY <1>20a, <2>1 DEF HandleIssue
  <2>4. key' \in [People -> KeyRecord] /\ rotations' \in [People -> Rotations]
    BY <1>20a, <2>2 DEF HandleIssue
  <2>. QED
    BY <1>20a, <2>3, <2>4 DEF HandleIssue
<1>20b. ASSUME NEW i \in Ids, MarkActive(i)
        PROVE  TypeOK'
  <2>1. key' \in [People -> KeyRecord]
    <3>1. \A row \in KeyRecord : [row EXCEPT !.status = "active"] \in KeyRecord
      BY DEF KeyRecord
    <3>2. PICK p \in People : key' = key \/ key' = [key EXCEPT ![p].status = "active"]
      BY <1>20b DEF MarkActive, At, CallSet
    <3>3. key' = key \/ key' = [key EXCEPT ![p] = [key[p] EXCEPT !.status = "active"]]
      BY <3>2
    <3>4. [key[p] EXCEPT !.status = "active"] \in KeyRecord
      BY <3>1
    <3>. QED
      BY <3>3, <3>4
  <2>2. call' \in [Ids -> CallSet]
    BY <1>20b, <1>a, <1>b DEF MarkActive, Goes, Stages
  <2>. QED
    BY <1>20b, <2>1, <2>2 DEF MarkActive
<1>20c. ASSUME NEW i \in Ids, Cleanup(i)
        PROVE  TypeOK'
  <2>1. NoKey \in KeyRecord /\ <<>> \in Rotations
    BY DEF NoKey, KeyRecord, Rotations
  <2>2. key' \in [People -> KeyRecord] /\ rotations' \in [People -> Rotations]
    BY <1>20c, <2>1 DEF Cleanup
  <2>. QED
    BY <1>20c, <1>a, <2>2 DEF Cleanup
<1>21. ASSUME UNCHANGED gatewayVars
      PROVE  TypeOK'
  BY <1>21 DEF gatewayVars
<1>22. ASSUME AccountsNext, UNCHANGED <<now, rotations, proxied>>
      PROVE  TypeOK'
  BY <1>22, <1>1, <1>2, <1>3, <1>4, <1>5, <1>6, <1>7, <1>8, <1>9, <1>10, <1>11, <1>12, <1>13
     DEF AccountsNext, LoginStep, Event, ReconcilerStep
<1>. QED
  BY <1>14, <1>15, <1>16, <1>17, <1>18, <1>19, <1>20, <1>20a, <1>20b, <1>20c, <1>21, <1>22
     DEF GatewayNext, IssueStep, RotateStep, EdgeStep

-----------------------------------------------------------------------------
(* What a login has counted, and whom a round disables.                     *)

LEMMA CallFields ==
  ASSUME call \in [Ids -> CallSet], NEW i \in Ids, NEW s, NEW b \in BOOLEAN,
         \/ call' = [call EXCEPT ![i].at = s]
         \/ call' = [call EXCEPT ![i].at = s, ![i].calm = b]
  PROVE  /\ call'[i].at = s /\ call'[i].op = call[i].op /\ call'[i].who = call[i].who
         /\ call'[i].calm \in {b, call[i].calm}
         /\ \A j \in Ids \ {i} : call'[j] = call[j]
  BY DEF CallSet, CallRecord

LEMMA OvertakenFields ==
  ASSUME call \in [Ids -> CallSet], NEW i \in Ids, NEW s, Overtakes(i, [call[i] EXCEPT !.at = s])
  PROVE  /\ call'[i].at = s /\ call'[i].op = call[i].op /\ call'[i].who = call[i].who
         /\ \A j \in Ids \ {i} :
              /\ call'[j].at = call[j].at /\ call'[j].op = call[j].op /\ call'[j].who = call[j].who
              /\ call[j].op = "login" => ~call'[j].calm
<1>1. call'[i] = [call[i] EXCEPT !.at = s]
  BY DEF Overtakes
<1>2. \A j \in Ids \ {i} : call'[j] = IF call[j].op = "login" THEN [call[j] EXCEPT !.calm = FALSE] ELSE call[j]
  BY DEF Overtakes
<1>. QED
  BY <1>1, <1>2 DEF CallSet, CallRecord

\* Fewer active users are no more of them.
LEMMA FewerActive ==
  ASSUME TypeOK, TypeOK', Active' \subseteq Active, Cardinality(Active) < Seats
  PROVE  Cardinality(Active') < Seats
<1>1. IsFiniteSet(Active) /\ IsFiniteSet(Active')
  BY AccountsAssumption, FS_Subset DEF Active
<1>2. Cardinality(Active') <= Cardinality(Active) /\ Cardinality(Active) \in Nat /\ Cardinality(Active') \in Nat
  BY <1>1, FS_Subset, FS_CardinalityType
<1>3. Seats \in Nat
  BY AccountsAssumption
<1>. QED
  BY <1>2, <1>3

Quiet == UNCHANGED <<directory, user, admins, round>>

\* A step that touches neither table nor round, and lets no login proceed.
LEMMA QuietStep ==
  ASSUME AccountsInv, Quiet, \A j \in Ids : call'[j] = call[j] \/ call'[j].op # "login"
  PROVE  Known' /\ CountsHold' /\ RoundIsRight'
<1>1. Known'
  BY DEF AccountsInv, Quiet, Known
<1>2. CountsHold'
  BY DEF AccountsInv, Quiet, CountsHold, At, Active, ActiveAdmins
<1>3. RoundIsRight'
  BY DEF AccountsInv, Quiet, RoundIsRight, Listed
<1>. QED
  BY <1>1, <1>2, <1>3

LEMMA EndsQuietly ==
  ASSUME AccountsInv, Quiet, NEW i \in Ids, Ends(i)
  PROVE  Known' /\ CountsHold' /\ RoundIsRight'
<1>1. \A j \in Ids : call'[j] = call[j] \/ call'[j].op # "login"
  BY Settled DEF Ends, AccountsInv, TypeOK
<1>. QED
  BY <1>1, QuietStep

LEMMA InitInv == GatewayInit => AccountsInv
<1>. SUFFICES ASSUME GatewayInit PROVE AccountsInv
  OBVIOUS
<1>1. TypeOK
  BY InitTypeOK
<1>2. Known
  BY StartsAssumption, Settled DEF GatewayInit, AccountsInit, Known
<1>3. CountsHold
  BY Settled DEF GatewayInit, AccountsInit, CountsHold, At
<1>4. RoundIsRight
  BY RoundsRest DEF GatewayInit, AccountsInit, RoundIsRight
<1>. QED
  BY <1>1, <1>2, <1>3, <1>4 DEF AccountsInv

LEMMA NextInv == AccountsInv /\ [GatewayNext]_gatewayVars => AccountsInv'
<1>. SUFFICES ASSUME AccountsInv, [GatewayNext]_gatewayVars PROVE AccountsInv'
  OBVIOUS
<1>. DEFINE Stays == Known' /\ CountsHold' /\ RoundIsRight'
<1>0. TypeOK /\ Known /\ CountsHold /\ RoundIsRight /\ TypeOK'
  BY NextTypeOK DEF AccountsInv
<1>a. call \in [Ids -> CallSet] /\ user \in [People -> Statuses] /\ directory \in [People -> Directories]
      /\ round \in RoundRecord /\ \A i \in Ids : call[i].op # "none" => call[i].who \in People
  BY <1>0 DEF TypeOK, CallSet
<1>. USE DEF accounts
<1>1. ASSUME NEW i \in Ids, NEW p \in People, Exchange(i, p)
      PROVE  Stays
  <2>1. call'[i].at = "known" /\ call'[i].who = p /\ \A j \in Ids \ {i} : call'[j] = call[j]
    BY <1>1, <1>a, Settled DEF Exchange, NoCall, CallSet, CallRecord
  <2>2. directory[p] # "none"
    BY <1>1 DEF Exchange, Welcome
  <2>3. Known'
    BY <1>0, <1>1, <2>1, <2>2 DEF Exchange, Known
  <2>4. CountsHold'
    BY <1>0, <1>1, <2>1 DEF Exchange, CountsHold, At, Active, ActiveAdmins
  <2>5. RoundIsRight'
    BY <1>0, <1>1 DEF Exchange, RoundIsRight, Listed
  <2>. QED
    BY <2>3, <2>4, <2>5
<1>2. ASSUME NEW i \in Ids, ByExternalID(i)
      PROVE  Stays
  <2>1. Quiet
    BY <1>2 DEF ByExternalID, Quiet
  <2>2. CASE Ends(i)
    BY <2>1, <2>2, EndsQuietly
  <2>3. ASSUME NEW s \in {"admitted", "new"}, Goes(i, s), s = "admitted" => user[call[i].who] = "active"
        PROVE  Stays
    <3>1. /\ call'[i].at = s /\ call'[i].op = call[i].op /\ call'[i].who = call[i].who
          /\ \A j \in Ids \ {i} : call'[j] = call[j]
      BY <1>a, <2>3, CallFields DEF Goes
    <3>2. Known'
      BY <1>0, <2>1, <3>1 DEF Quiet, Known
    <3>3. CountsHold'
      BY <1>0, <2>1, <2>3, <3>1 DEF Quiet, CountsHold, At, Active, ActiveAdmins
    <3>4. RoundIsRight'
      BY <1>0, <2>1 DEF Quiet, RoundIsRight, Listed
    <3>. QED
      BY <3>2, <3>3, <3>4
  <2>. QED
    BY <1>2, <2>2, <2>3 DEF ByExternalID
<1>3. ASSUME NEW i \in Ids, AdmitNewUser(i)
      PROVE  Stays
  <2>1. Quiet
    BY <1>3 DEF AdmitNewUser, Quiet
  <2>2. CASE Ends(i)
    BY <2>1, <2>2, EndsQuietly
  <2>3. CASE Cardinality(Active) < Seats /\ call' = [call EXCEPT ![i].at = "admitted", ![i].calm = TRUE]
    <3>1. /\ call'[i].at = "admitted" /\ call'[i].op = call[i].op /\ call'[i].who = call[i].who
          /\ \A j \in Ids \ {i} : call'[j] = call[j]
      BY <1>a, <2>3, CallFields
    <3>2. Known'
      BY <1>0, <2>1, <3>1 DEF Quiet, Known
    <3>3. CountsHold'
      BY <1>0, <2>1, <2>3, <3>1 DEF Quiet, CountsHold, At, Active, ActiveAdmins
    <3>4. RoundIsRight'
      BY <1>0, <2>1 DEF Quiet, RoundIsRight, Listed
    <3>. QED
      BY <3>2, <3>3, <3>4
  <2>. QED
    BY <1>3, <2>2, <2>3 DEF AdmitNewUser
<1>4. ASSUME NEW i \in Ids, Upsert(i)
      PROVE  Stays
  <2>. DEFINE p == call[i].who
  <2>1. p \in People /\ directory[p] # "none" /\ UNCHANGED <<directory, admins>>
    BY <1>0, <1>4, <1>a DEF Upsert, At, Known
  <2>2. CASE user[p] = "none"
    <3>1. /\ user' = [user EXCEPT ![p] = "active"]
          /\ Overtakes(i, [call[i] EXCEPT !.at = "stored"])
          /\ round' = IF round.at = "wait" THEN round ELSE [round EXCEPT !.new = @ \cup {p}]
      BY <1>4, <2>2 DEF Upsert
    <3>2. /\ call'[i].at = "stored" /\ call'[i].op = call[i].op /\ call'[i].who = call[i].who
          /\ \A j \in Ids \ {i} :
               /\ call'[j].at = call[j].at /\ call'[j].op = call[j].op /\ call'[j].who = call[j].who
               /\ call[j].op = "login" => ~call'[j].calm
      BY <1>a, <3>1, OvertakenFields
    <3>3. Known'
      BY <1>0, <1>a, <2>1, <3>1, <3>2 DEF Known
    <3>4. CountsHold'
      BY <1>0, <2>1, <3>2 DEF CountsHold, At
    <3>5. round'.at = round.at /\ round'.remote = round.remote /\ round'.todo = round.todo
          /\ (round.at # "wait" => round'.new = round.new \cup {p})
      BY <1>a, <3>1 DEF RoundRecord
    <3>6. RoundIsRight'
      BY <1>0, <1>a, <2>1, <2>2, <3>1, <3>5 DEF RoundIsRight, Listed, RoundRecord
    <3>. QED
      BY <3>3, <3>4, <3>6
  <2>3. CASE user[p] # "none"
    <3>1. Goes(i, "stored") /\ Quiet
      BY <1>4, <2>3 DEF Upsert, Quiet
    <3>2. /\ call'[i].at = "stored" /\ call'[i].op = call[i].op /\ call'[i].who = call[i].who
          /\ \A j \in Ids \ {i} : call'[j] = call[j]
      BY <1>a, <3>1, CallFields DEF Goes
    <3>3. Known'
      BY <1>0, <3>1, <3>2 DEF Quiet, Known
    <3>4. CountsHold'
      BY <1>0, <3>1, <3>2 DEF Quiet, CountsHold, At, Active, ActiveAdmins
    <3>5. RoundIsRight'
      BY <1>0, <3>1 DEF Quiet, RoundIsRight, Listed
    <3>. QED
      BY <3>3, <3>4, <3>5
  <2>. QED
    BY <2>2, <2>3
<1>5. ASSUME NEW i \in Ids, CountGlobalGrants(i)
      PROVE  Stays
  <2>1. Quiet
    BY <1>5 DEF CountGlobalGrants, Quiet
  <2>2. PICK failed \in BOOLEAN :
          call' = [call EXCEPT ![i].at = IF ~failed /\ ActiveAdmins = {} /\ call[i].who \in Bootstrap THEN "counted" ELSE "entering",
                               ![i].calm = TRUE]
    BY <1>5 DEF CountGlobalGrants
  <2>3. /\ call'[i].at \in {"counted", "entering"} /\ call'[i].op = call[i].op /\ call'[i].who = call[i].who
        /\ \A j \in Ids \ {i} : call'[j] = call[j]
        /\ call'[i].at = "counted" => ActiveAdmins = {} /\ call[i].who \in Bootstrap
    <3>. DEFINE s == IF ~failed /\ ActiveAdmins = {} /\ call[i].who \in Bootstrap THEN "counted" ELSE "entering"
    <3>1. /\ call'[i].at = s /\ call'[i].op = call[i].op /\ call'[i].who = call[i].who
          /\ \A j \in Ids \ {i} : call'[j] = call[j]
      <4>. HIDE DEF s
      <4>1. call' = [call EXCEPT ![i].at = s, ![i].calm = TRUE]
        BY <2>2 DEF s
      <4>. QED
        BY <1>a, <4>1, CallFields
    <3>. QED
      BY <3>1
  <2>4. Known'
    BY <1>0, <2>1, <2>3 DEF Quiet, Known
  <2>5. CountsHold'
    BY <1>0, <2>1, <2>3 DEF Quiet, CountsHold, At, Active, ActiveAdmins
  <2>6. RoundIsRight'
    BY <1>0, <2>1 DEF Quiet, RoundIsRight, Listed
  <2>. QED
    BY <2>4, <2>5, <2>6
<1>6. ASSUME NEW i \in Ids, GrantBootstrapAdmin(i)
      PROVE  Stays
  <2>1. UNCHANGED <<directory, user, round>>
    BY <1>6 DEF GrantBootstrapAdmin
  <2>2. /\ call'[i].at = "entering" /\ call'[i].op = call[i].op /\ call'[i].who = call[i].who
        /\ \A j \in Ids \ {i} :
             /\ call'[j].at = call[j].at /\ call'[j].op = call[j].op /\ call'[j].who = call[j].who
             /\ call[j].op = "login" => ~call'[j].calm
    BY <1>6, <1>a, OvertakenFields DEF GrantBootstrapAdmin
  <2>3. Known'
    BY <1>0, <2>1, <2>2 DEF Known
  <2>4. CountsHold'
    BY <1>0, <2>1, <2>2 DEF CountsHold, At
  <2>5. RoundIsRight'
    BY <1>0, <2>1 DEF RoundIsRight, Listed
  <2>. QED
    BY <2>3, <2>4, <2>5
<1>7. ASSUME NEW i \in Ids, CreateSession(i) \/ LoginFails(i) \/ (\E s \in session : HandleLogout(i, s)) \/ Expire(i)
      PROVE  Stays
  BY <1>7, EndsQuietly DEF CreateSession, LoginFails, HandleLogout, Expire, Quiet
<1>8. ASSUME NEW i \in Ids, NEW p \in People, Joins(i, p)
      PROVE  Stays
  <2>1. UNCHANGED <<user, admins, round>> /\ directory' = [directory EXCEPT ![p] = "enabled"] /\ user[p] = "none"
    BY <1>0, <1>8 DEF Joins, Known
  <2>2. \A j \in Ids : call'[j] = call[j] \/ call'[j] = Over
    BY <1>8, <1>a DEF Joins, Ends
  <2>3. Known'
    BY <1>0, <1>a, <2>1, <2>2, Settled DEF Known
  <2>4. CountsHold'
    BY <1>0, <2>1, <2>2, Settled DEF CountsHold, At, Active, ActiveAdmins
  <2>5. RoundIsRight'
    BY <1>0, <1>a, <2>1 DEF RoundIsRight, Listed
  <2>. QED
    BY <2>3, <2>4, <2>5
<1>9. ASSUME NEW i \in Ids, NEW p \in People, Leaves(i, p)
      PROVE  Stays
  <2>1. /\ UNCHANGED <<user, admins, round>> /\ directory[p] = "enabled"
        /\ \E s \in {"disabled", "deleted"} : directory' = [directory EXCEPT ![p] = s]
    BY <1>9 DEF Leaves
  <2>2. \A j \in Ids : call'[j] = call[j] \/ call'[j] = Over
    BY <1>9, <1>a DEF Leaves, Ends
  <2>3. \A q \in People : directory'[q] = directory[q] \/ (q = p /\ directory'[q] \in {"disabled", "deleted"})
    BY <1>a, <2>1
  <2>4. Known'
    BY <1>0, <1>a, <2>1, <2>2, <2>3, Settled DEF Known
  <2>5. CountsHold'
    BY <1>0, <2>1, <2>2, Settled DEF CountsHold, At, Active, ActiveAdmins
  <2>6. Listed' \subseteq Listed
    BY <2>1, <2>3 DEF Listed
  <2>7. RoundIsRight'
    BY <1>0, <2>1, <2>6 DEF RoundIsRight
  <2>. QED
    BY <2>4, <2>5, <2>7
<1>10. ASSUME FetchRemote \/ ListActive
      PROVE  Stays
  <2>1. UNCHANGED <<directory, user, admins, call>>
    BY <1>10 DEF FetchRemote, ListActive
  <2>2. Known' /\ CountsHold'
    BY <1>0, <2>1 DEF Known, CountsHold, At, Active, ActiveAdmins
  <2>3. CASE FetchRemote
    <3>1. round' = [Resting EXCEPT !.at = "fetched", !.remote = Listed]
      BY <2>3 DEF FetchRemote
    <3>2. round'.at = "fetched" /\ round'.remote = Listed
      BY <3>1, RoundsRest DEF RoundRecord
    <3>. QED
      BY <2>1, <2>2, <3>2 DEF RoundIsRight, Listed
  <2>4. CASE ListActive
    <3>1. CASE round' = Resting
      BY <2>2, <3>1, RoundsRest DEF RoundIsRight
    <3>2. CASE round' = [round EXCEPT !.at = "listed", !.todo = ToDisable]
      <4>1. round'.at = "listed" /\ round'.todo = ToDisable /\ round'.new = round.new /\ round.at = "fetched"
        BY <1>a, <2>4, <3>2 DEF RoundRecord, ListActive
      <4>. QED
        BY <1>0, <2>1, <2>2, <4>1 DEF RoundIsRight, ToDisable, Active, Listed
    <3>. QED
      BY <2>4, <3>1, <3>2 DEF ListActive
  <2>. QED
    BY <1>10, <2>3, <2>4
<1>11. ASSUME MarkDisabled
      PROVE  Stays
  <2>1. /\ UNCHANGED <<directory, admins, call>> /\ round.at = "listed"
        /\ user' = [p \in People |-> IF p \in round.todo THEN "disabled" ELSE user[p]]
    BY <1>11 DEF MarkDisabled
  <2>2. \A p \in round.todo : user[p] = "active"
    BY <1>0, <2>1 DEF RoundIsRight
  <2>3. \A p \in People : user'[p] = "none" <=> user[p] = "none"
    BY <2>1, <2>2
  <2>4. Active' \subseteq Active
    BY <2>1 DEF Active
  <2>5. Known'
    BY <1>0, <2>1, <2>3 DEF Known
  <2>6. Cardinality(Active) < Seats => Cardinality(Active') < Seats
    BY <1>0, <2>4, FewerActive
  <2>7. CountsHold'
    <3>1. ActiveAdmins' \subseteq ActiveAdmins
      BY <2>1, <2>4 DEF ActiveAdmins
    <3>. QED
      BY <1>0, <1>a, <2>1, <2>3, <2>6, <3>1 DEF CountsHold, At
  <2>8. round'.at = "marked"
    BY <1>11, <1>a DEF MarkDisabled, RoundRecord
  <2>9. RoundIsRight'
    BY <2>8 DEF RoundIsRight
  <2>. QED
    BY <2>5, <2>7, <2>9
<1>12. ASSUME RevokeByUsers \/ DeleteByUser \/ RoundFails
      PROVE  Stays
  <2>1. UNCHANGED <<directory, user, admins, call>>
    BY <1>12 DEF RevokeByUsers, DeleteByUser, RoundFails, accountVars
  <2>2. round'.at \notin {"fetched", "listed"}
    <3>1. CASE RevokeByUsers
      BY <1>a, <3>1 DEF RevokeByUsers, RoundRecord
    <3>2. CASE DeleteByUser
      BY <1>a, <3>2, RoundsRest DEF DeleteByUser, RoundRecord
    <3>3. CASE RoundFails
      BY <3>3, RoundsRest DEF RoundFails
    <3>. QED
      BY <1>12, <3>1, <3>2, <3>3
  <2>. QED
    BY <1>0, <2>1, <2>2 DEF Known, CountsHold, At, Active, ActiveAdmins, RoundIsRight
<1>13. ASSUME RestartControl
      PROVE  Stays
  <2>1. UNCHANGED <<directory, user, admins>> /\ round' = Resting
    BY <1>13 DEF RestartControl
  <2>2. \A i \in Ids : call'[i] \in {NoCall, Over}
    BY <1>13 DEF RestartControl
  <2>. QED
    BY <1>0, <2>1, <2>2, Settled, RoundsRest DEF Known, CountsHold, At, RoundIsRight
<1>14. ASSUME NEW i \in Ids, NEW s \in session, NEW p \in People, NEW asked \in Asked, HandleRotate(i, s, p, asked)
      PROVE  Stays
  <2>1. \A j \in Ids : call'[j] = call[j] \/ call'[j].op # "login"
    BY <1>14, <1>a DEF HandleRotate, NoCall
  <2>. QED
    BY <1>14, <2>1, QuietStep DEF HandleRotate, Quiet
<1>15. ASSUME NEW i \in Ids, Rotate(i)
      PROVE  Stays
  <2>1. CASE Ends(i)
    BY <1>15, <2>1, EndsQuietly DEF Rotate, Quiet
  <2>2. CASE call' = [call EXCEPT ![i].at = "rotated", ![i].gen = key[call[i].who].hash + 1]
    <3>1. \A j \in Ids : call'[j] = call[j] \/ call'[j].op # "login"
      BY <1>15, <1>a, <2>2 DEF Rotate, At, CallSet, CallRecord
    <3>. QED
      BY <1>15, <3>1, QuietStep DEF Rotate, Quiet
  <2>. QED
    BY <1>15, <2>1, <2>2 DEF Rotate
<1>16a. ASSUME NEW i \in Ids, RotateAnswered(i)
        PROVE  Stays
  BY <1>16a, EndsQuietly DEF RotateAnswered, Quiet
<1>16. ASSUME NEW i \in Ids, NEW p \in People, NEW request \in Requests, NEW gen \in 1..key[p].hash, Authenticate(i, p, gen, request)
       PROVE  Stays
  BY <1>16, EndsQuietly DEF Authenticate, Quiet
<1>17. ASSUME UNCHANGED <<directory, user, admins, round, call>>
      PROVE  Stays
  BY <1>17, QuietStep DEF Quiet
<1>18. ASSUME NEW i \in Ids, ServeHTTP(i) \/ Write(i) \/ RestartEdge(i)
       PROVE  Stays
  BY <1>18, <1>17 DEF ServeHTTP, Write, RestartEdge, accountVars
<1>19. ASSUME AccountsNext
       PROVE  Stays
  BY <1>19, <1>1, <1>2, <1>3, <1>4, <1>5, <1>6, <1>7, <1>8, <1>9, <1>10, <1>11, <1>12, <1>13
     DEF AccountsNext, LoginStep, Event, ReconcilerStep
<1>19a. ASSUME NEW i \in Ids, NEW s \in session, NEW p \in People, HandleIssue(i, s, p)
        PROVE  Stays
  <2>1. \A j \in Ids : call'[j] = call[j] \/ call'[j].op # "login"
    BY <1>19a, <1>a DEF HandleIssue, NoCall
  <2>. QED
    BY <1>19a, <2>1, QuietStep DEF HandleIssue, Quiet
<1>19b. ASSUME NEW i \in Ids, MarkActive(i)
        PROVE  Stays
  <2>1. CASE Ends(i)
    BY <1>19b, <2>1, EndsQuietly DEF MarkActive, Quiet
  <2>2. CASE Goes(i, "failed")
    <3>1. \A j \in Ids : call'[j] = call[j] \/ call'[j].op # "login"
      BY <1>19b, <1>a, <2>2, CallFields DEF MarkActive, At, Goes
    <3>. QED
      BY <1>19b, <3>1, QuietStep DEF MarkActive, Quiet
  <2>. QED
    BY <1>19b, <2>1, <2>2 DEF MarkActive
<1>19c. ASSUME NEW i \in Ids, Cleanup(i)
        PROVE  Stays
  BY <1>19c, EndsQuietly DEF Cleanup, Quiet
<1>20. ASSUME NEW i \in Ids, IssueStep(i) \/ RotateStep(i) \/ EdgeStep(i)
       PROVE  Stays
  <2>. HIDE DEF Stays
  <2>0. CASE IssueStep(i)
    BY <2>0, <1>19a, <1>19b, <1>19c DEF IssueStep
  <2>1. CASE RotateStep(i)
    BY <2>1, <1>14, <1>15, <1>16a DEF RotateStep
  <2>2. CASE EdgeStep(i)
    BY <2>2, <1>16, <1>18 DEF EdgeStep
  <2>. QED
    BY <1>20, <2>0, <2>1, <2>2
<1>21. Stays
  <2>1. CASE UNCHANGED gatewayVars
    BY <2>1, <1>17 DEF gatewayVars, accountVars
  <2>2. CASE RetireExpiredPrevKeys \/ Tick
    BY <2>2, <1>17 DEF RetireExpiredPrevKeys, Tick, accountVars
  <2>. QED
    BY <1>19, <1>20, <2>1, <2>2 DEF GatewayNext
<1>. QED
  BY <1>0, <1>21 DEF AccountsInv

\* An account is made and disabled, and an administrator made, for the reasons the code has
\* for it, however logins and the reconciler's statements interleave.
THEOREM AccountsAreReasonable == GatewaySpec => AccountsChangeForAReason
<1>. DEFINE Reasonable ==
       /\ \A p \in People : user'[p] # user[p] =>
            \/ /\ user[p] = "none" /\ user'[p] = "active"
               /\ \E i \in Ids : /\ At(i, "login", "admitted") /\ call[i].who = p
                                 /\ call[i].calm => Cardinality(Active) < Seats
            \/ /\ user[p] = "active" /\ user'[p] = "disabled"
               /\ p \in Listed => p \in round.new
       /\ \A p \in admins' \ admins :
            \E i \in Ids : /\ At(i, "login", "counted") /\ call[i].who = p /\ p \in Bootstrap
                           /\ call[i].calm => ActiveAdmins = {}
<1>1. GatewaySpec => []AccountsInv
  BY InitInv, NextInv, PTL DEF GatewaySpec
<1>2. AccountsInv /\ [GatewayNext]_gatewayVars => [Reasonable]_accountVars
  <2>. SUFFICES ASSUME AccountsInv, [GatewayNext]_gatewayVars PROVE Reasonable \/ UNCHANGED accountVars
    OBVIOUS
  <2>. USE DEF accounts
  <2>a. /\ user \in [People -> Statuses] /\ CountsHold /\ RoundIsRight
        /\ \A i \in Ids : call[i].op # "none" => call[i].who \in People
    BY DEF AccountsInv, TypeOK, CallSet
  <2>1. CASE UNCHANGED <<user, admins>>
    BY <2>1
  <2>2. ASSUME NEW i \in Ids, Upsert(i)
        PROVE  Reasonable
    <3>1. CASE UNCHANGED user
      BY <2>2, <3>1 DEF Upsert
    <3>2. CASE UNCHANGED admins /\ user' = [user EXCEPT ![call[i].who] = "active"] /\ user[call[i].who] = "none"
      BY <2>2, <2>a, <3>2 DEF Upsert, CountsHold
    <3>. QED
      BY <2>2, <3>1, <3>2 DEF Upsert
  <2>3. ASSUME NEW i \in Ids, GrantBootstrapAdmin(i)
        PROVE  Reasonable
    <3>1. UNCHANGED user /\ admins' \subseteq admins \cup {call[i].who} /\ At(i, "login", "counted")
      BY <2>3 DEF GrantBootstrapAdmin
    <3>2. call[i].who \in Bootstrap /\ (call[i].calm => ActiveAdmins = {})
      BY <2>a, <3>1 DEF CountsHold
    <3>. QED
      BY <3>1, <3>2
  <2>4. CASE MarkDisabled
    BY <2>4, <2>a DEF MarkDisabled, RoundIsRight
  <2>5. ASSUME NEW i \in Ids, LoginStep(i) \/ Event(i)
        PROVE  Reasonable
    BY <2>5, <2>1, <2>2, <2>3 DEF LoginStep, Event, Exchange, ByExternalID, AdmitNewUser, CountGlobalGrants, CreateSession,
         LoginFails, HandleLogout, Expire, Joins, Leaves
  <2>6. CASE ReconcilerStep \/ RoundFails \/ RestartControl
    BY <2>6, <2>1, <2>4 DEF ReconcilerStep, FetchRemote, ListActive, RevokeByUsers, DeleteByUser, RoundFails, RestartControl
  <2>7. ASSUME NEW i \in Ids, IssueStep(i) \/ RotateStep(i) \/ EdgeStep(i)
        PROVE  Reasonable
    BY <2>7, <2>1 DEF IssueStep, HandleIssue, MarkActive, Cleanup, RotateStep, EdgeStep, HandleRotate, Rotate, RotateAnswered, Authenticate, ServeHTTP, Write, RestartEdge, accountVars
  <2>8. CASE RetireExpiredPrevKeys \/ Tick \/ UNCHANGED gatewayVars
    BY <2>8, <2>1 DEF RetireExpiredPrevKeys, Tick, gatewayVars, accountVars
  <2>. QED
    BY <2>5, <2>6, <2>7, <2>8 DEF GatewayNext, AccountsNext
<1>. QED
  BY <1>1, <1>2, PTL DEF GatewaySpec, AccountsChangeForAReason

-----------------------------------------------------------------------------
(* Credentials.                                                             *)

\* What the row of a key says agrees with what its holder has been told.
RowTells(row, told, at) ==
  LET n == Len(told) IN
  /\ row.hash = n + 1 /\ row.prev \in {0, n}
  /\ n > 0 /\ row.prev = 0 => told[n].at + told[n].window <= at
  /\ n > 0 /\ row.prev = n => row.until = told[n].at + told[n].window

RowsTell == \A p \in People : RowTells(key[p], rotations[p], now)

CredentialsInv == TypeOK /\ RowsTell

LEMMA ToldAre ==
  ASSUME NEW told \in Rotations
  PROVE  Len(told) \in Nat /\ \A n \in 1..Len(told) : told[n].at \in Nat /\ told[n].window \in Int
<1>. DEFINE Stamps == [at : Nat, window : Int]
<1>1. Len(told) \in Nat /\ \A n \in 1..Len(told) : told[n] \in Stamps
  <2>1. told \in Seq(Stamps)
    BY DEF Rotations
  <2>. HIDE DEF Stamps
  <2>. QED
    BY <2>1
<1>. QED
  BY <1>1

LEMMA InitRowsTell == GatewayInit => RowsTell
<1>. SUFFICES ASSUME GatewayInit, NEW p \in People PROVE RowTells(key[p], rotations[p], now)
  BY DEF RowsTell
<1>1. PICK s \in Starts : key = s.key
  BY DEF GatewayInit, AccountsInit
<1>2. /\ key[p] \in [status : {"none", "active", "revoked"}, hash : {1, 2}, prev : {0, 1}, until : Nat, expires : Nat]
      /\ key[p].hash = key[p].prev + 1
  BY <1>1, KeysAssumption
<1>3. now = 0 /\ rotations[p] = IF key[p].prev = 0 THEN <<>> ELSE <<[at |-> 0, window |-> key[p].until]>>
  BY DEF GatewayInit
<1>4. CASE key[p].prev = 0
  BY <1>2, <1>3, <1>4 DEF RowTells
<1>5. CASE key[p].prev = 1
  BY <1>2, <1>3, <1>5 DEF RowTells
<1>. QED
  BY <1>2, <1>4, <1>5

\* Rotation supersedes the row's credential for the window; retirement waits until it is over.
LEMMA RotatedTells ==
  ASSUME NEW row \in KeyRecord, NEW told \in Rotations, NEW at \in Nat, NEW window \in Int, RowTells(row, told, at), now = at
  PROVE  RowTells(Rotated(row, window), Append(told, [at |-> at, window |-> window]), at)
<1>. DEFINE n == Len(told)
            last == [at |-> at, window |-> window]
<1>1. n \in Nat /\ Len(Append(told, last)) = n + 1 /\ Append(told, last)[n + 1] = last
  BY DEF Rotations
<1>2. Rotated(row, window).hash = row.hash + 1 /\ Rotated(row, window).prev = row.hash /\ Rotated(row, window).until = at + window
  BY DEF Rotated, KeyRecord
<1>3. row.hash = n + 1
  BY DEF RowTells
<1>. QED
  BY <1>1, <1>2, <1>3 DEF RowTells

LEMMA RetiredTells ==
  ASSUME NEW row \in KeyRecord, NEW told \in Rotations, NEW at \in Nat, RowTells(row, told, at), row.prev # 0, row.until <= at
  PROVE  RowTells([row EXCEPT !.prev = 0, !.until = 0], told, at)
<1>. DEFINE r == [row EXCEPT !.prev = 0, !.until = 0]
<1>1. r.hash = row.hash /\ r.prev = 0
  BY DEF KeyRecord
<1>2. Len(told) \in Nat
  BY DEF Rotations
<1>3. row.prev = Len(told) /\ Len(told) > 0
  BY <1>2 DEF RowTells, KeyRecord
<1>4. told[Len(told)].at + told[Len(told)].window <= at
  BY <1>3 DEF RowTells
<1>. HIDE DEF r
<1>5. RowTells(r, told, at)
  BY <1>1, <1>2, <1>3, <1>4 DEF RowTells
<1>. QED
  BY <1>5 DEF r

LEMMA LaterTells ==
  ASSUME NEW row \in KeyRecord, NEW told \in Rotations, NEW at \in Nat, RowTells(row, told, at)
  PROVE  RowTells(row, told, at + 1) 
         /\ RowTells([row EXCEPT !.status = "revoked"], told, at) /\ RowTells([row EXCEPT !.status = "active"], told, at)
<1>1. Len(told) \in Nat /\ \A n \in 1..Len(told) : told[n].at \in Nat /\ told[n].window \in Int
  BY ToldAre
<1>2. RowTells(row, told, at + 1)
  BY <1>1 DEF RowTells
<1>3. RowTells([row EXCEPT !.status = "revoked"], told, at) /\ RowTells([row EXCEPT !.status = "active"], told, at)
  BY <1>1 DEF RowTells, KeyRecord
<1>. QED
  BY <1>2, <1>3

\* A row that is new or was never there has one credential, that has not been rotated.
LEMMA FreshTells ==
  ASSUME NEW at \in Nat
  PROVE  RowTells(NoKey, <<>>, at) /\ RowTells([NoKey EXCEPT !.status = "pending"], <<>>, at)
  BY DEF NoKey, RowTells

LEMMA NextRowsTell == CredentialsInv /\ [GatewayNext]_gatewayVars => RowsTell'
<1>. SUFFICES ASSUME CredentialsInv, [GatewayNext]_gatewayVars PROVE RowsTell'
  OBVIOUS
<1>. USE DEF accounts
<1>a. TypeOK /\ now \in Nat /\ \A p \in People : key[p] \in KeyRecord /\ rotations[p] \in Rotations /\ RowTells(key[p], rotations[p], now)
  BY DEF CredentialsInv, TypeOK, RowsTell
<1>1. CASE UNCHANGED <<key, rotations, now>>
  BY <1>1, <1>a DEF RowsTell
<1>2. ASSUME NEW i \in Ids, Rotate(i)
      PROVE  RowsTell'
  <2>. DEFINE p == call[i].who
              window == Window(call[i].asked)
  <2>1. p \in People /\ window \in Int /\ UNCHANGED now
    BY <1>2, <1>a, GatewayAssumption DEF Rotate, At, TypeOK, CallSet
  <2>2. CASE UNCHANGED <<key, rotations>>
    BY <1>1, <2>1, <2>2
  <2>3. CASE /\ key' = [key EXCEPT ![p] = Rotated(@, window)]
             /\ rotations' = [rotations EXCEPT ![p] = Append(@, [at |-> now, window |-> window])]
    <3>1. RowTells(Rotated(key[p], window), Append(rotations[p], [at |-> now, window |-> window]), now)
      BY <1>a, <2>1, RotatedTells
    <3>2. \A q \in People : /\ key'[q] = IF q = p THEN Rotated(key[p], window) ELSE key[q]
                            /\ rotations'[q] = IF q = p THEN Append(rotations[p], [at |-> now, window |-> window]) ELSE rotations[q]
      BY <1>a, <2>3 DEF TypeOK
    <3>. QED
      BY <1>a, <2>1, <3>1, <3>2 DEF RowsTell
  <2>. QED
    BY <1>2, <2>2, <2>3 DEF Rotate
<1>3. CASE RetireExpiredPrevKeys
  <2>1. UNCHANGED <<rotations, now>>
    BY <1>3 DEF RetireExpiredPrevKeys
  <2>2. ASSUME NEW p \in People
        PROVE  RowTells(key'[p], rotations[p], now)
    <3>1. CASE key[p].prev # 0 /\ key[p].until <= now
      <4>1. RowTells([key[p] EXCEPT !.prev = 0, !.until = 0], rotations[p], now)
        BY <1>a, <3>1, RetiredTells
      <4>. QED
        BY <1>3, <3>1, <4>1 DEF RetireExpiredPrevKeys
    <3>2. CASE ~(key[p].prev # 0 /\ key[p].until <= now)
      BY <1>3, <1>a, <3>2 DEF RetireExpiredPrevKeys
    <3>. QED
      BY <3>1, <3>2
  <2>. QED
    BY <2>1, <2>2 DEF RowsTell
<1>4. CASE RevokeByUsers /\ UNCHANGED <<now, rotations, proxied>>
  <2>1. ASSUME NEW p \in People
        PROVE  RowTells(key'[p], rotations[p], now)
    <3>1. key'[p] = key[p] \/ key'[p] = [key[p] EXCEPT !.status = "revoked"]
      BY <1>4 DEF RevokeByUsers
    <3>2. RowTells([key[p] EXCEPT !.status = "revoked"], rotations[p], now)
      BY <1>a, LaterTells
    <3>. QED
      BY <1>a, <3>1, <3>2
  <2>. QED
    BY <1>4, <2>1 DEF RowsTell
<1>5. CASE Tick
  BY <1>5, <1>a, LaterTells DEF Tick, accountVars, RowsTell
<1>6. ASSUME NEW i \in Ids, LoginStep(i) \/ Event(i), UNCHANGED <<now, rotations, proxied>>
      PROVE  RowsTell'
  BY <1>1, <1>6 DEF LoginStep, Event, Exchange, ByExternalID, AdmitNewUser, Upsert, CountGlobalGrants, GrantBootstrapAdmin,
       CreateSession, LoginFails, HandleLogout, Expire, Joins, Leaves
<1>7. CASE (ReconcilerStep \/ RoundFails \/ RestartControl) /\ UNCHANGED <<now, rotations, proxied>>
  BY <1>1, <1>4, <1>7 DEF ReconcilerStep, FetchRemote, ListActive, MarkDisabled, DeleteByUser, RoundFails, RestartControl
<1>7a. ASSUME NEW i \in Ids, NEW p \in People, NEW row \in {NoKey, [NoKey EXCEPT !.status = "pending"]}, UNCHANGED now,
              key' = [key EXCEPT ![p] = row], rotations' = [rotations EXCEPT ![p] = <<>>]
       PROVE  RowsTell'
  <2>1. RowTells(row, <<>>, now)
    BY <1>a, FreshTells
  <2>2. \A q \in People : /\ key'[q] = IF q = p THEN row ELSE key[q]
                          /\ rotations'[q] = IF q = p THEN <<>> ELSE rotations[q]
    BY <1>a, <1>7a DEF TypeOK
  <2>. QED
    BY <1>a, <1>7a, <2>1, <2>2 DEF RowsTell
<1>7b. ASSUME NEW i \in Ids, MarkActive(i)
       PROVE  RowsTell'
  <2>1. UNCHANGED <<now, rotations>> /\ call[i].who \in People
    BY <1>7b, <1>a DEF MarkActive, At, TypeOK, CallSet
  <2>2. \A q \in People : key'[q] = key[q] \/ key'[q] = [key[q] EXCEPT !.status = "active"]
    BY <1>7b, <1>a, <2>1 DEF MarkActive, TypeOK
  <2>3. ASSUME NEW q \in People
        PROVE  RowTells(key'[q], rotations[q], now)
    <3>1. RowTells([key[q] EXCEPT !.status = "active"], rotations[q], now)
      BY <1>a, LaterTells
    <3>. QED
      BY <1>a, <2>2, <3>1
  <2>. QED
    BY <2>1, <2>3 DEF RowsTell
<1>7c. ASSUME NEW i \in Ids, Cleanup(i)
       PROVE  RowsTell'
  <2>1. call[i].who \in People /\ UNCHANGED now
    BY <1>7c, <1>a DEF Cleanup, At, TypeOK, CallSet
  <2>2. CASE UNCHANGED <<key, rotations>>
    BY <1>1, <2>1, <2>2
  <2>3. CASE key' = [key EXCEPT ![call[i].who] = NoKey] /\ rotations' = [rotations EXCEPT ![call[i].who] = <<>>]
    BY <1>7a, <2>1, <2>3
  <2>. QED
    BY <1>7c, <2>2, <2>3 DEF Cleanup
<1>7d. ASSUME NEW i \in Ids, IssueStep(i)
       PROVE  RowsTell'
  <2>1. ASSUME NEW s \in session, NEW p \in People, HandleIssue(i, s, p)
        PROVE  RowsTell'
    BY <1>7a, <2>1 DEF HandleIssue
  <2>. QED
    BY <1>7b, <1>7c, <1>7d, <2>1 DEF IssueStep
<1>8. ASSUME NEW i \in Ids, RotateStep(i)
      PROVE  RowsTell'
  BY <1>1, <1>2, <1>8 DEF RotateStep, HandleRotate, RotateAnswered
<1>9. ASSUME NEW i \in Ids, EdgeStep(i)
      PROVE  RowsTell'
  BY <1>1, <1>9 DEF EdgeStep, Authenticate, ServeHTTP, Write, RestartEdge, accountVars
<1>10. CASE UNCHANGED gatewayVars
  BY <1>1, <1>10 DEF gatewayVars, accountVars
<1>. QED
  BY <1>3, <1>5, <1>6, <1>7, <1>7d, <1>8, <1>9, <1>10 DEF GatewayNext, AccountsNext

\* The row's credentials are the good ones.
LEMMA ByHashIsGood ==
  ASSUME CredentialsInv, NEW p \in People, NEW gen \in 1..key[p].hash
  PROVE  ByHash(key[p], gen) <=> Good(p, gen)
<1>. DEFINE n == Len(rotations[p])
<1>1. /\ now \in Nat /\ n \in Nat /\ \A j \in 1..n : rotations[p][j].at \in Nat /\ rotations[p][j].window \in Int
      /\ key[p].hash \in Nat /\ key[p].prev \in Nat /\ key[p].until \in Int
  <2>1. now \in Nat /\ rotations[p] \in Rotations /\ key[p] \in KeyRecord
    BY DEF CredentialsInv, TypeOK
  <2>. QED
    BY <2>1, ToldAre DEF KeyRecord
<1>2. /\ key[p].hash = n + 1 /\ key[p].prev \in {0, n}
      /\ n > 0 /\ key[p].prev = 0 => rotations[p][n].at + rotations[p][n].window <= now
      /\ n > 0 /\ key[p].prev = n => key[p].until = rotations[p][n].at + rotations[p][n].window
  BY DEF CredentialsInv, RowsTell, RowTells
<1>. HIDE DEF n
<1>3. ByHash(key[p], gen) <=> (gen = n + 1 \/ (gen = n /\ now < rotations[p][n].at + rotations[p][n].window))
  BY <1>1, <1>2 DEF ByHash
<1>. QED
  BY <1>3 DEF Good, n

\* A window that was accepted is positive, and what was asked for if that fits.
LEMMA WindowIsRight ==
  ASSUME NEW asked \in Int, Window(asked) \in 0..MaxWindow
  PROVE  Window(asked) \in 1..MaxWindow /\ (Fits(asked * Second) => Window(asked) \in {asked * Second, DefaultWindow})
<1>1. DefaultWindow \in Nat /\ MaxWindow \in Nat /\ 0 < DefaultWindow
  BY GatewayAssumption
<1>2. Window(asked) = IF Wrap(asked * Second) = 0 THEN DefaultWindow ELSE Wrap(asked * Second)
  BY DEF Window
<1>3. Fits(asked * Second) => Wrap(asked * Second) = asked * Second
  BY DEF Fits
<1>. DEFINE w == Wrap(asked * Second)
            product == asked * Second
<1>4. Window(asked) = (IF w = 0 THEN DefaultWindow ELSE w) /\ (Fits(product) => w = product)
  BY <1>2, <1>3
<1>. HIDE DEF w, product
<1>. QED
  <2>1. Window(asked) \in 1..MaxWindow
    BY <1>1, <1>4
  <2>2. Fits(product) => Window(asked) \in {product, DefaultWindow}
    BY <1>4
  <2>. QED
    BY <2>1, <2>2 DEF product

\* No other step makes a rotation of one that was asked for.
LEMMA OnlyRotateRotates ==
  ASSUME CredentialsInv, GatewayNext, NEW i \in Ids, call[i].at = "asked", call'[i].at = "rotated"
  PROVE  Rotate(i)
<1>a. call \in [Ids -> CallSet]
  BY DEF CredentialsInv, TypeOK
<1>1. call'[i] # call[i] /\ call'[i] # Over /\ call'[i] # NoCall
  BY Settled
<1>2. ASSUME NEW j \in Ids, Ends(j)
      PROVE  FALSE
  BY <1>1, <1>2, <1>a DEF Ends
<1>3. ASSUME NEW j \in Ids, NEW s, Goes(j, s), s # "rotated"
      PROVE  FALSE
  BY <1>1, <1>3, <1>a, CallFields DEF Goes
<1>4. ASSUME NEW j \in Ids, LoginStep(j) \/ Event(j)
      PROVE  FALSE
  <2>1. CASE \E p \in People : Exchange(j, p)
    <3>1. PICK p \in People : call' = [call EXCEPT ![j] = [NoCall EXCEPT !.at = "known", !.op = "login", !.who = p]]
      BY <2>1 DEF Exchange
    <3>. QED
      BY <1>1, <1>a, <3>1 DEF NoCall
  <2>2. CASE ByExternalID(j)
    BY <1>2, <1>3, <2>2 DEF ByExternalID
  <2>3. CASE AdmitNewUser(j)
    <3>1. call' = [call EXCEPT ![j].at = "admitted", ![j].calm = TRUE]
      BY <1>2, <2>3 DEF AdmitNewUser
    <3>2. call'[j].at = "admitted" /\ \A k \in Ids \ {j} : call'[k] = call[k]
      BY <1>a, <3>1, CallFields
    <3>. QED
      BY <1>1, <3>2
  <2>4. CASE Upsert(j)
    BY <1>3, <1>a, <2>4, OvertakenFields DEF Upsert
  <2>5. CASE CountGlobalGrants(j)
    <3>1. PICK s \in {"counted", "entering"} : call' = [call EXCEPT ![j].at = s, ![j].calm = TRUE]
      BY <2>5 DEF CountGlobalGrants
    <3>. QED
      BY <1>1, <1>a, <3>1, CallFields
  <2>6. CASE GrantBootstrapAdmin(j)
    BY <1>a, <2>6, OvertakenFields DEF GrantBootstrapAdmin
  <2>7. CASE CreateSession(j) \/ LoginFails(j) \/ (\E s \in session : HandleLogout(j, s)) \/ Event(j)
    BY <1>2, <2>7 DEF CreateSession, LoginFails, HandleLogout, Event, Expire, Joins, Leaves
  <2>. QED
    BY <1>4, <2>1, <2>2, <2>3, <2>4, <2>5, <2>6, <2>7 DEF LoginStep
<1>5. ASSUME NEW j \in Ids, NEW s \in session, NEW p \in People, NEW asked \in Asked, HandleRotate(j, s, p, asked)
      PROVE  FALSE
  BY <1>1, <1>5, <1>a DEF HandleRotate, NoCall
<1>5a. ASSUME NEW j \in Ids, IssueStep(j)
       PROVE  FALSE
  <2>1. ASSUME NEW s \in session, NEW p \in People, HandleIssue(j, s, p)
        PROVE  FALSE
    BY <1>1, <1>a, <2>1 DEF HandleIssue, NoCall
  <2>. QED
    BY <1>2, <1>3, <1>5a, <2>1 DEF IssueStep, MarkActive, Cleanup
<1>6. ASSUME NEW j \in Ids, RotateStep(j)
      PROVE  Rotate(i)
  <2>1. CASE Rotate(j)
    BY <1>1, <1>a, <2>1 DEF Rotate, Ends
  <2>. QED
    BY <1>2, <1>5, <1>6, <2>1 DEF RotateStep, RotateAnswered
<1>7. ASSUME NEW j \in Ids, EdgeStep(j)
      PROVE  FALSE
  BY <1>1, <1>2, <1>7 DEF EdgeStep, Authenticate, ServeHTTP, Write, RestartEdge, accountVars
<1>8. ASSUME ReconcilerStep \/ RoundFails \/ RetireExpiredPrevKeys \/ Tick
      PROVE  FALSE
  BY <1>1, <1>8 DEF ReconcilerStep, FetchRemote, ListActive, MarkDisabled, RevokeByUsers, DeleteByUser, RoundFails,
     RetireExpiredPrevKeys, Tick, accountVars
<1>9. ASSUME RestartControl
      PROVE  FALSE
  BY <1>1, <1>9 DEF RestartControl
<1>. QED
  BY <1>4, <1>5a, <1>6, <1>7, <1>8, <1>9 DEF GatewayNext, AccountsNext

\* A call gets through by just the credentials that are good, for any window and however
\* rotations, retirement, revocation and calls interleave.
THEOREM CredentialsDoFade == GatewaySpec => CredentialsFade
<1>. DEFINE Fade ==
       /\ \A c \in Ids : proxied[c].at = "idle" /\ proxied'[c].at \in {"forward", "refused"} =>
            LET p == proxied'[c].who IN
            proxied'[c].at = "forward" <=>
              /\ Good(p, proxied'[c].gen)
              /\ key[p].status = "active" /\ (key[p].expires = 0 \/ now < key[p].expires)
       /\ \A i \in Ids : call[i].at = "asked" /\ call'[i].at = "rotated" =>
            LET window == rotations'[call[i].who][Len(rotations'[call[i].who])].window IN
            /\ window \in 1..MaxWindow
            /\ Fits(call[i].asked * Second) => window \in {call[i].asked * Second, DefaultWindow}
<1>1. GatewaySpec => []CredentialsInv
  <2>1. GatewayInit => CredentialsInv
    BY InitTypeOK, InitRowsTell DEF CredentialsInv
  <2>2. CredentialsInv /\ [GatewayNext]_gatewayVars => CredentialsInv'
    BY NextTypeOK, NextRowsTell DEF CredentialsInv
  <2>. QED
    BY <2>1, <2>2, PTL DEF GatewaySpec
<1>2. CredentialsInv /\ [GatewayNext]_gatewayVars => [Fade]_gatewayVars
  <2>. SUFFICES ASSUME CredentialsInv, GatewayNext PROVE Fade
    OBVIOUS
  <2>a. /\ call \in [Ids -> CallSet] /\ proxied = [c \in Ids |-> proxied[c]] /\ now \in Nat
        /\ \A p \in People : key[p] \in KeyRecord /\ rotations[p] \in Rotations
        /\ \A i \in Ids : call[i].op # "none" => call[i].who \in People
    BY DEF CredentialsInv, TypeOK, CallSet
  <2>1. ASSUME NEW c \in Ids, proxied[c].at = "idle", proxied'[c].at \in {"forward", "refused"}
        PROVE  LET p == proxied'[c].who IN
               proxied'[c].at = "forward" <=>
                 /\ Good(p, proxied'[c].gen)
                 /\ key[p].status = "active" /\ (key[p].expires = 0 \/ now < key[p].expires)
    <3>1. \E q \in People, r \in Requests : \E g \in 1..key[q].hash : Authenticate(c, q, g, r)
      <4>1. proxied' # proxied
        BY <2>1
      <4>2. ASSUME NEW d \in Ids, ServeHTTP(d) \/ Write(d) \/ RestartEdge(d)
            PROVE  FALSE
        <5>1. CASE ServeHTTP(d)
          <6>1. proxied[d].at = "forward" /\ \A e \in Ids \ {d} : proxied'[e] = proxied[e]
            BY <2>a, <5>1 DEF ServeHTTP
          <6>. QED
            BY <2>1, <6>1
        <5>2. CASE Write(d)
          BY <2>1, <2>a, <5>2 DEF Write, NoProxied
        <5>3. CASE RestartEdge(d)
          BY <2>1, <5>3 DEF RestartEdge, NoProxied
        <5>. QED
          BY <4>2, <5>1, <5>2, <5>3
      <4>3. PICK d \in Ids : EdgeStep(d)
        BY <4>1 DEF GatewayNext, IssueStep, HandleIssue, MarkActive, Cleanup, RotateStep, HandleRotate, Rotate, RotateAnswered, RetireExpiredPrevKeys, Tick
      <4>4. PICK p \in People, request \in Requests : \E gen \in 1..key[p].hash : Authenticate(d, p, gen, request)
        BY <4>2, <4>3 DEF EdgeStep
      <4>5. d = c
        BY <2>1, <2>a, <4>4 DEF Authenticate
      <4>. QED
        BY <4>4, <4>5
    <3>. PICK p \in People, request \in Requests : \E g \in 1..key[p].hash : Authenticate(c, p, g, request)
      BY <3>1
    <3>. PICK gen \in 1..key[p].hash : Authenticate(c, p, gen, request)
      OBVIOUS
    <3>2. /\ proxied'[c].who = p /\ proxied'[c].gen = gen
          /\ proxied'[c].at = IF ByHash(key[p], gen) /\ Validate(key[p]) THEN "forward" ELSE "refused"
      BY <2>a DEF Authenticate, NoProxied
    <3>3. ByHash(key[p], gen) <=> Good(p, gen)
      BY ByHashIsGood
    <3>4. Validate(key[p]) <=> key[p].status = "active" /\ (key[p].expires = 0 \/ now < key[p].expires)
      BY <2>a DEF Validate, KeyRecord
    <3>. QED
      BY <3>2, <3>3, <3>4
  <2>2. ASSUME NEW i \in Ids, call[i].at = "asked", call'[i].at = "rotated"
        PROVE  LET window == rotations'[call[i].who][Len(rotations'[call[i].who])].window IN
               /\ window \in 1..MaxWindow
               /\ Fits(call[i].asked * Second) => window \in {call[i].asked * Second, DefaultWindow}
    <3>. DEFINE p == call[i].who
                window == Window(call[i].asked)
                rotation == [at |-> now, window |-> window]
    <3>1. Rotate(i) /\ ~Ends(i)
      BY <2>2, <2>a, OnlyRotateRotates, Settled DEF Ends
    <3>2. p \in People /\ window \in 0..MaxWindow /\ call[i].asked \in Int /\ MaxWindow \in Nat
      BY <2>2, <2>a, GatewayAssumption DEF CallSet, CallRecord
    <3>3. rotations' = [rotations EXCEPT ![p] = Append(@, rotation)]
      BY <3>1 DEF Rotate
    <3>4. rotations'[p] = Append(rotations[p], rotation)
      BY <2>a, <3>2, <3>3 DEF CredentialsInv, TypeOK
    <3>5. rotations'[p][Len(rotations'[p])] = rotation
      <4>1. ASSUME NEW S, NEW q \in Seq(S), NEW e \in S
            PROVE  Append(q, e)[Len(Append(q, e))] = e
        BY <4>1
      <4>2. rotations[p] \in Seq([at : Nat, window : Int]) /\ rotation \in [at : Nat, window : Int]
        BY <2>a, <3>2 DEF Rotations
      <4>3. Append(rotations[p], rotation)[Len(Append(rotations[p], rotation))] = rotation
        <5>. HIDE DEF rotation
        <5>. QED
          BY <4>1, <4>2
      <4>. QED
        BY <3>4, <4>3
    <3>6. rotations'[p][Len(rotations'[p])].window = window
      BY <3>5
    <3>7. window \in 1..MaxWindow /\ (Fits(call[i].asked * Second) => window \in {call[i].asked * Second, DefaultWindow})
      BY <3>2, WindowIsRight
    <3>. QED
      BY <3>6, <3>7
  <2>. QED
    BY <2>1, <2>2
<1>. QED
  BY <1>1, <1>2, PTL DEF GatewaySpec, CredentialsFade

-----------------------------------------------------------------------------
(* Positions.                                                               *)

\* A set of natural numbers has a least one.
LEMMA LeastNat ==
  ASSUME NEW S \in SUBSET Nat, S # {} PROVE \E k \in S : \A j \in S : k <= j
<1>. DEFINE R == OpToRel(<, Nat)
<1>1. \A i, j \in Nat : i < j => <<i, j>> \in R
  BY DEF OpToRel
<1>2. IsWellFoundedOn(R, Nat)
  BY NatLessThanWellFounded
<1>. HIDE DEF R
<1>3. PICK k \in S : \A j \in S : <<j, k>> \notin R
  BY <1>2, WFMin
<1>4. \A j \in S : j \in Nat /\ k \in Nat /\ ~(j < k)
  BY <1>1, <1>3
<1>. QED
  BY <1>4

\* What the positions of a sequence hold.
LEMMA Elements ==
  ASSUME NEW S, NEW q \in Seq(S)
  PROVE  Len(q) \in Nat /\ \A i \in 1..Len(q) : q[i] \in S
  OBVIOUS

\* There is a first and a last of the positions in a sequence where something is.
LEMMA FirstAndLast ==
  ASSUME NEW n \in Nat, NEW S \in SUBSET (1..n), S # {}
  PROVE  /\ First(S) \in S /\ \A j \in S : First(S) <= j
         /\ Last(S) \in S /\ \A j \in S : j <= Last(S)
<1>1. \E i \in S : \A j \in S : i <= j
  BY LeastNat
<1>2. \E i \in S : \A j \in S : j <= i
  <2>. DEFINE T == {n - i : i \in S}
  <2>0. \A i \in S : n - i \in Nat
    OBVIOUS
  <2>1. T \in SUBSET Nat /\ T # {}
    BY <2>0
  <2>2. PICK k \in T : \A j \in T : k <= j
    BY <2>1, LeastNat
  <2>3. PICK i \in S : k = n - i
    OBVIOUS
  <2>4. \A j \in S : n - i <= n - j
    BY <2>2, <2>3
  <2>5. \A j \in S : j <= i
    BY <2>4
  <2>. QED
    BY <2>5
<1>. QED
  BY <1>1, <1>2 DEF First, Last

-----------------------------------------------------------------------------
(* The cost.                                                                *)

\* The version that is looked up is the one in effect.
LEMMA LookupIsRight ==
  ASSUME NEW model, NEW at \in Int, Effective(model, at) # {}
  PROVE  /\ model \in DOMAIN Prices
         /\ \E v \in 1..Len(Prices[model]) : InEffect(model, v, at) /\ Lookup(model, at) = Prices[model][v]
<1>. DEFINE versions == Prices[model]
            begun == Effective(model, at)
            v == Last(begun)
<1>1. model \in DOMAIN Prices /\ begun = {i \in 1..Len(versions) : versions[i].from <= at}
  BY DEF Effective
<1>2. versions \in Seq(Versions)
  BY <1>1, PricesAssumption
<1>2a. Len(versions) \in Nat /\ \A i \in 1..Len(versions) : versions[i] \in Versions
  BY <1>2, Elements
<1>3. v \in begun /\ \A j \in begun : j <= v
  BY <1>1, <1>2a, FirstAndLast
<1>3a. v \in 1..Len(versions) /\ versions[v].from <= at
  BY <1>1, <1>3
<1>4. ASSUME v < Len(versions)
      PROVE  versions[v + 1].from > at
  <2>1. v + 1 \in 1..Len(versions) /\ v + 1 \notin begun
    <3>. HIDE DEF v, begun, versions
    <3>. QED
      BY <1>2a, <1>3, <1>3a, <1>4
  <2>2. versions[v + 1].from \in Int
    BY <1>2a, <2>1 DEF Versions
  <2>. QED
    BY <1>1, <2>1, <2>2
<1>5. InEffect(model, v, at)
  BY <1>3a, <1>4 DEF InEffect
<1>. QED
  BY <1>1, <1>3a, <1>5 DEF Lookup

\* Below a tier the input fits in there are the tiers it is above, and no others: the tier
\* that is selected is the one the reference takes.
LEMMA TierIsRight ==
  ASSUME NEW tiers \in Seq(Tiers), TiersAscend(tiers), NEW input \in Int, Fitting(tiers, input) # {}
  PROVE  SelectTier(tiers, input) \in Tiers /\ SelectTier(tiers, input) = TierAbove(tiers, input)
<1>. DEFINE fits == Fitting(tiers, input)
            above == {i \in 1..Len(tiers) : tiers[i].max # 0 /\ tiers[i].max < input}
            f == First(fits)
<1>1. Len(tiers) \in Nat /\ \A i \in 1..Len(tiers) : tiers[i] \in Tiers /\ tiers[i].max \in Int
  <2>1. Len(tiers) \in Nat /\ \A i \in 1..Len(tiers) : tiers[i] \in Tiers
    BY Elements
  <2>. QED
    BY <2>1 DEF Tiers
<1>2. \A i \in 1..Len(tiers) : i \in fits <=> i \notin above
  BY <1>1 DEF Fitting
<1>3. fits \in SUBSET (1..Len(tiers))
  BY DEF Fitting
<1>4. f \in fits /\ \A j \in fits : f <= j
  BY <1>1, <1>3, FirstAndLast
<1>5. ASSUME NEW j \in above
      PROVE  j < f
  <2>. DEFINE Bad == {i \in above : i >= f}
  <2>1. SUFFICES ASSUME Bad # {} PROVE FALSE
    BY <1>1, <1>3, <1>4
  <2>2. Bad \in SUBSET Nat
    OBVIOUS
  <2>3. PICK k \in Bad : \A i \in Bad : k <= i
    BY <2>1, <2>2, LeastNat
  <2>4. k \in above /\ k \in 1..Len(tiers) /\ f \in 1..Len(tiers) /\ k > f
    BY <1>2, <1>3, <1>4, <2>3
  <2>5. k - 1 \in 1..Len(tiers) /\ k \in 2..Len(tiers) /\ k - 1 \notin above
    BY <1>1, <2>3, <2>4
  <2>6. tiers[k - 1].max # 0 /\ (tiers[k].max # 0 => tiers[k].max > tiers[k - 1].max)
    BY <2>5 DEF TiersAscend
  <2>7. ~(tiers[k - 1].max < input) /\ tiers[k].max # 0 /\ tiers[k].max < input
    BY <2>4, <2>5, <2>6
  <2>. QED
    BY <1>1, <2>4, <2>5, <2>6, <2>7
<1>6. above = 1..(f - 1)
  <2>1. ASSUME NEW j \in 1..(f - 1)
        PROVE  j \in above
    BY <1>1, <1>2, <1>3, <1>4
  <2>. QED
    BY <1>1, <1>3, <1>4, <1>5, <2>1
<1>7. Cardinality(above) + 1 = f
  <2>1. f \in Nat \ {0} /\ f - 1 \in Int
    BY <1>1, <1>3, <1>4
  <2>2. ASSUME NEW k \in Int, k >= 0
        PROVE  Cardinality(1..k) = k
    <3>1. Cardinality(1..k) = IF 1 > k THEN 0 ELSE k - 1 + 1
      BY FS_Interval
    <3>. QED
      BY <2>2, <3>1
  <2>. HIDE DEF f, above
  <2>3. Cardinality(above) = f - 1
    BY <1>6, <2>1, <2>2
  <2>. QED
    BY <2>1, <2>3
<1>8. tiers[f] \in Tiers
  BY <1>1, <1>3, <1>4
<1>. QED
  BY <1>7, <1>8 DEF SelectTier, TierAbove

\* Division keeps the sign and loses less than one.
LEMMA Truncated ==
  ASSUME NEW a \in Int, NEW b \in Nat \ {0}
  PROVE  /\ Quotient(a, b) \in Int
         /\ a >= 0 => Quotient(a, b) >= 0 /\ b * Quotient(a, b) <= a /\ a < b * Quotient(a, b) + b
         /\ a < 0 => Quotient(a, b) <= 0 /\ a <= b * Quotient(a, b) /\ b * Quotient(a, b) - b < a
<1>1. CASE a >= 0
  BY <1>1 DEF Quotient
<1>2. CASE a < 0
  <2>. DEFINE c == -a
              q == c \div b
  <2>1. c \in Nat
    BY <1>2
  <2>2. q \in Nat /\ b * q <= c /\ c < b * q + b
    <3>. HIDE DEF c
    <3>. QED
      BY <2>1
  <2>3. Quotient(a, b) = -q
    BY <1>2 DEF Quotient
  <2>. HIDE DEF q
  <2>4. b * (-q) = -(b * q) /\ b * q \in Nat
    BY <2>2
  <2>. QED
    BY <1>2, <2>2, <2>3, <2>4
<1>. QED
  BY <1>1, <1>2

LEMMA HalfNat == Half \in Nat \ {0}
  BY WordAssumption DEF Half

LEMMA WrapIsInWord ==
  ASSUME NEW n \in Int
  PROVE  /\ -Half <= n /\ n < Half => Wrap(n) = n
         /\ Fits(n) => -Half <= n /\ n < Half
<1>. DEFINE k == (n + Half) % (2 * Half)
<1>1. k \in 0..(2 * Half - 1) /\ Half \in Nat \ {0} /\ (-Half <= n /\ n < Half => k = n + Half)
  BY HalfNat
<1>2. Wrap(n) = k - Half
  BY DEF Wrap
<1>. HIDE DEF k
<1>. QED
  BY <1>1, <1>2 DEF Fits

\* One of the four parts of a cost.
LEMMA PartIsRight ==
  ASSUME NEW tokens \in Int, NEW price \in Int, Fits(tokens * price)
  PROVE  LET part == perMillion(tokens, price) IN
         /\ part \in Int
         /\ Scale * part - Scale < tokens * price /\ tokens * price < Scale * part + Scale
         /\ tokens * price >= 0 => Scale * part <= tokens * price
         /\ -Half <= Scale * part /\ Scale * part < Half
<1>. DEFINE product == tokens * price
            part == perMillion(tokens, price)
<1>1. product \in Int /\ -Half <= product /\ product < Half /\ Wrap(product) = product
  BY WrapIsInWord DEF Fits
<1>2. Scale \in Nat \ {0} /\ Half \in Nat \ {0}
  BY WordAssumption, HalfNat
<1>3. part = Quotient(product, Scale)
  BY <1>1 DEF perMillion
<1>. HIDE DEF product
<1>4. /\ part \in Int
      /\ product >= 0 => part >= 0 /\ Scale * part <= product /\ product < Scale * part + Scale
      /\ product < 0 => part <= 0 /\ product <= Scale * part /\ Scale * part - Scale < product
  BY <1>1, <1>2, <1>3, Truncated
<1>. HIDE DEF part
<1>5. Scale * part \in Int /\ (part >= 0 => Scale * part >= 0) /\ (part <= 0 => Scale * part <= 0)
  BY <1>2, <1>4
<1>. DEFINE s == Scale * part
<1>6. /\ s \in Int /\ (part >= 0 => s >= 0) /\ (part <= 0 => s <= 0)
      /\ product >= 0 => part >= 0 /\ s <= product /\ product < s + Scale
      /\ product < 0 => part <= 0 /\ product <= s /\ s - Scale < product
  BY <1>4, <1>5
<1>7. /\ s - Scale < product /\ product < s + Scale
      /\ product >= 0 => s <= product
      /\ -Half <= s /\ s < Half
  <2>. HIDE DEF s
  <2>. QED
    BY <1>1, <1>2, <1>4, <1>6
<1>. QED
  BY <1>4, <1>7 DEF product, part

\* A part is at most a quarter of the word, since the scale is at least four.
LEMMA PartIsSmall ==
  ASSUME NEW n \in Int, -Half <= Scale * n, Scale * n < Half
  PROVE  -Half <= 4 * n /\ 4 * n < Half
<1>1. Scale \in Nat /\ Scale >= 4 /\ Half \in Nat \ {0}
  BY WordAssumption, HalfNat
<1>2. ASSUME NEW s \in Nat, s >= 4, NEW h \in Nat \ {0}, -h <= s * n, s * n < h
      PROVE  -h <= 4 * n /\ 4 * n < h
  <2>1. CASE n >= 0
    <3>1. 4 * n <= s * n /\ 0 <= 4 * n /\ s * n \in Int
      BY <1>2, <2>1
    <3>. QED
      BY <1>2, <3>1
  <2>2. CASE n < 0
    <3>1. s * n <= 4 * n /\ 4 * n < 0 /\ s * n \in Int
      BY <1>2, <2>2
    <3>. QED
      BY <1>2, <3>1
  <2>. QED
    BY <2>1, <2>2
<1>. QED
  BY <1>1, <1>2

\* The cost of a call is what its tokens come to at the prices of its tier, less than four
\* units more or less, and never more unless a price is negative (the rounding of
\* perMillion, the tiers of SelectTier): for any width of an integer, any scale and any
\* prices, provided that no product overflows.
THEOREM CostIsRight ==
  ASSUME NEW tiers \in Seq(Tiers), TiersAscend(tiers), NEW u \in Usages, Priceable(tiers, u)
  PROVE  CostsWhatItShould(tiers, u, Cost(tiers, u))
<1>. DEFINE tier == SelectTier(tiers, u.input)
            a == (u.input - u.cached) * tier.input
            b == u.cached * tier.cached
            c == (u.output - u.reasoning) * tier.output
            d == u.reasoning * tier.reasoning
            w == perMillion(u.input - u.cached, tier.input)
            x == perMillion(u.cached, tier.cached)
            y == perMillion(u.output - u.reasoning, tier.output)
            z == perMillion(u.reasoning, tier.reasoning)
<1>1. /\ u.input \in Int /\ u.cached \in Int /\ u.output \in Int /\ u.reasoning \in Int
      /\ tier \in Tiers /\ tier = TierAbove(tiers, u.input)
  BY TierIsRight DEF Usages, Priceable
<1>2. /\ u.input - u.cached \in Int /\ u.output - u.reasoning \in Int
      /\ tier.input \in Int /\ tier.cached \in Int /\ tier.output \in Int /\ tier.reasoning \in Int
  BY <1>1 DEF Tiers
<1>3. /\ Products(TierAbove(tiers, u.input), u) = {a, b, c, d}
      /\ Exact(TierAbove(tiers, u.input), u) = a + b + c + d
  BY <1>1 DEF Products, Exact
<1>4. SUFFICES ASSUME Fits(a), Fits(b), Fits(c), Fits(d)
               PROVE  /\ Scale * (Cost(tiers, u) - 4) < a + b + c + d
                      /\ a + b + c + d < Scale * (Cost(tiers, u) + 4)
                      /\ a >= 0 /\ b >= 0 /\ c >= 0 /\ d >= 0 => Scale * Cost(tiers, u) <= a + b + c + d
  BY <1>3 DEF CostsWhatItShould
<1>5. /\ w \in Int /\ Scale * w - Scale < a /\ a < Scale * w + Scale /\ (a >= 0 => Scale * w <= a)
      /\ x \in Int /\ Scale * x - Scale < b /\ b < Scale * x + Scale /\ (b >= 0 => Scale * x <= b)
      /\ y \in Int /\ Scale * y - Scale < c /\ c < Scale * y + Scale /\ (c >= 0 => Scale * y <= c)
      /\ z \in Int /\ Scale * z - Scale < d /\ d < Scale * z + Scale /\ (d >= 0 => Scale * z <= d)
      /\ -Half <= Scale * w /\ Scale * w < Half /\ -Half <= Scale * x /\ Scale * x < Half
      /\ -Half <= Scale * y /\ Scale * y < Half /\ -Half <= Scale * z /\ Scale * z < Half
  BY <1>1, <1>2, <1>4, PartIsRight
<1>6. a \in Int /\ b \in Int /\ c \in Int /\ d \in Int
  <2>1. \A m, n \in Int : m * n \in Int
    OBVIOUS
  <2>. HIDE DEF tier
  <2>. QED
    BY <1>1, <1>2, <2>1
<1>7. Cost(tiers, u) = Wrap(w + x + y + z)
  BY DEF Cost
<1>. HIDE DEF a, b, c, d, w, x, y, z
<1>8. Scale \in Nat /\ Scale >= 4 /\ Half \in Nat \ {0}
  BY WordAssumption, HalfNat
<1>9. /\ -Half <= w + x + y + z /\ w + x + y + z < Half
      /\ Scale * (w + x + y + z) = Scale * w + Scale * x + Scale * y + Scale * z
  <2>1. /\ -Half <= 4 * w /\ 4 * w < Half /\ -Half <= 4 * x /\ 4 * x < Half
        /\ -Half <= 4 * y /\ 4 * y < Half /\ -Half <= 4 * z /\ 4 * z < Half
    BY <1>5, PartIsSmall
  <2>2. -Half <= w + x + y + z /\ w + x + y + z < Half
    BY <1>5, <1>8, <2>1
  <2>3. \A s, m, n, o, p \in Int : s * (m + n + o + p) = s * m + s * n + s * o + s * p
    OBVIOUS
  <2>. QED
    BY <1>5, <1>8, <2>2, <2>3
<1>10. Cost(tiers, u) = w + x + y + z
  BY <1>5, <1>7, <1>9, WrapIsInWord
<1>. DEFINE cost == Cost(tiers, u)
            sw == Scale * w  sx == Scale * x  sy == Scale * y  sz == Scale * z
<1>11. sw \in Int /\ sx \in Int /\ sy \in Int /\ sz \in Int /\ cost \in Int
  BY <1>5, <1>8, <1>10
<1>12. /\ Scale * cost = sw + sx + sy + sz
       /\ Scale * (cost - 4) = Scale * cost - 4 * Scale
       /\ Scale * (cost + 4) = Scale * cost + 4 * Scale
  <2>1. \A s, n \in Int : s * (n - 4) = s * n - 4 * s /\ s * (n + 4) = s * n + 4 * s
    OBVIOUS
  <2>. QED
    BY <1>8, <1>9, <1>10, <1>11, <2>1
<1>13. /\ sw - Scale < a /\ a < sw + Scale /\ (a >= 0 => sw <= a) /\ sx - Scale < b /\ b < sx + Scale /\ (b >= 0 => sx <= b)
       /\ sy - Scale < c /\ c < sy + Scale /\ (c >= 0 => sy <= c) /\ sz - Scale < d /\ d < sz + Scale /\ (d >= 0 => sz <= d)
  BY <1>5
<1>. HIDE DEF cost, sw, sx, sy, sz
<1>14. /\ sw + sx + sy + sz - 4 * Scale < a + b + c + d
       /\ a + b + c + d < sw + sx + sy + sz + 4 * Scale
       /\ a >= 0 /\ b >= 0 /\ c >= 0 /\ d >= 0 => sw + sx + sy + sz <= a + b + c + d
  BY <1>6, <1>8, <1>11, <1>13
<1>15. /\ Scale * (cost - 4) < a + b + c + d
       /\ a + b + c + d < Scale * (cost + 4)
       /\ a >= 0 /\ b >= 0 /\ c >= 0 /\ d >= 0 => Scale * cost <= a + b + c + d
  <2>. DEFINE low == Scale * (cost - 4)
              high == Scale * (cost + 4)
              mid == Scale * cost
  <2>1. mid = sw + sx + sy + sz /\ low = mid - 4 * Scale /\ high = mid + 4 * Scale
    BY <1>12
  <2>2. low < a + b + c + d /\ a + b + c + d < high /\ (a >= 0 /\ b >= 0 /\ c >= 0 /\ d >= 0 => mid <= a + b + c + d)
    <3>. HIDE DEF low, high, mid
    <3>. QED
      BY <1>6, <1>8, <1>11, <1>14, <2>1
  <2>. QED
    BY <2>2
<1>. QED
  BY <1>15 DEF cost


-----------------------------------------------------------------------------
(* The account of a call.                                                   *)

\* What a record owes to the answer it is about.
RecordIsRight(request, answer, since, record) ==
  /\ record.error # "" => record.cost = 0
  /\ record.error = "" =>
       /\ ReportedFirst(request, answer.frames, record.usage)
       /\ \E v \in 1..Len(Prices[record.model]) :
            /\ InEffect(record.model, v, since)
            /\ CostsWhatItShould(Prices[record.model][v].tiers, record.usage, record.cost)

Errors ==
  {"", "read_request_body_failed", "invalid_request_body", "upstream_unreachable", "upstream_error",
   "usage_missing", "stream_read_failed", "sse_line_too_long", "read_response_failed", "usage_parse_failed",
   "price_not_found", "cost_calc_failed"}

Records == [error : Errors, model : Models, usage : Usages, cost : Int]

LEMMA RecordIsTyped ==
  ASSUME NEW error \in Errors, NEW model \in Models, NEW usage \in Usages, NEW cost \in Int
  PROVE  Record(error, model, usage, cost) \in Records
  BY DEF Record, Records

LEMMA NoUsageIsUsage == NoUsage \in Usages
  BY DEF NoUsage, Usages

LEMMA NoError == "" \in Errors
  BY DEF Errors

LEMMA ZeroIsInt == 0 \in Int
  OBVIOUS

\* An error costs nothing.
LEMMA FailedIsRight ==
  ASSUME NEW request, NEW answer, NEW since, NEW error \in Errors, error # "", NEW model \in Models
  PROVE  RecordIsRight(request, answer, since, Failed(error, model)) /\ Failed(error, model) \in Records
<1>. DEFINE record == Record(error, model, NoUsage, 0)
<1>1. Failed(error, model) = record
  BY DEF Failed
<1>2. record \in Records
  BY RecordIsTyped, NoUsageIsUsage, ZeroIsInt
<1>3. record.error = error /\ record.cost = 0
  BY DEF Record
<1>. HIDE DEF record
<1>4. RecordIsRight(request, answer, since, record)
  BY <1>3 DEF RecordIsRight
<1>. QED
  BY <1>1, <1>2, <1>4

LEMMA CostIsInt ==
  ASSUME NEW tiers \in Seq(Tiers), TiersAscend(tiers), NEW u \in Usages, Priceable(tiers, u)
  PROVE  Cost(tiers, u) \in Int
<1>. DEFINE tier == SelectTier(tiers, u.input)
<1>1. u.input \in Int /\ u.cached \in Int /\ u.output \in Int /\ u.reasoning \in Int
  BY DEF Usages
<1>2. tier \in Tiers
  BY <1>1, TierIsRight DEF Priceable
<1>3. tier.input \in Int /\ tier.cached \in Int /\ tier.output \in Int /\ tier.reasoning \in Int
  BY <1>2 DEF Tiers
<1>4. ASSUME NEW n \in Int
      PROVE  Wrap(n) \in Int
  BY HalfNat DEF Wrap
<1>5. ASSUME NEW tokens \in Int, NEW price \in Int
      PROVE  perMillion(tokens, price) \in Int
  <2>1. tokens * price \in Int
    OBVIOUS
  <2>. QED
    BY <1>4, <2>1, Truncated, WordAssumption DEF perMillion
<1>. DEFINE w == perMillion(u.input - u.cached, tier.input)
            x == perMillion(u.cached, tier.cached)
            y == perMillion(u.output - u.reasoning, tier.output)
            z == perMillion(u.reasoning, tier.reasoning)
<1>6. u.input - u.cached \in Int /\ u.output - u.reasoning \in Int
  BY <1>1
<1>7. w \in Int /\ x \in Int /\ y \in Int /\ z \in Int
  <2>. HIDE DEF tier
  <2>. QED
    BY <1>1, <1>3, <1>5, <1>6
<1>8. Cost(tiers, u) = Wrap(w + x + y + z)
  BY DEF Cost
<1>. HIDE DEF w, x, y, z
<1>. QED
  BY <1>4, <1>7, <1>8

\* What is priced is priced by the version in effect and by the tier it falls in.
LEMMA PricedIsRight ==
  ASSUME NEW request, NEW answer, NEW usage \in Usages, NEW model \in Models, NEW since \in Nat,
         ReportedFirst(request, answer.frames, usage)
  PROVE  /\ RecordIsRight(request, answer, since, Priced(usage, model, since))
         /\ Priced(usage, model, since) \in Records
<1>1. ASSUME NEW error \in Errors, error # "", Priced(usage, model, since) = Record(error, model, usage, 0)
      PROVE  /\ RecordIsRight(request, answer, since, Priced(usage, model, since))
             /\ Priced(usage, model, since) \in Records
  <2>. DEFINE record == Record(error, model, usage, 0)
  <2>1. record \in Records
    BY RecordIsTyped, ZeroIsInt
  <2>2. record.error = error /\ record.cost = 0
    BY DEF Record
  <2>. HIDE DEF record
  <2>3. RecordIsRight(request, answer, since, record)
    BY <1>1, <2>2 DEF RecordIsRight
  <2>. QED
    BY <1>1, <2>1, <2>3 DEF record
<1>2. CASE Effective(model, since) = {}
  BY <1>1, <1>2 DEF Priced, Errors
<1>3. CASE Effective(model, since) # {} /\ ~Priceable(Lookup(model, since).tiers, usage)
  BY <1>1, <1>3 DEF Priced, Errors
<1>4. CASE Effective(model, since) # {} /\ Priceable(Lookup(model, since).tiers, usage)
  <2>1. model \in DOMAIN Prices
    BY <1>4, LookupIsRight
  <2>2. PICK v \in 1..Len(Prices[model]) : InEffect(model, v, since) /\ Lookup(model, since) = Prices[model][v]
    BY <1>4, LookupIsRight
  <2>. DEFINE tiers == Prices[model][v].tiers
              cost == Cost(tiers, usage)
              record == Record("", model, usage, cost)
  <2>3. Prices[model][v] \in Versions /\ TiersAscend(tiers)
    <3>1. Prices[model] \in Seq(Versions) /\ TiersAscend(tiers)
      BY <2>1, <2>2, PricesAssumption
    <3>. QED
      BY <2>2, <3>1, Elements
  <2>4. tiers \in Seq(Tiers)
    BY <2>3 DEF Versions
  <2>5. CostsWhatItShould(tiers, usage, cost) /\ cost \in Int
    BY <1>4, <2>2, <2>3, <2>4, CostIsRight, CostIsInt
  <2>6. Priced(usage, model, since) = record
    BY <1>4, <2>2 DEF Priced
  <2>. HIDE DEF cost
  <2>. HIDE DEF tiers
  <2>7. record \in Records
    BY <2>5, RecordIsTyped, NoError
  <2>8. record.error = "" /\ record.model = model /\ record.usage = usage /\ record.cost = cost
    BY DEF Record
  <2>. HIDE DEF record
  <2>9. RecordIsRight(request, answer, since, record)
    BY <2>2, <2>5, <2>8 DEF RecordIsRight, tiers
  <2>. QED
    BY <2>6, <2>7, <2>9
<1>. QED
  BY <1>2, <1>3, <1>4

LEMMA AnswersAreTyped ==
  ASSUME NEW request \in Requests, NEW answer \in Kinds(request)
  PROVE  /\ answer \in Answers /\ request.stream \in BOOLEAN /\ answer.kind \in {"none", "refusal", "ok"}
         /\ answer.kind = "ok" =>
              /\ answer.frames \in Seq(Frames)
              /\ ~request.stream => Len(answer.frames) = 1
  BY RequestsAssumption, AnswersAssumption DEF Kinds

\* The record of a stream: the usage of the first frame that has any.
LEMMA StreamedIsRight ==
  ASSUME NEW request, NEW answer, answer.frames \in Seq(Frames)
  PROVE  /\ Streamed(answer).model \in Models
         /\ Streamed(answer).usage # None =>
              Streamed(answer).usage \in Usages /\ ReportedFirst(request, answer.frames, Streamed(answer).usage)
<1>. DEFINE frames == answer.frames
            i == First(Usable(frames))
            j == First(Named(frames))
<1>1. /\ Len(frames) \in Nat
      /\ \A k \in 1..Len(frames) : frames[k] \in Frames /\ frames[k].model \in Models /\ frames[k].usage \in Usages \cup {None}
  <2>1. Len(frames) \in Nat /\ \A k \in 1..Len(frames) : frames[k] \in Frames
    BY Elements
  <2>. QED
    BY <2>1 DEF Frames
<1>2. Usable(frames) \in SUBSET (1..Len(frames)) /\ Named(frames) \in SUBSET (1..Len(frames))
  BY DEF Usable, Named
<1>3. /\ Streamed(answer).usage = IF Usable(frames) = {} THEN None ELSE frames[i].usage
      /\ Streamed(answer).model = IF Named(frames) = {} THEN "" ELSE frames[j].model
  BY DEF Streamed
<1>4. Streamed(answer).model \in Models
  BY <1>1, <1>2, <1>3, FirstAndLast DEF Models
<1>5. ASSUME Streamed(answer).usage # None
      PROVE  Streamed(answer).usage \in Usages /\ ReportedFirst(request, frames, Streamed(answer).usage)
  <2>1. i \in Usable(frames) /\ \A k \in Usable(frames) : i <= k
    BY <1>1, <1>2, <1>3, <1>5, FirstAndLast
  <2>2. i \in 1..Len(frames) /\ Streamed(answer).usage = frames[i].usage
    BY <1>2, <1>3, <1>5, <2>1
  <2>3. \A k \in 1..(i - 1) : k \in 1..Len(frames) /\ k \notin Usable(frames)
    <3>. HIDE DEF i
    <3>. QED
      BY <1>1, <2>1, <2>2
  <2>4. \A k \in 1..(i - 1) : frames[k].usage = None
    BY <2>3 DEF Usable
  <2>. QED
    BY <1>1, <1>5, <2>1, <2>2, <2>4 DEF ReportedFirst
<1>. QED
  BY <1>4, <1>5

\* The record of an answer is what it owes to it.
LEMMA AccountIsRight ==
  ASSUME NEW request \in Requests, NEW answer \in Kinds(request), NEW since \in Nat
  PROVE  /\ RecordIsRight(request, answer, since, Account(request, answer, since))
         /\ Account(request, answer, since) \in Records
<1>0. "" \in Models
  BY DEF Models
<1>1. \A error \in Errors \ {""}, model \in Models :
        RecordIsRight(request, answer, since, Failed(error, model)) /\ Failed(error, model) \in Records
  BY FailedIsRight
<1>2. CASE answer.kind # "ok"
  <2>1. Account(request, answer, since) \in {Failed("upstream_unreachable", ""), Failed("upstream_error", "")}
    BY <1>2, AnswersAreTyped DEF Account
  <2>. QED
    BY <1>0, <1>1, <2>1 DEF Errors
<1>3. CASE answer.kind = "ok" /\ request.stream
  <2>1. answer.frames \in Seq(Frames)
    BY <1>3, AnswersAreTyped
  <2>2. CASE Streamed(answer).usage # None
    <3>1. Account(request, answer, since) = Priced(Streamed(answer).usage, Streamed(answer).model, since)
      BY <1>3, <2>2 DEF Account
    <3>. QED
      BY <2>1, <2>2, <3>1, StreamedIsRight, PricedIsRight
  <2>3. CASE Streamed(answer).usage = None
    <3>1. Account(request, answer, since) = Failed(StreamError(answer.ends), Streamed(answer).model)
      BY <1>3, <2>3 DEF Account
    <3>2. StreamError(answer.ends) \in Errors \ {""}
      BY DEF StreamError, Errors
    <3>. QED
      BY <1>1, <2>1, <3>1, <3>2, StreamedIsRight
  <2>. QED
    BY <2>2, <2>3
<1>4. CASE answer.kind = "ok" /\ ~request.stream
  <2>. DEFINE frames == answer.frames
              f == frames[1]
              usage == IF f.usage = None THEN NoUsage ELSE f.usage
  <2>1. CASE answer.ends \in {"cut", "garbled"}
    <3>1. Account(request, answer, since) \in {Failed("read_response_failed", ""), Failed("usage_parse_failed", "")}
      BY <1>4, <2>1 DEF Account
    <3>. QED
      BY <1>0, <1>1, <3>1 DEF Errors
  <2>2. CASE answer.ends \notin {"cut", "garbled"}
    <3>1. Account(request, answer, since) = Priced(usage, f.model, since)
      BY <1>4, <2>2 DEF Account
    <3>2. f \in Frames /\ Len(frames) = 1
      <4>1. frames \in Seq(Frames) /\ Len(frames) = 1
        BY <1>4, AnswersAreTyped
      <4>2. \A k \in 1..Len(frames) : frames[k] \in Frames
        BY <4>1, Elements
      <4>. QED
        BY <4>1, <4>2
    <3>3. NoUsage \in Usages
      BY DEF NoUsage, Usages
    <3>4. usage \in Usages /\ f.model \in Models
      BY <3>2, <3>3 DEF Frames
    <3>5. ReportedFirst(request, frames, usage)
      <4>1. Usable(frames) = IF f.usage = None THEN {} ELSE {1}
        BY <3>2 DEF Usable
      <4>. QED
        BY <1>4, <4>1 DEF ReportedFirst
    <3>. HIDE DEF usage, f
    <3>. QED
      BY <3>1, <3>4, <3>5, PricedIsRight
  <2>. QED
    BY <2>1, <2>2
<1>. QED
  BY <1>2, <1>3, <1>4, AnswersAreTyped

-----------------------------------------------------------------------------
(* The calls of the edge.                                                   *)

ProxiedRecord ==
  [at : {"idle", "forward", "refused", "answered"}, who : People \cup {None}, gen : Nat, since : Nat,
   request : Requests \cup {None}, answer : Answers \cup {None}, record : Records \cup {None}]

\* A call that is let through has its body; one that has ended has the record of the refusal
\* of its body or of the panic over it, or of the answer it got.
Unanswered(request) == Panics(request) \/ Rejection(request) # ""

RecordsAreKept ==
  \A c \in Ids :
    LET request == proxied[c].request
        answer == proxied[c].answer
        record == proxied[c].record IN
    /\ proxied[c].at \in {"forward", "answered"} => request \in Requests
    /\ proxied[c].at = "forward" => answer = None
    /\ proxied[c].at = "answered" =>
         \/ Unanswered(request) /\ answer = None /\ record = Failed(Rejection(request), "")
         \/ ~Unanswered(request) /\ answer \in Kinds(request) /\ record = Account(request, answer, proxied[c].since)

\* What a call leaves that ends before it is sent on.
LEMMA RejectionsAreTyped ==
  ASSUME NEW request
  PROVE  /\ Failed(Rejection(request), "") \in Records
         /\ LET record == Failed(Rejection(request), "") IN
            record.error = Rejection(request) /\ record.usage = NoUsage /\ record.cost = 0
<1>. DEFINE record == Record(Rejection(request), "", NoUsage, 0)
<1>1. Rejection(request) \in Errors /\ "" \in Models
  BY DEF Rejection, Errors, Models
<1>2. Failed(Rejection(request), "") = record
  BY DEF Failed
<1>3. record \in Records
  BY <1>1, RecordIsTyped, NoUsageIsUsage, ZeroIsInt
<1>4. record.error = Rejection(request) /\ record.usage = NoUsage /\ record.cost = 0
  BY DEF Record
<1>. HIDE DEF record
<1>. QED
  BY <1>2, <1>3, <1>4

CallsInv == TypeOK /\ proxied \in [Ids -> ProxiedRecord] /\ RecordsAreKept

\* Nothing but the call's own steps, and a crash of the edge, changes where it stands.
LEMMA EdgeChangesCalls ==
  ASSUME GatewayNext, proxied' # proxied
  PROVE  \/ \E c \in Ids, p \in People, request \in Requests : \E gen \in 1..key[p].hash : Authenticate(c, p, gen, request)
         \/ \E c \in Ids : ServeHTTP(c) \/ Write(c) \/ RestartEdge(c)
  BY DEF GatewayNext, IssueStep, HandleIssue, MarkActive, Cleanup, RotateStep, EdgeStep, HandleRotate, Rotate, RotateAnswered,
     RetireExpiredPrevKeys, Tick

LEMMA InitCallsInv == GatewayInit => CallsInv
<1>. SUFFICES ASSUME GatewayInit PROVE CallsInv
  OBVIOUS
<1>1. NoProxied \in ProxiedRecord /\ NoProxied.at = "idle"
  BY DEF NoProxied, ProxiedRecord
<1>2. \A c \in Ids : proxied[c] = NoProxied
  BY DEF GatewayInit
<1>3. proxied \in [Ids -> ProxiedRecord]
  BY <1>1 DEF GatewayInit
<1>4. RecordsAreKept
  BY <1>1, <1>2 DEF RecordsAreKept
<1>. QED
  BY <1>3, <1>4, InitTypeOK DEF CallsInv

LEMMA NextCallsInv == CallsInv /\ [GatewayNext]_gatewayVars => CallsInv'
<1>. SUFFICES ASSUME CallsInv, [GatewayNext]_gatewayVars PROVE CallsInv'
  OBVIOUS
<1>1. TypeOK'
  BY NextTypeOK DEF CallsInv
<1>2. SUFFICES proxied' \in [Ids -> ProxiedRecord] /\ RecordsAreKept'
  BY <1>1 DEF CallsInv
<1>3. proxied \in [Ids -> ProxiedRecord] /\ RecordsAreKept /\ now \in Nat
  BY DEF CallsInv, TypeOK
<1>4. NoProxied \in ProxiedRecord /\ NoProxied.at = "idle"
  BY DEF NoProxied, ProxiedRecord
<1>5. CASE proxied' = proxied
  BY <1>3, <1>5 DEF RecordsAreKept
<1>6. ASSUME NEW c \in Ids, NEW next \in ProxiedRecord, proxied' = [proxied EXCEPT ![c] = next],
             next.at \in {"forward", "answered"} => next.request \in Requests,
             next.at = "forward" => next.answer = None,
             next.at = "answered" =>
               \/ Unanswered(next.request) /\ next.answer = None /\ next.record = Failed(Rejection(next.request), "")
               \/ ~Unanswered(next.request) /\ next.answer \in Kinds(next.request) /\ next.record = Account(next.request, next.answer, next.since)
      PROVE  proxied' \in [Ids -> ProxiedRecord] /\ RecordsAreKept'
  <2>1. proxied' \in [Ids -> ProxiedRecord] /\ proxied'[c] = next /\ \A d \in Ids \ {c} : proxied'[d] = proxied[d]
    BY <1>3, <1>6
  <2>2. RecordsAreKept'
    BY <1>3, <1>6, <2>1, Zenon DEF RecordsAreKept
  <2>. QED
    BY <2>1, <2>2
<1>7. ASSUME NEW c \in Ids, NEW p \in People, NEW request \in Requests, NEW gen \in 1..key[p].hash, Authenticate(c, p, gen, request)
      PROVE  proxied' \in [Ids -> ProxiedRecord] /\ RecordsAreKept'
  <2>. DEFINE at == IF ByHash(key[p], gen) /\ Validate(key[p]) THEN "forward" ELSE "refused"
              next == [at |-> at, who |-> p, gen |-> gen, since |-> now, request |-> request, answer |-> None, record |-> None]
  <2>1. gen \in Nat
    BY DEF CallsInv, TypeOK, KeyRecord
  <2>2. next \in ProxiedRecord
    BY <1>3, <2>1 DEF ProxiedRecord
  <2>3. proxied' = [proxied EXCEPT ![c] = next]
    BY <1>7 DEF Authenticate
  <2>4. next.at # "answered" /\ next.request \in Requests /\ next.answer = None
    OBVIOUS
  <2>. HIDE DEF next
  <2>. QED
    BY <1>6, <2>2, <2>3, <2>4
<1>8. ASSUME NEW c \in Ids, ServeHTTP(c)
      PROVE  proxied' \in [Ids -> ProxiedRecord] /\ RecordsAreKept'
  <2>. DEFINE request == proxied[c].request
              since == proxied[c].since
  <2>1. request \in Requests /\ since \in Nat /\ proxied[c].answer = None /\ proxied[c] \in ProxiedRecord
    BY <1>3, <1>8 DEF ServeHTTP, RecordsAreKept, ProxiedRecord
  <2>2. ASSUME NEW a \in Answers \cup {None}, NEW record \in Records,
               proxied' = [proxied EXCEPT ![c] = Answered(proxied[c], a, record)],
               \/ Unanswered(request) /\ a = None /\ record = Failed(Rejection(request), "")
               \/ ~Unanswered(request) /\ a \in Kinds(request) /\ record = Account(request, a, since)
        PROVE  proxied' \in [Ids -> ProxiedRecord] /\ RecordsAreKept'
    <3>. DEFINE next == Answered(proxied[c], a, record)
    <3>1. /\ next \in ProxiedRecord /\ next.at = "answered" /\ next.request = request /\ next.since = since
          /\ next.answer = a /\ next.record = record
      BY <2>1 DEF Answered, ProxiedRecord
    <3>. HIDE DEF next
    <3>2. proxied' = [proxied EXCEPT ![c] = next]
      BY <2>2 DEF next
    <3>. QED
      BY <1>6, <2>1, <2>2, <3>1, <3>2
  <2>3. CASE Unanswered(request)
    <3>1. Failed(Rejection(request), "") \in Records
      BY RejectionsAreTyped
    <3>2. proxied' = [proxied EXCEPT ![c] = Answered(proxied[c], None, Failed(Rejection(request), ""))]
      BY <1>8, <2>3 DEF ServeHTTP, Unanswered
    <3>. QED
      BY <2>2, <2>3, <3>1, <3>2
  <2>4. CASE ~Unanswered(request)
    <3>1. PICK a \in Kinds(request) : proxied' = [proxied EXCEPT ![c] = Answered(proxied[c], a, Account(request, a, since))]
      BY <1>8, <2>4 DEF ServeHTTP, Unanswered
    <3>2. a \in Answers /\ Account(request, a, since) \in Records
      BY <2>1, AccountIsRight DEF Kinds
    <3>. QED
      BY <2>2, <2>4, <3>1, <3>2
  <2>. QED
    BY <2>3, <2>4
<1>9. ASSUME NEW c \in Ids, Write(c)
      PROVE  proxied' \in [Ids -> ProxiedRecord] /\ RecordsAreKept'
  BY <1>4, <1>6, <1>9 DEF Write
<1>10. ASSUME NEW c \in Ids, RestartEdge(c)
       PROVE  proxied' \in [Ids -> ProxiedRecord] /\ RecordsAreKept'
  <2>1. \A d \in Ids : proxied'[d] = NoProxied
    BY <1>10 DEF RestartEdge
  <2>2. proxied' \in [Ids -> ProxiedRecord]
    BY <1>4, <1>10 DEF RestartEdge
  <2>. QED
    BY <1>4, <2>1, <2>2 DEF RecordsAreKept
<1>11. CASE proxied' # proxied
  <2>1. GatewayNext
    BY <1>11 DEF gatewayVars
  <2>. QED
    BY <1>7, <1>8, <1>9, <1>10, <1>11, <2>1, EdgeChangesCalls
<1>. QED
  BY <1>5, <1>11

\* Whatever happens, the tables, the clock, the calls and the records keep their types.
THEOREM TypeCorrect == GatewaySpec => [](TypeOK /\ proxied \in [Ids -> ProxiedRecord])
<1>1. CallsInv => TypeOK /\ proxied \in [Ids -> ProxiedRecord]
  BY DEF CallsInv
<1>. QED
  BY <1>1, InitCallsInv, NextCallsInv, PTL DEF GatewaySpec

\* What is priced is not without usage.
LEMMA PricedHasUsage ==
  ASSUME NEW usage, NEW model, NEW since PROVE Priced(usage, model, since).error # "usage_missing"
  BY DEF Priced, Record

\* Which frames the client of a stream does not get.
LEMMA WithheldAre ==
  ASSUME NEW request, NEW answer, answer.kind = "ok", request.stream, answer.frames \in Seq(Frames), NEW since
  PROVE  LET frames == answer.frames
             withheld == (1..Len(frames)) \ Sent(frames, Injected(request)) IN
         /\ \A i \in withheld : frames[i].content # "delta" /\ frames[i].usage # None
         /\ withheld # {} => request.options = "none" /\ Account(request, answer, since).error # "usage_missing"
         /\ request.options = "none" =>
              \A i \in 1..Len(frames) : frames[i].content = "none" /\ frames[i].usage # None => i \in withheld
<1>. DEFINE frames == answer.frames
            withheld == (1..Len(frames)) \ Sent(frames, Injected(request))
<1>1. /\ withheld = {i \in 1..Len(frames) : request.options = "none" /\ frames[i].usage # None /\ frames[i].content # "delta"}
  BY DEF Sent, Injected, IsUsageOnlyChunk
<1>2. ASSUME withheld # {}
      PROVE  Account(request, answer, since).error # "usage_missing"
  <2>1. Len(frames) \in Nat /\ \A i \in 1..Len(frames) : frames[i] \in Frames
    BY Elements
  <2>2. Usable(frames) # {} /\ Usable(frames) \in SUBSET (1..Len(frames))
    BY <1>1, <1>2 DEF Usable
  <2>3. First(Usable(frames)) \in Usable(frames)
    BY <2>1, <2>2, FirstAndLast
  <2>4. Streamed(answer).usage = frames[First(Usable(frames))].usage
    BY <2>2 DEF Streamed
  <2>5. Streamed(answer).usage # None
    BY <2>3, <2>4 DEF Usable
  <2>6. Account(request, answer, since) = Priced(Streamed(answer).usage, Streamed(answer).model, since)
    BY <2>5 DEF Account
  <2>. QED
    BY <2>6, PricedHasUsage
<1>. QED
  BY <1>1, <1>2

\* Every call that is let through leaves the record it should, at the price and the tier it
\* should, but for the one that panics over its options (ServeHTTP, ensureIncludeUsage,
\* pipeStream, cost), for any requests, answers and prices.
THEOREM CallsAreRecorded == GatewaySpec => []CallsAreAccounted
<1>1. CallsInv => CallsAreAccounted
  <2>. SUFFICES ASSUME CallsInv, NEW c \in Ids, proxied[c].at = "answered"
                PROVE  LET record == proxied[c].record
                           request == proxied[c].request
                           answer == proxied[c].answer IN
                       /\ record.error # "" => record.cost = 0
                       /\ Panics(request) <=> answer = None /\ record.error = ""
                       /\ Panics(request) => record.usage = NoUsage /\ record.cost = 0
                       /\ record.error = "" /\ ~Panics(request) =>
                            /\ ReportedFirst(request, answer.frames, record.usage)
                            /\ \E v \in 1..Len(Prices[record.model]) :
                                 /\ InEffect(record.model, v, proxied[c].since)
                                 /\ CostsWhatItShould(Prices[record.model][v].tiers, record.usage, record.cost)
                       /\ answer # None /\ answer.kind = "ok" /\ request.stream =>
                            LET frames == answer.frames
                                withheld == (1..Len(frames)) \ Sent(frames, Injected(request)) IN
                            /\ \A i \in withheld : frames[i].content # "delta" /\ frames[i].usage # None
                            /\ withheld # {} => request.options = "none" /\ record.error # "usage_missing"
                            /\ request.options = "none" =>
                                 \A i \in 1..Len(frames) : frames[i].content = "none" /\ frames[i].usage # None => i \in withheld
    BY Zenon DEF CallsAreAccounted
  <2>. DEFINE record == proxied[c].record
              request == proxied[c].request
              answer == proxied[c].answer
              since == proxied[c].since
  <2>1. /\ request \in Requests /\ since \in Nat
        /\ \/ Unanswered(request) /\ answer = None /\ record = Failed(Rejection(request), "")
           \/ ~Unanswered(request) /\ answer \in Kinds(request) /\ record = Account(request, answer, since)
    BY DEF CallsInv, RecordsAreKept, ProxiedRecord
  <2>. HIDE DEF record, request, answer, since
  <2>2. CASE Unanswered(request) /\ answer = None /\ record = Failed(Rejection(request), "")
    <3>1. record.error = Rejection(request) /\ record.usage = NoUsage /\ record.cost = 0
      BY <2>2, RejectionsAreTyped
    <3>2. Panics(request) <=> Rejection(request) = ""
      <4>1. Panics(request) => Rejection(request) = ""
        BY DEF Panics, Rejection
      <4>. QED
        BY <2>2, <4>1 DEF Unanswered
    <3>. QED
      BY <2>2, <3>1, <3>2, Zenon DEF record, request, answer, since
  <2>3. CASE ~Unanswered(request) /\ answer \in Kinds(request) /\ record = Account(request, answer, since)
    <3>1. answer # None /\ ~Panics(request) /\ (answer.kind = "ok" => answer.frames \in Seq(Frames))
      BY <2>1, <2>3, AnswersAreTyped, AnswersAssumption DEF Unanswered
    <3>2. RecordIsRight(request, answer, since, record)
      BY <2>1, <2>3, AccountIsRight
    <3>3. ASSUME answer.kind = "ok", request.stream
          PROVE  LET frames == answer.frames
                     withheld == (1..Len(frames)) \ Sent(frames, Injected(request)) IN
                 /\ \A i \in withheld : frames[i].content # "delta" /\ frames[i].usage # None
                 /\ withheld # {} => request.options = "none" /\ record.error # "usage_missing"
                 /\ request.options = "none" =>
                      \A i \in 1..Len(frames) : frames[i].content = "none" /\ frames[i].usage # None => i \in withheld
      BY <2>3, <3>1, <3>3, WithheldAre
    <3>. QED
      BY <3>1, <3>2, <3>3, Zenon DEF RecordIsRight, record, request, answer, since
  <2>. QED
    BY <2>1, <2>2, <2>3
<1>. QED
  BY <1>1, InitCallsInv, NextCallsInv, PTL DEF GatewaySpec

-----------------------------------------------------------------------------
(* Who has left is put out.                                                 *)

\* Who is gone from the directory, and has no login under way.
Left(p) == directory[p] = "deleted" /\ \A i \in Ids : call[i].op = "login" => call[i].who # p

\* No session lets him in, and no key of his is served unless no round will revoke it. No
\* round is about to.
PutOut(p) ==
  /\ user[p] # "active"
  /\ key[p].status = "active" => p \in forgotten
  /\ ~(round.at = "marked" /\ p \in round.todo)

\* A key is served for an active account, but while a round is about to revoke it, or if
\* none will.
KeysHaveUsers ==
  \A p \in People : key[p].status = "active" /\ user[p] # "active" =>
    p \in forgotten \/ (round.at = "marked" /\ p \in round.todo)

\* What a round knows of one who left before it fetched the directory.
Leaving(p) ==
  /\ Left(p)
  /\ CASE round.at = "fetched" -> p \notin round.remote
       [] round.at = "listed" -> user[p] = "active" => p \in round.todo
       [] OTHER -> user[p] # "active"

\* A key is issued to one with an account, whatever its status.
Issuing == \A i \in Ids : call[i].op = "issue" => user[call[i].who] # "none"

LeaversInv == AccountsInv /\ Issuing /\ KeysHaveUsers

\* What a step does to accounts and to the round.
LEMMA RoundEffect ==
  ASSUME AccountsInv, [GatewayNext]_gatewayVars
  PROVE  \/ UNCHANGED <<user, round, forgotten>> /\ \A p \in People : key'[p].status = key[p].status
         \/ \E i \in Ids : Upsert(i)
         \/ ReconcilerStep
         \/ RoundFails \/ RestartControl
         \/ \E i \in Ids : MarkActive(i)
         \/ UNCHANGED <<user, round, forgotten>> /\ \A p \in People : key'[p].status # "active" \/ key'[p] = key[p]
<1>. DEFINE Apart == UNCHANGED <<user, round, forgotten>> /\ \A p \in People : key'[p].status = key[p].status
<1>. USE DEF accounts
<1>1. CASE UNCHANGED <<user, round, forgotten, key>>
  BY <1>1
<1>2. ASSUME NEW i \in Ids, Rotate(i)
      PROVE  Apart
  <2>1. \A row \in KeyRecord, window \in Int : Rotated(row, window).status = row.status
    BY DEF Rotated, KeyRecord
  <2>2. CASE UNCHANGED key
    BY <1>2, <2>2 DEF Rotate
  <2>3. CASE key' = [key EXCEPT ![call[i].who] = Rotated(@, Window(call[i].asked))]
    <3>1. call[i].who \in People /\ Window(call[i].asked) \in Int /\ key \in [People -> KeyRecord]
      BY <1>2, GatewayAssumption DEF Rotate, At, AccountsInv, TypeOK, CallSet
    <3>. QED
      BY <1>2, <2>1, <2>3, <3>1 DEF Rotate
  <2>. QED
    BY <1>2, <2>2, <2>3 DEF Rotate
<1>3. ASSUME RetireExpiredPrevKeys
      PROVE  Apart
  BY <1>3 DEF RetireExpiredPrevKeys, AccountsInv, TypeOK, KeyRecord
<1>4. ASSUME NEW i \in Ids, LoginStep(i) \/ Event(i), ~Upsert(i)
      PROVE  UNCHANGED <<user, round, forgotten, key>>
  BY <1>4 DEF LoginStep, Event, Exchange, ByExternalID, AdmitNewUser, CountGlobalGrants, GrantBootstrapAdmin, CreateSession,
     LoginFails, HandleLogout, Expire, Joins, Leaves
<1>5. ASSUME NEW i \in Ids, RotateStep(i) \/ EdgeStep(i), ~Rotate(i)
      PROVE  UNCHANGED <<user, round, forgotten, key>>
  BY <1>5 DEF RotateStep, EdgeStep, HandleRotate, RotateAnswered, Authenticate, ServeHTTP, Write, RestartEdge, accountVars
<1>6. CASE Tick \/ UNCHANGED gatewayVars
  BY <1>1, <1>6 DEF Tick, gatewayVars, accountVars
<1>7. ASSUME NEW i \in Ids, IssueStep(i), ~MarkActive(i)
      PROVE  UNCHANGED <<user, round, forgotten>> /\ \A p \in People : key'[p].status # "active" \/ key'[p] = key[p]
  <2>1. key \in [People -> KeyRecord] /\ (At(i, "issue", "failed") => call[i].who \in People)
    BY DEF AccountsInv, TypeOK, CallSet, At
  <2>2. NoKey.status = "none" /\ [NoKey EXCEPT !.status = "pending"].status = "pending"
    BY DEF NoKey
  <2>3. UNCHANGED <<user, round, forgotten>>
    BY <1>7 DEF IssueStep, HandleIssue, Cleanup
  <2>4. \/ UNCHANGED key
        \/ \E p \in People, row \in {NoKey, [NoKey EXCEPT !.status = "pending"]} : key' = [key EXCEPT ![p] = row]
    BY <1>7, <2>1 DEF IssueStep, HandleIssue, Cleanup
  <2>. QED
    BY <2>1, <2>2, <2>3, <2>4
<1>. HIDE DEF Apart
<1>8. GatewayNext =>
        \/ Apart
        \/ \E i \in Ids : Upsert(i)
        \/ ReconcilerStep
        \/ RoundFails \/ RestartControl
        \/ \E i \in Ids : MarkActive(i)
        \/ UNCHANGED <<user, round, forgotten>> /\ (\A p \in People : key'[p].status # "active" \/ key'[p] = key[p])
  <2>0. ASSUME UNCHANGED <<user, round, forgotten, key>>
        PROVE  Apart
    BY <2>0 DEF Apart
  <2>1. CASE AccountsNext
    BY <2>0, <2>1, <1>4 DEF AccountsNext
  <2>2. ASSUME NEW i \in Ids, RotateStep(i) \/ EdgeStep(i)
        PROVE  Apart
    BY <2>0, <2>2, <1>2, <1>5
  <2>. QED
    BY <2>1, <2>2, <1>3, <1>6, <1>7, <2>0 DEF GatewayNext, Apart
<1>. QED
  BY <1>1, <1>8 DEF Apart, gatewayVars, accountVars

\* What a step does to the calls that let someone in or issue a key.
LEMMA OpsStay ==
  ASSUME AccountsInv, [GatewayNext]_gatewayVars, NEW j \in Ids
  PROVE  \/ call'[j].op = call[j].op /\ call'[j].who = call[j].who
         \/ call'[j].op \notin {"login", "issue"}
         \/ \E p \in People : Exchange(j, p) /\ call'[j].op = "login" /\ call'[j].who = p
         \/ \E s \in session, p \in People : HandleIssue(j, s, p) /\ call'[j].op = "issue" /\ call'[j].who = p
<1>. DEFINE Stays == call'[j].op = call[j].op /\ call'[j].who = call[j].who
            Past == call'[j].op \notin {"login", "issue"}
            Begins == \/ \E p \in People : Exchange(j, p) /\ call'[j].op = "login" /\ call'[j].who = p
                      \/ \E s \in session, p \in People : HandleIssue(j, s, p) /\ call'[j].op = "issue" /\ call'[j].who = p
            Goal == Stays \/ Past \/ Begins
<1>. USE DEF accounts
<1>1. call \in [Ids -> CallSet]
  BY DEF AccountsInv, TypeOK
<1>a. ASSUME NEW i \in Ids, Ends(i)
      PROVE  Goal
  BY <1>a, <1>1, Settled DEF Ends
<1>b. ASSUME NEW i \in Ids, NEW s, NEW b \in BOOLEAN,
             \/ Goes(i, s)
             \/ call' = [call EXCEPT ![i].at = s, ![i].calm = b]
             \/ Overtakes(i, [call[i] EXCEPT !.at = s])
      PROVE  Stays
  BY <1>b, <1>1, CallFields, OvertakenFields DEF Goes
<1>c. ASSUME UNCHANGED call
      PROVE  Stays
  BY <1>c
<1>2. ASSUME NEW i \in Ids, NEW q \in People, Exchange(i, q)
      PROVE  Goal
  <2>1. call'[i].op = "login" /\ call'[i].who = q /\ \A k \in Ids \ {i} : call'[k] = call[k]
    BY <1>1, <1>2, Settled DEF Exchange, NoCall, CallSet, CallRecord
  <2>. QED
    BY <1>2, <2>1
<1>2i. ASSUME NEW i \in Ids, NEW s \in session, NEW q \in People, HandleIssue(i, s, q)
       PROVE  Goal
  <2>1. call'[i].op = "issue" /\ call'[i].who = q /\ \A k \in Ids \ {i} : call'[k] = call[k]
    BY <1>1, <1>2i, Settled DEF HandleIssue, NoCall, CallSet, CallRecord
  <2>. QED
    BY <1>2i, <2>1
<1>. HIDE DEF Stays, Past, Begins
<1>3. ASSUME NEW i \in Ids, ByExternalID(i) \/ AdmitNewUser(i) \/ Upsert(i)
      PROVE  Goal
  <2>1. \/ Ends(i)
        \/ \E s \in {"admitted", "new", "stored"} :
             Goes(i, s) \/ call' = [call EXCEPT ![i].at = s, ![i].calm = TRUE] \/ Overtakes(i, [call[i] EXCEPT !.at = s])
    BY <1>3 DEF ByExternalID, AdmitNewUser, Upsert
  <2>. QED
    BY <1>a, <1>b, <2>1
<1>4. ASSUME NEW i \in Ids, CountGlobalGrants(i) \/ GrantBootstrapAdmin(i)
      PROVE  Goal
  <2>1. \E s \in {"counted", "entering"} :
          call' = [call EXCEPT ![i].at = s, ![i].calm = TRUE] \/ Overtakes(i, [call[i] EXCEPT !.at = s])
    BY <1>4 DEF CountGlobalGrants, GrantBootstrapAdmin
  <2>. QED
    BY <1>b, <2>1
<1>5. ASSUME NEW i \in Ids, CreateSession(i) \/ LoginFails(i) \/ (\E s \in session : HandleLogout(i, s)) \/ Event(i)
      PROVE  Goal
  BY <1>5, <1>a DEF CreateSession, LoginFails, HandleLogout, Event, Expire, Joins, Leaves
<1>6. ASSUME ReconcilerStep \/ RoundFails
      PROVE  Goal
  BY <1>6, <1>c DEF ReconcilerStep, FetchRemote, ListActive, MarkDisabled, RevokeByUsers, DeleteByUser, RoundFails
<1>7. ASSUME RestartControl
      PROVE  Goal
  BY <1>7, Settled DEF RestartControl, Past
<1>8. ASSUME NEW i \in Ids, MarkActive(i) \/ Cleanup(i)
      PROVE  Goal
  BY <1>8, <1>a, <1>b DEF MarkActive, Cleanup
<1>9. ASSUME NEW i \in Ids, RotateStep(i)
      PROVE  Goal
  <2>1. CASE Ends(i)
    BY <1>a, <2>1
  <2>2. CASE ~Ends(i)
    <3>1. call'[j] = call[j] \/ call'[j].op = "rotate"
      BY <1>9, <2>2, <1>1 DEF RotateStep, HandleRotate, Rotate, RotateAnswered, At, NoCall, CallSet, CallRecord
    <3>. QED
      BY <3>1 DEF Stays, Past
  <2>. QED
    BY <2>1, <2>2
<1>10. ASSUME NEW i \in Ids, EdgeStep(i)
       PROVE  Goal
  BY <1>10, <1>a, <1>c DEF EdgeStep, Authenticate, ServeHTTP, Write, RestartEdge, accountVars
<1>11. ASSUME RetireExpiredPrevKeys \/ Tick \/ UNCHANGED gatewayVars
       PROVE  Goal
  BY <1>11, <1>c DEF RetireExpiredPrevKeys, Tick, gatewayVars, accountVars
<1>12. Goal
  <2>. HIDE DEF Goal
  <2>1. ASSUME NEW i \in Ids, LoginStep(i) \/ Event(i)
        PROVE  Goal
    BY <2>1, <1>2, <1>3, <1>4, <1>5 DEF LoginStep
  <2>2. ASSUME NEW i \in Ids, IssueStep(i)
        PROVE  Goal
    BY <2>2, <1>2i, <1>8 DEF IssueStep
  <2>. QED
    BY <2>1, <2>2, <1>6, <1>7, <1>9, <1>10, <1>11 DEF GatewayNext, AccountsNext
<1>. QED
  BY <1>12 DEF Stays, Past, Begins

LEMMA NextIssuing == AccountsInv /\ Issuing /\ [GatewayNext]_gatewayVars => Issuing'
<1>. SUFFICES ASSUME AccountsInv, Issuing, [GatewayNext]_gatewayVars, NEW j \in Ids, call'[j].op = "issue"
              PROVE  user'[call'[j].who] # "none"
  BY DEF Issuing
<1>1. call'[j].who \in People
  BY NextTypeOK DEF AccountsInv, TypeOK, CallSet
<1>2. user \in [People -> Statuses] /\ \A p \in People : user[p] # "none" => user'[p] # "none"
  <2>1. user \in [People -> Statuses]
    BY DEF AccountsInv, TypeOK
  <2>2. CASE UNCHANGED user
    BY <2>1, <2>2
  <2>3. ASSUME NEW i \in Ids, Upsert(i)
        PROVE  \A p \in People : user[p] # "none" => user'[p] # "none"
    BY <2>1, <2>3 DEF Upsert
  <2>4. CASE MarkDisabled
    BY <2>1, <2>4 DEF MarkDisabled
  <2>5. CASE \/ FetchRemote \/ ListActive \/ RevokeByUsers \/ DeleteByUser \/ RoundFails \/ RestartControl
             \/ \E i \in Ids : MarkActive(i)
    <3>1. UNCHANGED user
      BY <2>5 DEF FetchRemote, ListActive, RevokeByUsers, DeleteByUser, RoundFails, RestartControl, accounts, MarkActive
    <3>. QED
      BY <2>2, <3>1
  <2>. QED
    BY <2>1, <2>2, <2>3, <2>4, <2>5, RoundEffect DEF ReconcilerStep
<1>3. user[call'[j].who] # "none"
  <2>1. CASE call'[j].op = call[j].op /\ call'[j].who = call[j].who
    BY <2>1 DEF Issuing
  <2>2. ASSUME NEW s \in session, NEW p \in People, HandleIssue(j, s, p), call'[j].who = p
        PROVE  user[p] # "none"
    BY <2>2 DEF HandleIssue
  <2>. QED
    BY <2>1, <2>2, OpsStay
<1>. QED
  BY <1>1, <1>2, <1>3

\* What a key made active was: late, or of an active account, or about to be revoked.
LEMMA MarkActiveEffect ==
  ASSUME AccountsInv, Issuing, NEW i \in Ids, MarkActive(i)
  PROVE  /\ UNCHANGED <<user, round>> /\ forgotten \subseteq forgotten'
         /\ \A p \in People : \/ key'[p] = key[p]
                             \/ user[p] = "active" \/ p \in forgotten' \/ (round.at = "marked" /\ p \in round.todo)
<1>. DEFINE q == call[i].who
<1>1. /\ q \in People /\ user[q] # "none" /\ user \in [People -> Statuses] /\ key \in [People -> KeyRecord]
  BY DEF MarkActive, At, AccountsInv, TypeOK, CallSet, Issuing
<1>2. UNCHANGED <<user, round>>
  BY DEF MarkActive
<1>3. PICK done \in BOOLEAN :
        /\ key' = IF done THEN [key EXCEPT ![q].status = "active"] ELSE key
        /\ forgotten' = IF done /\ Late(q) THEN forgotten \cup {q} ELSE forgotten
  BY DEF MarkActive
<1>4. CASE ~done
  BY <1>2, <1>3, <1>4
<1>5. CASE done
  <2>1. \A p \in People \ {q} : key'[p] = key[p]
    BY <1>1, <1>3, <1>5
  <2>2. user[q] = "active" \/ q \in forgotten' \/ (round.at = "marked" /\ q \in round.todo)
    BY <1>1, <1>3, <1>5 DEF Late, Statuses
  <2>. QED
    BY <1>2, <1>3, <2>1, <2>2
<1>. QED
  BY <1>4, <1>5

LEMMA NextKeysHaveUsers == LeaversInv /\ [GatewayNext]_gatewayVars => LeaversInv'
<1>. SUFFICES ASSUME LeaversInv, [GatewayNext]_gatewayVars PROVE KeysHaveUsers'
  BY NextInv, NextIssuing DEF LeaversInv
<1>. USE DEF accounts
<1>1. AccountsInv /\ KeysHaveUsers /\ round \in RoundRecord /\ user \in [People -> Statuses] /\ key \in [People -> KeyRecord]
  BY DEF LeaversInv, AccountsInv, TypeOK
<1>2. CASE UNCHANGED <<user, round, forgotten>> /\ \A p \in People : key'[p].status = key[p].status
  BY <1>1, <1>2 DEF KeysHaveUsers
<1>3. ASSUME NEW i \in Ids, Upsert(i)
      PROVE  KeysHaveUsers'
  <2>1. /\ UNCHANGED <<key, forgotten>>
        /\ \A p \in People : user'[p] = user[p] \/ user'[p] = "active"
        /\ round'.at = round.at /\ round'.todo = round.todo
    BY <1>1, <1>3 DEF Upsert, RoundRecord
  <2>. QED
    BY <1>1, <2>1 DEF KeysHaveUsers
<1>4. CASE FetchRemote \/ ListActive
  <2>1. UNCHANGED <<user, key, forgotten>> /\ round.at # "marked"
    BY <1>4 DEF FetchRemote, ListActive
  <2>. QED
    BY <1>1, <2>1 DEF KeysHaveUsers
<1>5. CASE MarkDisabled
  <2>1. UNCHANGED <<key, forgotten>> /\ round.at = "listed" /\ round'.at = "marked" /\ round'.todo = round.todo
    BY <1>1, <1>5 DEF MarkDisabled, RoundRecord
  <2>2. \A p \in People : p \in round.todo \/ user'[p] = user[p]
    BY <1>5 DEF MarkDisabled
  <2>. QED
    BY <1>1, <2>1, <2>2 DEF KeysHaveUsers
<1>6. CASE RevokeByUsers
  <2>1. UNCHANGED <<user, forgotten>> /\ round.at = "marked"
    BY <1>6 DEF RevokeByUsers
  <2>2. \A p \in People : key'[p].status = "active" => key[p].status = "active" /\ p \notin round.todo
    BY <1>1, <1>6 DEF RevokeByUsers, KeyRecord
  <2>. QED
    BY <1>1, <2>1, <2>2 DEF KeysHaveUsers
<1>7. CASE DeleteByUser
  <2>1. UNCHANGED <<user, key, forgotten>> /\ round.at = "revoked"
    BY <1>7 DEF DeleteByUser
  <2>. QED
    BY <1>1, <2>1 DEF KeysHaveUsers
<1>8. CASE RoundFails \/ RestartControl
  <2>1. UNCHANGED <<user, key>> /\ forgotten' = forgotten \cup Abandoned
    BY <1>8 DEF RoundFails, RestartControl
  <2>. QED
    BY <1>1, <2>1 DEF KeysHaveUsers, Abandoned
<1>9. ASSUME NEW i \in Ids, MarkActive(i)
      PROVE  KeysHaveUsers'
  BY <1>1, <1>9, MarkActiveEffect DEF KeysHaveUsers, LeaversInv
<1>10. CASE UNCHANGED <<user, round, forgotten>> /\ \A p \in People : key'[p].status # "active" \/ key'[p] = key[p]
  BY <1>1, <1>10 DEF KeysHaveUsers
<1>. QED
  BY <1>1, <1>2, <1>3, <1>4, <1>5, <1>6, <1>7, <1>8, <1>9, <1>10, RoundEffect DEF ReconcilerStep

\* Who has left does not come back: the identity provider lets him in no more.
LEMMA NextLeft ==
  ASSUME AccountsInv, [GatewayNext]_gatewayVars, NEW p \in People, Left(p)
  PROVE  Left(p)'
<1>. USE DEF accounts
<1>1. directory'[p] = directory[p]
  <2>1. directory \in [People -> Directories] /\ directory[p] = "deleted"
    BY DEF AccountsInv, TypeOK, Left
  <2>2. ASSUME NEW i \in Ids, NEW q \in People, Joins(i, q) \/ Leaves(i, q)
        PROVE  directory'[p] = directory[p]
    BY <2>1, <2>2 DEF Joins, Leaves
  <2>3. ASSUME NEW i \in Ids, LoginStep(i) \/ Expire(i)
        PROVE  UNCHANGED directory
    BY <2>3 DEF LoginStep, Exchange, ByExternalID, AdmitNewUser, Upsert, CountGlobalGrants, GrantBootstrapAdmin, CreateSession,
       LoginFails, HandleLogout, Expire
  <2>4. ASSUME ReconcilerStep \/ RoundFails \/ RestartControl
        PROVE  UNCHANGED directory
    BY <2>4 DEF ReconcilerStep, FetchRemote, ListActive, MarkDisabled, RevokeByUsers, DeleteByUser, RoundFails, RestartControl
  <2>5. ASSUME NEW i \in Ids, IssueStep(i) \/ RotateStep(i) \/ EdgeStep(i)
        PROVE  UNCHANGED directory
    BY <2>5 DEF IssueStep, HandleIssue, MarkActive, Cleanup, RotateStep, HandleRotate, Rotate, RotateAnswered,
       EdgeStep, Authenticate, ServeHTTP, Write, RestartEdge, accountVars
  <2>6. ASSUME RetireExpiredPrevKeys \/ Tick \/ UNCHANGED gatewayVars
        PROVE  UNCHANGED directory
    BY <2>6 DEF RetireExpiredPrevKeys, Tick, gatewayVars, accountVars
  <2>. QED
    BY <2>2, <2>3, <2>4, <2>5, <2>6 DEF GatewayNext, AccountsNext, Event
<1>2. ASSUME NEW j \in Ids, call'[j].op = "login"
      PROVE  call'[j].who # p
  <2>1. ASSUME NEW q \in People, Exchange(j, q), call'[j].who = q
        PROVE  q # p
    BY <2>1 DEF Exchange, Welcome, Left
  <2>2. CASE call'[j].op = call[j].op /\ call'[j].who = call[j].who
    BY <1>2, <2>2 DEF Left
  <2>. QED
    BY <1>2, <2>1, <2>2, OpsStay
<1>. QED
  BY <1>1, <1>2 DEF Left

\* No round is broken off.
Unbroken == ~RoundFails /\ ~RestartControl

LEMMA NextLeaving ==
  ASSUME NEW p \in People
  PROVE  AccountsInv /\ Leaving(p) /\ [GatewayNext]_gatewayVars /\ [Unbroken]_gatewayVars => Leaving(p)'
<1>. SUFFICES ASSUME AccountsInv, Leaving(p), [GatewayNext]_gatewayVars, [Unbroken]_gatewayVars PROVE Leaving(p)'
  OBVIOUS
<1>. USE DEF accounts
<1>1. Left(p) /\ Left(p)'
  BY NextLeft DEF Leaving
<1>2. round \in RoundRecord /\ user \in [People -> Statuses] /\ \A i \in Ids : At(i, "login", "admitted") => call[i].who \in People
  BY DEF AccountsInv, TypeOK, CallSet, At
<1>3. CASE UNCHANGED <<user, round>>
  BY <1>1, <1>3 DEF Leaving
<1>4. ASSUME NEW i \in Ids, Upsert(i)
      PROVE  Leaving(p)'
  <2>1. call[i].who # p /\ call[i].who \in People
    BY <1>1, <1>2, <1>4 DEF Upsert, Left, At
  <2>2. user'[p] = user[p] /\ round'.at = round.at /\ round'.todo = round.todo /\ round'.remote = round.remote
    BY <1>2, <1>4, <2>1 DEF Upsert, RoundRecord
  <2>. QED
    BY <1>1, <2>2 DEF Leaving
<1>5. CASE FetchRemote
  <2>1. round'.at = "fetched" /\ round'.remote = Listed
    BY <1>5, RoundsRest DEF FetchRemote, RoundRecord
  <2>2. p \notin Listed
    BY <1>1 DEF Left, Listed
  <2>. QED
    BY <1>1, <2>1, <2>2 DEF Leaving
<1>6. CASE ListActive
  <2>1. UNCHANGED user /\ p \notin round.remote
    BY <1>6 DEF ListActive, Leaving
  <2>2. user[p] = "active" => p \in ToDisable
    BY <2>1 DEF ToDisable, Active
  <2>3. CASE ToDisable = {}
    BY <1>1, <1>6, <2>1, <2>2, <2>3, RoundsRest DEF ListActive, Leaving
  <2>4. CASE ToDisable # {}
    <3>1. round'.at = "listed" /\ round'.todo = ToDisable
      BY <1>2, <1>6, <2>4 DEF ListActive, RoundRecord
    <3>. QED
      BY <1>1, <2>1, <2>2, <3>1 DEF Leaving
  <2>. QED
    BY <2>3, <2>4
<1>7. CASE MarkDisabled
  <2>1. round'.at = "marked" /\ user'[p] # "active"
    BY <1>2, <1>7 DEF MarkDisabled, RoundRecord, Leaving
  <2>. QED
    BY <1>1, <2>1 DEF Leaving
<1>8. CASE RevokeByUsers \/ DeleteByUser
  <2>1. UNCHANGED user /\ round.at \in {"marked", "revoked"}
    BY <1>8 DEF RevokeByUsers, DeleteByUser
  <2>2. round'.at \in {"revoked", "wait"}
    BY <1>2, <1>8, RoundsRest DEF RevokeByUsers, DeleteByUser, RoundRecord
  <2>. QED
    BY <1>1, <2>1, <2>2 DEF Leaving
<1>9. CASE RoundFails \/ RestartControl
  BY <1>3, <1>9 DEF Unbroken, gatewayVars, accountVars
<1>10. ASSUME NEW i \in Ids, MarkActive(i)
       PROVE  Leaving(p)'
  BY <1>3, <1>10 DEF MarkActive
<1>. QED
  BY <1>3, <1>4, <1>5, <1>6, <1>7, <1>8, <1>9, <1>10, RoundEffect DEF ReconcilerStep

LEMMA NextPutOut ==
  ASSUME NEW p \in People
  PROVE  LeaversInv /\ Left(p) /\ PutOut(p) /\ [GatewayNext]_gatewayVars => (Left(p) /\ PutOut(p))'
<1>. SUFFICES ASSUME LeaversInv, Left(p), PutOut(p), [GatewayNext]_gatewayVars PROVE (Left(p) /\ PutOut(p))'
  OBVIOUS
<1>0. AccountsInv /\ Issuing
  BY DEF LeaversInv
<1>. USE DEF accounts
<1>1. SUFFICES PutOut(p)'
  BY <1>0, NextLeft
<1>2. user \in [People -> Statuses] /\ key \in [People -> KeyRecord] /\ round \in RoundRecord
  BY <1>0 DEF AccountsInv, TypeOK
<1>3. ASSUME user'[p] # "active", key'[p].status = "active" => key[p].status = "active",
             forgotten \subseteq forgotten', round'.at = "marked" /\ p \in round'.todo => round.at = "marked" /\ p \in round.todo
      PROVE  PutOut(p)'
  BY <1>3 DEF PutOut
<1>4. ASSUME NEW i \in Ids, Upsert(i)
      PROVE  PutOut(p)'
  <2>1. call[i].who # p /\ UNCHANGED <<key, forgotten>>
    BY <1>4 DEF Upsert, Left, At
  <2>2. user'[p] = user[p] /\ round'.at = round.at /\ round'.todo = round.todo
    BY <1>2, <1>4, <2>1 DEF Upsert, RoundRecord
  <2>. QED
    BY <1>3, <2>1, <2>2 DEF PutOut
<1>5. CASE ReconcilerStep
  <2>1. UNCHANGED forgotten /\ (key'[p].status = "active" => key[p].status = "active")
    BY <1>2, <1>5 DEF ReconcilerStep, FetchRemote, ListActive, MarkDisabled, RevokeByUsers, DeleteByUser, KeyRecord
  <2>2. user'[p] # "active"
    BY <1>5 DEF ReconcilerStep, FetchRemote, ListActive, MarkDisabled, RevokeByUsers, DeleteByUser, PutOut
  <2>3. CASE MarkDisabled
    <3>1. round.at = "listed" /\ round'.todo = round.todo
      BY <1>2, <2>3 DEF MarkDisabled, RoundRecord
    <3>2. p \notin round.todo
      BY <1>0, <3>1 DEF AccountsInv, RoundIsRight, PutOut
    <3>. QED
      BY <1>3, <2>1, <2>2, <3>1, <3>2
  <2>4. CASE FetchRemote \/ ListActive \/ RevokeByUsers \/ DeleteByUser
    <3>1. round'.at # "marked"
      BY <1>2, <2>4, RoundsRest DEF FetchRemote, ListActive, RevokeByUsers, DeleteByUser, RoundRecord
    <3>. QED
      BY <1>3, <2>1, <2>2, <3>1
  <2>. QED
    BY <1>5, <2>3, <2>4 DEF ReconcilerStep
<1>6. CASE RoundFails \/ RestartControl
  <2>1. UNCHANGED <<user, key>> /\ forgotten \subseteq forgotten' /\ round'.at # "marked"
    BY <1>6, RoundsRest DEF RoundFails, RestartControl
  <2>. QED
    BY <1>3, <2>1 DEF PutOut
<1>7. ASSUME NEW i \in Ids, MarkActive(i)
      PROVE  PutOut(p)'
  <2>1. UNCHANGED <<user, round>> /\ forgotten \subseteq forgotten' /\ (key'[p] = key[p] \/ p \in forgotten')
    BY <1>0, <1>7, MarkActiveEffect DEF PutOut
  <2>. QED
    BY <2>1 DEF PutOut
<1>8. CASE UNCHANGED <<user, round, forgotten>> /\ \A q \in People : key'[q].status = key[q].status
  BY <1>3, <1>8 DEF PutOut
<1>9. CASE UNCHANGED <<user, round, forgotten>> /\ \A q \in People : key'[q].status # "active" \/ key'[q] = key[q]
  BY <1>3, <1>9 DEF PutOut
<1>. QED
  BY <1>0, <1>4, <1>5, <1>6, <1>7, <1>8, <1>9, RoundEffect

LEMMA InitLeaversInv == GatewayInit /\ KeysHaveUsers => LeaversInv
<1>1. GatewayInit => Issuing
  BY Settled DEF GatewayInit, AccountsInit, Issuing
<1>. QED
  BY <1>1, InitInv DEF LeaversInv

\* A key stays in use without an active account only while a round is about to revoke it,
\* after one was broken off before it did, and if it was made active after that, by an issue
\* that was under way or began since; if it was so at the start (HandleIssue, MarkActive,
\* ReconcileOnce).
THEOREM KeysLoseTheirUsers == KeysHaveUsers /\ GatewaySpec => []KeysHaveUsers
<1>1. LeaversInv => KeysHaveUsers
  BY DEF LeaversInv
<1>. QED
  BY <1>1, InitLeaversInv, NextKeysHaveUsers, PTL DEF GatewaySpec

\* Who left before a round fetched the directory is put out when that round is over, unless
\* it is broken off, whatever logins, issues, rotations and failures of others come in
\* between. From then on his account stays disabled, and his key is in use again only by an
\* issue that makes it active for good; which of them did is remembered, so nothing else
\* does (ReconcileOnce, HandleCallback, MarkActive).
LeaversArePutOut(p) ==
  /\ [](Left(p) /\ round.at = "fetched" /\ p \notin round.remote /\ [][Unbroken]_gatewayVars => [](round.at = "wait" => PutOut(p)))
  /\ [](Left(p) /\ PutOut(p) => [](Left(p) /\ PutOut(p)))

THEOREM RoundsPutOut ==
  ASSUME NEW p \in People
  PROVE  KeysHaveUsers /\ GatewaySpec => LeaversArePutOut(p)
<1>1. Left(p) /\ round.at = "fetched" /\ p \notin round.remote => Leaving(p)
  BY DEF Leaving
<1>2. LeaversInv /\ Leaving(p) /\ round.at = "wait" => PutOut(p)
  BY DEF LeaversInv, KeysHaveUsers, Leaving, PutOut
<1>3. LeaversInv => AccountsInv
  BY DEF LeaversInv
<1>. QED
  BY <1>1, <1>2, <1>3, InitLeaversInv, NextKeysHaveUsers, NextLeaving, NextPutOut, PTL DEF GatewaySpec, LeaversArePutOut
=============================================================================
