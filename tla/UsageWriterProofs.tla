------------------------- MODULE UsageWriterProofs -------------------------
(***************************************************************************)
(* What TLAPS proves of UsageWriter, for any finite set of records and any *)
(* capacity and batch size: the writer implements UsageLedger, the counter *)
(* accounts for what is missing, and a shutdown cannot get stuck.          *)
(***************************************************************************)
EXTENDS UsageWriter, FiniteSetTheorems, TLAPS

\* A record is in one place at a time, and only once its Write has sent it.
Places ==
  /\ queue \cap batch = {} /\ queue \cap stored = {} /\ batch \cap stored = {}
  /\ \A r \in queue \cup batch \cup stored : pc[r] = "returned"

\* The order of a shutdown: the lock, the closed channel, the empty channel, the last
\* flush, the return.
Ending ==
  /\ closed <=> closer \in {"draining", "returned"}
  /\ runner \in {"last", "exited"} => closed /\ queue = {}
  /\ runner = "exited" => batch = {}
  /\ closer = "returned" => runner = "exited"

\* In the select there is room for one more record in the slice.
Room == runner = "select" => Cardinality(batch) < BatchSize

WriterInv == TypeOK /\ NoSendOnClosedChannel /\ Places /\ Ending /\ Room

-----------------------------------------------------------------------------
\* Subsets of the records are finite, and their cardinalities numbers.
LEMMA FiniteParts ==
  ASSUME NEW S \in SUBSET Records
  PROVE  IsFiniteSet(S) /\ Cardinality(S) \in Nat
  BY RecordsAssumption, FS_Subset, FS_CardinalityType

\* Disjoint sets of records add up.
LEMMA DisjointSum ==
  ASSUME NEW S \in SUBSET Records, NEW T \in SUBSET Records, S \cap T = {}
  PROVE  Cardinality(S \cup T) = Cardinality(S) + Cardinality(T)
<1>1. IsFiniteSet(S) /\ IsFiniteSet(T) /\ Cardinality(S) \in Nat /\ Cardinality(T) \in Nat
  BY FiniteParts
<1>2. Cardinality(S \cup T) = Cardinality(S) + Cardinality(T) - Cardinality({})
  BY <1>1, FS_Union
<1>. QED
  BY <1>1, <1>2, FS_EmptySet

LEMMA OneMore ==
  ASSUME NEW S \in SUBSET Records, NEW r \in Records
  PROVE  Cardinality(S \cup {r}) = IF r \in S THEN Cardinality(S) ELSE Cardinality(S) + 1
  BY FiniteParts, FS_AddElement

LEMMA OneLess ==
  ASSUME NEW S \in SUBSET Records, NEW r \in S
  PROVE  Cardinality(S \ {r}) = Cardinality(S) - 1
  BY FiniteParts, FS_RemoveElement

-----------------------------------------------------------------------------
LEMMA InitWriterInv == Init => WriterInv
<1>. SUFFICES ASSUME Init PROVE WriterInv
  OBVIOUS
<1>1. Cardinality(queue) = 0 /\ Cardinality(batch) = 0
  BY FS_EmptySet DEF Init
<1>2. TypeOK
  <2>1. Cardinality(queue) <= Capacity /\ Cardinality(batch) <= BatchSize
    BY <1>1, SizesAssumption
  <2>. QED
    BY <2>1 DEF Init, TypeOK
<1>3. Room
  BY <1>1, SizesAssumption DEF Room
<1>4. NoSendOnClosedChannel /\ Places /\ Ending
  BY DEF Init, NoSendOnClosedChannel, Places, Ending
<1>. QED
  BY <1>2, <1>3, <1>4 DEF WriterInv

LEMMA NextWriterInv == WriterInv /\ [Next]_vars => WriterInv'
<1>. SUFFICES ASSUME WriterInv, [Next]_vars PROVE WriterInv'
  OBVIOUS
<1>. USE SizesAssumption DEF WriterInv, TypeOK, NoSendOnClosedChannel, Places, Ending, Room
<1>1. ASSUME NEW r \in Records, WriteLock(r)
      PROVE  WriterInv'
  BY <1>1 DEF WriteLock
<1>2. ASSUME NEW r \in Records, WriteCheck(r)
      PROVE  WriterInv'
  BY <1>2 DEF WriteCheck
<1>3. ASSUME NEW r \in Records, WriteSend(r)
      PROVE  WriterInv'
  <2>1. CASE Cardinality(queue) < Capacity
    <3>1. queue' = queue \cup {r} /\ ~closed /\ r \notin queue
      BY <1>3, <2>1 DEF WriteSend
    <3>2. Cardinality(queue') <= Capacity
      BY <2>1, <3>1, OneMore, FiniteParts
    <3>. QED
      BY <1>3, <2>1, <3>1, <3>2 DEF WriteSend
  <2>2. CASE ~(Cardinality(queue) < Capacity)
    BY <1>3, <2>2 DEF WriteSend
  <2>. QED
    BY <2>1, <2>2
<1>4. ASSUME NEW r \in Records, Receive(r)
      PROVE  WriterInv'
  <2>1. /\ r \in queue /\ r \notin batch
        /\ Cardinality(queue') = Cardinality(queue) - 1
        /\ Cardinality(batch') = Cardinality(batch) + 1
    BY <1>4, OneLess, OneMore DEF Receive
  <2>2. Cardinality(batch) \in Nat /\ Cardinality(batch) < BatchSize /\ Cardinality(queue) \in Nat
    BY <1>4, FiniteParts DEF Receive
  <2>3. Cardinality(queue') <= Capacity /\ Cardinality(batch') <= BatchSize /\ Room'
    BY <1>4, <2>1, <2>2 DEF Receive
  <2>. QED
    BY <1>4, <2>1, <2>3 DEF Receive
<1>5. ASSUME CloseStart
      PROVE  WriterInv'
  BY <1>5 DEF CloseStart
<1>6. ASSUME CloseLock
      PROVE  WriterInv'
  BY <1>6 DEF CloseLock, Readers
<1>7. ASSUME CloseReturn
      PROVE  WriterInv'
  BY <1>7 DEF CloseReturn
<1>8. ASSUME Tick
      PROVE  WriterInv'
  BY <1>8 DEF Tick
<1>9. ASSUME SeeClosed
      PROVE  WriterInv'
  BY <1>9 DEF SeeClosed
<1>10. ASSUME Flush
       PROVE  WriterInv'
  <2>1. PICK S \in SUBSET batch : stored' = stored \cup S
    BY <1>10 DEF Flush
  <2>2. batch' = {} /\ Cardinality(batch') = 0
    BY <1>10, FS_EmptySet DEF Flush
  <2>3. dropped' \in Nat
    BY <1>10, FiniteParts DEF Flush
  <2>. QED
    BY <1>10, <2>1, <2>2, <2>3 DEF Flush
<1>11. ASSUME UNCHANGED vars
       PROVE  WriterInv'
  BY <1>11 DEF vars
<1>. QED
  BY <1>1, <1>2, <1>3, <1>4, <1>5, <1>6, <1>7, <1>8, <1>9, <1>10, <1>11 DEF Next

LEMMA WriterInvariant == Spec => []WriterInv
  BY InitWriterInv, NextWriterInv, PTL DEF Spec

\* Types and limits: the channel never holds more than queueCapacity records and the
\* slice never more than batchSize.
THEOREM TypeCorrect == Spec => []TypeOK
  BY WriterInvariant, PTL DEF WriterInv

\* No Write sends on the closed channel.
THEOREM NeverPanics == Spec => []NoSendOnClosedChannel
  BY WriterInvariant, PTL DEF WriterInv

\* When Close has returned the writer holds nothing.
THEOREM CloseIsComplete == Spec => []CloseDrains
<1>1. WriterInv => CloseDrains
  BY DEF WriterInv, Ending, CloseDrains, Held
<1>. QED
  BY <1>1, WriterInvariant, PTL

-----------------------------------------------------------------------------
(* The counter.                                                             *)

LEMMA MissingParts == Missing \in SUBSET Records
  BY DEF Missing

\* Only a Write that refuses and a failed insert make records missing, and both count.
LEMMA NextNoSilentLoss == WriterInv /\ NoSilentLoss /\ [Next]_vars => NoSilentLoss'
<1>. SUFFICES ASSUME WriterInv, NoSilentLoss, [Next]_vars PROVE NoSilentLoss'
  OBVIOUS
<1>0. /\ Cardinality(Missing) \in Nat /\ Cardinality(stored) \in Nat /\ dropped \in Nat
      /\ Cardinality(Missing) <= dropped
      /\ dropped <= Cardinality(Missing) + Cardinality(stored)
  BY MissingParts, FiniteParts DEF WriterInv, TypeOK, NoSilentLoss
<1>1. ASSUME Missing' = Missing, stored' = stored, dropped' = dropped
      PROVE  NoSilentLoss'
  BY <1>0, <1>1 DEF NoSilentLoss
<1>2. ASSUME NEW r \in Records, r \notin Missing, Missing' = Missing \cup {r},
             stored' = stored, dropped' = dropped + 1
      PROVE  NoSilentLoss'
  <2>1. Cardinality(Missing') = Cardinality(Missing) + 1
    BY <1>2, OneMore, MissingParts
  <2>. QED
    BY <1>0, <1>2, <2>1 DEF NoSilentLoss
<1>. USE DEF WriterInv, TypeOK, Places, Held
<1>3. ASSUME NEW r \in Records, WriteLock(r)
      PROVE  NoSilentLoss'
  <2>1. Missing' = Missing
    BY <1>3 DEF WriteLock, Missing
  <2>. QED
    BY <1>1, <1>3, <2>1 DEF WriteLock
<1>4. ASSUME NEW r \in Records, WriteCheck(r)
      PROVE  NoSilentLoss'
  <2>1. CASE closed
    <3>1. r \notin Missing /\ Missing' = Missing \cup {r}
      BY <1>4, <2>1 DEF WriteCheck, Missing
    <3>. QED
      BY <1>2, <1>4, <2>1, <3>1 DEF WriteCheck
  <2>2. CASE ~closed
    <3>1. Missing' = Missing
      BY <1>4, <2>2 DEF WriteCheck, Missing
    <3>. QED
      BY <1>1, <1>4, <2>2, <3>1 DEF WriteCheck
  <2>. QED
    BY <2>1, <2>2
<1>5. ASSUME NEW r \in Records, WriteSend(r)
      PROVE  NoSilentLoss'
  <2>1. CASE Cardinality(queue) < Capacity
    <3>1. Missing' = Missing
      BY <1>5, <2>1 DEF WriteSend, Missing
    <3>. QED
      BY <1>1, <1>5, <2>1, <3>1 DEF WriteSend
  <2>2. CASE ~(Cardinality(queue) < Capacity)
    <3>1. r \notin Missing /\ Missing' = Missing \cup {r}
      BY <1>5, <2>2 DEF WriteSend, Missing
    <3>. QED
      BY <1>2, <1>5, <2>2, <3>1 DEF WriteSend
  <2>. QED
    BY <2>1, <2>2
<1>6. ASSUME NEW r \in Records, Receive(r)
      PROVE  NoSilentLoss'
  <2>1. Missing' = Missing
    BY <1>6 DEF Receive, Missing
  <2>. QED
    BY <1>1, <1>6, <2>1 DEF Receive
<1>7. ASSUME CloseStart \/ CloseLock \/ CloseReturn \/ Tick \/ SeeClosed \/ UNCHANGED vars
      PROVE  NoSilentLoss'
  <2>1. UNCHANGED <<pc, queue, batch, stored, dropped>>
    BY <1>7 DEF CloseStart, CloseLock, CloseReturn, Tick, SeeClosed, vars
  <2>2. Missing' = Missing
    BY <2>1 DEF Missing
  <2>. QED
    BY <1>1, <2>1, <2>2
<1>8. ASSUME Flush
      PROVE  NoSilentLoss'
  <2>1. UNCHANGED <<pc, queue>> /\ batch' = {}
    BY <1>8 DEF Flush
  <2>2. CASE stored' = stored \cup batch /\ dropped' = dropped
    <3>1. Missing' = Missing
      BY <2>1, <2>2 DEF Missing
    <3>2. Cardinality(stored') = Cardinality(stored) + Cardinality(batch)
      BY <2>2, DisjointSum
    <3>. QED
      BY <1>0, <2>2, <3>1, <3>2, FiniteParts DEF NoSilentLoss
  <2>3. CASE (\E S \in SUBSET batch : stored' = stored \cup S) /\ dropped' = dropped + Cardinality(batch)
    <3>1. PICK S \in SUBSET batch : stored' = stored \cup S
      BY <2>3
    <3>2. Missing' = Missing \cup (batch \ S) /\ Missing \cap (batch \ S) = {}
      BY <2>1, <3>1 DEF Missing
    <3>3. Cardinality(Missing') = Cardinality(Missing) + Cardinality(batch \ S)
      BY <3>2, DisjointSum, MissingParts
    <3>4. Cardinality(stored') = Cardinality(stored) + Cardinality(S)
      BY <3>1, DisjointSum
    <3>5. Cardinality(batch) = Cardinality(S) + Cardinality(batch \ S)
      <4>1. batch = S \cup (batch \ S) /\ S \cap (batch \ S) = {}
        OBVIOUS
      <4>. QED
        BY <4>1, DisjointSum
    <3>6. Cardinality(S) \in Nat /\ Cardinality(batch \ S) \in Nat
      BY FiniteParts
    <3>. QED
      BY <1>0, <2>3, <3>3, <3>4, <3>5, <3>6 DEF NoSilentLoss
  <2>. QED
    BY <1>8, <2>2, <2>3 DEF Flush
<1>. QED
  BY <1>3, <1>4, <1>5, <1>6, <1>7, <1>8 DEF Next

\* Dropped() counts every record that is missing, and none that never came.
THEOREM LossIsCounted == Spec => []NoSilentLoss
<1>1. Init => NoSilentLoss
  <2>1. Init => Missing = {} /\ stored = {} /\ dropped = 0
    BY DEF Init, Missing
  <2>. QED
    BY <2>1, FS_EmptySet DEF NoSilentLoss
<1>. QED
  BY <1>1, WriterInvariant, NextNoSilentLoss, PTL DEF Spec

-----------------------------------------------------------------------------
(* The refinement.                                                          *)

\* The fate of a record as the ledger sees it.
Fate(r) == IF r \in Held THEN "held"
           ELSE IF r \in stored THEN "stored"
           ELSE IF pc[r] = "returned" THEN "missing" ELSE "none"
Phase == IF closer = "returned" THEN "closed" ELSE IF closed THEN "closing" ELSE "open"

LEMMA InitImplements == Init => Ledger!Init
  BY DEF Init, Ledger!Init, Held

\* Nothing the ledger sees has changed.
LEMMA Invisible ==
  ASSUME Phase' = Phase, dropped' = dropped, \A r \in Records : Fate(r)' = Fate(r)
  PROVE  UNCHANGED Ledger!vars
  BY DEF Ledger!vars, Fate, Phase

\* Both modules mean the same cardinality.
LEMMA SameCardinality == \A B : Ledger!Cardinality(B) = Cardinality(B)
  BY DEF Ledger!Cardinality, Cardinality

LEMMA NextImplements == WriterInv /\ [Next]_vars => [Ledger!Next]_(Ledger!vars)
<1>. SUFFICES ASSUME WriterInv, [Next]_vars PROVE Ledger!Next \/ UNCHANGED Ledger!vars
  OBVIOUS
<1>. USE DEF WriterInv, TypeOK, Places, Held
<1>1. ASSUME NEW r \in Records, Fate(r) = "none", Fate(r)' = "missing", dropped' = dropped + 1,
             Phase' = Phase, \A s \in Records \ {r} : Fate(s)' = Fate(s)
      PROVE  Ledger!Next
  <2>1. Ledger!Refuse(r)
    BY <1>1 DEF Ledger!Refuse, Fate, Phase
  <2>. QED
    BY <2>1 DEF Ledger!Next
<1>2. ASSUME NEW r \in Records, WriteLock(r)
      PROVE  UNCHANGED Ledger!vars
  BY <1>2, Invisible DEF WriteLock, Fate, Phase
<1>3. ASSUME NEW r \in Records, WriteCheck(r)
      PROVE  Ledger!Next \/ UNCHANGED Ledger!vars
  <2>1. CASE closed
    <3>1. Fate(r) = "none" /\ Fate(r)' = "missing" /\ Phase' = Phase /\ dropped' = dropped + 1
      BY <1>3, <2>1 DEF WriteCheck, Fate, Phase
    <3>2. \A s \in Records \ {r} : Fate(s)' = Fate(s)
      BY <1>3 DEF WriteCheck, Fate
    <3>. QED
      BY <1>1, <3>1, <3>2
  <2>2. CASE ~closed
    BY <1>3, <2>2, Invisible DEF WriteCheck, Fate, Phase
  <2>. QED
    BY <2>1, <2>2
<1>4. ASSUME NEW r \in Records, WriteSend(r)
      PROVE  Ledger!Next \/ UNCHANGED Ledger!vars
  <2>0. Fate(r) = "none" /\ ~closed /\ Phase' = Phase
    BY <1>4 DEF WriteSend, Fate, Phase, NoSendOnClosedChannel
  <2>1. CASE Cardinality(queue) < Capacity
    <3>1. Fate(r)' = "held" /\ dropped' = dropped
      BY <1>4, <2>1 DEF WriteSend, Fate
    <3>2. \A s \in Records \ {r} : Fate(s)' = Fate(s)
      BY <1>4, <2>1 DEF WriteSend, Fate
    <3>3. Phase = "open"
      BY <2>0 DEF Phase, Ending
    <3>4. Ledger!Accept(r)
      BY <2>0, <3>1, <3>2, <3>3 DEF Ledger!Accept, Fate, Phase
    <3>. QED
      BY <3>4 DEF Ledger!Next
  <2>2. CASE ~(Cardinality(queue) < Capacity)
    <3>1. Fate(r)' = "missing" /\ dropped' = dropped + 1
      BY <1>4, <2>2 DEF WriteSend, Fate
    <3>2. \A s \in Records \ {r} : Fate(s)' = Fate(s)
      BY <1>4, <2>2 DEF WriteSend, Fate
    <3>. QED
      BY <1>1, <2>0, <3>1, <3>2
  <2>. QED
    BY <2>1, <2>2
<1>5. ASSUME NEW r \in Records, Receive(r)
      PROVE  UNCHANGED Ledger!vars
  BY <1>5, Invisible DEF Receive, Fate, Phase
<1>6. ASSUME CloseStart \/ Tick \/ SeeClosed \/ UNCHANGED vars
      PROVE  UNCHANGED Ledger!vars
  BY <1>6, Invisible DEF CloseStart, Tick, SeeClosed, vars, Fate, Phase, Ending
<1>7. ASSUME CloseLock
      PROVE  Ledger!Next
  <2>1. Ledger!StartClosing
    BY <1>7 DEF CloseLock, Ledger!StartClosing, Ending
  <2>. QED
    BY <2>1 DEF Ledger!Next
<1>8. ASSUME CloseReturn
      PROVE  Ledger!Next
  <2>1. Ledger!Closed
    BY <1>8 DEF CloseReturn, Ledger!Closed, Ledger!Held, Ending
  <2>. QED
    BY <2>1 DEF Ledger!Next
<1>9. ASSUME Flush
      PROVE  Ledger!Next
  <2>0. UNCHANGED <<pc, queue, closed, closer>> /\ batch' = {}
    BY <1>9 DEF Flush
  <2>1. PICK S \in SUBSET batch :
          /\ stored' = stored \cup S
          /\ dropped' = dropped + Cardinality(batch) \/ (S = batch /\ dropped' = dropped)
    BY <1>9 DEF Flush
  <2>2. batch \subseteq Ledger!Held
    BY DEF Ledger!Held
  <2>3. \A r \in Records : Fate(r)' = IF r \in S THEN "stored" ELSE IF r \in batch THEN "missing" ELSE Fate(r)
    BY <2>0, <2>1 DEF Fate
  <2>4. [r \in Records |-> Fate(r)]'
          = [r \in Records |-> IF r \in S THEN "stored"
                               ELSE IF r \in batch THEN "missing" ELSE [q \in Records |-> Fate(q)][r]]
    BY <2>3
  <2>5. UNCHANGED Phase
    BY <2>0 DEF Phase
  <2>6. Ledger!Settle(batch, S)
    BY <2>1, <2>2, <2>4, <2>5, SameCardinality DEF Ledger!Settle, Fate, Phase
  <2>. QED
    BY <2>6 DEF Ledger!Next
<1>. QED
  BY <1>2, <1>3, <1>4, <1>5, <1>6, <1>7, <1>8, <1>9 DEF Next

\* The writer, with its queue, its batches and its locks, is the ledger.
THEOREM Refinement == Spec => ImplementsLedger
<1>1. Spec => Ledger!Init /\ [][Ledger!Next]_(Ledger!vars)
  BY InitImplements, NextImplements, WriterInvariant, PTL DEF Spec
<1>. QED
  BY <1>1 DEF ImplementsLedger, Ledger!Spec

-----------------------------------------------------------------------------
(* Winding down.                                                            *)

\* What there is left to do, at the most: each step of a Write, of Close or of run takes
\* something off it.
Standing(s) == {r \in Records : pc[r] = s}
RunnerLeft == CASE runner = "select" -> 2 [] runner \in {"flush", "last"} -> 1 [] OTHER -> 0
CloserLeft == CASE closer = "open" -> 3 [] closer = "waiting" -> 2 [] closer = "draining" -> 1 [] OTHER -> 0
Weighed(idle, inside, sending, queued, batched, running, closing) ==
  6 * idle + 5 * inside + 4 * sending + 3 * queued + 2 * batched + running + closing
Left ==
  Weighed(Cardinality(Standing("idle")), Cardinality(Standing("inside")), Cardinality(Standing("sending")),
          Cardinality(queue), Cardinality(batch), RunnerLeft, CloserLeft)

\* Somebody whom nobody makes wait: a Write inside the lock, Close when no reader is left or
\* run is over, run with something to receive, to tick for or to flush, or with the channel
\* closed.
CanGoOn ==
  \/ Readers # {}
  \/ closer = "waiting" /\ Readers = {}
  \/ closer = "draining" /\ runner = "exited"
  \/ runner = "select" /\ (Held # {} \/ closed)
  \/ runner \in {"flush", "last"}

\* Who flushes has something to flush, unless it is for the last time.
Loaded == runner = "flush" => batch # {}

LEMMA NextLoaded == WriterInv /\ Loaded /\ [Next]_vars => Loaded'
  BY DEF Loaded, Next, WriteLock, WriteCheck, WriteSend, CloseStart, CloseLock, CloseReturn, Receive, Tick, SeeClosed, Flush, vars

LEMMA LeftIsNat == WriterInv => Left \in Nat /\ RunnerLeft \in 0..2 /\ CloserLeft \in 0..3
<1>. SUFFICES ASSUME WriterInv PROVE Left \in Nat /\ RunnerLeft \in 0..2 /\ CloserLeft \in 0..3
  OBVIOUS
<1>1. RunnerLeft \in 0..2 /\ CloserLeft \in 0..3
  BY DEF WriterInv, TypeOK, RunnerLeft, CloserLeft
<1>2. Cardinality(Standing("idle")) \in Nat /\ Cardinality(Standing("inside")) \in Nat /\ Cardinality(Standing("sending")) \in Nat
  BY FiniteParts DEF Standing
<1>3. Cardinality(queue) \in Nat /\ Cardinality(batch) \in Nat
  BY FiniteParts DEF WriterInv, TypeOK
<1>. QED
  BY <1>1, <1>2, <1>3 DEF Left, Weighed

\* A Write goes from one place to the next.
LEMMA WriteMoves ==
  ASSUME TypeOK, NEW r \in Records, NEW s, NEW t, s # t, pc[r] = s, pc' = [pc EXCEPT ![r] = t]
  PROVE  /\ Cardinality(Standing(s)') = Cardinality(Standing(s)) - 1
         /\ Cardinality(Standing(t)') = Cardinality(Standing(t)) + 1
<1>1. Standing(s)' = Standing(s) \ {r} /\ r \in Standing(s)
  BY DEF TypeOK, Standing
<1>2. Standing(t)' = Standing(t) \cup {r} /\ r \notin Standing(t)
  BY DEF TypeOK, Standing
<1>3. Standing(s) \in SUBSET Records /\ Standing(t) \in SUBSET Records
  BY DEF Standing
<1>. QED
  BY <1>1, <1>2, <1>3, OneLess, OneMore

\* What the steps add up to.
LEMMA Adds ==
  ASSUME NEW a \in Nat, NEW b \in Nat, NEW c \in Nat, NEW q \in Nat, NEW n \in Nat, NEW m \in 0..2, NEW l \in 0..3,
         NEW a1 \in Nat, NEW b1 \in Nat, NEW c1 \in Nat, NEW q1 \in Nat, NEW n1 \in Nat, NEW m1 \in 0..2, NEW l1 \in 0..3
  PROVE  LET less == Weighed(a1, b1, c1, q1, n1, m1, l1) < Weighed(a, b, c, q, n, m, l) IN
         /\ a1 = a - 1 /\ b1 = b + 1 /\ c1 = c /\ q1 = q /\ n1 = n /\ m1 = m /\ l1 = l => less
         /\ a1 = a /\ b1 = b - 1 /\ (c1 = c \/ c1 = c + 1) /\ q1 = q /\ n1 = n /\ m1 = m /\ l1 = l => less
         /\ a1 = a /\ b1 = b /\ c1 = c - 1 /\ (q1 = q \/ q1 = q + 1) /\ n1 = n /\ m1 = m /\ l1 = l => less
         /\ a1 = a /\ b1 = b /\ c1 = c /\ q1 = q - 1 /\ n1 = n + 1 /\ m1 <= m /\ l1 = l => less
         /\ a1 = a /\ b1 = b /\ c1 = c /\ q1 = q /\ n1 = n /\ m1 = m - 1 /\ l1 = l => less
         /\ a1 = a /\ b1 = b /\ c1 = c /\ q1 = q /\ n1 = n /\ m1 = m /\ l1 = l - 1 => less
         /\ a1 = a /\ b1 = b /\ c1 = c /\ q1 = q /\ n1 = 0 /\ m1 = m - 1 /\ l1 = l => less
         /\ a1 = a /\ b1 = b /\ c1 = c /\ q1 = q /\ n # 0 /\ n1 = 0 /\ m1 = m + 1 /\ l1 = l => less
  BY DEF Weighed

LEMMA NextLeft == WriterInv /\ Loaded /\ [Next]_vars => [Left' < Left]_vars
<1>. SUFFICES ASSUME WriterInv, Loaded, Next PROVE Left' < Left
  OBVIOUS
<1>. DEFINE idle == Cardinality(Standing("idle"))
            inside == Cardinality(Standing("inside"))
            sending == Cardinality(Standing("sending"))
            queued == Cardinality(queue)
            batched == Cardinality(batch)
            Same == idle' = idle /\ inside' = inside /\ sending' = sending
<1>0. TypeOK /\ queue \cap batch = {} /\ TypeOK'
  BY NextWriterInv DEF WriterInv, Places
<1>a. idle \in Nat /\ inside \in Nat /\ sending \in Nat /\ queued \in Nat /\ batched \in Nat
      /\ RunnerLeft \in 0..2 /\ CloserLeft \in 0..3
  BY <1>0, FiniteParts, LeftIsNat DEF TypeOK, Standing
<1>b. idle' \in Nat /\ inside' \in Nat /\ sending' \in Nat /\ queued' \in Nat /\ batched' \in Nat
      /\ RunnerLeft' \in 0..2 /\ CloserLeft' \in 0..3
  BY <1>0, FiniteParts DEF TypeOK, Standing, RunnerLeft, CloserLeft
<1>c. /\ Left = Weighed(idle, inside, sending, queued, batched, RunnerLeft, CloserLeft)
      /\ Left' = Weighed(idle', inside', sending', queued', batched', RunnerLeft', CloserLeft')
  BY DEF Left
<1>1. ASSUME NEW r \in Records, WriteLock(r)
      PROVE  idle' = idle - 1 /\ inside' = inside + 1 /\ sending' = sending
  <2>1. pc[r] = "idle" /\ pc' = [pc EXCEPT ![r] = "inside"]
    BY <1>1 DEF WriteLock
  <2>2. idle' = idle - 1
    BY <1>0, <2>1, WriteMoves
  <2>3. inside' = inside + 1
    BY <1>0, <2>1, WriteMoves
  <2>4. sending' = sending
    <3>1. Standing("sending")' = Standing("sending")
      BY <1>0, <2>1 DEF TypeOK, Standing
    <3>. QED
      BY <3>1
  <2>. QED
    BY <2>2, <2>3, <2>4
<1>2. ASSUME NEW r \in Records, WriteCheck(r)
      PROVE  idle' = idle /\ inside' = inside - 1 /\ (sending' = sending \/ sending' = sending + 1)
  <2>1. pc[r] = "inside" /\ \E t \in {"returned", "sending"} : pc' = [pc EXCEPT ![r] = t]
    BY <1>2 DEF WriteCheck
  <2>2. PICK t \in {"returned", "sending"} : pc' = [pc EXCEPT ![r] = t]
    BY <2>1
  <2>3. inside' = inside - 1
    BY <1>0, <2>1, <2>2, WriteMoves
  <2>4. idle' = idle
    <3>1. Standing("idle")' = Standing("idle")
      BY <1>0, <2>1, <2>2 DEF TypeOK, Standing
    <3>. QED
      BY <3>1
  <2>5. sending' = sending \/ sending' = sending + 1
    <3>1. CASE t = "sending"
      BY <1>0, <2>1, <2>2, <3>1, WriteMoves
    <3>2. CASE t = "returned"
      <4>1. Standing("sending")' = Standing("sending")
        BY <1>0, <2>1, <2>2, <3>2 DEF TypeOK, Standing
      <4>. QED
        BY <4>1
    <3>. QED
      BY <3>1, <3>2
  <2>. QED
    BY <2>3, <2>4, <2>5
<1>3. ASSUME NEW r \in Records, WriteSend(r)
      PROVE  idle' = idle /\ inside' = inside /\ sending' = sending - 1
  <2>1. pc[r] = "sending" /\ pc' = [pc EXCEPT ![r] = "returned"]
    BY <1>3 DEF WriteSend
  <2>2. sending' = sending - 1
    BY <1>0, <2>1, WriteMoves
  <2>3. idle' = idle
    <3>1. Standing("idle")' = Standing("idle")
      BY <1>0, <2>1 DEF TypeOK, Standing
    <3>. QED
      BY <3>1
  <2>4. inside' = inside
    <3>1. Standing("inside")' = Standing("inside")
      BY <1>0, <2>1 DEF TypeOK, Standing
    <3>. QED
      BY <3>1
  <2>. QED
    BY <2>2, <2>3, <2>4
<1>4. ASSUME NEW r \in Records, WriteLock(r) \/ WriteCheck(r)
      PROVE  Left' < Left
  <2>1. queued' = queued /\ batched' = batched /\ RunnerLeft' = RunnerLeft /\ CloserLeft' = CloserLeft
    BY <1>4 DEF WriteLock, WriteCheck, RunnerLeft, CloserLeft
  <2>. HIDE DEF idle, inside, sending, queued, batched
  <2>. QED
    BY <1>1, <1>2, <1>4, <1>a, <1>b, <1>c, <2>1, Adds
<1>5. ASSUME NEW r \in Records, WriteSend(r)
      PROVE  Left' < Left
  <2>1. batched' = batched /\ RunnerLeft' = RunnerLeft /\ CloserLeft' = CloserLeft
    BY <1>5 DEF WriteSend, RunnerLeft, CloserLeft
  <2>2. queued' = queued \/ queued' = queued + 1
    <3>1. queue' = queue \/ queue' = queue \cup {r}
      BY <1>5 DEF WriteSend
    <3>. QED
      BY <1>0, <3>1, OneMore DEF TypeOK
  <2>. HIDE DEF idle, inside, sending, queued, batched
  <2>. QED
    BY <1>3, <1>5, <1>a, <1>b, <1>c, <2>1, <2>2, Adds
<1>6. ASSUME NEW r \in Records, Receive(r)
      PROVE  Left' < Left
  <2>1. queued' = queued - 1
    BY <1>0, <1>6, OneLess DEF Receive, TypeOK
  <2>2. batched' = batched + 1
    BY <1>0, <1>6, OneMore DEF Receive, TypeOK
  <2>3. Same /\ RunnerLeft' <= RunnerLeft /\ CloserLeft' = CloserLeft
    BY <1>6 DEF Receive, Standing, RunnerLeft, CloserLeft
  <2>. HIDE DEF idle, inside, sending, queued, batched
  <2>. QED
    BY <1>a, <1>b, <1>c, <2>1, <2>2, <2>3, Adds
<1>7. ASSUME CloseStart \/ CloseLock \/ CloseReturn
      PROVE  Left' < Left
  <2>1. Same /\ queued' = queued /\ batched' = batched /\ RunnerLeft' = RunnerLeft
    BY <1>7 DEF CloseStart, CloseLock, CloseReturn, Standing, RunnerLeft
  <2>2. CloserLeft' = CloserLeft - 1
    BY <1>7 DEF CloseStart, CloseLock, CloseReturn, CloserLeft
  <2>. HIDE DEF idle, inside, sending, queued, batched
  <2>. QED
    BY <1>a, <1>b, <1>c, <2>1, <2>2, Adds
<1>8. ASSUME Tick \/ SeeClosed
      PROVE  Left' < Left
  <2>1. Same /\ queued' = queued /\ batched' = batched /\ CloserLeft' = CloserLeft
    BY <1>8 DEF Tick, SeeClosed, Standing, CloserLeft
  <2>2. RunnerLeft' = RunnerLeft - 1
    BY <1>8 DEF Tick, SeeClosed, RunnerLeft
  <2>. HIDE DEF idle, inside, sending, queued, batched
  <2>. QED
    BY <1>a, <1>b, <1>c, <2>1, <2>2, Adds
<1>9. ASSUME Flush
      PROVE  Left' < Left
  <2>1. Same /\ queued' = queued /\ CloserLeft' = CloserLeft
    BY <1>9 DEF Flush, Standing, CloserLeft
  <2>2. batched' = 0
    BY <1>9, FS_EmptySet DEF Flush
  <2>3. runner = "flush" => batched # 0
    <3>1. IsFiniteSet(batch)
      BY <1>0, FiniteParts DEF TypeOK
    <3>. QED
      BY <3>1, FS_EmptySet DEF Loaded
  <2>4. \/ runner = "last" /\ RunnerLeft' = RunnerLeft - 1
        \/ runner = "flush" /\ RunnerLeft' = RunnerLeft + 1
    BY <1>9 DEF Flush, RunnerLeft
  <2>. HIDE DEF idle, inside, sending, queued, batched
  <2>. QED
    BY <1>a, <1>b, <1>c, <2>1, <2>2, <2>3, <2>4, Adds
<1>. QED
  BY <1>4, <1>5, <1>6, <1>7, <1>8, <1>9 DEF Next

\* As long as a shutdown is under way or a record is held there is somebody whom nobody
\* makes wait, and nobody can go on for ever: each step takes something off what is left to
\* do. So no lock, full channel or failing insert keeps Close or a record from coming to its
\* end, in whatever order the goroutines run (Write, run, Close).
WindsDown ==
  /\ [](Left \in Nat /\ (closer \in {"waiting", "draining"} \/ Held # {} => CanGoOn))
  /\ [][Left' < Left]_vars

THEOREM WriterWindsDown == Spec => WindsDown
<1>1. WriterInv /\ (closer \in {"waiting", "draining"} \/ Held # {}) => CanGoOn
  BY DEF WriterInv, TypeOK, Ending, CanGoOn, Held
<1>2. Init => Loaded
  BY DEF Init, Loaded
<1>. QED
  BY <1>1, <1>2, InitWriterInv, NextWriterInv, NextLoaded, NextLeft, LeftIsNat, PTL DEF Spec, WindsDown
=============================================================================
