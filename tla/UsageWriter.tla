---------------------------- MODULE UsageWriter ----------------------------
(***************************************************************************)
(* usage.BatchWriter (internal/usage/batch.go): every request the Edge     *)
(* proxies ends in one Write; one goroutine collects the records and       *)
(* inserts them into ClickHouse in batches; RunEdge closes the writer when *)
(* the server shuts down, with handlers possibly still running.            *)
(*                                                                         *)
(* The steps are those between which another goroutine may run: taking the *)
(* read lock, the check of closed, the send. A Go RWMutex lets no new      *)
(* reader in once a writer waits. Abstracted: the order of the records in  *)
(* the channel, and the record's content. Close is called once.            *)
(***************************************************************************)
EXTENDS Naturals, FiniteSets

CONSTANTS
  Records,    \* the records, one Write call each
  Capacity,   \* queueCapacity
  BatchSize   \* batchSize

ASSUME RecordsAssumption == IsFiniteSet(Records)
ASSUME SizesAssumption == Capacity \in Nat \ {0} /\ BatchSize \in Nat \ {0}

VARIABLES
  pc,       \* where the Write of a record stands
  queue,    \* the records in the channel
  batch,    \* the records in run's slice
  stored,   \* the rows in ClickHouse
  dropped,  \* the counter behind Dropped()
  closed,   \* BatchWriter.closed; the channel is closed with it
  closer,   \* where Close stands
  runner    \* where run stands; "last" is the flush before it returns

vars == <<pc, queue, batch, stored, dropped, closed, closer, runner>>

Readers == {r \in Records : pc[r] \in {"inside", "sending"}}

TypeOK ==
  /\ pc \in [Records -> {"idle", "inside", "sending", "returned"}]
  /\ queue \subseteq Records /\ Cardinality(queue) <= Capacity
  /\ batch \subseteq Records /\ Cardinality(batch) <= BatchSize
  /\ stored \subseteq Records
  /\ dropped \in Nat
  /\ closed \in BOOLEAN
  /\ closer \in {"open", "waiting", "draining", "returned"}
  /\ runner \in {"select", "flush", "last", "exited"}

Init ==
  /\ pc = [r \in Records |-> "idle"]
  /\ queue = {} /\ batch = {} /\ stored = {}
  /\ dropped = 0
  /\ closed = FALSE
  /\ closer = "open"
  /\ runner = "select"

-----------------------------------------------------------------------------
(* Write                                                                    *)

WriteLock(r) ==
  /\ pc[r] = "idle" /\ closer # "waiting"
  /\ pc' = [pc EXCEPT ![r] = "inside"]
  /\ UNCHANGED <<queue, batch, stored, dropped, closed, closer, runner>>

\* Mutant: a record refused after Close is not counted.
WriteCheckUncounted(r) ==
  /\ pc[r] = "inside"
  /\ pc' = [pc EXCEPT ![r] = IF closed THEN "returned" ELSE "sending"]
  /\ UNCHANGED <<queue, batch, stored, dropped, closed, closer, runner>>

WriteCheck(r) ==
  /\ pc[r] = "inside"
  /\ IF closed THEN /\ pc' = [pc EXCEPT ![r] = "returned"]
                    /\ dropped' = dropped + 1
               ELSE /\ pc' = [pc EXCEPT ![r] = "sending"]
                    /\ UNCHANGED dropped
  /\ UNCHANGED <<queue, batch, stored, closed, closer, runner>>

\* Mutant: a channel without a limit.
WriteSendUnbounded(r) ==
  /\ pc[r] = "sending"
  /\ pc' = [pc EXCEPT ![r] = "returned"]
  /\ queue' = queue \cup {r}
  /\ UNCHANGED <<batch, stored, dropped, closed, closer, runner>>

\* The select with a default: a full channel drops the record.
WriteSend(r) ==
  /\ pc[r] = "sending"
  /\ pc' = [pc EXCEPT ![r] = "returned"]
  /\ IF Cardinality(queue) < Capacity
       THEN queue' = queue \cup {r} /\ UNCHANGED dropped
       ELSE dropped' = dropped + 1 /\ UNCHANGED queue
  /\ UNCHANGED <<batch, stored, closed, closer, runner>>

-----------------------------------------------------------------------------
(* Close                                                                    *)

CloseStart ==
  /\ closer = "open"
  /\ closer' = "waiting"
  /\ UNCHANGED <<pc, queue, batch, stored, dropped, closed, runner>>

\* Mutant: Close marks and closes the channel without the write lock.
CloseLockUnguarded ==
  /\ closer = "waiting"
  /\ closed' = TRUE
  /\ closer' = "draining"
  /\ UNCHANGED <<pc, queue, batch, stored, dropped, runner>>

\* The write lock is granted when no reader is left.
CloseLock ==
  /\ closer = "waiting" /\ Readers = {}
  /\ closed' = TRUE
  /\ closer' = "draining"
  /\ UNCHANGED <<pc, queue, batch, stored, dropped, runner>>

\* Mutant: Close does not wait for done.
CloseReturnEarly ==
  /\ closer = "draining"
  /\ closer' = "returned"
  /\ UNCHANGED <<pc, queue, batch, stored, dropped, closed, runner>>

\* <-w.done
CloseReturn ==
  /\ closer = "draining" /\ runner = "exited"
  /\ closer' = "returned"
  /\ UNCHANGED <<pc, queue, batch, stored, dropped, closed, runner>>

-----------------------------------------------------------------------------
(* run                                                                      *)

Receive(r) ==
  /\ runner = "select" /\ r \in queue
  /\ queue' = queue \ {r}
  /\ batch' = batch \cup {r}
  /\ runner' = IF Cardinality(batch) + 1 >= BatchSize THEN "flush" ELSE "select"
  /\ UNCHANGED <<pc, stored, dropped, closed, closer>>

\* Mutant: the ticker fires and nothing is flushed.
TickIgnored ==
  /\ runner = "select" /\ batch # {}
  /\ UNCHANGED vars

\* The ticker; with an empty batch it does nothing.
Tick ==
  /\ runner = "select" /\ batch # {}
  /\ runner' = "flush"
  /\ UNCHANGED <<pc, queue, batch, stored, dropped, closed, closer>>

\* A receive from the closed and empty channel.
SeeClosed ==
  /\ runner = "select" /\ closed /\ queue = {}
  /\ runner' = "last"
  /\ UNCHANGED <<pc, queue, batch, stored, dropped, closed, closer>>

\* Mutant: a failed insert counts as one dropped record, whatever its size.
FlushCountsOne ==
  /\ runner \in {"flush", "last"}
  /\ \/ stored' = stored \cup batch /\ UNCHANGED dropped
     \/ /\ \E S \in SUBSET batch : stored' = stored \cup S
        /\ dropped' = dropped + 1
  /\ batch' = {}
  /\ runner' = IF runner = "last" THEN "exited" ELSE "select"
  /\ UNCHANGED <<pc, queue, closed, closer>>

\* Mutant: a flush on the closed channel goes on with the loop.
FlushGoesOn ==
  /\ runner \in {"flush", "last"}
  /\ \/ stored' = stored \cup batch /\ UNCHANGED dropped
     \/ /\ \E S \in SUBSET batch : stored' = stored \cup S
        /\ dropped' = dropped + Cardinality(batch)
  /\ batch' = {}
  /\ runner' = "select"
  /\ UNCHANGED <<pc, queue, closed, closer>>

\* InsertBatch succeeds, or fails having stored any part of the batch: the answer may
\* be lost, and the table is partitioned, so an insert is not all or nothing.
Flush ==
  /\ runner \in {"flush", "last"}
  /\ \/ stored' = stored \cup batch /\ UNCHANGED dropped
     \/ /\ \E S \in SUBSET batch : stored' = stored \cup S
        /\ dropped' = dropped + Cardinality(batch)
  /\ batch' = {}
  /\ runner' = IF runner = "last" THEN "exited" ELSE "select"
  /\ UNCHANGED <<pc, queue, closed, closer>>

Next ==
  \/ \E r \in Records : WriteLock(r) \/ WriteCheck(r) \/ WriteSend(r) \/ Receive(r)
  \/ CloseStart \/ CloseLock \/ CloseReturn
  \/ Tick \/ SeeClosed \/ Flush

Spec == Init /\ [][Next]_vars

\* Goroutines that can run do run, and the ticker ticks. Nobody is forced to call Write
\* or Close; InsertBatch returns within flushTimeout, with whatever outcome.
Fairness ==
  /\ \A r \in Records : WF_vars(WriteCheck(r)) /\ WF_vars(WriteSend(r)) /\ WF_vars(Receive(r))
  /\ WF_vars(CloseLock) /\ WF_vars(CloseReturn)
  /\ WF_vars(Tick) /\ WF_vars(SeeClosed) /\ WF_vars(Flush)

FairSpec == Spec /\ Fairness

-----------------------------------------------------------------------------
(* What the code promises.                                                  *)

Held == queue \cup batch
Missing == {r \in Records : pc[r] = "returned"} \ (Held \cup stored)

\* The comment on mu: the check of closed and the send are not interleaved with Close,
\* so no Write ever panics in a send on a closed channel.
NoSendOnClosedChannel == \A r \in Records : pc[r] = "sending" => ~closed

\* Dropped() can be trusted: whatever the queue, the sink and the shutdown did to them,
\* at least every missing record is counted, and nothing is counted that never came.
NoSilentLoss ==
  /\ Cardinality(Missing) <= dropped
  /\ dropped <= Cardinality(Missing) + Cardinality(stored)

\* "Close flushes what is left in the queue and returns": after it nothing is held, and
\* nothing is taken in any more.
CloseDrains == closer = "returned" => Held = {}

\* The ledger, seen through the writer: a record is held while it is in the channel or
\* in the slice, and missing when its Write has returned and it is nowhere.
Ledger == INSTANCE UsageLedger WITH
  fate <- [r \in Records |-> IF r \in Held THEN "held"
                             ELSE IF r \in stored THEN "stored"
                             ELSE IF pc[r] = "returned" THEN "missing" ELSE "none"],
  phase <- IF closer = "returned" THEN "closed" ELSE IF closed THEN "closing" ELSE "open"

\* The writer implements the ledger: every step of a writer, of Close or of run is a
\* step of the ledger or invisible to it, the counter included.
ImplementsLedger == Ledger!Spec

\* What was taken in does not wait for more records to fill its batch, and a shutdown
\* does not strand it.
HeldIsSettled == \A r \in Records : r \in Held ~> r \notin Held

\* A shutdown comes to its end: readers leave, the goroutine drains and exits.
CloseReturns == closer = "waiting" ~> closer = "returned"
=============================================================================
