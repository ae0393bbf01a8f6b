---------------------------- MODULE UsageLedger ----------------------------
(***************************************************************************)
(* What the batch writer of usage records (internal/usage/batch.go)        *)
(* promises its callers, without its queue, batches and locks: a record is *)
(* taken in or refused at once; what was taken in is stored or given up    *)
(* later; whatever is refused or given up is counted; and the ledger is    *)
(* closed only when it holds nothing any more.                             *)
(*                                                                         *)
(* The counter may exceed what is missing: an insert that ClickHouse has   *)
(* carried out, wholly or in part, although the caller saw an error, is    *)
(* counted as well.                                                        *)
(***************************************************************************)
EXTENDS Naturals, FiniteSets

CONSTANT Records    \* the usage records ever written

VARIABLES
  fate,     \* what became of each record
  dropped,  \* the counter
  phase     \* "open", "closing" (takes in no more) or "closed"

vars == <<fate, dropped, phase>>

Held == {r \in Records : fate[r] = "held"}
Missing == {r \in Records : fate[r] = "missing"}
Stored == {r \in Records : fate[r] = "stored"}

TypeOK ==
  /\ fate \in [Records -> {"none", "held", "stored", "missing"}]
  /\ dropped \in Nat
  /\ phase \in {"open", "closing", "closed"}

Init ==
  /\ fate = [r \in Records |-> "none"]
  /\ dropped = 0
  /\ phase = "open"

Accept(r) ==
  /\ phase = "open" /\ fate[r] = "none"
  /\ fate' = [fate EXCEPT ![r] = "held"]
  /\ UNCHANGED <<dropped, phase>>

\* Never blocks the caller: there is a refusal in every phase.
Refuse(r) ==
  /\ fate[r] = "none"
  /\ fate' = [fate EXCEPT ![r] = "missing"]
  /\ dropped' = dropped + 1
  /\ UNCHANGED phase

\* A batch B is written; S is what has been stored of it.
Settle(B, S) ==
  /\ B \subseteq Held /\ S \subseteq B
  /\ fate' = [r \in Records |-> IF r \in S THEN "stored"
                                ELSE IF r \in B THEN "missing" ELSE fate[r]]
  /\ \/ dropped' = dropped + Cardinality(B)
     \/ S = B /\ dropped' = dropped
  /\ UNCHANGED phase

StartClosing == phase = "open" /\ phase' = "closing" /\ UNCHANGED <<fate, dropped>>

Closed == phase = "closing" /\ Held = {} /\ phase' = "closed" /\ UNCHANGED <<fate, dropped>>

Next ==
  \/ \E r \in Records : Accept(r) \/ Refuse(r)
  \/ \E B \in SUBSET Records : \E S \in SUBSET B : Settle(B, S)
  \/ StartClosing \/ Closed

Spec == Init /\ [][Next]_vars
=============================================================================
