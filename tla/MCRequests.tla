----------------------------- MODULE MCRequests -----------------------------
(* Instances of Requests for TLC. *)
EXTENDS Requests

\* Two requests for keys, or two bumps of one key. Requests of different kinds have
\* no state in common, so there is nothing to see in mixing them.
MCBumps == {[r \in Requests |-> "quota_bump"]}
MCKinds == MCBumps \cup {[r \in Requests |-> "new_key"]}
=============================================================================
