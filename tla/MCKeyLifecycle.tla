--------------------------- MODULE MCKeyLifecycle ---------------------------
(* Instances of KeyLifecycle for TLC. *)
EXTENDS KeyLifecycle

\* Keys of one org node under the root, and the whole system.
MCSubtrees == {Keys} \cup {{k} : k \in Keys}
\* One batch of leavers owning everything.
MCLeavers == {Keys}
=============================================================================
