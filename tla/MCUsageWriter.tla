--------------------------- MODULE MCUsageWriter ---------------------------
(* The batch writer with a channel of two and batches of two.               *)
EXTENDS UsageWriter
=============================================================================
