------------------------------- MODULE MCOutbox -------------------------------
(* Two workers and the events of two accounts, of which one changes.       *)
EXTENDS Outbox
CONSTANTS a1, a2
\* Two batches that project the two accounts in opposite orders.
CrossedBacklog == <<a1, a2, a2>>
=============================================================================
