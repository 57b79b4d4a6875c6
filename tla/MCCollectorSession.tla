-------------------------- MODULE MCCollectorSession --------------------------
(* A queue of two, batches of two and four or five records: a message can  *)
(* wait for room, a batch can be left over while the connection closes.    *)
EXTENDS CollectorSession
=============================================================================
