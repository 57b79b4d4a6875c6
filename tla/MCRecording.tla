---------------------------- MODULE MCRecording -----------------------------
(* A recording of some ticks with every pattern of missing snapshots.      *)
EXTENDS Recording

MidAt == <<3, 4, 2, 5, 3, 1, 4, 2>>
=============================================================================
