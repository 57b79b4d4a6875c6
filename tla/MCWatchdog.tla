----------------------------- MODULE MCWatchdog -----------------------------
(* Two markets, times in units of the timer's two minutes.                 *)
EXTENDS Watchdog, TLC

CONSTANTS m1, m2
=============================================================================
