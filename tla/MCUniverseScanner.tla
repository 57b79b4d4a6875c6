------------------------- MODULE MCUniverseScanner --------------------------
(* Two markets, days of four ticks, a clock that can be set back.           *)
EXTENDS UniverseScanner

CONSTANTS c1, c2

ClockSteps == {-1, 1, 2}
Alike == Permutations(Coins)
VolumeOf == [t \in 1 .. 20 |-> (t * t) % 7]
=============================================================================
