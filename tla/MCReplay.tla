------------------------------ MODULE MCReplay -------------------------------
EXTENDS Replay

L(p, q) == [price |-> Whole(p), quantity |-> Whole(q)]

Low  == [bids |-> <<L(2, 1), L(1, 1)>>, asks |-> <<L(3, 1)>>]
High == [bids |-> <<L(3, 2)>>, asks |-> <<L(4, 1), L(5, 2)>>]

TwoBooks == {Low, High}

Prices == {Whole(2), Whole(3)}
Sizes == {Whole(1), Whole(2)}

(* A position is worth at most four; a scale-in is as large as the entry.  *)
OneScaleIn == [baseOrderNotional |-> Whole(2), maxPositionNotional |-> Whole(4),
               maxScaleIns |-> 1, scaleOrderMultiplier |-> Whole(1),
               maxSpreadBps |-> Whole(3500), maxHoldingSeconds |-> 3,
               stopLossPct |-> Whole(20), takeProfitPct |-> Whole(30),
               maxVisibleLiquidityFraction |-> Zero]

Capped == [OneScaleIn EXCEPT !.maxSpreadBps = Zero, !.maxHoldingSeconds = 0,
                             !.scaleOrderMultiplier = Whole(2),
                             !.maxVisibleLiquidityFraction = Ratio(1, 2)]

BothSpecs == {OneScaleIn, Capped}

AllOf(x) == [enter |-> x, scale_in |-> x, exit |-> x]

Fees == [taker |-> Whole(2), maker |-> Whole(-1)]

TakerOnly == [mode |-> AllOf("taker"), latency |-> AllOf(0), maxAge |-> 2,
              queueAheadFraction |-> Whole(1), maxReplacements |-> 0, feeBps |-> Fees]

LateTaker == [TakerOnly EXCEPT !.latency = AllOf(1)]

MakerOnly == [TakerOnly EXCEPT !.mode = AllOf("maker"), !.maxReplacements = 1,
                               !.queueAheadFraction = Ratio(1, 2)]

MakerEntries == [MakerOnly EXCEPT !.mode.exit = "taker",
                                  !.queueAheadFraction = Zero]

LateMaker == [MakerOnly EXCEPT !.latency = AllOf(1)]

(* Quotes that live one second and are not replaced.                       *)
Hasty == [MakerOnly EXCEPT !.maxAge = 1, !.maxReplacements = 0]

AllPolicies == {TakerOnly, LateTaker, MakerOnly, MakerEntries, LateMaker, Hasty}
=============================================================================
