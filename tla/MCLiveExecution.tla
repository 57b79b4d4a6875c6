-------------------------- MODULE MCLiveExecution ---------------------------
EXTENDS LiveExecution, TLC

CONSTANTS o1, o2, o3, f1, f2, f3, c1

Buy   == [coin |-> c1, side |-> 1,  opens |-> TRUE]
Sell  == [coin |-> c1, side |-> -1, opens |-> TRUE]
Close == [coin |-> c1, side |-> -1, opens |-> FALSE]

OnlySell == {Sell}
BuyAndClose == {Buy, Close}

Symmetry == Permutations(Orders) \cup Permutations(FillIds)
=============================================================================
