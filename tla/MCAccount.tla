------------------------------ MODULE MCAccount ------------------------------
EXTENDS Account, TLC

TwoPrices == {Whole(2), Whole(5)}
Sizes == {Whole(1), Whole(3)}
CoinSymmetry == Permutations(Coins)
OneFee == {Whole(1)}
Ten == Whole(10)
=============================================================================
