---------------------------- MODULE MCMakerQueue -----------------------------
EXTENDS MakerQueue

L(p, q) == [price |-> Whole(p), quantity |-> Whole(q)]

TwoBooks == {[bids |-> <<L(2, 1), L(1, 2)>>, asks |-> <<L(3, 1), L(4, 1)>>],
             [bids |-> <<L(2, 2)>>, asks |-> <<L(3, 2), L(4, 1), L(5, 1)>>]}
Sizes == {Whole(3)}
Fractions == {Zero, Ratio(1, 2)}
Prices == {Whole(2), Whole(3)}
Volumes == {Whole(1), Whole(3)}
=============================================================================
