--------------------------- MODULE MCSubscriptions ----------------------------
EXTENDS Subscriptions

C(coin, score) == [coin |-> coin, score |-> score]

(* Scores are in tenths, and so is the weight of persistence in the cfg.   *)
(* The windows rank PURR, PONS, LIT and PONS, LIT, PURR: in the second,    *)
(* PURR had the best score once.                                           *)
TwoWindows ==
    {<< <<C("PURR", 9), C("PONS", 5), C("LIT", 1)>> >>,
     << <<C("PONS", 8), C("LIT", 7)>>, <<C("PURR", 8), C("PONS", 7)>>,
        <<C("PONS", 8), C("LIT", 7)>> >>}
=============================================================================
