--------------------------- MODULE MCWalletHistory ---------------------------
EXTENDS WalletHistory

SomeSizes == {1, -2}

(* Different sums of profits are made of different fills.                  *)
PowersOfTwo == [n \in 1..MaxLedger |-> 2 ^ n]

(* A download reads only ids and times of fills.  So histories that differ *)
(* in sizes are told apart until the first download begins, and are one    *)
(* state from then on.                                                     *)
Bare(f) == [id |-> f.id, time |-> f.time]

AllBare(s) == [i \in DOMAIN s |-> Bare(s[i])]

Downloaded ==
    IF phase = "idle" /\ batches = <<>>
      THEN walletVars
      ELSE <<AllBare(ledger), phase, request, AllBare(fills), known, cuts,
             [b \in DOMAIN batches |-> [batches[b] EXCEPT !.fills = AllBare(@)]]>>
=============================================================================
