---------------------------- MODULE MarketState -----------------------------
(***************************************************************************)
(* strategy/market_state.py: the state of a market at a time, from the     *)
(* recorded snapshots and trades up to it.  A snapshot or a trade is its   *)
(* exchange_ts, a sorted list of them an ascending sequence; what the      *)
(* features make of their contents is left out but for the mid price.      *)
(***************************************************************************)
EXTENDS Integers, SequencesExt

CONSTANTS MaxSnapshotAge,   \* max_snapshot_age
          ReturnLags,       \* 5 and 30 seconds: the returns a state holds
          PriceWindow,      \* 10 seconds: the prices of the volatility
          FlowWindow,       \* 5 seconds: the trades of the flow
          Mid               \* mid_price of the snapshots, by exchange_ts

NoState == [timestamp |-> -1]

(* bisect_right: how many of the ascending times are at most t.            *)
BisectRight(times, t) == Cardinality({i \in DOMAIN times : times[i] <= t})

(* valid_snapshot_before finds one.                                        *)
HasSnapshot(times, t) ==
    LET i == BisectRight(times, t) IN i > 0 /\ t - times[i] <= MaxSnapshotAge

LatestSnapshot(times, t) == times[BisectRight(times, t)]

(* snapshots_in_window, trades_in_window                                   *)
InWindow(times, end, length) ==
    SubSeq(times, BisectRight(times, end - length) + 1, BisectRight(times, end))

(* MarketStateBuilder.build                                                *)
BuildState(books, trades, t) ==
    IF \A lag \in ReturnLags \union {0} : HasSnapshot(books, t - lag)
    THEN [timestamp |-> t,
          mid     |-> Mid[LatestSnapshot(books, t)],
          returns |-> [lag \in ReturnLags |->
                         Mid[LatestSnapshot(books, t)] - Mid[LatestSnapshot(books, t - lag)]],
          prices  |-> InWindow(books, t, PriceWindow),
          flow    |-> InWindow(trades, t, FlowWindow)]
    ELSE NoState
=============================================================================
