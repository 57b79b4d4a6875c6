--------------------------- MODULE MarketActivity ---------------------------
(***************************************************************************)
(* selection/engine.py with its two stages: MarketActivityTracker          *)
(* (features/market_activity.py) compares every market's row with its row  *)
(* before, MarketActivityWindow (features/market_activity_window.py) keeps *)
(* what came of it and sums it up over the last minutes.                   *)
(*                                                                         *)
(* Of a row only its time and its traded volume of the day are kept; open  *)
(* interest and prices are treated in the same way.  The ranking by        *)
(* MarketSelector is left out.                                             *)
(***************************************************************************)
EXTENDS Integers, SequencesExt

CONSTANTS Coins,
          MaxGap,       \* max_gap_seconds
          Recent,       \* 300 seconds
          Baseline,     \* 2100 seconds
          History       \* history_seconds

ASSUME ActivityAssumption ==
    /\ MaxGap \in Nat \ {0}
    /\ Recent \in Nat /\ Baseline \in Nat
    /\ History \in Nat
    /\ Recent < Baseline /\ Baseline <= History

NoRow == [ts |-> -1]

(* The state of a MarketSelectionEngine, and what it returned last.        *)
NewEngine ==
    [previous |-> [c \in Coins |-> NoRow],   \* tracker._previous
     history  |-> [c \in Coins |-> <<>>],    \* window._history
     rolling  |-> {},                        \* markets of the last update
     raised   |-> FALSE]                     \* an update raised ValueError

Sum(f) == FoldFunction(+, 0, f)

(* market_activity: a row and the one before it.                           *)
Activity(previous, row) ==
    [ts |-> row.ts, elapsed |-> row.ts - previous.ts, change |-> row.volume - previous.volume]

Comparable(previous, row) ==
    previous # NoRow /\ 0 < row.ts - previous.ts /\ row.ts - previous.ts <= MaxGap

(* MarketActivityTracker.update remembers the newest row.                  *)
Newest(previous, row) == IF previous = NoRow \/ row.ts >= previous.ts THEN row ELSE previous

Positive(n) == IF n > 0 THEN n ELSE 0

(* _between as the places of the rows; _volume and the seconds they stand  *)
(* for.                                                                    *)
Between(rows, from, to) == {i \in DOMAIN rows : from < rows[i].ts /\ rows[i].ts <= to}
Volume(rows, places)  == Sum([i \in places |-> Positive(rows[i].change)])
Seconds(rows, places) == Sum([i \in places |-> rows[i].elapsed])

(* MarketActivityWindow._update raises for a time that does not increase.  *)
OutOfOrder(history, activity) == history # <<>> /\ activity.ts <= Last(history).ts

(* popleft as long as the first row is not after the cutoff.               *)
Since(rows, cutoff) == SubSeq(rows, Min({i \in DOMAIN rows : rows[i].ts > cutoff}), Len(rows))

(* Faulty variant: a gap is bridged.                                       *)
ExtendedAcrossGaps(history, activity) ==
    Since(Append(history, activity), activity.ts - History)

(* It forgets everything at a gap and what is older than History.          *)
Extended(history, activity) ==
    LET kept == IF history # <<>> /\ activity.ts - Last(history).ts > MaxGap
                THEN <<>> ELSE history
    IN Since(Append(kept, activity), activity.ts - History)

(* RollingMarketActivity                                                   *)
Rolling(c, history) ==
    LET ts == Last(history).ts
        baseline == Between(history, ts - Baseline, ts - Recent)
    IN [coin     |-> c,
        ts       |-> ts,
        recent   |-> Volume(history, Between(history, ts - Recent, ts)),
        baseline |-> Volume(history, baseline),
        warm     |-> Seconds(history, baseline) >= Baseline - Recent]

(* MarketSelectionEngine.update: rows is a partial function of the coins.  *)
Update(engine, rows) ==
    LET active == {c \in DOMAIN rows : Comparable(engine.previous[c], rows[c])}
        New(c) == Activity(engine.previous[c], rows[c])
        history == [c \in Coins |-> IF c \in active
                                    THEN Extended(engine.history[c], New(c))
                                    ELSE engine.history[c]]
    IN [previous |-> [c \in Coins |-> IF c \in DOMAIN rows
                                      THEN Newest(engine.previous[c], rows[c])
                                      ELSE engine.previous[c]],
        history  |-> history,
        rolling  |-> {Rolling(c, history[c]) : c \in active},
        raised   |-> engine.raised
                       \/ \E c \in active : OutOfOrder(engine.history[c], New(c))]
=============================================================================
