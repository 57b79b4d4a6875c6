--------------------------- MODULE StableSelection ---------------------------
(***************************************************************************)
(* The pure part of the stable market selection: the snapshots of a window *)
(* are aggregated into one ranking, and the ranking with the previous      *)
(* collection gives the next one.  A coin stands for a (dex, coin) pair.   *)
(***************************************************************************)
EXTENDS Rationals, Sorting, Sequences, SequencesExt, FiniteSetsExt

CONSTANTS ScoreWeight, PersistenceWeight,
          EntryRank, RetentionRank, TradingRank,
          MinCollectionAge   \* min_collection_age_seconds, in epochs

ASSUME SelectionAssumption ==
    /\ EntryRank \in Nat \ {0} /\ TradingRank \in Nat \ {0}
    /\ RetentionRank \in Nat /\ RetentionRank >= EntryRank
    /\ MinCollectionAge \in Nat
    /\ ScoreWeight \in Nat /\ PersistenceWeight \in Nat
    /\ ScoreWeight + PersistenceWeight > 0

(* The median of a finite function's values.                               *)
Median(values) ==
    LET places == DOMAIN values
        order == InOrder(places, {p \in places \X places :
                                     \/ values[p[1]] < values[p[2]]
                                     \/ values[p[1]] = values[p[2]] /\ p[1] < p[2]})
        n == Len(order)
    IN IF n % 2 = 1 THEN Whole(values[order[(n + 1) \div 2]])
       ELSE Ratio(values[order[n \div 2]] + values[order[n \div 2 + 1]], 2)

(* A window is a sequence of snapshots, a snapshot the candidates in their *)
(* order, each with its score.                                             *)
RankedIn(snapshot) == {c.coin : c \in ToSet(snapshot)}

Candidates(window) == UNION {RankedIn(s) : s \in ToSet(window)}

(* The snapshots of the window that have the coin.                         *)
Appearances(window, coin) == {k \in DOMAIN window : coin \in RankedIn(window[k])}

RankIn(snapshot, coin) == CHOOSE i \in DOMAIN snapshot : snapshot[i].coin = coin

Scores(window, coin) ==
    [k \in Appearances(window, coin) |-> window[k][RankIn(window[k], coin)].score]

MedianRank(window, coin) ==
    Median([k \in Appearances(window, coin) |-> RankIn(window[k], coin)])

Persistence(window, coin) == Ratio(Cardinality(Appearances(window, coin)), Len(window))

AggregateScore(window, coin) ==
    Over(Plus(Times(Whole(ScoreWeight), Median(Scores(window, coin))),
              Times(Whole(PersistenceWeight), Persistence(window, coin))),
         Whole(ScoreWeight + PersistenceWeight))

(* rows: what the candidates of a window are ordered by.  For the names,   *)
(* any fixed order of the coins will do.                                   *)
Rows(window) ==
    LET names == SetToSeq(Candidates(window))
    IN {[coin |-> c, score |-> AggregateScore(window, c), rank |-> MedianRank(window, c),
         name |-> CHOOSE i \in DOMAIN names : names[i] = c] : c \in Candidates(window)}

(* The order of rows.sort: score down, median rank up, then the name.      *)
Ahead(a, b) ==
    \/ Below(b.score, a.score)
    \/ /\ a.score = b.score
       /\ Below(a.rank, b.rank) \/ (a.rank = b.rank /\ a.name < b.name)

AggregateMarketSelection(window) ==
    LET rows == Rows(window)
        sorted == InOrder(rows, {p \in rows \X rows : Ahead(p[1], p[2])})
    IN [n \in DOMAIN sorted |-> sorted[n].coin]

-----------------------------------------------------------------------------

(* Faulty variant: members outside the entry rank are not retained.        *)
SelectedWithoutRetention(ranking, previous) ==
    {c \in ToSet(ranking) :
        (CHOOSE i \in DOMAIN ranking : ranking[i] = c) <= EntryRank}

(* previous maps the coins of the last collection to collection_since.     *)
Selected(ranking, previous) ==
    {c \in ToSet(ranking) :
        LET rank == CHOOSE i \in DOMAIN ranking : ranking[i] = c
        IN \/ rank <= EntryRank
           \/ c \in DOMAIN previous /\ rank <= RetentionRank}

(* Faulty variant: a market is warm when it was in the last collection.    *)
PlanWarmIfPrevious(ranking, epoch, previous) ==
    [c \in Selected(ranking, previous) |->
        LET rank == CHOOSE i \in DOMAIN ranking : ranking[i] = c
        IN [rank |-> rank,
            since |-> IF c \in DOMAIN previous THEN previous[c] ELSE epoch,
            ready |-> rank <= TradingRank /\ c \in DOMAIN previous]]

BuildStableSelectionPlan(ranking, epoch, previous) ==
    [c \in Selected(ranking, previous) |->
        LET rank == CHOOSE i \in DOMAIN ranking : ranking[i] = c
            since == IF c \in DOMAIN previous THEN previous[c] ELSE epoch
        IN [rank |-> rank,
            since |-> since,
            ready |-> rank <= TradingRank /\ epoch >= since + MinCollectionAge]]

(* trading_candidates of a plan and collection_since_map                   *)
TradingCandidates(plan) == {c \in DOMAIN plan : plan[c].ready}

CollectionSinceMap(plan) == [c \in DOMAIN plan |-> plan[c].since]
=============================================================================
